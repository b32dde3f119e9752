\* Kregs may run out.
SPECIFICATION Spec
CONSTANTS
  Insns <- ExhaustedInsns
  NoInsn = NoInsn
  Plan <- MCPlan
  Slots = {k1, k2}
  NoSlot = NoSlot
  Headroom = 0
SYMMETRY SlotSymmetry
INVARIANTS
  AllOrNothing
  Disciplined
  Scoped
  OnlyFallbacksMisread
  OnlyDestinationChanges
  GatherRight
