\* Subtractions with a rounding override.
SPECIFICATION Spec
CONSTANTS
  Insns <- Rounded
  NoInsn = NoInsn
  Plan <- MCPlan
  Slots = {k1, k2, k3, k4}
  NoSlot = NoSlot
  Headroom = 3
SYMMETRY SlotSymmetry
INVARIANTS
  EvexExtrasLeftToIda
