\* Kregs to spare: what MERR_OK promises.
SPECIFICATION Spec
CONSTANTS
  Insns <- LiftInsns
  NoInsn = NoInsn
  Plan <- MCPlan
  Slots = {k1, k2, k3, k4}
  NoSlot = NoSlot
  Headroom = 3
SYMMETRY SlotSymmetry
INVARIANTS
  MaskFits
  TypeOK
  AllOrNothing
  WellFormed
  ComputesPromise
  AsOnPaper
  PromisedOnPaper
  NoInterr
PROPERTIES
  LiftsAtomically
