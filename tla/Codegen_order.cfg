\* Permutations by a vector of indices.
SPECIFICATION Spec
CONSTANTS
  Insns <- PermutedOperands
  NoInsn = NoInsn
  Plan <- MCPlan
  Slots = {k1, k2, k3, k4}
  NoSlot = NoSlot
  Headroom = 3
SYMMETRY SlotSymmetry
INVARIANTS
  ComputesPromise
