\* Two views race, and update_func may refuse.
SPECIFICATION Spec
CONSTANTS
  f = f
  g = g
  h = h
  Funcs = {f, g}
  Calls <- Pair
  Views = {v1, v2}
  Nowhere = Nowhere
  UpdateMayFail = TRUE
SYMMETRY ViewSymmetry
INVARIANTS
  DamageConfined
PROPERTIES
  ActivationObeysLabel
