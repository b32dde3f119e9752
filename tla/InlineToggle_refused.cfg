\* update_func may refuse.
SPECIFICATION Spec
CONSTANTS
  f = f
  g = g
  h = h
  Funcs = {f, g, h}
  Calls <- Chain
  Views = {v1, v2}
  Nowhere = Nowhere
  UpdateMayFail = TRUE
INVARIANTS
  ReachedIsDone
