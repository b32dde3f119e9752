\* Two views race to toggle functions of a call chain; updates succeed.
SPECIFICATION Spec
CONSTANTS
  f = f
  g = g
  h = h
  Funcs = {f, g, h}
  Calls <- Chain
  Views = {v1, v2}
  Nowhere = Nowhere
  UpdateMayFail = FALSE
SYMMETRY ViewSymmetry
INVARIANTS
  TypeOK
  FreshCaches
  MemoryAgreesWithDatabase
  ReachedIsDone
PROPERTIES
  PopupOffersUsable
