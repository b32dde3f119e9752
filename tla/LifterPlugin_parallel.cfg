\* Several databases open at once; IDA may refuse an action registration.
SPECIFICATION Spec
CONSTANTS
  Mods = {m1, m2, m3}
  Exclusive = FALSE
  RegisterMayFail = TRUE
SYMMETRY ModSymmetry
INVARIANTS
  TypeOK
  NoDanglingFilter
  QuietWhenClosed
  ListensIffActivated
PROPERTIES
  OnlyDestroyRemoves
