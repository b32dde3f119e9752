\* The dumper's pointer when an internal error hits another function.
SPECIFICATION SessionSpec
CONSTANTS
  Mods = {m1}
  Exclusive = TRUE
  RegisterMayFail = FALSE
  Mbas = {b1, b2}
  Itypes = {vaddps}
  NoMba = NoMba
  MaxRecorded = 1
SYMMETRY Symmetry
INVARIANTS
  DumpReadsLiveMba
