\* One database at a time, every registration accepted, both debugging aids.
SPECIFICATION FairSessionSpec
CONSTANTS
  Mods = {m1, m2}
  Exclusive = TRUE
  RegisterMayFail = FALSE
  Mbas = {b1, b2}
  Itypes = {vaddps, vmovd}
  NoMba = NoMba
  MaxRecorded = 2
INVARIANTS
  SessionTypeOK
  PerDatabaseLifetime
  NoActionAfterDone
  DumpsRejectedMicrocode
  CoverageConserved
  CoverageFlushed
PROPERTIES
  CoverageReachesFile
  CoverageFileGrows
