\* Two databases open at once: the comment on per-database lifetime.
SPECIFICATION Spec
CONSTANTS
  Mods = {m1, m2}
  Exclusive = FALSE
  RegisterMayFail = FALSE
SYMMETRY ModSymmetry
INVARIANTS
  PerDatabaseLifetime
