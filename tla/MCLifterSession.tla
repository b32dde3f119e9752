-------------------------- MODULE MCLifterSession --------------------------
(* Instances of LifterSession for TLC.                                     *)
EXTENDS LifterSession, TLC

(* Mods, Mbas and Itypes are only compared and collected in sets.          *)
Symmetry == Permutations(Mods) \union Permutations(Mbas) \union Permutations(Itypes)
=============================================================================
