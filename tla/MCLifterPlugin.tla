--------------------------- MODULE MCLifterPlugin ---------------------------
(* Instances of LifterPlugin for TLC.                                      *)
EXTENDS LifterPlugin, TLC

ModSymmetry == Permutations(Mods)
=============================================================================
