--------------------------- MODULE MCInlineToggle ---------------------------
(* Instances of InlineToggle for TLC.                                      *)
EXTENDS InlineToggle, TLC

CONSTANTS f, g, h

(* f calls g, g calls h and itself; g is both a caller and a callee.       *)
Chain == {<<f, g>>, <<g, g>>, <<g, h>>}

(* The recursive function and its caller only.                             *)
Pair == {<<f, g>>, <<g, g>>}

ViewSymmetry == Permutations(Views)
=============================================================================
