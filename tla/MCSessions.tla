----------------------------- MODULE MCSessions -----------------------------
(* Sessions on a small instance. *)
EXTENDS Sessions, TLC

CONSTANTS tab1, tab2, tab3

\* Tabs differ only in what they do.
TabSymmetry == Permutations(Tabs)
=============================================================================
