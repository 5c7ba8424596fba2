--------------------------- MODULE MCMatchmaking ---------------------------
(* Matchmaking on a small instance: four players, two of them one initial  *)
(* window apart, two only a grown one, two never.                          *)
EXTENDS Matchmaking, TLC

CONSTANTS ann, bob, cyd, dan

MCElo == (ann :> 0) @@ (bob :> 1) @@ (cyd :> 2) @@ (dan :> 4)
=============================================================================
