------------------------------ MODULE MCBattle ------------------------------
(* Instances of Battle.  Requests are named after what they do and whose   *)
(* they are: sa and sb submit for Player1 and Player2, sa2 submits again   *)
(* for Player1, fa forfeits for Player1, gb is Player2's grace period, ra  *)
(* is a ready event.                                                       *)
EXTENDS Battle

CONSTANTS p1, p2, sa, sa2, sb, fa, fb, gb, ra

MCUsers == {p1, p2}
MCUserOf == [r \in {sa, sa2, sb, fa, fb, gb, ra} |->
                IF r \in {sb, fb, gb} THEN p2 ELSE p1]
=============================================================================
