---------------------------- MODULE BattleLedger ----------------------------
(***************************************************************************)
(* What a battle promises about the players' records, with no store, no    *)
(* handlers and no time: damage is judged, players concede, a recovery may *)
(* write the battle off, and a loss is entered in the users table only for *)
(* a player who has one of these against them.                             *)
(***************************************************************************)
EXTENDS Naturals

CONSTANTS
    Players,    \* the two players
    InitialHp,  \* INITIAL_HP
    Damages     \* the damages the judge's verdicts lead to

VARIABLES
    wins, losses,   \* the users rows of the players
    dealt,          \* dealt[p]: the damage judged against p
    conceded,       \* who has given up
    orphaned        \* whether a restart has written the battle off

ledgerVars == <<wins, losses, dealt, conceded, orphaned>>

LedgerInit ==
    /\ wins = [p \in Players |-> 0]
    /\ losses = [p \in Players |-> 0]
    /\ dealt = [p \in Players |-> 0]
    /\ conceded = {}
    /\ orphaned = FALSE

Judge(p) ==
    /\ \E d \in Damages : dealt' = [dealt EXCEPT ![p] = @ + d]
    /\ UNCHANGED <<wins, losses, conceded, orphaned>>

GiveUp(p) ==
    /\ conceded' = conceded \cup {p}
    /\ UNCHANGED <<wins, losses, dealt, orphaned>>

WriteOff ==
    /\ orphaned' = TRUE
    /\ UNCHANGED <<wins, losses, dealt, conceded>>

Beaten(p) == dealt[p] >= InitialHp \/ p \in conceded \/ orphaned

(* A result: the loser is beaten; either row may be missed by a failure.   *)
EnterResult(w, l) ==
    /\ w # l
    /\ Beaten(l)
    /\ wins' \in {wins, [wins EXCEPT ![w] = @ + 1]}
    /\ losses' \in {losses, [losses EXCEPT ![l] = @ + 1]}
    /\ UNCHANGED <<dealt, conceded, orphaned>>

LedgerNext ==
    \/ \E p \in Players : Judge(p) \/ GiveUp(p)
    \/ WriteOff
    \/ \E w, l \in Players : EnterResult(w, l)

LedgerSpec == LedgerInit /\ [][LedgerNext]_ledgerVars
=============================================================================
