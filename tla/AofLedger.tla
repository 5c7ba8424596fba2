----------------------------- MODULE AofLedger -----------------------------
(***************************************************************************)
(* What the append only persistence of Redis promises: the                 *)
(* dataset is a durable part followed by a tail of records that are not    *)
(* known to be on stable storage.  Records join the tail in the order in   *)
(* which they are executed, and only its first records become durable.     *)
(* When the process dies, the tail loses its last records; when the        *)
(* machine loses power, it may lose any of them.  Nothing else ever        *)
(* changes the dataset: no log rewrite, no restart.  The promise is made   *)
(* while the log is whole.  A log breaks only after a fault, when nothing  *)
(* is executed; what it is when it is whole again is not said.             *)
(***************************************************************************)
EXTENDS Naturals, Sequences

CONSTANTS Empty,         \* the dataset of a server that starts for the first time
          Replay(_, _)   \* the dataset after a sequence of records

VARIABLES durable, tail, fault,
          whole          \* no unfinished block is in the log

vars == <<durable, tail, fault, whole>>

Init ==
    /\ durable = Empty
    /\ tail = <<>>
    /\ fault = "none"
    /\ whole = TRUE

(* One more record at the end of the tail. *)
Record ==
    /\ UNCHANGED fault
    /\ Len(tail') = Len(tail) + 1
    /\ SubSeq(tail', 1, Len(tail)) = tail
    /\ UNCHANGED durable

(* The first records of the tail become part of the durable dataset. *)
Sync ==
    /\ UNCHANGED fault
    /\ Len(tail') < Len(tail)
    /\ LET n == Len(tail) - Len(tail')
       IN  /\ tail' = SubSeq(tail, n + 1, Len(tail))
           /\ durable' = Replay(durable, SubSeq(tail, 1, n))

(* The process dies: some last records are gone, in no case one in the     *)
(* middle.                                                                 *)
ProcessCrash ==
    /\ fault' = "process"
    /\ \E n \in 0..Len(tail) : tail' = SubSeq(tail, 1, n)
    /\ UNCHANGED durable

(* The machine loses power: any record of the tail may be gone, and what   *)
(* is left, in its order, has reached the disk.                            *)
Increasing(f) == \A i, j \in DOMAIN f : i < j => f[i] < f[j]

PowerLoss ==
    /\ fault' = "power"
    /\ tail' = <<>>
    /\ \E n \in 0..Len(tail) : \E f \in [1..n -> 1..Len(tail)] :
          /\ Increasing(f)
          /\ durable' = Replay(durable, [i \in 1..n |-> tail[f[i]]])

(* The loader leaves an unfinished block in the log. *)
Break ==
    /\ fault # "none"
    /\ UNCHANGED fault
    /\ whole /\ ~whole'

Next ==
    \/ whole /\ whole' /\ (Record \/ Sync \/ ProcessCrash \/ PowerLoss)
    \/ Break
    \/ ~whole

Spec == Init /\ [][Next]_vars
============================================================================
