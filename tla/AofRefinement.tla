--------------------------- MODULE AofRefinement ---------------------------
(***************************************************************************)
(* The append only file implements the ledger of AofLedger: the records    *)
(* covered by fsync up to the first that is not are the durable dataset,   *)
(* the rest and the buffer are its tail.                                   *)
(***************************************************************************)
EXTENDS Aof

Covered(i) == SubSeq(FileOf(i).log, 1, FileOf(i).synced)
Uncovered(i) == SubSeq(FileOf(i).log, FileOf(i).synced + 1, Len(FileOf(i).log))

FirstUnsynced == IF Unsynced = {} THEN Len(manifest.incr) ELSE Min(Unsynced)
After(i) == Concat([j \in 1..(Len(manifest.incr) - i) |-> FileOf(i + j).log])

Durable == LET to[u \in DOMAIN manifest.incr] == Before(u) \o Covered(u)
               replayed[log \in {to[FirstUnsynced]}] == Replay(bases[manifest.base], log)
           IN  replayed[to[FirstUnsynced]]
Pending == LET from[u \in DOMAIN manifest.incr] == Uncovered(u) \o After(u)
           IN  from[FirstUnsynced] \o aofBuf

Ledger == INSTANCE AofLedger WITH durable <- Durable, tail <- Pending,
                                  whole <- Intact(manifest)

(* Every step of the log is a step of the ledger or leaves it unchanged. *)
ImplementsLedger == Ledger!Spec
============================================================================
