-------------------------- MODULE MCSubmissionLock --------------------------
(* Three submissions of one user: the smallest instance in which a refused *)
(* request can delete the key of a holder while a third request waits to   *)
(* enter.  The keys of different users are disjoint, so one user is enough.*)
EXTENDS SubmissionLock

CONSTANTS u1, s1, s2, s3

MCUsers == {u1}
MCSubmits == {s1, s2, s3}
MCUserOf == [r \in MCSubmits |-> u1]
=============================================================================
