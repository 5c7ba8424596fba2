--------------------------- MODULE SubmissionLock ---------------------------
(***************************************************************************)
(* The per-user submission lock of the battle server                       *)
(* (server/src/services/battle.ts, acquireDistributedLock and              *)
(* releaseDistributedLock), as handleSubmit uses it.                       *)
(*                                                                         *)
(* The lock of a user is the Redis key `submission:lock:<user>`, which     *)
(* holds the token of the acquirer.  Because release is not told the       *)
(* token, acquire leaves it in a second key, `submission:lock:<user>:value`*)
(* (here: stamp), shared by all requests of that user.                     *)
(*                                                                         *)
(* A request stands for one run of handleSubmit.  Every await on Redis is  *)
(* a step: an action resumes after the previous reply, runs the            *)
(* synchronous code and issues the next command, which takes effect.  A    *)
(* token is `${Date.now()}-${Math.random()}`, unique per acquisition, so   *)
(* the request itself is used as its token.                                *)
(***************************************************************************)
EXTENDS Naturals

CONSTANTS
    Users,          \* the users whose submissions are locked
    Submits,        \* the submission requests that may arrive
    UserOf,         \* the user of every request
    None,           \* the nil reply of Redis
    RedisMayFail,   \* whether a Redis command may be rejected
    SlowJudge       \* whether a submission may outlast its lock's 10 seconds

ASSUME LockAssumption ==
    /\ None \notin Submits
    /\ \A r \in Submits : UserOf[r] \in Users
    /\ RedisMayFail \in BOOLEAN
    /\ SlowJudge \in BOOLEAN

VARIABLES
    lock,       \* lock[u]: the key submission:lock:u (a token or nil)
    stamp,      \* stamp[u]: the key submission:lock:u:value
    lpc,        \* lpc[r]: where request r stands with the lock
    seen,       \* seen[r]: what release read from stamp
    due,        \* due[r]: calls of releaseDistributedLock r has still to make
    taken,      \* history: the holders whose lock key was removed under them
    hindered    \* history: the requests with a rejected command, cut off by a
                \* crash, or whose stamp another request or expiry has changed

lockVars == <<lock, stamp, lpc, seen, due, taken, hindered>>

Token == Submits \cup {None}

LockPcs == {"idle", "stamp", "inside", "get", "eval", "del", "done"}

LockTypeOK ==
    /\ lock \in [Users -> Token]
    /\ stamp \in [Users -> Token]
    /\ lpc \in [Submits -> LockPcs]
    /\ seen \in [Submits -> Token]
    /\ due \in [Submits -> 0..2]
    /\ taken \in SUBSET Submits
    /\ hindered \in SUBSET Submits

LockInit ==
    /\ lock = [u \in Users |-> None]
    /\ stamp = [u \in Users |-> None]
    /\ lpc = [r \in Submits |-> "idle"]
    /\ seen = [r \in Submits |-> None]
    /\ due = [r \in Submits |-> 0]
    /\ taken = {}
    /\ hindered = {}

(* r holds the lock: its SET NX succeeded and it has not begun to release. *)
Holding(r) == lpc[r] \in {"stamp", "inside"}

(* Removing u's lock key takes the lock away from whoever still holds it.  *)
Remove(u) ==
    /\ lock' = [lock EXCEPT ![u] = None]
    /\ taken' = IF lock[u] # None /\ Holding(lock[u])
                  THEN taken \cup {lock[u]}
                  ELSE taken

(* When r, or the clock, changes u's stamp, the request in the lock key is *)
(* hindered, unless it is r itself or has yet to write the stamp.          *)
Meddle(u, r) ==
    hindered' = hindered \cup
                    {s \in Submits : s = lock[u] /\ s # r /\ lpc[s] # "stamp"}

(***************************************************************************)
(* acquireDistributedLock                                                  *)
(***************************************************************************)

(* Mutant: SET without NX.                                                 *)
TryAcquireWithoutNx(r) ==
    /\ lpc[r] = "idle"
    /\ lock' = [lock EXCEPT ![UserOf[r]] = r]
    /\ lpc' = [lpc EXCEPT ![r] = "stamp"]
    /\ UNCHANGED <<stamp, seen, due, taken, hindered>>

(* SET lockKey token NX EX 10.  A request that is refused returns from the *)
(* try block of handleSubmit, so it goes through finally and releases.     *)
TryAcquire(r) ==
    LET u == UserOf[r] IN
    /\ lpc[r] = "idle"
    /\ IF lock[u] = None
         THEN /\ lock' = [lock EXCEPT ![u] = r]
              /\ lpc' = [lpc EXCEPT ![r] = "stamp"]
              /\ UNCHANGED due
         ELSE /\ lpc' = [lpc EXCEPT ![r] = "get"]
              /\ due' = [due EXCEPT ![r] = 1]
              /\ UNCHANGED lock
    /\ UNCHANGED <<stamp, seen, taken, hindered>>

(* Mutant: the second write is forgotten.                                  *)
StoreNothing(r) ==
    /\ lpc[r] = "stamp"
    /\ lpc' = [lpc EXCEPT ![r] = "inside"]
    /\ UNCHANGED <<lock, stamp, seen, due, taken, hindered>>

(* SETEX lockKey:value 10 token.                                           *)
StoreValue(r) ==
    /\ lpc[r] = "stamp"
    /\ stamp' = [stamp EXCEPT ![UserOf[r]] = r]
    /\ lpc' = [lpc EXCEPT ![r] = "inside"]
    /\ Meddle(UserOf[r], r)
    /\ UNCHANGED <<lock, seen, due, taken>>

(* A rejected SET or SETEX is caught and reported as "not acquired"; after *)
(* a rejected SETEX the lock key stays behind.                             *)
AcquireFails(r) ==
    /\ RedisMayFail
    /\ lpc[r] \in {"idle", "stamp"}
    /\ lpc' = [lpc EXCEPT ![r] = "get"]
    /\ due' = [due EXCEPT ![r] = 1]
    /\ taken' = taken \ {r}
    /\ hindered' = hindered \cup {r}
    /\ UNCHANGED <<lock, stamp, seen>>

(***************************************************************************)
(* The protected part of handleSubmit returns.  The early returns that     *)
(* release explicitly release a second time in finally.                    *)
(***************************************************************************)
Leave(r, n) ==
    /\ lpc[r] = "inside"
    /\ lpc' = [lpc EXCEPT ![r] = "get"]
    /\ due' = [due EXCEPT ![r] = n]
    /\ taken' = taken \ {r}
    /\ UNCHANGED <<lock, stamp, seen, hindered>>

(***************************************************************************)
(* releaseDistributedLock                                                  *)
(***************************************************************************)

(* Mutant: one call of release too many.                                   *)
ReturnedOnceMore(r) ==
    /\ due' = [due EXCEPT ![r] = @ - 1]
    /\ seen' = [seen EXCEPT ![r] = None]
    /\ lpc' = [lpc EXCEPT ![r] = IF due[r] > 0 THEN "get" ELSE "done"]

(* One call of release has returned; another may follow.                   *)
Returned(r) ==
    /\ due' = [due EXCEPT ![r] = @ - 1]
    /\ seen' = [seen EXCEPT ![r] = None]
    /\ lpc' = [lpc EXCEPT ![r] = IF due[r] > 1 THEN "get" ELSE "done"]

(* GET lockKey:value; nil ends this call.                                  *)
GetValue(r) ==
    LET v == stamp[UserOf[r]] IN
    /\ lpc[r] = "get"
    /\ IF v = None
         THEN Returned(r)
         ELSE /\ seen' = [seen EXCEPT ![r] = v]
              /\ lpc' = [lpc EXCEPT ![r] = "eval"]
              /\ UNCHANGED due
    /\ UNCHANGED <<lock, stamp, taken, hindered>>

(* The Lua script: the key is deleted when stamp still is the value read   *)
(* from stamp, whoever's token that is.                                    *)
EvalRelease(r) ==
    LET u == UserOf[r] IN
    /\ lpc[r] = "eval"
    /\ IF stamp[u] = seen[r]
         THEN Remove(u)
         ELSE UNCHANGED <<lock, taken>>
    /\ lpc' = [lpc EXCEPT ![r] = "del"]
    /\ UNCHANGED <<stamp, seen, due, hindered>>

(* DEL lockKey:value, unconditionally.                                     *)
DelValue(r) ==
    /\ lpc[r] = "del"
    /\ stamp' = [stamp EXCEPT ![UserOf[r]] = None]
    /\ Returned(r)
    /\ Meddle(UserOf[r], r)
    /\ UNCHANGED <<lock, taken>>

(* A rejected command ends the call; the error is only logged.             *)
ReleaseFails(r) ==
    /\ RedisMayFail
    /\ lpc[r] \in {"get", "eval", "del"}
    /\ Returned(r)
    /\ hindered' = hindered \cup {r}
    /\ UNCHANGED <<lock, stamp, taken>>

(***************************************************************************)
(* Expiry.  Both keys live 10 seconds; a stamp is written after the lock   *)
(* it belongs to and so outlives it.                                       *)
(***************************************************************************)
ExpireLock(u) ==
    /\ lock[u] # None
    /\ SlowJudge \/ ~Holding(lock[u])
    /\ Remove(u)
    /\ UNCHANGED <<stamp, lpc, seen, due, hindered>>

ExpireValue(u) ==
    /\ stamp[u] # None
    /\ lock[u] # stamp[u]
    /\ stamp' = [stamp EXCEPT ![u] = None]
    /\ Meddle(u, None)
    /\ UNCHANGED <<lock, lpc, seen, due, taken>>

(* The server process dies: every run of handleSubmit that has begun is    *)
(* gone, the keys stay in Redis.                                           *)
LockCrash ==
    /\ lpc' = [r \in Submits |-> IF lpc[r] = "idle" THEN "idle" ELSE "done"]
    /\ due' = [r \in Submits |-> 0]
    /\ seen' = [r \in Submits |-> None]
    /\ taken' = {}
    /\ hindered' = hindered \cup {r \in Submits : lpc[r] # "idle"}
    /\ UNCHANGED <<lock, stamp>>

(***************************************************************************)
(* The lock on its own: the protected part is a wait of any length.        *)
(***************************************************************************)
LockCommand(r) ==
    \/ TryAcquire(r)
    \/ StoreValue(r)
    \/ GetValue(r)
    \/ EvalRelease(r)
    \/ DelValue(r)

LockFault(r) == AcquireFails(r) \/ ReleaseFails(r)

LockExpiry == \E u \in Users : ExpireLock(u) \/ ExpireValue(u)

LockNext ==
    \/ \E r \in Submits :
         \/ LockCommand(r)
         \/ LockFault(r)
         \/ \E n \in 1..2 : Leave(r, n)
    \/ LockExpiry
    \/ LockCrash

LockSpec == LockInit /\ [][LockNext]_lockVars
-----------------------------------------------------------------------------
(* "Acquire distributed lock to prevent simultaneous submissions"          *)
(* (battle.ts:121): two submissions of one user are never both between a   *)
(* successful acquire and the start of their release.                      *)
OneSubmissionAtATime ==
    \A r, s \in Submits :
        Holding(r) /\ Holding(s) /\ UserOf[r] = UserOf[s] => r = s

(* What SET NX does give: two submissions of one user overlap only after   *)
(* the key of one of them expired or was deleted by another request.       *)
OverlapOnlyAfterRemoval ==
    \A r, s \in Submits :
        /\ Holding(r) /\ Holding(s)
        /\ UserOf[r] = UserOf[s] /\ r # s
        => r \in taken \/ s \in taken

(* A lock outlives its request, and shuts the user out until it expires,   *)
(* only after a rejected command (the second write of acquire, battle.ts:  *)
(* 509, among them), a crash, or a change of the shared `:value` key by    *)
(* another request or by expiry: the release of a request that met none of *)
(* these frees its lock, in whatever order the others run.                 *)
LeftBehindOnlyIfHindered ==
    \A r \in Submits \ hindered : lpc[r] = "done" => lock[UserOf[r]] # r
=============================================================================
