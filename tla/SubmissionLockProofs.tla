------------------------ MODULE SubmissionLockProofs ------------------------
(***************************************************************************)
(* For any users and any requests: overlapping submissions of one user     *)
(* need a lock key that was removed under its holder, and a lock is left   *)
(* behind only by a request that something hindered.  Neither property is  *)
(* inductive by itself; HolderOwnsKey and StampStands say why they hold.   *)
(***************************************************************************)
EXTENDS SubmissionLock, TLAPS

(* Whoever holds the lock, and has not had the key removed, is the token   *)
(* in the key.                                                             *)
HolderOwnsKey ==
    \A r \in Submits : Holding(r) /\ r \notin taken => lock[UserOf[r]] = r

(* A request inside release has a call of it to finish.                    *)
ReleaseIsDue ==
    \A r \in Submits : lpc[r] \in {"get", "eval", "del"} => due[r] > 0

KeyInv == LockTypeOK /\ HolderOwnsKey /\ ReleaseIsDue

(* A request whose lock is still in place, and that nothing has hindered,  *)
(* finds its own stamp where its release looks for it.                     *)
StampStands ==
    \A r \in Submits \ hindered : lock[UserOf[r]] = r =>
        /\ lpc[r] \in {"stamp", "inside", "get", "eval"}
        /\ lpc[r] # "stamp" => stamp[UserOf[r]] = r
        /\ lpc[r] = "eval" => seen[r] = r

LockInv == KeyInv /\ StampStands

(* The lock starts free and untaken.                                       *)
LEMMA KeyInitInv == LockInit => KeyInv
BY LockAssumption DEF LockInit, KeyInv, LockTypeOK, HolderOwnsKey, Holding,
                      ReleaseIsDue, Token, LockPcs

(* Removing a key marks its holder as taken, so nobody is left who holds   *)
(* an unmarked lock of that user.                                          *)
LEMMA RemoveInv ==
    ASSUME KeyInv, NEW u \in Users, lock[u] # None, Remove(u),
           UNCHANGED lpc
    PROVE  /\ lock' \in [Users -> Token]
           /\ taken' \in SUBSET Submits
           /\ HolderOwnsKey'
<1> USE LockAssumption DEF KeyInv, LockTypeOK, Token
<1>1. lock[u] \in Submits
  OBVIOUS
<1>2. lock' \in [Users -> Token] /\ taken' \in SUBSET Submits
  BY <1>1 DEF Remove
<1>3. ASSUME NEW r \in Submits, Holding(r)', r \notin taken'
      PROVE  lock'[UserOf[r]] = r
  <2>1. Holding(r) /\ r \notin taken
    BY <1>3 DEF Holding, Remove
  <2>2. lock[UserOf[r]] = r
    BY <2>1 DEF HolderOwnsKey
  <2>3. UserOf[r] # u
    BY <1>3, <2>1, <2>2 DEF Remove
  <2> QED
    BY <2>2, <2>3 DEF Remove
<1> QED
  BY <1>2, <1>3 DEF HolderOwnsKey

(* Only requests are hindered.                                             *)
LEMMA MeddleTyped ==
    ASSUME NEW u, NEW r, hindered \in SUBSET Submits, Meddle(u, r)
    PROVE  hindered' \in SUBSET Submits
BY DEF Meddle

(* Every command, fault, return, expiry and crash preserves what is said   *)
(* about the key.                                                          *)
LEMMA KeyNextInv == KeyInv /\ [LockNext]_lockVars => KeyInv'
<1> SUFFICES ASSUME KeyInv, [LockNext]_lockVars
             PROVE  KeyInv'
  OBVIOUS
<1> USE LockAssumption DEF KeyInv, LockTypeOK, ReleaseIsDue, Token, LockPcs
<1>1. ASSUME NEW r \in Submits, TryAcquire(r)
      PROVE  KeyInv'
  <2>1. LockTypeOK' /\ ReleaseIsDue'
    BY <1>1 DEF TryAcquire
  <2>2. HolderOwnsKey'
    BY <1>1 DEF TryAcquire, HolderOwnsKey, Holding
  <2> QED
    BY <2>1, <2>2
<1>2. ASSUME NEW r \in Submits, StoreValue(r)
      PROVE  KeyInv'
  <2>1. hindered' \in SUBSET Submits
    BY <1>2, MeddleTyped DEF StoreValue
  <2> QED
    BY <1>2, <2>1 DEF StoreValue, HolderOwnsKey, Holding
<1>3. ASSUME NEW r \in Submits, GetValue(r)
      PROVE  KeyInv'
  <2>1. LockTypeOK' /\ ReleaseIsDue'
    BY <1>3 DEF GetValue, Returned
  <2>2. HolderOwnsKey'
    BY <1>3 DEF GetValue, Returned, HolderOwnsKey, Holding
  <2> QED
    BY <2>1, <2>2
<1>4. ASSUME NEW r \in Submits, EvalRelease(r)
      PROVE  KeyInv'
  <2>1. UserOf[r] \in Users
    OBVIOUS
  <2>2. CASE UNCHANGED <<lock, taken>>
    BY <1>4, <2>2 DEF EvalRelease, HolderOwnsKey, Holding
  <2>3. CASE Remove(UserOf[r])
    <3>1. HolderOwnsKey'
      BY <1>4, <2>1, <2>3 DEF EvalRelease, Remove, HolderOwnsKey, Holding
    <3>2. LockTypeOK' /\ ReleaseIsDue'
      BY <1>4, <2>1, <2>3 DEF EvalRelease, Remove
    <3> QED
      BY <3>1, <3>2
  <2> QED
    BY <1>4, <2>2, <2>3 DEF EvalRelease
<1>5. ASSUME NEW r \in Submits, DelValue(r)
      PROVE  KeyInv'
  <2>0. hindered' \in SUBSET Submits
    BY <1>5, MeddleTyped DEF DelValue
  <2>1. LockTypeOK' /\ ReleaseIsDue'
    BY <1>5, <2>0 DEF DelValue, Returned
  <2>2. HolderOwnsKey'
    BY <1>5 DEF DelValue, Returned, HolderOwnsKey, Holding
  <2> QED
    BY <2>1, <2>2
<1>6. ASSUME NEW r \in Submits, AcquireFails(r)
      PROVE  KeyInv'
  BY <1>6 DEF AcquireFails, HolderOwnsKey, Holding
<1>7. ASSUME NEW r \in Submits, ReleaseFails(r)
      PROVE  KeyInv'
  <2>1. LockTypeOK' /\ ReleaseIsDue'
    BY <1>7 DEF ReleaseFails, Returned
  <2>2. HolderOwnsKey'
    BY <1>7 DEF ReleaseFails, Returned, HolderOwnsKey, Holding
  <2> QED
    BY <2>1, <2>2
<1>8. ASSUME NEW r \in Submits, NEW n \in 1..2, Leave(r, n)
      PROVE  KeyInv'
  BY <1>8 DEF Leave, HolderOwnsKey, Holding
<1>9. ASSUME NEW u \in Users, ExpireLock(u)
      PROVE  KeyInv'
  BY <1>9, RemoveInv DEF ExpireLock
<1>10. ASSUME NEW u \in Users, ExpireValue(u)
       PROVE  KeyInv'
  <2>1. hindered' \in SUBSET Submits
    BY <1>10, MeddleTyped DEF ExpireValue
  <2> QED
    BY <1>10, <2>1 DEF ExpireValue, HolderOwnsKey, Holding
<1>11. CASE LockCrash
  BY <1>11 DEF LockCrash, HolderOwnsKey, Holding
<1>12. CASE UNCHANGED lockVars
  BY <1>12 DEF lockVars, HolderOwnsKey, Holding
<1> QED
  BY <1>1, <1>2, <1>3, <1>4, <1>5, <1>6, <1>7, <1>8, <1>9, <1>10, <1>11, <1>12
  DEF LockNext, LockCommand, LockFault, LockExpiry

(* Nothing that a request or the clock does takes the stamp from a request *)
(* without marking it as hindered.                                         *)
LEMMA StampNextInv == LockInv /\ [LockNext]_lockVars => StampStands'
<1> SUFFICES ASSUME LockInv, [LockNext]_lockVars
             PROVE  StampStands'
  OBVIOUS
<1> USE LockAssumption DEF LockInv, KeyInv, LockTypeOK, StampStands, Token
<1>1. ASSUME NEW r \in Submits, TryAcquire(r)
      PROVE  StampStands'
  BY <1>1 DEF TryAcquire
<1>2. ASSUME NEW r \in Submits, StoreValue(r)
      PROVE  StampStands'
  BY <1>2 DEF StoreValue, Meddle
<1>3. ASSUME NEW r \in Submits, GetValue(r)
      PROVE  StampStands'
  BY <1>3 DEF GetValue, Returned
<1>4. ASSUME NEW r \in Submits, EvalRelease(r)
      PROVE  StampStands'
  BY <1>4 DEF EvalRelease, Remove
<1>5. ASSUME NEW r \in Submits, DelValue(r)
      PROVE  StampStands'
  BY <1>5 DEF DelValue, Returned, Meddle
<1>6. ASSUME NEW r \in Submits, AcquireFails(r)
      PROVE  StampStands'
  BY <1>6 DEF AcquireFails
<1>7. ASSUME NEW r \in Submits, ReleaseFails(r)
      PROVE  StampStands'
  BY <1>7 DEF ReleaseFails, Returned
<1>8. ASSUME NEW r \in Submits, NEW n \in 1..2, Leave(r, n)
      PROVE  StampStands'
  BY <1>8 DEF Leave
<1>9. ASSUME NEW u \in Users, ExpireLock(u)
      PROVE  StampStands'
  BY <1>9 DEF ExpireLock, Remove
<1>10. ASSUME NEW u \in Users, ExpireValue(u)
       PROVE  StampStands'
  BY <1>10 DEF ExpireValue, Meddle
<1>11. CASE LockCrash
  BY <1>11 DEF LockCrash
<1>12. CASE UNCHANGED lockVars
  BY <1>12 DEF lockVars
<1> QED
  BY <1>1, <1>2, <1>3, <1>4, <1>5, <1>6, <1>7, <1>8, <1>9, <1>10, <1>11, <1>12
  DEF LockNext, LockCommand, LockFault, LockExpiry

(* The whole invariant holds at the start.                                 *)
LEMMA LockInitInv == LockInit => LockInv
BY KeyInitInv, LockAssumption DEF LockInv, LockInit, StampStands

(* Every step preserves it.                                                *)
LEMMA LockNextInv == LockInv /\ [LockNext]_lockVars => LockInv'
BY KeyNextInv, StampNextInv DEF LockInv

(* The lock's state stays well typed, and HolderOwnsKey and StampStands    *)
(* hold throughout.                                                        *)
THEOREM LockInvariance == LockSpec => []LockInv
BY LockInitInv, LockNextInv, PTL DEF LockSpec

(* Requests, keys and counts of due releases stay in their ranges: release *)
(* is never called once too often.                                         *)
THEOREM LockTyped == LockSpec => []LockTypeOK
<1>1. LockInv => LockTypeOK
  BY DEF LockInv, KeyInv
<1> QED
  BY <1>1, LockInvariance, PTL

(* battle.ts:497-505: SET NX lets a second submission of a user in only    *)
(* after the key of the first was removed, for any number of requests.     *)
THEOREM OverlapTheorem == LockSpec => []OverlapOnlyAfterRemoval
<1>1. LockInv => OverlapOnlyAfterRemoval
  BY DEF LockInv, KeyInv, HolderOwnsKey, OverlapOnlyAfterRemoval
<1> QED
  BY <1>1, LockInvariance, PTL

(* battle.ts:494-541: whatever other requests of the user, rejected        *)
(* commands, crashes and expiry do, a request that they did not hinder     *)
(* frees the lock it took.                                                 *)
THEOREM LeftBehindTheorem == LockSpec => []LeftBehindOnlyIfHindered
<1>1. LockInv => LeftBehindOnlyIfHindered
  BY DEF LockInv, StampStands, LeftBehindOnlyIfHindered
<1> QED
  BY <1>1, LockInvariance, PTL
=============================================================================
