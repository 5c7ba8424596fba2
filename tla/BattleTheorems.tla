--------------------------- MODULE BattleTheorems ---------------------------
(***************************************************************************)
(* The results about a battle room: its invariant, the properties it       *)
(* implies, that the room implements BattleLedger, that an end nobody can  *)
(* write back is final, that streaks count wins, and that 0 HP leads to a  *)
(* result.                                                                 *)
(***************************************************************************)
EXTENDS BattleProofs, FiniteSetTheorems

(* A command of the lock moves no handler but one that was refused.        *)
LEMMA SubmitLockInv ==
    ASSUME RoomInv, NEW r \in Submits, SubmitLock(r)
    PROVE  RoomInv'
<1>1. r \in Requests
  BY DEF Requests
<1>2. pc' \in {pc, [pc EXCEPT ![r] = "out"]} /\ UNCHANGED <<copy, winner, battle>>
  BY <1>1, Zenon DEF SubmitLock, RoomInv, RoomTypeOK
<1>3. OnlyHandler(r)
  BY <1>1, <1>2 DEF OnlyHandler, SubmitLock, RoomInv, RoomTypeOK
<1>4. HistoryGrows /\ StatsTyped
  BY DEF SubmitLock, HistoryGrows, StatsTyped, historyVars, statsVars, RoomInv, RoomTypeOK
<1>5. StoreSound' /\ DeservedLoss'
  BY DEF SubmitLock, StoreSound, HpAccounted, HpIsAccounted, DeservedLoss, historyVars,
         statsVars, RoomInv, RoomTypeOK
<1>6. WellPlaced(r)
  BY <1>1 DEF WellPlaced, RoomInv, RoomTypeOK, CopyHeld, HpAccounted, EndingIsDeserved
<1>7. WellPlaced(r)'
  <2>1. pc'[r] = pc[r] \/ pc'[r] = "out"
    BY <1>1, <1>2 DEF RoomInv, RoomTypeOK
  <2> QED
    BY <1>2, <1>6, <2>1
    DEF SubmitLock, WellPlaced, Pcs, HpIsAccounted, historyVars, Ledger!Beaten, Opponent
<1> QED
  BY <1>1, <1>3, <1>4, <1>5, <1>7, HandlerStep

(* Every step of the system preserves the invariant of the room.           *)
LEMMA RoomNextInv ==
    ASSUME RoomInv, [BattleNext]_vars
    PROVE  RoomInv'
<1>1. ASSUME NEW r \in Requests, GetBattle(r) \/ Proceed(r) \/ Fault(r)
      PROVE  RoomInv'
  BY <1>1, HandlerInv
<1>2. ASSUME NEW r \in Submits, SubmitLock(r)
      PROVE  RoomInv'
  BY <1>2, SubmitLockInv
<1>3. CASE Clock \/ TimerFails
  BY <1>3, ClockInv
<1>4. CASE Crash \/ Boot \/ CheckOrphanedBattles \/ BattleExpires
  BY <1>4, ServerInv
<1>5. CASE UNCHANGED battleVars
  BY <1>5
  DEF battleVars, RoomInv, RoomTypeOK, TicksBounded, CopyHeld, HpAccounted, HpIsAccounted,
      EndingIsDeserved, DeservedLoss, Ledger!Beaten, Opponent
<1> QED
  BY <1>1, <1>2, <1>3, <1>4, <1>5 DEF BattleNext, LockExpires, vars

(* The room uses the lock as its specification allows: every step of the   *)
(* system is a step of the lock or leaves it alone.                        *)
LEMMA LockStep ==
    ASSUME [BattleNext]_vars
    PROVE  [LockNext]_lockVars
<1>1. ASSUME NEW r \in Submits, \/ UNCHANGED lockVars
                                \/ Leave(r, 1) \/ Leave(r, 2)
                                \/ LockCommand(r) \/ LockFault(r)
      PROVE  [LockNext]_lockVars
  BY <1>1 DEF LockNext
<1>2. ASSUME NEW r \in Requests, Return(r)
      PROVE  [LockNext]_lockVars
  BY <1>1, <1>2 DEF Return
<1>3. ASSUME NEW r \in Requests, GetBattle(r) \/ Proceed(r) \/ Fault(r)
      PROVE  [LockNext]_lockVars
  <2>1. CASE GetBattle(r)
    BY <2>1, Zenon DEF GetBattle
  <2>2. ASSUME r \in Submits, SubmitStep(r)
        PROVE  [LockNext]_lockVars
    BY <1>1, <2>2, Zenon
    DEF SubmitStep, SubmitCheck, ProblemFound, ProblemMissing, SubmitJudged, SubmitSettled,
        CatchRead, CatchRestore
  <2>3. CASE HandleForfeit(r) \/ HandleGraceTimeout(r) \/ StartCountdown(r) \/ CountdownOver(r)
    BY <2>3 DEF HandleForfeit, HandleGraceTimeout, StartCountdown, CountdownOver
  <2>4. CASE EndBattleStep(r)
    <3>1. UNCHANGED lockVars \/ Return(r)
      BY <2>4, Zenon
      DEF EndBattleStep, UpdateBattleStats, IncrementWinStreak, ResetWinStreak, CleanUp,
          EndError
    <3> QED
      BY <1>2, <3>1, Zenon
  <2>5. ASSUME r \in Submits, SubmitFails(r) \/ CatchFails(r)
        PROVE  [LockNext]_lockVars
    BY <1>1, <2>5 DEF SubmitFails, CatchFails
  <2>6. CASE ConcedeFails(r)
    BY <2>6, Zenon DEF ConcedeFails
  <2> QED
    BY <1>3, <2>1, <2>2, <2>3, <2>4, <2>5, <2>6, Zenon DEF Proceed, Fault
<1>4. ASSUME NEW r \in Submits, SubmitLock(r)
      PROVE  [LockNext]_lockVars
  BY <1>1, <1>4, Zenon DEF SubmitLock
<1>5. CASE Clock \/ TimerFails \/ Boot \/ CheckOrphanedBattles \/ BattleExpires
  BY <1>5 DEF Clock, AutoCountdown, StartBattle, TimerTick, TimerCheck, TimerFails, Boot,
              CheckOrphanedBattles, BattleExpires
<1>6. CASE Crash \/ LockExpires
  BY <1>6 DEF Crash, LockExpires, LockNext
<1>7. CASE UNCHANGED vars
  BY <1>7 DEF vars
<1> QED
  BY <1>3, <1>4, <1>5, <1>6, <1>7, Zenon DEF BattleNext
-----------------------------------------------------------------------------
(* The invariant of the system: lock and room.                             *)
THEOREM BattleInvariance == BattleSpec => []BattleInv
<1>1. BattleInit => BattleInv
  BY InitRoom, LockInitInv DEF BattleInit, BattleInv
<1>2. BattleInv /\ [BattleNext]_vars => BattleInv'
  BY RoomNextInv, LockStep, LockNextInv DEF BattleInv
<1> QED
  BY <1>1, <1>2, PTL DEF BattleSpec

(* Every state of the system is well typed: in particular no sequence of   *)
(* whole-record writes takes HP below 0 or above INITIAL_HP.               *)
THEOREM BattleTyped == BattleSpec => []BattleTypeOK
<1>1. BattleInv => BattleTypeOK
  BY DEF BattleInv, LockInv, KeyInv, RoomInv, BattleTypeOK
<1> QED
  BY <1>1, BattleInvariance, PTL

(* Stale copies never invent damage (battle.ts:145-187).                   *)
THEOREM DamageIsNeverInvented == BattleSpec => []HpAccounted
<1>1. BattleInv => HpAccounted
  BY DEF BattleInv, RoomInv
<1> QED
  BY <1>1, BattleInvariance, PTL

(* Nobody is given a loss they have not earned (battle.ts:313-339).        *)
THEOREM LossesAreDeserved == BattleSpec => []DeservedLoss
<1>1. BattleInv => DeservedLoss
  BY DEF BattleInv, RoomInv
<1> QED
  BY <1>1, BattleInvariance, PTL

(* Inside the battle server two submissions of one user overlap only after *)
(* a lock key was removed under its holder: the room calls the lock as     *)
(* SubmissionLock assumes.                                                 *)
THEOREM BattleOverlap == BattleSpec => []OverlapOnlyAfterRemoval
<1>1. LockInv => OverlapOnlyAfterRemoval
  BY DEF LockInv, KeyInv, HolderOwnsKey, OverlapOnlyAfterRemoval
<1>2. BattleInv => LockInv
  BY DEF BattleInv
<1> QED
  BY <1>1, <1>2, BattleInvariance, PTL
-----------------------------------------------------------------------------
(***************************************************************************)
(* The room implements BattleLedger.                                       *)
(***************************************************************************)

LedgerUnchanged == UNCHANGED <<wins, losses, dealt, conceded, orphaned>>

(* Results are entered only by updateBattleStats, for a beaten loser.      *)
LEMMA EndBattleLedger ==
    ASSUME RoomInv, NEW r \in Requests, EndBattleStep(r)
    PROVE  LedgerUnchanged \/ Ledger!LedgerNext
<1>1. CASE UpdateBattleStats(r)
  <2> DEFINE w == winner[r]
             l == Opponent(w)
  <2>1. w \in Players /\ l \in Players /\ w # l /\ Ledger!Beaten(l)
    BY <1>1, OpponentType, Zenon DEF UpdateBattleStats, RoomInv, EndingIsDeserved
  <2>2. Ledger!EnterResult(w, l)
    BY <1>1, <2>1, Zenon DEF UpdateBattleStats, Ledger!EnterResult, historyVars
  <2> QED
    BY <2>1, <2>2, Zenon DEF Ledger!LedgerNext
<1>2. CASE IncrementWinStreak(r) \/ ResetWinStreak(r) \/ CleanUp(r)
  BY <1>2 DEF IncrementWinStreak, ResetWinStreak, CleanUp, historyVars, statsVars,
              LedgerUnchanged
<1> QED
  BY <1>1, <1>2 DEF EndBattleStep

(* Every step of the room is a step of the ledger or leaves it alone.      *)
LEMMA LedgerStep ==
    ASSUME RoomInv, [BattleNext]_vars
    PROVE  [Ledger!LedgerNext]_(Ledger!ledgerVars)
<1> SUFFICES LedgerUnchanged \/ Ledger!LedgerNext
  BY DEF LedgerUnchanged, Ledger!ledgerVars
<1>1. ASSUME NEW r \in Requests, GetBattle(r) \/ Proceed(r) \/ Fault(r)
      PROVE  LedgerUnchanged \/ Ledger!LedgerNext
  <2> USE DEF historyVars, statsVars, LedgerUnchanged
  <2>1. CASE SubmitJudged(r)
    <3>1. Opponent(UserOf[r]) \in Players
      BY OpponentType
    <3>2. Ledger!Judge(Opponent(UserOf[r]))
      BY <2>1, Zenon DEF SubmitJudged, Ledger!Judge
    <3> QED
      BY <3>1, <3>2 DEF Ledger!LedgerNext
  <2>2. CASE \/ SubmitCheck(r) \/ ProblemFound(r) \/ ProblemMissing(r) \/ SubmitSettled(r)
             \/ CatchRead(r) \/ CatchRestore(r) \/ SubmitFails(r) \/ CatchFails(r)
    BY <2>2 DEF SubmitCheck, ProblemFound, ProblemMissing, SubmitSettled, CatchRead,
                CatchRestore, SubmitFails, CatchFails
  <2>3. ASSUME UserOf[r] \in Players, Concede(r), UNCHANGED <<statsVars, dealt, orphaned>>
        PROVE  LedgerUnchanged \/ Ledger!LedgerNext
    BY <2>3 DEF Concede, Ledger!GiveUp, Ledger!LedgerNext
  <2>4. CASE r \in Forfeits /\ HandleForfeit(r)
    BY <2>3, <2>4 DEF HandleForfeit, TurnedAway
  <2>5. CASE r \in Graces /\ HandleGraceTimeout(r)
    BY <2>3, <2>5, BattleAssumption DEF HandleGraceTimeout, TurnedAway
  <2>6. CASE GetBattle(r) \/ ConcedeFails(r) \/ StartCountdown(r) \/ CountdownOver(r)
    BY <2>6 DEF GetBattle, ConcedeFails, TurnedAway, StartCountdown, CountdownOver
  <2>7. CASE EndBattleStep(r)
    BY <2>7, EndBattleLedger, Zenon
  <2> QED
    BY <1>1, <2>1, <2>2, <2>4, <2>5, <2>6, <2>7, Zenon DEF Proceed, Fault, SubmitStep
<1>2. ASSUME NEW r \in Submits, SubmitLock(r)
      PROVE  LedgerUnchanged
  BY <1>2 DEF SubmitLock, historyVars, statsVars, LedgerUnchanged
<1>3. CASE Clock \/ TimerFails \/ Crash \/ Boot \/ BattleExpires
  BY <1>3 DEF Clock, AutoCountdown, StartBattle, TimerTick, TimerCheck, TimerFails, Crash,
              Boot, BattleExpires, historyVars, statsVars, LedgerUnchanged
<1>4. CASE CheckOrphanedBattles
  BY <1>4 DEF CheckOrphanedBattles, statsVars, LedgerUnchanged, Ledger!WriteOff,
              Ledger!LedgerNext
<1>5. CASE UNCHANGED battleVars
  BY <1>5 DEF battleVars, LedgerUnchanged
<1> QED
  BY <1>1, <1>2, <1>3, <1>4, <1>5, Zenon DEF BattleNext, LockExpires, vars

(* The room, with all its handlers, faults and restarts, keeps the promise *)
(* of BattleLedger: only judged damage, concessions and write-offs count,  *)
(* and only the beaten lose (battle.ts:313-339, userService.ts:56-75).     *)
THEOREM RoomImplementsLedger == BattleSpec => RefinesLedger
<1>1. BattleInit => Ledger!LedgerInit
  BY DEF BattleInit, Ledger!LedgerInit
<1>2. BattleInv /\ [BattleNext]_vars => [Ledger!LedgerNext]_(Ledger!ledgerVars)
  BY LedgerStep DEF BattleInv
<1> QED
  BY <1>1, <1>2, BattleInvariance, PTL DEF BattleSpec, RefinesLedger, Ledger!LedgerSpec
-----------------------------------------------------------------------------
(***************************************************************************)
(* An end that nobody can write back is final.                             *)
(***************************************************************************)

StaysEnded == battle' = None \/ Has(battle, "ENDED")'

(* endBattle, the timeout and recovery all leave ENDED in the key.         *)
LEMMA EndingWrites ==
    ASSUME NEW b \in Record, \/ battle' = [b EXCEPT !.status = "ENDED"]
                             \/ battle' = Stamped([b EXCEPT !.status = "ENDED"])
    PROVE  Has(battle, "ENDED")'
<1> DEFINE c == [b EXCEPT !.status = "ENDED"]
<1>1. /\ c \in Record /\ c.status = "ENDED"
      /\ Stamped(c) \in Record /\ Stamped(c).status = "ENDED"
  BY StatusUpdate, Zenon DEF Statuses
<1>2. battle' = c \/ battle' = Stamped(c)
  OBVIOUS
<1> HIDE DEF c
<1> QED
  BY <1>1, <1>2, NilAssumption DEF Has

(* No step of a handler that has not read an earlier, unfinished record    *)
(* takes a finished battle back.                                           *)
LEMMA HandlerKeepsEnd ==
    ASSUME RoomInv, Has(battle, "ENDED"), ~MayReopen,
           NEW r \in Requests, GetBattle(r) \/ Proceed(r) \/ Fault(r)
    PROVE  StaysEnded
<1> USE DEF StaysEnded
<1>1. battle' = battle => StaysEnded
  BY DEF Has
<1>2. CASE GetBattle(r) \/ Fault(r)
  BY <1>1, <1>2 DEF GetBattle, Fault, SubmitFails, CatchFails, ConcedeFails, TurnedAway
<1>3. CASE SubmitStep(r)
  <2>1. CASE SubmitCheck(r)
    BY <1>1, <2>1, Zenon DEF SubmitCheck, Accepted, MayReopen
  <2>2. CASE ProblemFound(r) \/ CatchRead(r)
    BY <1>1, <2>2, Zenon DEF ProblemFound, CatchRead
  <2>3. CASE ProblemMissing(r) \/ SubmitJudged(r)
    BY <2>3, Zenon DEF ProblemMissing, SubmitJudged, MayReopen
  <2>4. CASE SubmitSettled(r)
    <3>1. copy[r] \in Record
      BY <2>4 DEF SubmitSettled, RoomInv, CopyHeld
    <3> QED
      BY <1>1, <2>4, <3>1, EndingWrites, Zenon DEF SubmitSettled, EndBattle, SaveBattleState
  <2>5. CASE CatchRestore(r)
    BY <1>1, <2>5 DEF CatchRestore, MayReopen
  <2> QED
    BY <1>3, <2>1, <2>2, <2>3, <2>4, <2>5, Zenon DEF SubmitStep
<1>4. ASSUME copy[r] \in Record, UserOf[r] \in Players, Concede(r)
      PROVE  StaysEnded
  <2>1. [copy[r] EXCEPT !.hp[UserOf[r]] = 0] \in Record
    BY <1>4, ConcededRecord
  <2> QED
    BY <1>4, <2>1, EndingWrites, Zenon DEF Concede, EndBattle, SaveBattleState
<1>5. CASE r \in Forfeits /\ HandleForfeit(r)
  BY <1>1, <1>4, <1>5 DEF HandleForfeit, TurnedAway, RoomInv, RoomTypeOK
<1>6. CASE r \in Graces /\ HandleGraceTimeout(r)
  BY <1>1, <1>4, <1>6, BattleAssumption DEF HandleGraceTimeout, TurnedAway, Has, RoomInv, RoomTypeOK
<1>7. CASE StartCountdown(r) \/ CountdownOver(r)
  BY <1>1, <1>7, Zenon DEF StartCountdown, CountdownOver, MayReopen
<1>8. CASE EndBattleStep(r)
  BY <1>1, <1>8, Zenon
  DEF EndBattleStep, UpdateBattleStats, IncrementWinStreak, ResetWinStreak, CleanUp
<1> QED
  BY <1>2, <1>3, <1>5, <1>6, <1>7, <1>8 DEF Proceed

(* Nor does a timer, a restart or an expiry.                               *)
LEMMA EndIsKept ==
    ASSUME RoomInv, Has(battle, "ENDED"), ~MayReopen, [BattleNext]_vars
    PROVE  StaysEnded
<1> USE DEF StaysEnded
<1>1. battle' = battle => StaysEnded
  BY DEF Has
<1>2. ASSUME NEW r \in Requests, GetBattle(r) \/ Proceed(r) \/ Fault(r)
      PROVE  StaysEnded
  BY <1>2, HandlerKeepsEnd, Zenon
<1>3. ASSUME NEW r \in Submits, SubmitLock(r)
      PROVE  StaysEnded
  BY <1>1, <1>3 DEF SubmitLock
<1>4. CASE AutoCountdown \/ StartBattle
  BY <1>4 DEF AutoCountdown, StartBattle, MayReopen
<1>5. CASE TimerCheck
  <2>1. Has(timerCopy, "ACTIVE") => timerCopy \in Record
    BY Zenon DEF Has, RoomInv, RoomTypeOK
  <2> QED
    BY <1>1, <1>5, <2>1, EndingWrites, Zenon DEF TimerCheck, SaveAsIs
<1>6. CASE TimerTick \/ TimerFails \/ Crash \/ Boot \/ BattleExpires
  BY <1>1, <1>6 DEF TimerTick, TimerFails, Crash, Boot, BattleExpires
<1>7. CASE CheckOrphanedBattles
  BY <1>1, <1>7, Zenon DEF CheckOrphanedBattles, Has
<1>8. CASE UNCHANGED battleVars
  BY <1>1, <1>8 DEF battleVars
<1> QED
  BY <1>2, <1>3, <1>4, <1>5, <1>6, <1>7, <1>8, Zenon DEF BattleNext, Clock, LockExpires, vars

(* Once a battle is ENDED and no earlier reader is left to write it back,  *)
(* no later event of any kind reopens it.                                  *)
THEOREM QuietEndTheorem == BattleSpec => QuietEndIsFinal
<1>1. BattleInv /\ [BattleNext]_vars
        => [Has(battle, "ENDED") /\ ~MayReopen
              => battle' = None \/ Has(battle, "ENDED")']_vars
  BY EndIsKept DEF BattleInv, StaysEnded
<1> QED
  BY <1>1, BattleInvariance, PTL DEF BattleSpec, QuietEndIsFinal
-----------------------------------------------------------------------------
(* The endings of a battle that have entered p's win and not yet raised    *)
(* p's streak.                                                             *)
Owed(p) == {r \in Requests : pc[r] = "streak" /\ winner[r] = p}

(* Why a streak stays within the wins although endings overlap: each of    *)
(* those endings has a win of its own that no streak counts yet.           *)
StreakOwed ==
    \A p \in Players :
        /\ IsFiniteSet(Owed(p))
        /\ streak[p] + Cardinality(Owed(p)) <= wins[p]

(* The step leaves every ending that owes a streak where it is.            *)
OwedKept ==
    \A r \in Requests :
        /\ pc'[r] = "streak" <=> pc[r] = "streak"
        /\ pc[r] = "streak" => winner'[r] = winner[r]

(* A set of endings that is known to be finite has a size.                 *)
LEMMA OwedSize ==
    ASSUME StreakOwed, NEW p \in Players
    PROVE  Cardinality(Owed(p)) \in Nat
BY FS_CardinalityType DEF StreakOwed

(* The same endings, no fewer wins and no longer streaks.                  *)
LEMMA StreakKept ==
    ASSUME RoomInv, StreakOwed, OwedKept,
           wins' \in [Players -> Nat], streak' \in [Players -> Nat],
           \A p \in Players : wins'[p] >= wins[p] /\ streak'[p] <= streak[p]
    PROVE  StreakOwed'
<1> SUFFICES ASSUME NEW p \in Players
             PROVE  IsFiniteSet(Owed(p)') /\ streak'[p] + Cardinality(Owed(p)') <= wins'[p]
  BY Zenon DEF StreakOwed
<1>1. Owed(p)' = Owed(p)
  BY DEF Owed, OwedKept
<1>2. \A a, b, c, d, n \in Nat : a + n <= b /\ c >= b /\ d <= a => d + n <= c
  OBVIOUS
<1>3. /\ streak[p] \in Nat /\ wins[p] \in Nat /\ streak'[p] \in Nat /\ wins'[p] \in Nat
      /\ Cardinality(Owed(p)) \in Nat
  BY OwedSize DEF RoomInv, RoomTypeOK
<1>4. IsFiniteSet(Owed(p)) /\ streak[p] + Cardinality(Owed(p)) <= wins[p]
  BY Zenon DEF StreakOwed
<1>5. streak'[p] + Cardinality(Owed(p)) <= wins'[p]
  BY <1>2, <1>3, <1>4, Zenon
<1> QED
  BY <1>1, <1>4, <1>5, Zenon

(* A handler that neither comes to nor leaves the await between the rows   *)
(* and the streak.                                                         *)
LEMMA OtherAwait ==
    ASSUME RoomInv, NEW r \in Requests, pc[r] # "streak",
           \E l \in Pcs \ {"streak"} : pc' = [pc EXCEPT ![r] = l],
           \E w : winner' \in {winner, [winner EXCEPT ![r] = w]}
    PROVE  OwedKept
BY DEF OwedKept, RoomInv, RoomTypeOK

(* endBattle enters the rows: the winner gains a win and owes a streak, or *)
(* a row update fails and endBattle gives up.                              *)
LEMMA StatsOwed ==
    ASSUME RoomInv, StreakOwed, NEW r \in Requests, UpdateBattleStats(r)
    PROVE  StreakOwed'
<1>0. PICK w \in Players : w = winner[r]
  BY DEF UpdateBattleStats, RoomInv, EndingIsDeserved
<1>1. PICK l \in Players : l = Opponent(w) /\ w # l
  BY OpponentType, Zenon
<1>2. PICK ok \in SUBSET {w, l} :
         /\ wins' = IF w \in ok THEN [wins EXCEPT ![w] = @ + 1] ELSE wins
         /\ IF ok = {w, l}
              THEN Await(r, "streak", None) /\ UNCHANGED <<lockVars, winner>>
              ELSE EndError(r)
  BY <1>0, <1>1, Zenon DEF UpdateBattleStats
<1>3. pc[r] = "stats" /\ streak' = streak
  BY DEF UpdateBattleStats
<1>4. wins \in [Players -> Nat] /\ streak \in [Players -> Nat]
      /\ pc \in [Requests -> Pcs] /\ winner \in [Requests -> Players \cup {None}]
  BY Zenon DEF RoomInv, RoomTypeOK
<1>5. CASE ok = {w, l}
  <2>1. /\ pc' = [pc EXCEPT ![r] = "streak"] /\ winner' = winner
        /\ wins' = [wins EXCEPT ![w] = @ + 1]
    BY <1>2, <1>5 DEF Await
  <2>2. Owed(w)' = Owed(w) \cup {r} /\ r \notin Owed(w)
    BY <1>0, <1>3, <1>4, <2>1, Zenon DEF Owed
  <2>3. \A p \in Players \ {w} : Owed(p)' = Owed(p)
    BY <1>0, <1>3, <1>4, <2>1, Zenon DEF Owed
  <2>4. ASSUME NEW p \in Players
        PROVE  IsFiniteSet(Owed(p)') /\ streak'[p] + Cardinality(Owed(p)') <= wins'[p]
    <3>1. IsFiniteSet(Owed(p)) /\ streak[p] + Cardinality(Owed(p)) <= wins[p]
      BY DEF StreakOwed
    <3>2. CASE p = w
      <4>1. IsFiniteSet(Owed(w)') /\ Cardinality(Owed(w)') = Cardinality(Owed(w)) + 1
        BY <2>2, <3>1, <3>2, FS_AddElement, SMTT(30)
      <4>2. wins'[w] = wins[w] + 1
        BY <1>1, <1>4, <2>1, Zenon
      <4>3. \A a, b, n \in Nat : a + n <= b => a + (n + 1) <= b + 1
        OBVIOUS
      <4>4. streak[w] \in Nat /\ wins[w] \in Nat /\ Cardinality(Owed(w)) \in Nat
        BY <1>1, <1>4, OwedSize, Zenon
      <4>5. streak[w] + (Cardinality(Owed(w)) + 1) <= wins[w] + 1
        BY <3>1, <3>2, <4>3, <4>4, Zenon
      <4>6. streak'[w] + Cardinality(Owed(w)') <= wins'[w]
        BY <1>3, <4>1, <4>2, <4>5, Zenon
      <4> QED
        BY <3>2, <4>1, <4>6, Zenon
    <3>3. CASE p # w
      <4>1. Owed(p)' = Owed(p) /\ wins'[p] = wins[p]
        BY <1>4, <2>1, <2>3, <3>3, Zenon
      <4> QED
        BY <1>3, <3>1, <4>1, Zenon
    <3> QED
      BY <3>2, <3>3
  <2> QED
    BY <2>4 DEF StreakOwed
<1>6. CASE ok # {w, l}
  <2>1. OwedKept
    BY <1>2, <1>3, <1>4, <1>6, Zenon DEF EndError, Finish, Await, OwedKept
  <2>2. wins' \in [Players -> Nat] /\ \A p \in Players : wins'[p] >= wins[p]
    BY <1>1, <1>2, <1>4, SMTT(30)
  <2>3. streak' \in [Players -> Nat] /\ \A p \in Players : streak'[p] <= streak[p]
    BY <1>3, <1>4, SMTT(30)
  <2> QED
    BY <2>1, <2>2, <2>3, StreakKept, Zenon
<1> QED
  BY <1>5, <1>6, Zenon

(* The streak grows by the win that was owed to it, or the query fails and *)
(* the win is never counted.                                               *)
LEMMA IncrementOwed ==
    ASSUME RoomInv, StreakOwed, NEW r \in Requests, IncrementWinStreak(r)
    PROVE  StreakOwed'
<1>0. PICK w \in Players : w = winner[r]
  BY Zenon DEF IncrementWinStreak, RoomInv, EndingIsDeserved
<1>1. pc[r] = "streak" /\ wins' = wins
  BY Zenon DEF IncrementWinStreak
<1>2. /\ streak' \in {streak, [streak EXCEPT ![w] = @ + 1]}
      /\ pc' \in {[pc EXCEPT ![r] = "reset"], [pc EXCEPT ![r] = "out"]}
      /\ winner' \in {winner, [winner EXCEPT ![r] = None]}
  BY <1>0, Zenon DEF IncrementWinStreak, EndError, Finish, Await
<1>3. wins \in [Players -> Nat] /\ streak \in [Players -> Nat]
      /\ pc \in [Requests -> Pcs] /\ winner \in [Requests -> Players \cup {None}]
  BY DEF RoomInv, RoomTypeOK
<1>4. Owed(w)' = Owed(w) \ {r} /\ r \in Owed(w)
  BY <1>0, <1>1, <1>2, <1>3, SMTT(30) DEF Owed
<1>5. \A p \in Players \ {w} : Owed(p)' = Owed(p)
  BY <1>0, <1>1, <1>2, <1>3, Zenon DEF Owed
<1>6. ASSUME NEW p \in Players
      PROVE  IsFiniteSet(Owed(p)') /\ streak'[p] + Cardinality(Owed(p)') <= wins'[p]
  <2>1. IsFiniteSet(Owed(p)) /\ streak[p] + Cardinality(Owed(p)) <= wins[p]
    BY Zenon DEF StreakOwed
  <2>2. CASE p = w
    <3>1. IsFiniteSet(Owed(w)') /\ Cardinality(Owed(w)') = Cardinality(Owed(w)) - 1
      BY <1>4, <2>1, <2>2, FS_RemoveElement, Zenon
    <3>2. streak'[w] = streak[w] \/ streak'[w] = streak[w] + 1
      BY <1>1, <1>2, <1>3, Zenon
    <3>3. \A a, b, n \in Nat : a + n <= b => a + (n - 1) <= b /\ (a + 1) + (n - 1) <= b
      OBVIOUS
    <3>4. streak[w] \in Nat /\ wins[w] \in Nat /\ Cardinality(Owed(w)) \in Nat
      BY <1>1, <1>3, OwedSize, Zenon
    <3>5. /\ streak[w] + (Cardinality(Owed(w)) - 1) <= wins[w]
          /\ (streak[w] + 1) + (Cardinality(Owed(w)) - 1) <= wins[w]
      BY <2>1, <2>2, <3>3, <3>4, Zenon
    <3>6. streak'[w] + Cardinality(Owed(w)') <= wins'[w]
      BY <1>1, <3>1, <3>2, <3>5, Zenon
    <3> QED
      BY <2>2, <3>1, <3>6, Zenon
  <2>3. CASE p # w
    <3>1. Owed(p)' = Owed(p) /\ streak'[p] = streak[p]
      BY <1>2, <1>3, <1>5, <2>3, Zenon
    <3> QED
      BY <1>1, <2>1, <3>1, Zenon
  <2> QED
    BY <2>2, <2>3, Zenon
<1> QED
  BY <1>6, Zenon DEF StreakOwed

(* Every other step of a handler keeps the rows, or takes a streak back.   *)
LEMMA HandlerOwed ==
    ASSUME RoomInv, StreakOwed, NEW r \in Requests, GetBattle(r) \/ Proceed(r) \/ Fault(r)
    PROVE  StreakOwed'
<1>1. ASSUME pc[r] # "streak", UNCHANGED <<wins, streak>>,
             \E l \in Pcs \ {"streak"} : pc' = [pc EXCEPT ![r] = l],
             \E w : winner' \in {winner, [winner EXCEPT ![r] = w]}
      PROVE  StreakOwed'
  <2>1. OwedKept
    BY <1>1, OtherAwait, Zenon
  <2>2. /\ wins' \in [Players -> Nat] /\ streak' \in [Players -> Nat]
        /\ \A p \in Players : wins'[p] >= wins[p] /\ streak'[p] <= streak[p]
    BY <1>1 DEF RoomInv, RoomTypeOK
  <2> QED
    BY <2>1, <2>2, StreakKept
<1> DEFINE To(l) == pc[r] # "streak" /\ pc' = [pc EXCEPT ![r] = l]
                    /\ UNCHANGED <<wins, streak>>
                    /\ \E w : winner' \in {winner, [winner EXCEPT ![r] = w]}
<1>2. ASSUME NEW l \in Pcs \ {"streak"}, To(l)
      PROVE  StreakOwed'
  BY <1>1, <1>2, Zenon
<1>3. CASE GetBattle(r)
  <2>1. To("check")
    BY <1>3, Zenon DEF GetBattle, Await, statsVars
  <2> QED
    BY <1>2, <2>1, Zenon DEF Pcs
<1>4. CASE SubmitStep(r)
  <2>1. To("out") \/ To("problem") \/ To("judge") \/ To("users") \/ To("stats") \/ To("restore")
    BY <1>4, Zenon
    DEF SubmitStep, SubmitCheck, ProblemFound, ProblemMissing, SubmitJudged, SubmitSettled,
        CatchRead, CatchRestore, SaveThenAwait, EndBattle, Finish, Await, statsVars
  <2> QED
    BY <1>2, <2>1 DEF Pcs
<1>5. CASE HandleForfeit(r) \/ HandleGraceTimeout(r) \/ StartCountdown(r) \/ CountdownOver(r)
  <2>1. To("out") \/ To("stats") \/ To("countdown")
    BY <1>5, Zenon
    DEF HandleForfeit, HandleGraceTimeout, StartCountdown, CountdownOver, Concede, EndBattle,
        TurnedAway, SaveThenAwait, Finish, Await, statsVars
  <2> QED
    BY <1>2, <2>1, Zenon DEF Pcs
<1>6. CASE SubmitFails(r) \/ CatchFails(r) \/ ConcedeFails(r)
  <2>1. To("out") \/ To("catch")
    BY <1>6 DEF SubmitFails, CatchFails, ConcedeFails, TurnedAway, Finish, Await, statsVars
  <2> QED
    BY <1>2, <2>1, Zenon DEF Pcs
<1>7. CASE CleanUp(r)
  <2>1. To("out")
    BY <1>7, Zenon DEF CleanUp, Finish, Await, statsVars
  <2> QED
    BY <1>2, <2>1, Zenon DEF Pcs
<1>8. CASE ResetWinStreak(r)
  <2>1. /\ pc[r] # "streak" /\ wins' = wins
        /\ \E l \in {"cleanup", "out"} : pc' = [pc EXCEPT ![r] = l]
        /\ winner' = [winner EXCEPT ![r] = None]
        /\ streak' \in {streak, [streak EXCEPT ![Opponent(winner[r])] = 0]}
    BY <1>8 DEF ResetWinStreak, EndError, Finish, Await
  <2>2. OwedKept
    BY <2>1, OtherAwait, Zenon DEF Pcs
  <2>3. /\ wins' \in [Players -> Nat] /\ streak' \in [Players -> Nat]
        /\ \A p \in Players : wins'[p] >= wins[p] /\ streak'[p] <= streak[p]
    BY <2>1, SMTT(30) DEF RoomInv, RoomTypeOK
  <2> QED
    BY <2>2, <2>3, StreakKept
<1>9. CASE UpdateBattleStats(r) \/ IncrementWinStreak(r)
  BY <1>9, StatsOwed, IncrementOwed, Zenon
<1> QED
  BY <1>3, <1>4, <1>5, <1>6, <1>7, <1>8, <1>9, Zenon DEF Proceed, Fault, EndBattleStep

(* Every step of the system; a crash forgets what was owed, and the wins   *)
(* stay.                                                                   *)
LEMMA StreakStep ==
    ASSUME RoomInv, StreakOwed, [BattleNext]_vars
    PROVE  StreakOwed'
<1>1. ASSUME OwedKept, UNCHANGED <<wins, streak>>
      PROVE  StreakOwed'
  <2>1. /\ wins' \in [Players -> Nat] /\ streak' \in [Players -> Nat]
        /\ \A p \in Players : wins'[p] >= wins[p] /\ streak'[p] <= streak[p]
    BY <1>1, SMTT(30) DEF RoomInv, RoomTypeOK
  <2> QED
    BY <1>1, <2>1, StreakKept, Zenon
<1>2. ASSUME NEW r \in Requests, GetBattle(r) \/ Proceed(r) \/ Fault(r)
      PROVE  StreakOwed'
  BY <1>2, HandlerOwed, Zenon
<1>3. ASSUME NEW r \in Submits, SubmitLock(r)
      PROVE  StreakOwed'
  <2>1. OwedKept /\ UNCHANGED <<wins, streak>>
    BY <1>3, Zenon DEF SubmitLock, OwedKept, Requests, statsVars, RoomInv, RoomTypeOK
  <2> QED
    BY <1>1, <2>1, Zenon
<1>4. CASE UNCHANGED <<pc, winner, statsVars>>
  BY <1>1, <1>4, Zenon DEF OwedKept, statsVars
<1>5. CASE Crash
  <2>1. \A p \in Players : Owed(p)' = {}
    BY <1>5, Zenon DEF Crash, Owed
  <2>2. UNCHANGED <<wins, streak>>
    BY <1>5, Zenon DEF Crash, statsVars
  <2>3. ASSUME NEW p \in Players
        PROVE  IsFiniteSet(Owed(p)') /\ streak'[p] + Cardinality(Owed(p)') <= wins'[p]
    <3>1. streak[p] \in Nat /\ wins[p] \in Nat /\ Cardinality(Owed(p)) \in Nat
      BY OwedSize, Zenon DEF RoomInv, RoomTypeOK
    <3>2. streak[p] + Cardinality(Owed(p)) <= wins[p]
      BY DEF StreakOwed
    <3>3. \A a, b, n \in Nat : a + n <= b => a + 0 <= b
      BY SMTT(30)
    <3>4. streak[p] + 0 <= wins[p]
      BY <3>1, <3>2, <3>3, Zenon
    <3> QED
      BY <2>1, <2>2, <3>4, FS_EmptySet, Zenon
  <2> QED
    BY <2>3, Zenon DEF StreakOwed
<1>6. CASE Clock \/ TimerFails \/ Boot \/ CheckOrphanedBattles \/ BattleExpires
  BY <1>4, <1>6, Zenon
  DEF Clock, AutoCountdown, StartBattle, TimerTick, TimerCheck, TimerFails, Boot,
      CheckOrphanedBattles, BattleExpires
<1>7. CASE UNCHANGED battleVars
  BY <1>4, <1>7 DEF battleVars, statsVars
<1> QED
  BY <1>2, <1>3, <1>5, <1>6, <1>7, Zenon DEF BattleNext, LockExpires, vars

(* A win streak counts recorded wins however many endings of the battle    *)
(* overlap, fail half-way or are cut off by a crash.                       *)
THEOREM StreaksCountWins == BattleSpec => []StreakWithinWins
<1>1. BattleInit => StreakOwed
  <2> SUFFICES ASSUME BattleInit, NEW p \in Players
               PROVE  IsFiniteSet(Owed(p)) /\ streak[p] + Cardinality(Owed(p)) <= wins[p]
    BY Zenon DEF StreakOwed
  <2>1. Owed(p) = {} /\ streak[p] = 0 /\ wins[p] = 0
    BY DEF BattleInit, Owed
  <2> QED
    BY <2>1, FS_EmptySet, SMTT(30)
<1>2. BattleInv /\ StreakOwed /\ [BattleNext]_vars => StreakOwed'
  BY StreakStep, Zenon DEF BattleInv
<1>3. BattleInv /\ StreakOwed => StreakWithinWins
  <2> SUFFICES ASSUME BattleInv, StreakOwed, NEW p \in Players
               PROVE  streak[p] <= wins[p]
    BY Zenon DEF StreakWithinWins
  <2>1. streak[p] \in Nat /\ wins[p] \in Nat /\ Cardinality(Owed(p)) \in Nat
    BY OwedSize, Zenon DEF BattleInv, RoomInv, RoomTypeOK
  <2>2. \A a, b, n \in Nat : a + n <= b => a <= b
    OBVIOUS
  <2> QED
    BY <2>1, <2>2, Zenon DEF StreakOwed
<1> QED
  BY <1>1, <1>2, <1>3, BattleInvariance, PTL DEF BattleSpec
(* While no query is rejected and the server stays up, a quiet room that   *)
(* shows a player at 0 HP has entered a result, whichever of the           *)
(* overlapping writers wrote last.                                         *)
THEOREM ZeroHpEntersResult ==
    ASSUME ~DbMayFail, ~RedisMayFail
    PROVE  BattleSpec => [](crashes = 0 => ZeroHpIsSettled)
<1>1. BattleInit => ZeroIsSettling
  <2>1. BattleInit => ~ZeroSeen
    BY NewShowsNoZero DEF BattleInit, ZeroSeen, ShowsZero, Statuses
  <2> QED
    BY <2>1 DEF BattleInit, ZeroIsSettling
<1>2. BattleInv /\ ZeroIsSettling /\ [BattleNext]_vars => ZeroIsSettling'
  BY ZeroStep, Zenon DEF BattleInv
<1>3. ZeroIsSettling => (crashes = 0 => ZeroHpIsSettled)
  BY DEF ZeroIsSettling, ZeroHpIsSettled, Quiet, ZeroSeen, Settling, ShowsZero, SomeoneDown
<1> QED
  BY <1>1, <1>2, <1>3, BattleInvariance, PTL DEF BattleSpec
=============================================================================
