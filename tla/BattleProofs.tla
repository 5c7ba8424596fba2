---------------------------- MODULE BattleProofs ----------------------------
(***************************************************************************)
(* For any requests, HP, damages and time limit, with faults and crashes:  *)
(* stale whole-record writes never invent damage, no loss is entered       *)
(* without a cause, and the room implements BattleLedger; and without      *)
(* faults whoever writes 0 HP goes on to endBattle.                        *)
(***************************************************************************)
EXTENDS Battle, SubmissionLockProofs

(* A handler that will save its object again still holds one.              *)
CopyHeld ==
    \A r \in Requests :
        pc[r] \in {"problem", "judge", "users", "countdown"} => copy[r] \in Record

(* A handler inside endBattle has picked a winner whose opponent is beaten.*)
EndingIsDeserved ==
    \A r \in Requests :
        pc[r] \in {"stats", "streak", "reset"}
            => winner[r] \in Players /\ Ledger!Beaten(Opponent(winner[r]))

(* The timer counts from 0 and its interval is gone once the limit is met. *)
TicksBounded ==
    /\ timer = "off" => ticks = 0
    /\ timer = "idle" => ticks < TimeLimitTicks
    /\ auto \in {"match", "countdown"} => timer = "off"

RoomInv ==
    /\ RoomTypeOK
    /\ TicksBounded
    /\ CopyHeld
    /\ HpAccounted
    /\ EndingIsDeserved
    /\ DeservedLoss

BattleInv == LockInv /\ RoomInv

-----------------------------------------------------------------------------
(* Facts about the records that handlers write.                            *)

(* The opponent of a player is the other player.                           *)
LEMMA OpponentType ==
    /\ \A p : Opponent(p) \in Players
    /\ \A p \in Players : Opponent(Opponent(p)) = p /\ Opponent(p) # p
BY BattleAssumption DEF Opponent, Players

(* createMatch builds a well-typed record with full HP on both sides.      *)
LEMMA NewBattleType ==
    NewBattle \in Record /\ \A p \in Players : NewBattle.hp[p] = InitialHp
<1>1. InitialHp \in 0..InitialHp
  BY BattleAssumption
<1>2. [p \in Players |-> InitialHp] \in [Players -> 0..InitialHp]
  BY <1>1
<1> QED
  BY <1>2 DEF NewBattle, Record, Statuses

(* Changing the status and stamping the heartbeat keeps the HP.            *)
LEMMA StatusUpdate ==
    ASSUME NEW b \in Record, NEW s \in Statuses
    PROVE  LET c == [b EXCEPT !.status = s] IN
           /\ c \in Record /\ c.hp = b.hp /\ c.status = s
           /\ Stamped(c) \in Record /\ Stamped(c).hp = b.hp /\ Stamped(c).status = s
BY Zenon DEF Record, Stamped

(* A hit lowers the HP of its target, not below 0, and nothing else.       *)
LEMMA HitUpdate ==
    ASSUME NEW b \in Record, NEW t \in Players, NEW d \in Nat
    PROVE  LET c == Stamped([b EXCEPT !.status = "ACTIVE", !.hp[t] = Hit(@, d)]) IN
           /\ c \in Record
           /\ \A p \in Players : c.hp[p] = IF p = t THEN Hit(b.hp[p], d) ELSE b.hp[p]
<1> DEFINE h == [b.hp EXCEPT ![t] = Hit(@, d)]
           c == Stamped([b EXCEPT !.status = "ACTIVE", !.hp[t] = Hit(@, d)])
<1>1. b.hp \in [Players -> 0..InitialHp] /\ InitialHp \in Nat
  BY BattleAssumption DEF Record
<1>2. Hit(b.hp[t], d) \in 0..InitialHp
  BY <1>1 DEF Hit
<1>3. h \in [Players -> 0..InitialHp]
  BY <1>1, <1>2
<1>4. c = Stamped([[b EXCEPT !.status = "ACTIVE"] EXCEPT !.hp = h])
  <2>1. [b EXCEPT !.status = "ACTIVE", !.hp[t] = Hit(@, d)]
          = [[b EXCEPT !.status = "ACTIVE"] EXCEPT !.hp = h]
    BY DEF Record
  <2> QED
    BY <2>1
<1>5. \A p \in Players : h[p] = IF p = t THEN Hit(b.hp[p], d) ELSE b.hp[p]
  BY <1>1
<1> HIDE DEF h, c
<1>6. c \in Record /\ c.hp = h
  BY <1>3, <1>4, Zenon DEF Record, Statuses, Stamped
<1> QED
  BY <1>5, <1>6 DEF c

(* A room that createMatch has just saved.                                 *)
LEMMA InitRoom == BattleInit => RoomInv
<1> SUFFICES ASSUME BattleInit PROVE RoomInv
  OBVIOUS
<1> USE BattleAssumption, NewBattleType DEF BattleInit
<1>1. RoomTypeOK
  <2>1. battle \in Record \cup {None} /\ timerCopy \in Record \cup {None}
    OBVIOUS
  <2>2. /\ pc \in [Requests -> Pcs]
        /\ copy \in [Requests -> Record \cup {None}]
        /\ winner \in [Requests -> Players \cup {None}]
    BY DEF Pcs
  <2>3. ticks \in 0..TimeLimitTicks /\ crashes \in 0..MaxCrashes
    OBVIOUS
  <2> QED
    BY <2>1, <2>2, <2>3, Zenon DEF RoomTypeOK
<1>2. CopyHeld
  BY DEF CopyHeld
<1>3. HpAccounted
  BY DEF HpAccounted, HpIsAccounted, NewBattle
<1>4. EndingIsDeserved /\ DeservedLoss
  BY DEF EndingIsDeserved, DeservedLoss
<1>5. TicksBounded
  BY DEF TicksBounded
<1> QED
  BY <1>1, <1>2, <1>3, <1>4, <1>5 DEF RoomInv
-----------------------------------------------------------------------------
(***************************************************************************)
(* A step of one handler can be judged by what it does to its own pc, copy *)
(* and winner, to the record and to the losses.                            *)
(***************************************************************************)

OnlyHandler(r) ==
    /\ pc' = [pc EXCEPT ![r] = pc'[r]]
    /\ copy' = [copy EXCEPT ![r] = copy'[r]]
    /\ winner' = [winner EXCEPT ![r] = winner'[r]]
    /\ UNCHANGED clockVars

HistoryGrows ==
    /\ dealt' \in [Players -> Nat]
    /\ \A p \in Players : dealt'[p] >= dealt[p]
    /\ conceded' \in SUBSET Players /\ conceded \subseteq conceded'
    /\ orphaned' \in BOOLEAN /\ (orphaned => orphaned')

StatsTyped ==
    /\ wins' \in [Players -> Nat]
    /\ losses' \in [Players -> Nat]
    /\ streak' \in [Players -> Nat]

WellPlaced(r) ==
    /\ pc[r] \in Pcs
    /\ copy[r] \in Record \cup {None}
    /\ winner[r] \in Players \cup {None}
    /\ pc[r] \in {"problem", "judge", "users", "countdown"} => copy[r] \in Record
    /\ \A p \in Players : HpIsAccounted(copy[r], p)
    /\ pc[r] \in {"stats", "streak", "reset"}
         => winner[r] \in Players /\ Ledger!Beaten(Opponent(winner[r]))

StoreSound ==
    /\ battle \in Record \cup {None}
    /\ \A p \in Players : HpIsAccounted(battle, p)

(* More damage, concessions or write-offs never contradict an accounted    *)
(* record, a deserved ending or a deserved loss.                           *)
LEMMA HistoryMonotone ==
    ASSUME RoomInv, HistoryGrows
    PROVE  \A p \in Players :
             /\ Ledger!Beaten(p) => Ledger!Beaten(p)'
             /\ \A b \in Record \cup {None} :
                  HpIsAccounted(b, p)
                    => (b # None => \/ b.hp[p] + dealt'[p] >= InitialHp
                                    \/ p \in conceded' \/ orphaned')
BY BattleAssumption DEF RoomInv, RoomTypeOK, HistoryGrows, HpIsAccounted, Record,
                        Ledger!Beaten

(* A sound step of one handler preserves the whole invariant.              *)
LEMMA HandlerStep ==
    ASSUME RoomInv, NEW r \in Requests, OnlyHandler(r), HistoryGrows, StatsTyped,
           WellPlaced(r)', StoreSound', DeservedLoss'
    PROVE  RoomInv'
<1> USE DEF RoomInv, OnlyHandler
<1>1. RoomTypeOK'
  BY DEF RoomTypeOK, HistoryGrows, StatsTyped, WellPlaced, StoreSound, clockVars, timerVars
<1>2. CopyHeld'
  BY DEF CopyHeld, WellPlaced, RoomTypeOK
<1>3. HpAccounted'
  <2>1. ASSUME NEW p \in Players PROVE HpIsAccounted(timerCopy, p)'
    BY <2>1, HistoryMonotone DEF HpAccounted, RoomTypeOK, clockVars, timerVars, HpIsAccounted
  <2>2. ASSUME NEW p \in Players, NEW s \in Requests PROVE HpIsAccounted(copy[s], p)'
    <3>1. CASE s = r
      BY <3>1 DEF WellPlaced
    <3>2. CASE s # r
      <4>1. copy'[s] = copy[s] /\ copy[s] \in Record \cup {None}
        BY <3>2 DEF RoomTypeOK
      <4> QED
        BY <2>2, <4>1, HistoryMonotone DEF HpAccounted, HpIsAccounted
    <3> QED
      BY <3>1, <3>2
  <2> QED
    BY <2>1, <2>2 DEF HpAccounted, StoreSound
<1>4. EndingIsDeserved'
  <2> SUFFICES ASSUME NEW s \in Requests, pc'[s] \in {"stats", "streak", "reset"}
               PROVE  winner'[s] \in Players /\ Ledger!Beaten(Opponent(winner[s]))'
    BY DEF EndingIsDeserved
  <2>1. CASE s = r
    BY <2>1 DEF WellPlaced
  <2>2. CASE s # r
    <3>1. pc'[s] = pc[s] /\ winner'[s] = winner[s]
      BY <2>2 DEF RoomTypeOK
    <3>2. winner[s] \in Players /\ Ledger!Beaten(Opponent(winner[s]))
      BY <3>1 DEF EndingIsDeserved
    <3>3. Opponent(winner[s]) \in Players
      BY OpponentType
    <3>4. Opponent(winner[s])' = Opponent(winner[s])
      BY <3>1 DEF Opponent
    <3> QED
      BY <3>1, <3>2, <3>3, <3>4, HistoryMonotone DEF Ledger!Beaten
  <2> QED
    BY <2>1, <2>2
<1>5. TicksBounded'
  BY DEF TicksBounded, clockVars, timerVars
<1> QED
  BY <1>1, <1>2, <1>3, <1>4, <1>5
-----------------------------------------------------------------------------
(* A handler that only moves on, holding nothing or what it or the store   *)
(* already holds, and writes neither the record nor the losses.            *)
LEMMA MoveOn ==
    ASSUME RoomInv, NEW r \in Requests, NEW l \in Pcs,
           \/ Await(r, l, None) \/ Await(r, l, battle) \/ Await(r, l, copy[r]),
           l \notin {"stats", "streak", "reset"},
           l \in {"problem", "judge", "users", "countdown"} => copy'[r] \in Record,
           winner' \in {winner, [winner EXCEPT ![r] = None]},
           UNCHANGED <<clockVars, historyVars, losses>>, StatsTyped,
           battle' \in {battle, None}
    PROVE  RoomInv'
<1>1. OnlyHandler(r) /\ HistoryGrows
  BY DEF RoomInv, RoomTypeOK, Await, OnlyHandler, HistoryGrows, historyVars
<1>2. WellPlaced(r)'
  BY DEF RoomInv, RoomTypeOK, Await, WellPlaced, HpAccounted, HpIsAccounted, historyVars
<1>3. StoreSound' /\ DeservedLoss'
  BY DEF RoomInv, RoomTypeOK, StoreSound, HpAccounted, HpIsAccounted, DeservedLoss, historyVars
<1> QED
  BY <1>1, <1>2, <1>3, HandlerStep

(* A handler that saves its object under another status, and keeps it or   *)
(* lets it go.                                                             *)
LEMMA SaveStatus ==
    ASSUME RoomInv, NEW r \in Requests, NEW l \in Pcs, NEW s \in Statuses,
           copy[r] \in Record,
           SaveBattleState([copy[r] EXCEPT !.status = s]),
           \/ Await(r, l, None)
           \/ Await(r, l, Stamped([copy[r] EXCEPT !.status = s])),
           l \notin {"stats", "streak", "reset"},
           l \in {"problem", "judge", "users", "countdown"} => copy'[r] # None,
           UNCHANGED <<winner, clockVars, historyVars, statsVars>>
    PROVE  RoomInv'
<1> DEFINE c == Stamped([copy[r] EXCEPT !.status = s])
<1>1. c \in Record /\ c.hp = copy[r].hp
  BY StatusUpdate
<1>2. copy[r] # None /\ battle' = c
  BY NilAssumption DEF SaveBattleState
<1>3. copy'[r] \in {None, c}
  BY DEF RoomInv, RoomTypeOK, Await
<1> HIDE DEF c
<1>4. OnlyHandler(r) /\ HistoryGrows /\ StatsTyped
  BY DEF RoomInv, RoomTypeOK, Await, OnlyHandler, HistoryGrows, StatsTyped,
         historyVars, statsVars
<1>5. ASSUME NEW p \in Players
      PROVE  c.hp[p] + dealt[p] >= InitialHp \/ p \in conceded \/ orphaned
  BY <1>1, <1>2 DEF RoomInv, HpAccounted, HpIsAccounted
<1>6. WellPlaced(r)'
  BY <1>1, <1>3, <1>5 DEF RoomInv, RoomTypeOK, Await, WellPlaced, HpIsAccounted, historyVars
<1>7. StoreSound' /\ DeservedLoss'
  BY <1>1, <1>2, <1>5 DEF RoomInv, StoreSound, HpIsAccounted, DeservedLoss, historyVars, statsVars
<1> QED
  BY <1>4, <1>6, <1>7, HandlerStep

(* endBattle with an object b that accounts for the HP by now, and a       *)
(* winner whose opponent is beaten by now.                                 *)
LEMMA EndBattleInv ==
    ASSUME RoomInv, NEW r \in Requests, NEW b \in Record, NEW w \in Players,
           EndBattle(r, b, w), HistoryGrows,
           \A p \in Players : \/ b.hp[p] + dealt'[p] >= InitialHp
                              \/ p \in conceded' \/ orphaned',
           \/ dealt'[Opponent(w)] >= InitialHp
           \/ Opponent(w) \in conceded' \/ orphaned',
           UNCHANGED <<clockVars, statsVars>>
    PROVE  RoomInv'
<1> DEFINE c == Stamped([b EXCEPT !.status = "ENDED"])
<1>1. c \in Record /\ c.hp = b.hp
  BY StatusUpdate, Zenon DEF Statuses
<1>2. battle' = c
  BY DEF EndBattle, SaveBattleState
<1> HIDE DEF c
<1>3. OnlyHandler(r) /\ StatsTyped
  BY DEF RoomInv, RoomTypeOK, EndBattle, Await, OnlyHandler, StatsTyped, statsVars
<1>4. pc'[r] = "stats" /\ copy'[r] = None /\ winner'[r] = w
  BY DEF RoomInv, RoomTypeOK, EndBattle, Await
<1>5. WellPlaced(r)'
  BY <1>4 DEF WellPlaced, Pcs, HpIsAccounted, Ledger!Beaten, Opponent
<1>6. StoreSound'
  BY <1>1, <1>2 DEF StoreSound, HpIsAccounted
<1>7. DeservedLoss'
  BY HistoryMonotone DEF RoomInv, DeservedLoss, HistoryGrows, RoomTypeOK, statsVars, Ledger!Beaten
<1> QED
  BY <1>3, <1>5, <1>6, <1>7, HandlerStep
-----------------------------------------------------------------------------
(* handleSubmit: refusing, judging, settling and the catch block.          *)
LEMMA SubmitStepInv ==
    ASSUME RoomInv, NEW r \in Submits, SubmitStep(r) \/ SubmitFails(r) \/ CatchFails(r)
    PROVE  RoomInv'
<1> USE NilAssumption DEF Requests
<1>0. r \in Requests /\ (UNCHANGED statsVars => StatsTyped)
  BY DEF RoomInv, RoomTypeOK, StatsTyped, statsVars
<1>1. CASE SubmitCheck(r)
  <2>1. CASE ~Accepted(r)
    BY <1>0, <1>1, <2>1, MoveOn DEF SubmitCheck, Finish, Pcs, statsVars
  <2>2. CASE Accepted(r)
    <3>1. copy[r] \in Record
      BY <2>2 DEF Accepted, Has, RoomInv, RoomTypeOK
    <3>2. copy'[r] = Stamped([copy[r] EXCEPT !.status = "JUDGING"])
      BY <1>1, <2>2 DEF SubmitCheck, SaveThenAwait, Await, RoomInv, RoomTypeOK
    <3>3. Stamped([copy[r] EXCEPT !.status = "JUDGING"]) \in Record
      BY <3>1, StatusUpdate, Zenon DEF Statuses
    <3>4. copy'[r] # None
      BY <3>2, <3>3
    <3> QED
      BY <1>1, <2>2, <3>1, <3>4, SaveStatus, Zenon
      DEF SubmitCheck, SaveThenAwait, Pcs, Statuses
  <2> QED
    BY <2>1, <2>2
<1>2. CASE ProblemFound(r)
  <2>1. copy'[r] \in Record
    BY <1>2 DEF ProblemFound, Await, RoomInv, RoomTypeOK, CopyHeld
  <2> QED
    BY <1>0, <1>2, <2>1, MoveOn DEF ProblemFound, Pcs, statsVars
<1>3. CASE ProblemMissing(r)
  <2>1. copy[r] \in Record
    BY <1>3 DEF ProblemMissing, RoomInv, CopyHeld
  <2> QED
    BY <1>3, <2>1, SaveStatus, Zenon DEF ProblemMissing, Finish, Pcs, Statuses
<1>4. CASE SubmitJudged(r)
  <2> DEFINE target == Opponent(UserOf[r])
             hit(d) == [copy[r] EXCEPT !.status = "ACTIVE", !.hp[target] = Hit(@, d)]
  <2>1. PICK d \in Damages :
           /\ SaveThenAwait(r, "users", hit(d))
           /\ dealt' = [dealt EXCEPT ![target] = @ + d]
    BY <1>4, Zenon DEF SubmitJudged
  <2>2. copy[r] \in Record /\ target \in Players /\ d \in Nat
    BY <1>4, OpponentType, BattleAssumption, Zenon DEF SubmitJudged, RoomInv, CopyHeld
  <2> HIDE DEF target
  <2>3. /\ Stamped(hit(d)) \in Record
        /\ \A p \in Players :
             Stamped(hit(d)).hp[p] = IF p = target THEN Hit(copy[r].hp[p], d)
                                                   ELSE copy[r].hp[p]
    BY <2>2, HitUpdate, Zenon
  <2>4. battle' = Stamped(hit(d)) /\ copy'[r] = Stamped(hit(d)) /\ pc'[r] = "users"
    BY <2>1 DEF SaveThenAwait, SaveBattleState, Await, RoomInv, RoomTypeOK
  <2>5. OnlyHandler(r) /\ StatsTyped
    BY <1>0, <1>4, <2>1 DEF SubmitJudged, SaveThenAwait, Await, OnlyHandler, statsVars,
                       RoomInv, RoomTypeOK
  <2>6. HistoryGrows
    <3>1. dealt' \in [Players -> Nat] /\ \A p \in Players : dealt'[p] >= dealt[p]
      BY <2>1, <2>2 DEF RoomInv, RoomTypeOK
    <3> QED
      BY <1>4, <3>1 DEF SubmitJudged, HistoryGrows, RoomInv, RoomTypeOK
  <2>7. ASSUME NEW p \in Players
        PROVE  \/ Stamped(hit(d)).hp[p] + dealt'[p] >= InitialHp
               \/ p \in conceded' \/ orphaned'
    <3>1. copy[r].hp[p] \in Nat /\ dealt[p] \in Nat /\ InitialHp \in Nat
      BY <2>2, BattleAssumption DEF Record, RoomInv, RoomTypeOK
    <3>2. copy[r].hp[p] + dealt[p] >= InitialHp \/ p \in conceded \/ orphaned
      BY <2>2 DEF RoomInv, HpAccounted, HpIsAccounted
    <3>3. dealt'[p] = IF p = target THEN dealt[p] + d ELSE dealt[p]
      BY <2>1, <2>2, Zenon DEF RoomInv, RoomTypeOK
    <3>4. Stamped(hit(d)).hp[p] + dealt'[p] >= copy[r].hp[p] + dealt[p]
      <4> HIDE DEF hit
      <4> QED
        BY <2>2, <2>3, <3>1, <3>3, SMTT(30) DEF Hit
    <3>5. Stamped(hit(d)).hp[p] \in Nat /\ dealt'[p] \in Nat
      <4> HIDE DEF hit
      <4> QED
        BY <2>2, <2>3, <3>1, <3>3 DEF Hit
    <3>6. UNCHANGED <<conceded, orphaned>>
      BY <1>4 DEF SubmitJudged
    <3> HIDE DEF hit
    <3> QED
      BY <3>1, <3>2, <3>4, <3>5, <3>6, SMTT(30)
  <2> HIDE DEF hit
  <2>8. WellPlaced(r)'
    BY <1>4, <2>3, <2>4, <2>7, Zenon DEF SubmitJudged, WellPlaced, HpIsAccounted, Pcs, RoomInv, RoomTypeOK
  <2>9. StoreSound'
    BY <2>3, <2>4, <2>7 DEF StoreSound, HpIsAccounted
  <2>10. DeservedLoss'
    BY <1>4, <2>6, HistoryMonotone
    DEF SubmitJudged, RoomInv, DeservedLoss, statsVars, Ledger!Beaten
  <2> QED
    BY <2>5, <2>6, <2>8, <2>9, <2>10, HandlerStep
<1>5. CASE SubmitSettled(r)
  <2>1. copy[r] \in Record
    BY <1>5, Zenon DEF SubmitSettled, RoomInv, CopyHeld
  <2>2. CASE SomeoneDown(copy[r])
    <3> DEFINE w == HigherHp(copy[r])
    <3>1. w \in Players /\ EndBattle(r, copy[r], w) /\ UNCHANGED <<clockVars, statsVars, historyVars>>
      BY <1>5, <2>2, Zenon DEF SubmitSettled, HigherHp, Players
    <3>2. \A p \in Players : copy[r].hp[p] \in Nat
      BY <2>1, BattleAssumption, SMTT(30) DEF Record
    <3>3. copy[r].hp[Opponent(w)] = 0
      BY <2>2, <3>2, BattleAssumption DEF SomeoneDown, HigherHp, Opponent, Players
    <3>4. Opponent(w) \in Players
      BY OpponentType
    <3> HIDE DEF w
    <3>5. \A p \in Players : copy[r].hp[p] + dealt[p] >= InitialHp \/ p \in conceded \/ orphaned
      BY <2>1, Zenon DEF RoomInv, HpAccounted, HpIsAccounted
    <3>6. dealt[Opponent(w)] >= InitialHp \/ Opponent(w) \in conceded \/ orphaned
      BY <3>3, <3>4, <3>5 DEF RoomInv, RoomTypeOK
    <3>7. HistoryGrows
      BY <3>1, SMTT(30) DEF HistoryGrows, historyVars, RoomInv, RoomTypeOK
    <3> QED
      BY <2>1, <3>1, <3>5, <3>6, <3>7, EndBattleInv, Zenon DEF historyVars
  <2>3. CASE ~SomeoneDown(copy[r])
    BY <1>0, <1>5, <2>3, MoveOn, Zenon DEF SubmitSettled, Finish, Pcs, statsVars
  <2> QED
    BY <2>2, <2>3, Zenon
<1>6. CASE CatchRead(r)
  BY <1>0, <1>6, MoveOn DEF CatchRead, Pcs, statsVars
<1>7. CASE CatchRestore(r)
  <2>1. CASE Has(copy[r], "JUDGING")
    <3>1. copy[r] \in Record
      BY <2>1 DEF Has, RoomInv, RoomTypeOK
    <3> QED
      BY <1>7, <2>1, <3>1, SaveStatus, Zenon DEF CatchRestore, Finish, Pcs, Statuses
  <2>2. CASE ~Has(copy[r], "JUDGING")
    BY <1>0, <1>7, <2>2, MoveOn DEF CatchRestore, Finish, Pcs, statsVars
  <2> QED
    BY <2>1, <2>2, Zenon
<1>8. CASE SubmitFails(r)
  BY <1>0, <1>8, MoveOn DEF SubmitFails, Pcs, statsVars
<1>9. CASE CatchFails(r)
  BY <1>0, <1>9, MoveOn DEF CatchFails, Finish, Pcs, statsVars
<1> QED
  BY <1>1, <1>2, <1>3, <1>4, <1>5, <1>6, <1>7, <1>8, <1>9 DEF SubmitStep

(* Conceding takes a player's own HP to 0 and leaves the other's.          *)
LEMMA ConcededRecord ==
    ASSUME NEW c \in Record, NEW p \in Players
    PROVE  LET b == [c EXCEPT !.hp[p] = 0] IN
           b \in Record /\ \A q \in Players : b.hp[q] = IF q = p THEN 0 ELSE c.hp[q]
<1> DEFINE b == [c EXCEPT !.hp[p] = 0]
           h == [c.hp EXCEPT ![p] = 0]
<1>1. c.hp \in [Players -> 0..InitialHp] /\ 0 \in 0..InitialHp
  BY BattleAssumption DEF Record
<1>2. h \in [Players -> 0..InitialHp]
  BY <1>1
<1>3. b = [c EXCEPT !.hp = h]
  OBVIOUS
<1>4. \A q \in Players : h[q] = IF q = p THEN 0 ELSE c.hp[q]
  BY <1>1
<1> HIDE DEF h, b
<1>5. b \in Record /\ b.hp = h
  BY <1>2, <1>3 DEF Record
<1> QED
  BY <1>4, <1>5, Zenon DEF b

(* handleForfeit and handleGraceTimeout: whoever concedes is beaten by it. *)
LEMMA ConcedeInv ==
    ASSUME RoomInv, NEW r \in Requests, UserOf[r] \in Players, copy[r] \in Record,
           Concede(r), UNCHANGED <<clockVars, statsVars, dealt, orphaned>>
    PROVE  RoomInv'
<1> DEFINE p == UserOf[r]
           b == [copy[r] EXCEPT !.hp[p] = 0]
<1>1. b \in Record /\ \A q \in Players : b.hp[q] = IF q = p THEN 0 ELSE copy[r].hp[q]
  BY ConcededRecord, Zenon
<1>2. Opponent(p) \in Players /\ Opponent(Opponent(p)) = p
  BY OpponentType
<1>3. EndBattle(r, b, Opponent(p)) /\ conceded' = conceded \cup {p}
  BY DEF Concede
<1>4. HistoryGrows
  BY <1>3 DEF HistoryGrows, RoomInv, RoomTypeOK
<1> HIDE DEF b
<1>5. \A q \in Players : b.hp[q] + dealt'[q] >= InitialHp \/ q \in conceded' \/ orphaned'
  BY <1>1, <1>3, NilAssumption DEF RoomInv, HpAccounted, HpIsAccounted
<1> QED
  BY <1>1, <1>2, <1>3, <1>4, <1>5, EndBattleInv

(* The part of endBattle after its save.                                   *)
LEMMA EndBattleStepInv ==
    ASSUME RoomInv, NEW r \in Requests, EndBattleStep(r)
    PROVE  RoomInv'
<1>1. CASE UpdateBattleStats(r)
  <2> DEFINE w == winner[r]
             l == Opponent(w)
  <2>1. w \in Players /\ l \in Players /\ Ledger!Beaten(l)
    BY <1>1, OpponentType, Zenon DEF UpdateBattleStats, RoomInv, EndingIsDeserved
  <2>2. wins' \in {wins, [wins EXCEPT ![w] = @ + 1]} /\ losses' \in {losses, [losses EXCEPT ![l] = @ + 1]}
    BY <1>1, Zenon DEF UpdateBattleStats
  <2>3. HistoryGrows /\ UNCHANGED historyVars
    BY <1>1, SMTT(30) DEF UpdateBattleStats, HistoryGrows, historyVars, RoomInv, RoomTypeOK
  <2>4. StatsTyped
    BY <1>1, <2>1, <2>2, SMTT(30) DEF UpdateBattleStats, StatsTyped, RoomInv, RoomTypeOK
  <2>5. DeservedLoss'
    BY <2>1, <2>2, <2>3, Zenon DEF DeservedLoss, historyVars, RoomInv, RoomTypeOK, Ledger!Beaten
  <2>6. /\ copy' = [copy EXCEPT ![r] = None]
        /\ \/ pc' = [pc EXCEPT ![r] = "streak"] /\ winner' = winner
           \/ pc' = [pc EXCEPT ![r] = "out"] /\ winner' = [winner EXCEPT ![r] = None]
        /\ UNCHANGED <<battle, clockVars>>
    BY <1>1 DEF UpdateBattleStats, EndError, Finish, Await
  <2>7. OnlyHandler(r)
    BY <2>6, Zenon DEF OnlyHandler, RoomInv, RoomTypeOK
  <2>8. WellPlaced(r)'
    BY <2>1, <2>3, <2>6, Zenon
    DEF WellPlaced, Pcs, HpIsAccounted, historyVars, RoomInv, RoomTypeOK, Ledger!Beaten, Opponent
  <2>9. StoreSound'
    BY <2>3, <2>6 DEF StoreSound, HpAccounted, HpIsAccounted, historyVars, RoomInv, RoomTypeOK
  <2> QED
    BY <2>3, <2>4, <2>5, <2>7, <2>8, <2>9, HandlerStep, Zenon
<1>2. CASE IncrementWinStreak(r)
  <2>1. winner[r] \in Players /\ Ledger!Beaten(Opponent(winner[r]))
    BY <1>2, Zenon DEF IncrementWinStreak, RoomInv, EndingIsDeserved
  <2>2. /\ copy' = [copy EXCEPT ![r] = None]
        /\ \/ pc' = [pc EXCEPT ![r] = "reset"] /\ winner' = winner
           \/ pc' = [pc EXCEPT ![r] = "out"] /\ winner' = [winner EXCEPT ![r] = None]
        /\ UNCHANGED <<battle, clockVars, historyVars, wins, losses>>
    BY <1>2, Zenon DEF IncrementWinStreak, EndError, Finish, Await
  <2>3. StatsTyped
    BY <1>2, <2>1, <2>2, SMTT(30) DEF IncrementWinStreak, StatsTyped, RoomInv, RoomTypeOK
  <2>4. OnlyHandler(r) /\ HistoryGrows
    BY <2>2, SMTT(30) DEF OnlyHandler, HistoryGrows, historyVars, RoomInv, RoomTypeOK
  <2>5. WellPlaced(r)'
    BY <2>1, <2>2, Zenon
    DEF WellPlaced, Pcs, HpIsAccounted, historyVars, RoomInv, RoomTypeOK, Ledger!Beaten, Opponent
  <2>6. StoreSound' /\ DeservedLoss'
    BY <2>2, Zenon DEF StoreSound, HpAccounted, HpIsAccounted, DeservedLoss, historyVars,
                RoomInv, RoomTypeOK
  <2> QED
    BY <2>3, <2>4, <2>5, <2>6, HandlerStep, Zenon
<1>3. CASE ResetWinStreak(r)
  <2>1. StatsTyped
    BY <1>3, SMTT(30) DEF ResetWinStreak, StatsTyped, RoomInv, RoomTypeOK
  <2> QED
    BY <1>3, <2>1, MoveOn, Zenon DEF ResetWinStreak, EndError, Finish, Pcs
<1>4. CASE CleanUp(r)
  <2>1. StatsTyped
    BY <1>4 DEF CleanUp, StatsTyped, statsVars, RoomInv, RoomTypeOK
  <2> QED
    BY <1>4, <2>1, MoveOn, Zenon DEF CleanUp, Finish, Pcs, statsVars
<1> QED
  BY <1>1, <1>2, <1>3, <1>4 DEF EndBattleStep

(* Every handler step preserves the invariant.                             *)
LEMMA HandlerInv ==
    ASSUME RoomInv, NEW r \in Requests, GetBattle(r) \/ Proceed(r) \/ Fault(r)
    PROVE  RoomInv'
<1>0. UNCHANGED statsVars => StatsTyped
  BY Zenon DEF RoomInv, RoomTypeOK, StatsTyped, statsVars
<1>1. CASE GetBattle(r)
  BY <1>0, <1>1, MoveOn, Zenon DEF GetBattle, Pcs, statsVars
<1>2. ASSUME r \in Submits, SubmitStep(r) \/ SubmitFails(r) \/ CatchFails(r)
      PROVE  RoomInv'
  BY <1>2, SubmitStepInv
<1>3. ASSUME r \in Forfeits, HandleForfeit(r)
      PROVE  RoomInv'
  <2>1. CASE copy[r] # None /\ UserOf[r] \in Players
    <3>1. copy[r] \in Record
      BY <2>1, Zenon DEF RoomInv, RoomTypeOK
    <3> QED
      BY <1>3, <2>1, <3>1, ConcedeInv DEF HandleForfeit
  <2>2. CASE ~(copy[r] # None /\ UserOf[r] \in Players)
    BY <1>0, <1>3, <2>2, MoveOn, Zenon DEF HandleForfeit, TurnedAway, Finish, Pcs, statsVars, historyVars
  <2> QED
    BY <2>1, <2>2, Zenon
<1>4. ASSUME r \in Graces, HandleGraceTimeout(r)
      PROVE  RoomInv'
  <2>1. CASE Has(copy[r], "ACTIVE")
    <3>1. copy[r] \in Record /\ UserOf[r] \in Players
      BY <1>4, <2>1, BattleAssumption, Zenon DEF Has, RoomInv, RoomTypeOK
    <3> QED
      BY <1>4, <2>1, <3>1, ConcedeInv, Zenon DEF HandleGraceTimeout
  <2>2. CASE ~Has(copy[r], "ACTIVE")
    BY <1>0, <1>4, <2>2, MoveOn, Zenon DEF HandleGraceTimeout, TurnedAway, Finish, Pcs, statsVars, historyVars
  <2> QED
    BY <2>1, <2>2, Zenon
<1>5. CASE ConcedeFails(r)
  BY <1>0, <1>5, MoveOn, Zenon DEF ConcedeFails, TurnedAway, Finish, Pcs, statsVars, historyVars
<1>6. CASE StartCountdown(r)
  <2>1. CASE Has(copy[r], "WAITING")
    <3>1. copy[r] \in Record
      BY <2>1 DEF Has, RoomInv, RoomTypeOK
    <3>2. copy'[r] = Stamped([copy[r] EXCEPT !.status = "COUNTDOWN"])
      BY <1>6, <2>1 DEF StartCountdown, SaveThenAwait, Await, RoomInv, RoomTypeOK
    <3>3. Stamped([copy[r] EXCEPT !.status = "COUNTDOWN"]) \in Record
      BY <3>1, StatusUpdate, Zenon DEF Statuses
    <3>4. copy'[r] # None
      BY <3>2, <3>3, NilAssumption
    <3> QED
      BY <1>6, <2>1, <3>1, <3>4, SaveStatus, Zenon DEF StartCountdown, SaveThenAwait, Pcs, Statuses
  <2>2. CASE ~Has(copy[r], "WAITING")
    BY <1>0, <1>6, <2>2, MoveOn DEF StartCountdown, Finish, Pcs, statsVars
  <2> QED
    BY <2>1, <2>2, Zenon
<1>7. CASE CountdownOver(r)
  <2>1. copy[r] \in Record
    BY <1>7 DEF CountdownOver, RoomInv, CopyHeld
  <2> QED
    BY <1>7, <2>1, SaveStatus, Zenon DEF CountdownOver, Finish, Pcs, Statuses
<1>8. CASE EndBattleStep(r)
  BY <1>8, EndBattleStepInv
<1> QED
  BY <1>1, <1>2, <1>3, <1>4, <1>5, <1>6, <1>7, <1>8, Zenon DEF Proceed, Fault
-----------------------------------------------------------------------------
(***************************************************************************)
(* Steps of the clock, of the server process and of Redis.                 *)
(***************************************************************************)

ClockTyped ==
    /\ auto \in {"match", "countdown", "started", "dead"}
    /\ timer \in {"off", "idle", "tick"}
    /\ ticks \in 0..TimeLimitTicks
    /\ timerCopy \in Record \cup {None}
    /\ server \in {"up", "down", "booting"}
    /\ crashes \in 0..MaxCrashes
    /\ announced \in Players \cup {None}
    /\ TicksBounded
    /\ \A p \in Players : HpIsAccounted(timerCopy, p)

(* A step outside the handlers that leaves the record and the timer sound. *)
LEMMA ClockStep ==
    ASSUME RoomInv, HistoryGrows, ClockTyped', StoreSound',
           UNCHANGED <<pc, copy, winner, statsVars>>
    PROVE  RoomInv'
<1> USE DEF RoomInv
<1>1. RoomTypeOK' /\ TicksBounded'
  BY DEF RoomTypeOK, ClockTyped, StoreSound, HistoryGrows, statsVars
<1>2. CopyHeld'
  BY DEF CopyHeld
<1>3. HpAccounted'
  <2>1. ASSUME NEW p \in Players, NEW s \in Requests PROVE HpIsAccounted(copy[s], p)'
    <3>1. copy'[s] = copy[s] /\ copy[s] \in Record \cup {None}
      BY Zenon DEF RoomTypeOK
    <3> QED
      BY <2>1, <3>1, HistoryMonotone, Zenon DEF HpAccounted, HpIsAccounted
  <2> QED
    BY <2>1 DEF HpAccounted, ClockTyped, StoreSound
<1>4. EndingIsDeserved'
  <2> SUFFICES ASSUME NEW s \in Requests, pc'[s] \in {"stats", "streak", "reset"}
               PROVE  winner'[s] \in Players /\ Ledger!Beaten(Opponent(winner[s]))'
    BY Zenon DEF EndingIsDeserved
  <2>1. winner[s] \in Players /\ Ledger!Beaten(Opponent(winner[s]))
    BY Zenon DEF EndingIsDeserved
  <2>2. Opponent(winner[s]) \in Players /\ Opponent(winner[s])' = Opponent(winner[s])
    BY OpponentType, SMTT(30) DEF Opponent
  <2> QED
    BY <2>1, <2>2, HistoryMonotone, Zenon DEF Ledger!Beaten
<1>5. DeservedLoss'
  <2> SUFFICES ASSUME NEW p \in Players, losses'[p] > 0
               PROVE  dealt'[p] >= InitialHp \/ p \in conceded' \/ orphaned'
    BY DEF DeservedLoss
  <2>1. Ledger!Beaten(p)
    BY Zenon DEF DeservedLoss, statsVars, Ledger!Beaten
  <2> QED
    BY <2>1, HistoryMonotone, Zenon DEF Ledger!Beaten
<1> QED
  BY <1>1, <1>2, <1>3, <1>4, <1>5

(* The countdown of createMatch and the battle timer.                      *)
LEMMA ClockInv ==
    ASSUME RoomInv, Clock \/ TimerFails
    PROVE  RoomInv'
<1> USE BattleAssumption DEF RoomInv
<1>0. UNCHANGED historyVars => HistoryGrows
  BY DEF HistoryGrows, historyVars, RoomTypeOK
<1>1. CASE AutoCountdown
  <2>1. ClockTyped'
    BY <1>1 DEF AutoCountdown, ClockTyped, TicksBounded, timerVars, RoomTypeOK, HpAccounted,
                HpIsAccounted, historyVars
  <2>2. battle' \in Record /\ battle'.hp = NewBattle.hp
    BY <1>1, NewBattleType, StatusUpdate, Zenon DEF AutoCountdown, SaveAsIs, Statuses
  <2>3. StoreSound'
    BY <1>1, <2>2, NewBattleType
    DEF AutoCountdown, StoreSound, HpIsAccounted, RoomTypeOK, historyVars
  <2> QED
    BY <1>0, <1>1, <2>1, <2>3, ClockStep DEF AutoCountdown
<1>2. CASE StartBattle
  <2>1. ClockTyped'
    BY <1>2 DEF StartBattle, ClockTyped, TicksBounded, RoomTypeOK, HpAccounted,
                HpIsAccounted, historyVars
  <2>2. battle' \in Record /\ battle'.hp = NewBattle.hp
    BY <1>2, NewBattleType, StatusUpdate, Zenon DEF StartBattle, SaveAsIs, Statuses
  <2>3. StoreSound'
    BY <1>2, <2>2, NewBattleType
    DEF StartBattle, StoreSound, HpIsAccounted, RoomTypeOK, historyVars
  <2> QED
    BY <1>0, <1>2, <2>1, <2>3, ClockStep DEF StartBattle
<1>3. CASE TimerTick
  <2>1. ClockTyped'
    BY <1>3, SMTT(30) DEF TimerTick, ClockTyped, TicksBounded, RoomTypeOK, HpAccounted,
                HpIsAccounted, historyVars
  <2>2. StoreSound'
    BY <1>3, Zenon DEF TimerTick, StoreSound, HpAccounted, HpIsAccounted, RoomTypeOK, historyVars
  <2> QED
    BY <1>0, <1>3, <2>1, <2>2, ClockStep DEF TimerTick
<1>4. CASE TimerCheck
  <2>1. timerCopy' \in {timerCopy, None} /\ ticks' \in 0..TimeLimitTicks
    BY <1>4 DEF TimerCheck, ClearInterval, RoomTypeOK
  <2>2. ClockTyped'
    BY <1>4, <2>1 DEF TimerCheck, ClearInterval, ClockTyped, TicksBounded, RoomTypeOK,
                      HpAccounted, HpIsAccounted, historyVars, Players
  <2>3. \/ battle' = battle
        \/ timerCopy \in Record /\ battle' \in Record /\ battle'.hp = timerCopy.hp
    <3>1. CASE battle' = battle
      BY <3>1
    <3>2. CASE Has(timerCopy, "ACTIVE") /\ SaveAsIs([timerCopy EXCEPT !.status = "ENDED"])
      <4>1. timerCopy \in Record
        BY <3>2 DEF Has, RoomTypeOK
      <4> QED
        BY <3>2, <4>1, StatusUpdate, Zenon DEF SaveAsIs, Statuses
    <3> QED
      BY <1>4, <3>1, <3>2 DEF TimerCheck
  <2>4. StoreSound'
    BY <1>4, <2>3, NilAssumption
    DEF TimerCheck, StoreSound, HpAccounted, HpIsAccounted, RoomTypeOK, historyVars
  <2> QED
    BY <1>0, <1>4, <2>2, <2>4, ClockStep DEF TimerCheck
<1>5. CASE TimerFails
  <2>1. ClockTyped'
    <3>1. timer' = "off" /\ ticks' = 0 /\ timerCopy' = None
      BY <1>5, Zenon DEF TimerFails, ClearInterval
    <3>2. ticks' \in 0..TimeLimitTicks
      BY <3>1
    <3>3. UNCHANGED <<auto, server, crashes, announced>>
      BY <1>5, Zenon DEF TimerFails
    <3> QED
      BY <3>1, <3>2, <3>3, Zenon DEF ClockTyped, TicksBounded, RoomTypeOK, HpIsAccounted
  <2>2. StoreSound'
    BY <1>5, Zenon DEF TimerFails, StoreSound, HpAccounted, HpIsAccounted, RoomTypeOK, historyVars
  <2> QED
    BY <1>0, <1>5, <2>1, <2>2, ClockStep DEF TimerFails
<1> QED
  BY <1>1, <1>2, <1>3, <1>4, <1>5, Zenon DEF Clock

(* Crash, restart and recovery, and the expiry of the key.                 *)
LEMMA ServerInv ==
    ASSUME RoomInv, Crash \/ Boot \/ CheckOrphanedBattles \/ BattleExpires
    PROVE  RoomInv'
<1> USE BattleAssumption DEF RoomInv
<1>0. UNCHANGED historyVars => HistoryGrows
  BY DEF HistoryGrows, historyVars, RoomTypeOK
<1>1. CASE Crash
  <2>1. RoomTypeOK' /\ TicksBounded'
    <3>1. crashes' \in 0..MaxCrashes /\ ticks' \in 0..TimeLimitTicks
      BY <1>1, SMTT(30) DEF Crash, ClearInterval, RoomTypeOK
    <3>2. /\ pc' \in [Requests -> Pcs]
          /\ copy' \in [Requests -> Record \cup {None}]
          /\ winner' \in [Requests -> Players \cup {None}]
      BY <1>1, Zenon DEF Crash, Pcs
    <3> QED
      BY <1>1, <3>1, <3>2, Zenon
      DEF Crash, ClearInterval, RoomTypeOK, TicksBounded, statsVars, historyVars
  <2>2. CopyHeld' /\ EndingIsDeserved'
    BY <1>1, Zenon DEF Crash, CopyHeld, EndingIsDeserved
  <2>3. HpAccounted' /\ DeservedLoss'
    BY <1>1, Zenon DEF Crash, ClearInterval, HpAccounted, HpIsAccounted, DeservedLoss, statsVars,
                historyVars
  <2> QED
    BY <2>1, <2>2, <2>3, Zenon
<1>2. CASE Boot
  <2>1. ClockTyped'
    BY <1>2, Zenon DEF Boot, ClockTyped, TicksBounded, timerVars, RoomTypeOK, HpAccounted,
                HpIsAccounted, historyVars
  <2>2. StoreSound'
    BY <1>2, Zenon DEF Boot, StoreSound, HpAccounted, HpIsAccounted, RoomTypeOK, historyVars
  <2> QED
    BY <1>0, <1>2, <2>1, <2>2, ClockStep, Zenon DEF Boot
<1>3. CASE CheckOrphanedBattles
  <2>1. \/ battle' = battle /\ orphaned' = orphaned
        \/ /\ battle \in Record /\ orphaned' = TRUE
           /\ battle' = [battle EXCEPT !.hp = [p \in Players |-> 0], !.status = "ENDED"]
    BY <1>3, Zenon DEF CheckOrphanedBattles, Has, RoomTypeOK
  <2>2. HistoryGrows
    <3>1. dealt' = dealt /\ conceded' = conceded
      BY <1>3, Zenon DEF CheckOrphanedBattles
    <3>2. dealt' \in [Players -> Nat] /\ \A p \in Players : dealt'[p] >= dealt[p]
      BY <3>1 DEF RoomTypeOK
    <3>3. orphaned' \in BOOLEAN /\ (orphaned => orphaned')
      BY <2>1, Zenon DEF RoomTypeOK
    <3>4. conceded' \in SUBSET Players /\ conceded \subseteq conceded'
      BY <3>1 DEF RoomTypeOK
    <3> QED
      BY <3>2, <3>3, <3>4 DEF HistoryGrows
  <2>3. ClockTyped'
    BY <1>3, <2>1 DEF CheckOrphanedBattles, ClockTyped, TicksBounded, timerVars, RoomTypeOK,
                      HpAccounted, HpIsAccounted
  <2>4. \/ battle' = battle
        \/ battle' \in Record /\ orphaned'
    <3> DEFINE z == [p \in Players |-> 0]
    <3>1. z \in [Players -> 0..InitialHp]
      OBVIOUS
    <3>2. \/ battle' = battle
          \/ /\ battle \in Record /\ orphaned'
             /\ battle' = [battle EXCEPT !.hp = z, !.status = "ENDED"]
      BY <2>1, Zenon
    <3> HIDE DEF z
    <3> QED
      BY <3>1, <3>2, Zenon DEF Record, Statuses
  <2>5. StoreSound'
    BY <1>3, <2>1, <2>4
    DEF CheckOrphanedBattles, StoreSound, HpAccounted, HpIsAccounted, RoomTypeOK
  <2> QED
    BY <1>3, <2>2, <2>3, <2>5, ClockStep DEF CheckOrphanedBattles
<1>4. CASE BattleExpires
  <2>1. ClockTyped'
    BY <1>4, Zenon DEF BattleExpires, ClockTyped, TicksBounded, clockVars, timerVars, RoomTypeOK,
                HpAccounted, HpIsAccounted, historyVars
  <2>2. StoreSound'
    BY <1>4 DEF BattleExpires, StoreSound, HpIsAccounted
  <2> QED
    BY <1>0, <1>4, <2>1, <2>2, ClockStep, Zenon DEF BattleExpires
<1> QED
  BY <1>1, <1>2, <1>3, <1>4, Zenon
-----------------------------------------------------------------------------
(* The object shows a player at 0 HP.                                      *)
ShowsZero(b) == b # None /\ SomeoneDown(b)

(* Somebody can still write such an object, or has written it.             *)
ZeroSeen ==
    \/ ShowsZero(battle)
    \/ ShowsZero(timerCopy)
    \/ \E r \in Requests : ShowsZero(copy[r])

(* A result is in the users table, or a handler is on its way to enter one.*)
Settling ==
    \/ \E p \in Players : losses[p] > 0
    \/ \E r \in Requests : \/ pc[r] = "stats"
                           \/ pc[r] = "users" /\ SomeoneDown(copy[r])

(* Why nobody is left at 0 HP without a result: whoever writes the 0 goes  *)
(* on to endBattle, whatever happens to the record meanwhile.              *)
ZeroIsSettling ==
    crashes = 0 => server = "up" /\ (ZeroSeen => Settling)

(* A new status and the heartbeat do not change who is down.               *)
LEMMA StatusKeepsZero ==
    ASSUME NEW b \in Record, NEW s \in Statuses
    PROVE  LET c == [b EXCEPT !.status = s] IN
           /\ ShowsZero(c) => ShowsZero(b)
           /\ ShowsZero(Stamped(c)) => ShowsZero(b)
<1> DEFINE c == [b EXCEPT !.status = s]
<1>1. c.hp = b.hp /\ Stamped(c).hp = b.hp
  BY StatusUpdate
<1>2. b # None
  BY NilAssumption, Zenon
<1> HIDE DEF c
<1>3. /\ ShowsZero(c) => ShowsZero(b)
      /\ ShowsZero(Stamped(c)) => ShowsZero(b)
  BY <1>1, <1>2 DEF ShowsZero, SomeoneDown
<1> QED
  BY <1>3 DEF c

(* The record of a new room shows full HP, whatever its status.            *)
LEMMA NewShowsNoZero ==
    \A s \in Statuses : ~ShowsZero(NewBattle) /\ ~ShowsZero([NewBattle EXCEPT !.status = s])
<1>1. ~ShowsZero(NewBattle)
  BY NewBattleType, BattleAssumption, Zenon DEF ShowsZero, SomeoneDown
<1> QED
  BY <1>1, NewBattleType, StatusKeepsZero, Zenon

(* A handler that settles nothing and writes nothing but what it or the    *)
(* store already holds, with another status.                               *)
LEMMA CarriesOn ==
    ASSUME RoomInv, ZeroSeen => Settling, NEW r \in Requests,
           NEW l, NEW b, Await(r, l, b), ShowsZero(b) => ZeroSeen,
           ShowsZero(battle)' => ZeroSeen,
           pc[r] = "stats" => l = "stats",
           pc[r] = "users" => ~SomeoneDown(copy[r]),
           UNCHANGED <<timerCopy, losses>>
    PROVE  ZeroSeen' => Settling'
<1>0. pc \in [Requests -> Pcs] /\ copy \in [Requests -> Record \cup {None}]
  BY DEF RoomInv, RoomTypeOK
<1>1. \A q \in Requests \ {r} : pc'[q] = pc[q] /\ copy'[q] = copy[q]
  BY <1>0 DEF Await
<1>2. pc'[r] = l /\ copy'[r] = b
  BY <1>0 DEF Await
<1>3. ZeroSeen' => ZeroSeen
  <2>1. ASSUME NEW q \in Requests, ShowsZero(copy'[q])
        PROVE  ZeroSeen
    BY <1>1, <1>2, <2>1, Zenon DEF ZeroSeen
  <2>2. ASSUME ShowsZero(timerCopy')
        PROVE  ZeroSeen
    BY <2>2 DEF ZeroSeen
  <2>3. /\ ShowsZero(timerCopy)' => ShowsZero(timerCopy')
        /\ \A q \in Requests : ShowsZero(copy[q])' => ShowsZero(copy'[q])
    BY Zenon DEF ShowsZero, SomeoneDown
  <2> QED
    BY <2>1, <2>2, <2>3, Zenon DEF ZeroSeen
<1>4. Settling => Settling'
  <2>1. ASSUME NEW q \in Requests, pc[q] = "stats"
        PROVE  pc'[q] = "stats"
    BY <1>1, <1>2, <2>1, Zenon
  <2>2. ASSUME NEW q \in Requests, pc[q] = "users", SomeoneDown(copy[q])
        PROVE  pc'[q] = "users" /\ SomeoneDown(copy'[q])
    BY <1>1, <2>2, Zenon
  <2>3. \A q \in Requests : SomeoneDown(copy'[q]) => SomeoneDown(copy[q])'
    BY Zenon DEF SomeoneDown
  <2> QED
    BY <2>1, <2>2, <2>3, Zenon DEF Settling
<1> QED
  BY <1>3, <1>4, Zenon

(* The steps of handleSubmit.                                              *)
LEMMA SubmitSettles ==
    ASSUME RoomInv, ZeroSeen => Settling, NEW r \in Submits, SubmitStep(r)
    PROVE  ZeroSeen' => Settling'
<1>0. /\ r \in Requests
      /\ "JUDGING" \in Statuses /\ "ACTIVE" \in Statuses /\ "ENDED" \in Statuses
  BY Zenon DEF Requests, Statuses
<1>1. /\ ShowsZero(battle) => ZeroSeen
      /\ ShowsZero(copy[r]) => ZeroSeen
      /\ ~ShowsZero(None)
  BY <1>0 DEF ZeroSeen, ShowsZero
<1>2. ASSUME NEW s \in Statuses, copy[r] \in Record
      PROVE  ShowsZero(Stamped([copy[r] EXCEPT !.status = s])) => ZeroSeen
  BY <1>1, <1>2, StatusKeepsZero, Zenon
<1>3. copy[r] \in Record \cup {None}
  BY <1>0, Zenon DEF RoomInv, RoomTypeOK
<1>4. \A b : battle' = b /\ (ShowsZero(b) => ZeroSeen) => (ShowsZero(battle)' => ZeroSeen)
  BY Zenon DEF ShowsZero, SomeoneDown
<1>5. CASE SubmitCheck(r)
  <2>1. CASE ~Accepted(r)
    <3>1. Await(r, "out", None) /\ battle' = battle /\ UNCHANGED <<timerCopy, losses>>
          /\ pc[r] = "check"
      BY <1>5, <2>1, Zenon DEF SubmitCheck, Finish, clockVars, timerVars, statsVars
    <3>2. ShowsZero(battle)' => ZeroSeen
      BY <1>1, <1>4, <3>1, SMTT(30)
    <3> QED
      BY <1>0, <1>1, <3>1, <3>2, CarriesOn, Zenon
  <2>2. CASE Accepted(r)
    <3> DEFINE b == Stamped([copy[r] EXCEPT !.status = "JUDGING"])
    <3>1. Await(r, "problem", b) /\ battle' = b /\ UNCHANGED <<timerCopy, losses>>
          /\ pc[r] = "check"
      BY <1>5, <2>2 DEF SubmitCheck, SaveThenAwait, SaveBattleState, clockVars, timerVars, statsVars
    <3>2. ShowsZero(b) => ZeroSeen
      BY <1>0, <1>2, <1>3, <2>2 DEF Accepted, Has
    <3> HIDE DEF b
    <3>3. ShowsZero(battle)' => ZeroSeen
      BY <1>4, <3>1, <3>2, Zenon
    <3> QED
      BY <1>0, <3>1, <3>2, <3>3, CarriesOn, Zenon
  <2> QED
    BY <2>1, <2>2, Zenon
<1>6. CASE ProblemFound(r) \/ CatchRead(r)
  <2>1. \E l \in {"judge", "restore"}, b \in {battle, copy[r]} : Await(r, l, b)
    BY <1>6, Zenon DEF ProblemFound, CatchRead
  <2>2. battle' = battle /\ UNCHANGED <<timerCopy, losses>> /\ pc[r] \in {"problem", "catch"}
    BY <1>6, Zenon DEF ProblemFound, CatchRead, clockVars, timerVars, statsVars
  <2>3. ShowsZero(battle)' => ZeroSeen
    BY <1>1, <1>4, <2>2, Zenon
  <2> QED
    BY <1>0, <1>1, <2>1, <2>2, <2>3, CarriesOn, Zenon
<1>7. CASE ProblemMissing(r) \/ CatchRestore(r)
  <2>1. Await(r, "out", None) /\ UNCHANGED <<timerCopy, losses>> /\ pc[r] \in {"problem", "restore"}
    BY <1>7 DEF ProblemMissing, CatchRestore, Finish, clockVars, timerVars, statsVars
  <2>2. \/ battle' = battle
        \/ copy[r] \in Record /\ battle' = Stamped([copy[r] EXCEPT !.status = "ACTIVE"])
    BY <1>0, <1>3, <1>7 DEF ProblemMissing, CatchRestore, SaveBattleState, RoomInv, CopyHeld, Has
  <2>3. ShowsZero(battle)' => ZeroSeen
    BY <1>0, <1>1, <1>2, <1>4, <2>2
  <2> QED
    BY <1>0, <1>1, <2>1, <2>3, CarriesOn, Zenon
<1>8. CASE SubmitJudged(r)
  <2>1. PICK b : Await(r, "users", b) /\ battle' = b
    BY <1>8 DEF SubmitJudged, SaveThenAwait, SaveBattleState
  <2>2. UNCHANGED <<timerCopy, losses>> /\ pc[r] = "judge"
    BY <1>8, Zenon DEF SubmitJudged, clockVars, timerVars, statsVars
  <2>3. CASE SomeoneDown(b)
    <3>1. pc'[r] = "users" /\ copy'[r] = b
      BY <1>0, <2>1, Zenon DEF Await, RoomInv, RoomTypeOK
    <3>2. SomeoneDown(copy[r])'
      BY <2>3, <3>1, Zenon DEF SomeoneDown
    <3> QED
      BY <1>0, <3>1, <3>2, Zenon DEF Settling
  <2>4. CASE ~SomeoneDown(b)
    <3>1. ShowsZero(b) => ZeroSeen
      BY <2>4 DEF ShowsZero
    <3>2. ShowsZero(battle)' => ZeroSeen
      BY <1>4, <2>1, <3>1
    <3> QED
      BY <1>0, <2>1, <2>2, <3>1, <3>2, CarriesOn, Zenon
  <2> QED
    BY <2>3, <2>4
<1>9. CASE SubmitSettled(r)
  <2>1. CASE SomeoneDown(copy[r])
    <3>1. pc'[r] = "stats"
      BY <1>0, <1>9, <2>1, Zenon DEF SubmitSettled, EndBattle, Await, RoomInv, RoomTypeOK
    <3> QED
      BY <1>0, <3>1, Zenon DEF Settling
  <2>2. CASE ~SomeoneDown(copy[r])
    <3>1. Await(r, "out", None) /\ battle' = battle /\ UNCHANGED <<timerCopy, losses>>
          /\ pc[r] = "users"
      BY <1>9, <2>2, Zenon DEF SubmitSettled, Finish, clockVars, timerVars, statsVars
    <3>2. ShowsZero(battle)' => ZeroSeen
      BY <1>1, <1>4, <3>1
    <3> QED
      BY <1>0, <1>1, <2>2, <3>1, <3>2, CarriesOn, Zenon
  <2> QED
    BY <2>1, <2>2, Zenon
<1> QED
  BY <1>5, <1>6, <1>7, <1>8, <1>9 DEF SubmitStep

(* No handler touches the server, the countdown or the timer.              *)
LEMMA HandlerClock ==
    ASSUME NEW r \in Requests, GetBattle(r) \/ Proceed(r) \/ Fault(r)
    PROVE  UNCHANGED clockVars
<1>1. CASE SubmitStep(r)
  BY <1>1, Zenon
  DEF SubmitStep, SubmitCheck, ProblemFound, ProblemMissing, SubmitJudged, SubmitSettled,
      CatchRead, CatchRestore
<1>2. CASE EndBattleStep(r)
  BY <1>2, Zenon
  DEF EndBattleStep, UpdateBattleStats, IncrementWinStreak, ResetWinStreak, CleanUp
<1>3. CASE HandleForfeit(r) \/ HandleGraceTimeout(r) \/ StartCountdown(r) \/ CountdownOver(r)
  BY <1>3, Zenon DEF HandleForfeit, HandleGraceTimeout, StartCountdown, CountdownOver
<1>4. CASE Fault(r) \/ GetBattle(r)
  BY <1>4, Zenon DEF Fault, SubmitFails, CatchFails, ConcedeFails, GetBattle
<1> QED
  BY <1>1, <1>2, <1>3, <1>4, Zenon DEF Proceed

(* The steps of the other handlers and of endBattle: giving up leads to    *)
(* endBattle too, and its row updates enter the loss.                      *)
LEMMA HandlerSettles ==
    ASSUME ~DbMayFail, ~RedisMayFail, RoomInv, ZeroSeen => Settling,
           NEW r \in Requests, GetBattle(r) \/ Proceed(r) \/ Fault(r)
    PROVE  ZeroSeen' => Settling'
<1>1. /\ ShowsZero(battle) => ZeroSeen
      /\ ShowsZero(copy[r]) => ZeroSeen
      /\ ~ShowsZero(None)
  BY Zenon DEF ZeroSeen, ShowsZero
<1>2. \A b : battle' = b /\ (ShowsZero(b) => ZeroSeen) => (ShowsZero(battle)' => ZeroSeen)
  BY Zenon DEF ShowsZero, SomeoneDown
<1>3. pc \in [Requests -> Pcs] /\ losses \in [Players -> Nat]
      /\ copy \in [Requests -> Record \cup {None}]
  BY Zenon DEF RoomInv, RoomTypeOK
<1>4. ASSUME pc[r] \in {"new", "check", "judge", "streak", "reset", "cleanup"},
             UNCHANGED <<timerCopy, losses>>, battle' \in {battle, None},
             \E l \in Pcs, b \in {None, battle} : Await(r, l, b)
      PROVE  ZeroSeen' => Settling'
  <2>1. ShowsZero(battle)' => ZeroSeen
    BY <1>1, <1>2, <1>4, Zenon
  <2>2. PICK l \in Pcs, b \in {None, battle} : Await(r, l, b)
    BY <1>4, Zenon
  <2>3. ShowsZero(b) => ZeroSeen
    BY <1>1, <2>2, Zenon
  <2>4. pc[r] # "stats" /\ pc[r] # "users"
    BY <1>4, Zenon
  <2> QED
    BY <1>4, <2>1, <2>2, <2>3, <2>4, CarriesOn, Zenon
<1>5. ASSUME Concede(r)
      PROVE  Settling'
  <2>1. pc'[r] = "stats"
    BY <1>3, <1>5, Zenon DEF Concede, EndBattle, Await
  <2> QED
    BY <2>1 DEF Settling
<1>6. CASE GetBattle(r)
  BY <1>4, <1>6, Zenon DEF GetBattle, Pcs, clockVars, timerVars, statsVars
<1>7. CASE HandleForfeit(r) \/ HandleGraceTimeout(r)
  <2>1. CASE Concede(r)
    BY <1>5, <2>1, Zenon
  <2>2. CASE TurnedAway(r)
    BY <1>4, <1>7, <2>2, Zenon
    DEF HandleForfeit, HandleGraceTimeout, TurnedAway, Finish, Pcs, clockVars, timerVars, statsVars
  <2> QED
    BY <1>7, <2>1, <2>2, Zenon DEF HandleForfeit, HandleGraceTimeout
<1>8. CASE r \in Readies /\ (StartCountdown(r) \/ CountdownOver(r))
  <2>1. PICK s \in {"COUNTDOWN", "ACTIVE"}, l \in Pcs :
           \/ /\ battle' = battle
              /\ Await(r, l, None)
           \/ /\ copy[r] \in Record
              /\ battle' = Stamped([copy[r] EXCEPT !.status = s])
              /\ \/ Await(r, l, None)
                 \/ Await(r, l, Stamped([copy[r] EXCEPT !.status = s]))
    BY <1>3, <1>8
    DEF StartCountdown, CountdownOver, SaveThenAwait, SaveBattleState, Finish, Has, RoomInv,
        CopyHeld, Pcs
  <2>2. UNCHANGED <<timerCopy, losses>> /\ pc[r] \in {"check", "countdown"}
    BY <1>8 DEF StartCountdown, CountdownOver, clockVars, timerVars, statsVars
  <2>3. copy[r] \in Record => (ShowsZero(Stamped([copy[r] EXCEPT !.status = s])) => ZeroSeen)
    BY <1>1, StatusKeepsZero, Zenon DEF Statuses
  <2>4. ShowsZero(battle)' => ZeroSeen
    BY <1>1, <1>2, <2>1, <2>3, Zenon
  <2> QED
    BY <1>1, <2>1, <2>2, <2>3, <2>4, CarriesOn
<1>9. CASE UpdateBattleStats(r)
  <2>1. PICK k \in Players : k = Opponent(winner[r])
    BY OpponentType, Zenon
  <2>2. PICK ok : /\ ok = {winner[r], k}
                  /\ losses' = IF k \in ok THEN [losses EXCEPT ![k] = @ + 1] ELSE losses
    BY <1>9, <2>1, Zenon DEF UpdateBattleStats
  <2>3. losses' = [losses EXCEPT ![k] = @ + 1]
    BY <2>2, Zenon
  <2>4. losses[k] \in Nat /\ losses'[k] = losses[k] + 1
    BY <1>3, <2>3
  <2>5. \A n \in Nat : n + 1 > 0
    OBVIOUS
  <2> QED
    BY <2>4, <2>5, Zenon DEF Settling
<1>10. CASE IncrementWinStreak(r) \/ ResetWinStreak(r)
  <2>1. \E l \in Pcs : Await(r, l, None)
    BY <1>10, Zenon DEF IncrementWinStreak, ResetWinStreak, EndError, Finish, Pcs
  <2>2. /\ UNCHANGED <<timerCopy, losses>> /\ battle' = battle
        /\ pc[r] \in {"streak", "reset"}
    BY <1>10 DEF IncrementWinStreak, ResetWinStreak, clockVars, timerVars
  <2> QED
    BY <1>4, <2>1, <2>2, Zenon
<1>11. CASE CleanUp(r)
  <2>1. Await(r, "out", None) /\ "out" \in Pcs /\ pc[r] = "cleanup" /\ battle' = None
    BY <1>11 DEF CleanUp, Finish, Pcs
  <2>2. UNCHANGED <<timerCopy, losses>>
    BY <1>11, Zenon DEF CleanUp, clockVars, timerVars, statsVars
  <2> QED
    BY <1>4, <2>1, <2>2
<1>12. CASE Fault(r)
  <2>1. SubmitFails(r) /\ pc[r] = "judge"
    BY <1>12, Zenon DEF Fault, SubmitFails, CatchFails, ConcedeFails
  <2>2. Await(r, "catch", None) /\ "catch" \in Pcs /\ battle' = battle
        /\ UNCHANGED <<timerCopy, losses>>
    BY <2>1 DEF SubmitFails, Pcs, clockVars, timerVars, statsVars
  <2> QED
    BY <1>4, <2>1, <2>2, Zenon
<1> QED
  BY <1>6, <1>7, <1>8, <1>9, <1>10, <1>11, <1>12, SubmitSettles, Zenon DEF Proceed, EndBattleStep

(* The countdown, the timer and expiry write no 0 of their own.            *)
LEMMA ClockSettles ==
    ASSUME RoomInv, ZeroSeen => Settling, Clock \/ TimerFails \/ BattleExpires
    PROVE  ZeroSeen' => Settling'
<1>0. UNCHANGED <<pc, copy, losses>>
  BY Zenon DEF Clock, AutoCountdown, StartBattle, TimerTick, TimerCheck, TimerFails, BattleExpires,
         statsVars
<1>1. Settling => Settling'
  BY <1>0, Zenon DEF Settling, SomeoneDown
<1>2. ASSUME ShowsZero(battle') => ZeroSeen, ShowsZero(timerCopy') => ZeroSeen
      PROVE  ZeroSeen' => Settling'
  <2>1. ZeroSeen' => ZeroSeen
    BY <1>0, <1>2, Zenon DEF ZeroSeen, ShowsZero, SomeoneDown
  <2> QED
    BY <1>1, <2>1, Zenon
<1>3. /\ ShowsZero(battle) => ZeroSeen
      /\ ShowsZero(timerCopy) => ZeroSeen
      /\ ~ShowsZero(None)
  BY DEF ZeroSeen, ShowsZero
<1>4. CASE AutoCountdown \/ StartBattle
  <2>1. timerCopy' = timerCopy /\ ~ShowsZero(battle')
    BY <1>4, NewShowsNoZero DEF AutoCountdown, StartBattle, SaveAsIs, Statuses, timerVars
  <2> QED
    BY <1>2, <1>3, <2>1
<1>5. CASE TimerTick \/ TimerFails \/ BattleExpires
  <2>1. battle' \in {battle, None} /\ timerCopy' \in {timerCopy, battle, None}
    BY <1>5, Zenon DEF TimerTick, TimerFails, BattleExpires, ClearInterval, clockVars, timerVars
  <2> QED
    BY <1>2, <1>3, <2>1, Zenon
<1>6. CASE TimerCheck
  <2>1. timerCopy' = None
    BY <1>6 DEF TimerCheck, ClearInterval
  <2>2. \/ battle' = battle
        \/ timerCopy \in Record /\ battle' = [timerCopy EXCEPT !.status = "ENDED"]
    BY <1>6 DEF TimerCheck, SaveAsIs, Has, RoomInv, RoomTypeOK
  <2>3. ShowsZero(battle') => ZeroSeen
    BY <1>3, <2>2, StatusKeepsZero, Zenon DEF Statuses
  <2> QED
    BY <1>2, <1>3, <2>1, <2>3
<1> QED
  BY <1>4, <1>5, <1>6 DEF Clock

(* As long as no query is rejected, every step until the first crash.      *)
LEMMA ZeroStep ==
    ASSUME ~DbMayFail, ~RedisMayFail, RoomInv, ZeroIsSettling, [BattleNext]_vars
    PROVE  ZeroIsSettling'
<1>0. crashes \in Nat
  BY BattleAssumption DEF RoomInv, RoomTypeOK
<1>1. CASE Crash
  <2>1. crashes' = crashes + 1
    BY <1>1 DEF Crash
  <2> QED
    BY <1>0, <2>1 DEF ZeroIsSettling
<1>2. ASSUME UNCHANGED <<server, crashes>>, (ZeroSeen => Settling) => (ZeroSeen' => Settling')
      PROVE  ZeroIsSettling'
  BY <1>2 DEF ZeroIsSettling
<1>3. ASSUME NEW r \in Requests, GetBattle(r) \/ Proceed(r) \/ Fault(r)
      PROVE  ZeroIsSettling'
  <2>1. UNCHANGED <<server, crashes>>
    BY <1>3, HandlerClock DEF clockVars
  <2> QED
    BY <1>2, <1>3, <2>1, HandlerSettles
<1>4. ASSUME NEW r \in Submits, SubmitLock(r)
      PROVE  ZeroIsSettling'
  <2>1. UNCHANGED <<battle, timerCopy, copy, losses, server, crashes>>
    BY <1>4, Zenon DEF SubmitLock, clockVars, timerVars, statsVars
  <2>2. \A q \in Requests : pc[q] \in {"stats", "users"} => pc'[q] = pc[q]
    BY <1>4, Zenon DEF SubmitLock, Requests, RoomInv, RoomTypeOK
  <2>3. Settling => Settling'
    BY <2>1, <2>2, Zenon DEF Settling, SomeoneDown
  <2>4. ZeroSeen' => ZeroSeen
    BY <2>1 DEF ZeroSeen, ShowsZero, SomeoneDown
  <2> QED
    BY <1>2, <2>1, <2>3, <2>4, Zenon
<1>5. CASE Clock \/ TimerFails \/ BattleExpires
  <2>1. UNCHANGED <<server, crashes>>
    BY <1>5 DEF Clock, AutoCountdown, StartBattle, TimerTick, TimerCheck, TimerFails,
                BattleExpires, clockVars
  <2> QED
    BY <1>2, <1>5, <2>1, ClockSettles
<1>6. CASE Boot \/ CheckOrphanedBattles
  BY <1>6, Zenon DEF Boot, CheckOrphanedBattles, ZeroIsSettling
<1>7. CASE UNCHANGED battleVars
  <2>1. UNCHANGED <<battle, timerCopy, copy, pc, losses, server, crashes>>
    BY <1>7 DEF battleVars
  <2> QED
    BY <1>2, <2>1 DEF ZeroSeen, Settling, ShowsZero, SomeoneDown
<1> QED
  BY <1>1, <1>3, <1>4, <1>5, <1>6, <1>7 DEF BattleNext, LockExpires, vars
=============================================================================
