------------------------------- MODULE Battle -------------------------------
(***************************************************************************)
(* One battle room of the battle server, from the moment createMatch has   *)
(* saved it: the record under the Redis key `battle:<room>` and everything *)
(* that reads and writes it.                                               *)
(*                                                                         *)
(*   battle.ts        handleSubmit, handleForfeit, startCountdown,         *)
(*                    endBattle, checkOrphanedBattles                      *)
(*   matchmaking.ts   the automatic countdown, startBattle and the timer   *)
(*   index.ts         handleGraceTimeout, startServer                      *)
(*   userService.ts   updateBattleStats, incrementWinStreak,               *)
(*                    resetWinStreak                                       *)
(*                                                                         *)
(* The record is a JSON blob.  Every handler reads it, works on its copy   *)
(* and writes the whole copy back, with awaits (Redis, Prisma, the judge)  *)
(* in between, and nothing orders the handlers of the two players.  An     *)
(* action resumes a handler after an await, runs its synchronous code and  *)
(* issues the next command, which takes effect; awaits whose result no     *)
(* modelled state depends on are merged into the step that follows them.   *)
(*                                                                         *)
(* Abstracted data: sub1Count/sub2Count and startTimestamp (display and    *)
(* achievements only), the ELO (written in the same row updates as wins    *)
(* and losses) and the submissions table (written, never read).            *)
(***************************************************************************)
EXTENDS SubmissionLock, Integers

CONSTANTS
    Player1, Player2,   \* the two players of the room
    Forfeits,           \* the battle:forfeit requests that may arrive
    Graces,             \* the expired grace periods that may be handled
    Readies,            \* the battle:ready requests that may arrive
    InitialHp,          \* INITIAL_HP
    Damages,            \* the damages the judge's verdicts lead to
    TimeLimitTicks,     \* the time limit, in ticks of the 10 s interval
    TestCasesColumn,    \* "json" or "text": how problems.test_cases reads
    DbMayFail,          \* whether a Prisma query may be rejected
    StaleHeartbeats,    \* the possible answers to "older than two minutes?"
    MaxCrashes          \* bound on the number of crashes

Players == {Player1, Player2}
Requests == Submits \cup Forfeits \cup Graces \cup Readies

ASSUME BattleAssumption ==
    /\ Player1 # Player2
    /\ Players \subseteq Users
    /\ None \notin Players
    /\ \A r \in Forfeits : UserOf[r] \in Users
    /\ \A r \in Graces : UserOf[r] \in Players
    /\ \A R, S \in {Submits, Forfeits, Graces, Readies} : R = S \/ R \cap S = {}
    /\ InitialHp \in Nat \ {0}
    /\ Damages \subseteq Nat
    /\ TimeLimitTicks \in Nat \ {0}
    /\ TestCasesColumn \in {"json", "text"}
    /\ DbMayFail \in BOOLEAN
    /\ StaleHeartbeats \subseteq BOOLEAN
    /\ MaxCrashes \in Nat

VARIABLES
    battle,     \* the record in Redis, or None
    pc,         \* pc[r]: the await at which the handler of r stands
    copy,       \* copy[r]: the handler's battleState object
    winner,     \* winner[r]: winnerId of the endBattle call of r
    auto,       \* the countdown that createMatch has scheduled
    timer,      \* the interval of startBattleTimer
    ticks,      \* its elapsedSeconds, in ticks
    timerCopy,  \* the record its last tick has read
    server,     \* the server process
    crashes,    \* how often it has crashed
    wins, losses, streak,   \* the users rows of the players
    dealt,      \* history: dealt[p], the damage judged against p
    conceded,   \* history: who forfeited or stayed away too long
    orphaned,   \* history: whether recovery has zeroed the battle
    announced   \* history: the winner of battle:timeout, or None

battleVars == <<battle, pc, copy, winner, auto, timer, ticks, timerCopy,
                server, crashes, wins, losses, streak,
                dealt, conceded, orphaned, announced>>
timerVars == <<timer, ticks, timerCopy, announced>>
clockVars == <<auto, timerVars, server, crashes>>
statsVars == <<wins, losses, streak>>
historyVars == <<dealt, conceded, orphaned>>
vars == <<lockVars, battleVars>>

Statuses == {"WAITING", "COUNTDOWN", "ACTIVE", "JUDGING", "ENDED"}
Record == [status : Statuses, hp : [Players -> 0..InitialHp], heartbeat : BOOLEAN]

(* The nil reply is not a record.                                          *)
ASSUME NilAssumption == None \notin Record

Pcs == {"new", "check", "problem", "judge", "users", "stats", "streak",
        "reset", "cleanup", "catch", "restore", "countdown", "out"}

(* The state of the room and of its players' rows is well typed.           *)
RoomTypeOK ==
    /\ battle \in Record \cup {None}
    /\ pc \in [Requests -> Pcs]
    /\ copy \in [Requests -> Record \cup {None}]
    /\ winner \in [Requests -> Players \cup {None}]
    /\ auto \in {"match", "countdown", "started", "dead"}
    /\ timer \in {"off", "idle", "tick"}
    /\ ticks \in 0..TimeLimitTicks
    /\ timerCopy \in Record \cup {None}
    /\ server \in {"up", "down", "booting"}
    /\ crashes \in 0..MaxCrashes
    /\ wins \in [Players -> Nat]
    /\ losses \in [Players -> Nat]
    /\ streak \in [Players -> Nat]
    /\ dealt \in [Players -> Nat]
    /\ conceded \in SUBSET Players
    /\ orphaned \in BOOLEAN
    /\ announced \in Players \cup {None}

BattleTypeOK == LockTypeOK /\ RoomTypeOK
-----------------------------------------------------------------------------
Opponent(p) == IF p = Player1 THEN Player2 ELSE Player1

(* The object createMatch saves; its countdown closures keep it for good.  *)
NewBattle ==
    [status |-> "WAITING", hp |-> [p \in Players |-> InitialHp], heartbeat |-> FALSE]

BattleInit ==
    /\ LockInit
    /\ battle = NewBattle
    /\ pc = [r \in Requests |-> "new"]
    /\ copy = [r \in Requests |-> None]
    /\ winner = [r \in Requests |-> None]
    /\ auto = "match"
    /\ timer = "off" /\ ticks = 0 /\ timerCopy = None
    /\ server = "up" /\ crashes = 0
    /\ wins = [p \in Players |-> 0]
    /\ losses = [p \in Players |-> 0]
    /\ streak = [p \in Players |-> 0]
    /\ dealt = [p \in Players |-> 0]
    /\ conceded = {} /\ orphaned = FALSE /\ announced = None

(* The handler of r now waits at l and holds the object b.                 *)
Await(r, l, b) ==
    /\ pc' = [pc EXCEPT ![r] = l]
    /\ copy' = [copy EXCEPT ![r] = b]

(* The handler has returned and its objects are garbage.                   *)
Finish(r) == Await(r, "out", None)

(* saveBattleState: stamps the heartbeat into the handler's object and     *)
(* writes it whole, over whatever the key holds.                           *)
Stamped(b) == [b EXCEPT !.heartbeat = TRUE]

SaveBattleState(b) == battle' = Stamped(b)

SaveThenAwait(r, l, b) == SaveBattleState(b) /\ Await(r, l, Stamped(b))

(* The setEx calls of matchmaking.ts, which leave the heartbeat as it is.  *)
SaveAsIs(b) == battle' = b

Has(b, status) == b # None /\ b.status = status

(* Mutant: only player 1's HP is looked at.                                *)
Player1Down(b) == b.hp[Player1] = 0

(* Mutant: off by one.                                                     *)
SomeoneAlmostDown(b) == \E p \in Players : b.hp[p] <= 1

SomeoneDown(b) == \E p \in Players : b.hp[p] = 0

(* handleSubmit returns; other handlers hold no lock.                      *)
Return(r) == IF r \in Submits THEN Leave(r, 1) ELSE UNCHANGED lockVars

(* A handler may begin once its event has arrived: a submission when it has *)
(* the lock, an expired grace period also while the server starts up.      *)
Begins(r) ==
    \/ r \in Submits /\ lpc[r] = "inside"
    \/ r \in Graces /\ server # "down"
    \/ r \in Forfeits \cup Readies /\ server = "up"

(* The first await of every handler: getBattleState.                       *)
GetBattle(r) ==
    /\ pc[r] = "new"
    /\ Begins(r)
    /\ Await(r, "check", battle)
    /\ UNCHANGED <<lockVars, battle, winner, clockVars, statsVars, historyVars>>
-----------------------------------------------------------------------------
(***************************************************************************)
(* endBattle.  There is no guard: whoever calls it ends the battle, again  *)
(* if need be.                                                             *)
(***************************************************************************)

(* Mutant: the comparison reversed.                                        *)
LowerHp(b) == IF b.hp[Player1] < b.hp[Player2] THEN Player1 ELSE Player2

HigherHp(b) == IF b.hp[Player1] > b.hp[Player2] THEN Player1 ELSE Player2

(* The synchronous beginning and the save, which is outside the try block. *)
EndBattle(r, b, w) ==
    /\ SaveBattleState([b EXCEPT !.status = "ENDED"])
    /\ winner' = [winner EXCEPT ![r] = w]
    /\ Await(r, "stats", None)

(* A rejected query inside the try block is logged and endBattle returns.  *)
EndError(r) ==
    /\ Return(r)
    /\ Finish(r)
    /\ winner' = [winner EXCEPT ![r] = None]

(* Mutant: a failed row update does not stop endBattle.                    *)
UpdateBattleStatsRegardless(r) ==
    LET w == winner[r]
        l == Opponent(w)
    IN
    /\ pc[r] = "stats"
    /\ \E ok \in SUBSET {w, l} :
         /\ DbMayFail \/ ok = {w, l}
         /\ wins' = IF w \in ok THEN [wins EXCEPT ![w] = @ + 1] ELSE wins
         /\ losses' = IF l \in ok THEN [losses EXCEPT ![l] = @ + 1] ELSE losses
    /\ Await(r, "streak", None)
    /\ UNCHANGED <<lockVars, winner, battle, streak, clockVars, historyVars>>

(* updateBattleStats: two row updates in one Promise.all.  Either may fail *)
(* on its own, and so may the queries before them.                         *)
UpdateBattleStats(r) ==
    LET w == winner[r]
        l == Opponent(w)
    IN
    /\ pc[r] = "stats"
    /\ \E ok \in SUBSET {w, l} :
         /\ DbMayFail \/ ok = {w, l}
         /\ wins' = IF w \in ok THEN [wins EXCEPT ![w] = @ + 1] ELSE wins
         /\ losses' = IF l \in ok THEN [losses EXCEPT ![l] = @ + 1] ELSE losses
         /\ IF ok = {w, l}
              THEN Await(r, "streak", None) /\ UNCHANGED <<lockVars, winner>>
              ELSE EndError(r)
    /\ UNCHANGED <<battle, streak, clockVars, historyVars>>

(* Mutant: the loser's streak grows.                                       *)
IncrementLossStreak(r) ==
    /\ pc[r] = "streak"
    /\ streak' = [streak EXCEPT ![Opponent(winner[r])] = @ + 1]
    /\ Await(r, "reset", None)
    /\ UNCHANGED <<lockVars, winner, battle, wins, losses, clockVars, historyVars>>

(* Achievements are granted first; their queries may fail too.             *)
IncrementWinStreak(r) ==
    /\ pc[r] = "streak"
    /\ \/ /\ streak' = [streak EXCEPT ![winner[r]] = @ + 1]
          /\ Await(r, "reset", None)
          /\ UNCHANGED <<lockVars, winner>>
       \/ /\ DbMayFail
          /\ EndError(r)
          /\ UNCHANGED streak
    /\ UNCHANGED <<battle, wins, losses, clockVars, historyVars>>

(* The last query, battle:end, and the deletion scheduled in 30 seconds.   *)
ResetWinStreak(r) ==
    /\ pc[r] = "reset"
    /\ \/ /\ streak' = [streak EXCEPT ![Opponent(winner[r])] = 0]
          /\ Await(r, "cleanup", None)
          /\ Return(r)
          /\ winner' = [winner EXCEPT ![r] = None]
       \/ /\ DbMayFail
          /\ EndError(r)
          /\ UNCHANGED streak
    /\ UNCHANGED <<battle, wins, losses, clockVars, historyVars>>

(* The scheduled deletion, whatever the key holds by then.                 *)
CleanUp(r) ==
    /\ pc[r] = "cleanup"
    /\ battle' = None
    /\ Finish(r)
    /\ UNCHANGED <<lockVars, winner, clockVars, statsVars, historyVars>>
-----------------------------------------------------------------------------
(***************************************************************************)
(* handleSubmit, between acquire and release                               *)
(***************************************************************************)

(* Mutant: the status is not asked for.                                    *)
AcceptedInAnyStatus(r) == copy[r] # None /\ UserOf[r] \in Players

Accepted(r) ==
    /\ Has(copy[r], "ACTIVE")
    /\ UserOf[r] \in Players

(* The three refusals release the lock twice; otherwise JUDGING is saved.  *)
SubmitCheck(r) ==
    /\ pc[r] = "check"
    /\ \/ /\ ~Accepted(r)
          /\ Leave(r, 2)
          /\ Finish(r)
          /\ UNCHANGED battle
       \/ /\ Accepted(r)
          /\ SaveThenAwait(r, "problem", [copy[r] EXCEPT !.status = "JUDGING"])
          /\ UNCHANGED lockVars
    /\ UNCHANGED <<winner, clockVars, statsVars, historyVars>>

(* getProblemData answers.  It turns every error into "not found", among   *)
(* them the TypeError of calling map on a text column.                     *)
ProblemFound(r) ==
    /\ pc[r] = "problem"
    /\ TestCasesColumn = "json"
    /\ Await(r, "judge", copy[r])
    /\ UNCHANGED <<lockVars, battle, winner, clockVars, statsVars, historyVars>>

(* Not found: the copy goes back to ACTIVE and is saved as it is by now.   *)
ProblemMissing(r) ==
    /\ pc[r] = "problem"
    /\ TestCasesColumn = "text" \/ DbMayFail
    /\ SaveBattleState([copy[r] EXCEPT !.status = "ACTIVE"])
    /\ Leave(r, 2)
    /\ Finish(r)
    /\ UNCHANGED <<winner, clockVars, statsVars, historyVars>>

(* Mutant: no lower bound.                                                 *)
HitUnclamped(hp, d) == hp - d

Hit(hp, d) == IF hp > d THEN hp - d ELSE 0

(* Mutant: the damage goes to the submitter.                               *)
SubmitJudgedAgainstSelf(r) ==
    /\ pc[r] = "judge"
    /\ \E d \in Damages :
         /\ SaveThenAwait(r, "users", [copy[r] EXCEPT !.status = "ACTIVE",
                                                     !.hp[UserOf[r]] = Hit(@, d)])
         /\ dealt' = [dealt EXCEPT ![Opponent(UserOf[r])] = @ + d]
    /\ UNCHANGED <<lockVars, winner, clockVars, statsVars, conceded, orphaned>>

(* The judge answers: damage goes to the opponent in the copy taken before *)
(* judging, and that copy is saved as ACTIVE.                              *)
SubmitJudged(r) ==
    LET target == Opponent(UserOf[r]) IN
    /\ pc[r] = "judge"
    /\ \E d \in Damages :
         /\ SaveThenAwait(r, "users", [copy[r] EXCEPT !.status = "ACTIVE",
                                                     !.hp[target] = Hit(@, d)])
         /\ dealt' = [dealt EXCEPT ![target] = @ + d]
    /\ UNCHANGED <<lockVars, winner, clockVars, statsVars, conceded, orphaned>>

(* User names and the submission row are done with; then the win check.    *)
SubmitSettled(r) ==
    /\ pc[r] = "users"
    /\ \/ /\ SomeoneDown(copy[r])
          /\ EndBattle(r, copy[r], HigherHp(copy[r]))
          /\ UNCHANGED lockVars
       \/ /\ ~SomeoneDown(copy[r])
          /\ Leave(r, 1)
          /\ Finish(r)
          /\ UNCHANGED <<battle, winner>>
    /\ UNCHANGED <<clockVars, statsVars, historyVars>>

(* A rejected promise inside the try block.  A rejected command has not    *)
(* taken effect.  The judge rejects by itself: index.ts:230-233 passes the *)
(* event's code on unchecked, and the judge reads its length.              *)
SubmitFails(r) ==
    /\ lpc[r] = "inside"
    /\ \/ pc[r] = "judge"
       \/ RedisMayFail /\ pc[r] \in {"new", "problem"}
       \/ RedisMayFail /\ pc[r] = "check" /\ Accepted(r)
       \/ RedisMayFail /\ pc[r] = "users" /\ SomeoneDown(copy[r])
       \/ DbMayFail /\ pc[r] = "users"
    /\ Await(r, "catch", None)
    /\ UNCHANGED <<lockVars, battle, winner, clockVars, statsVars, historyVars>>

(* The catch block reads the record again ...                              *)
CatchRead(r) ==
    /\ pc[r] = "catch"
    /\ Await(r, "restore", battle)
    /\ UNCHANGED <<lockVars, battle, winner, clockVars, statsVars, historyVars>>

(* Mutant: ACTIVE is restored whatever was read.                           *)
CatchRestoreAlways(r) ==
    /\ pc[r] = "restore"
    /\ IF copy[r] # None
         THEN SaveBattleState([copy[r] EXCEPT !.status = "ACTIVE"])
         ELSE UNCHANGED battle
    /\ Leave(r, 1)
    /\ Finish(r)
    /\ UNCHANGED <<winner, clockVars, statsVars, historyVars>>

(* Mutant: the catch block only reports the error.                         *)
CatchOnlyReports(r) ==
    /\ pc[r] = "restore"
    /\ Leave(r, 1)
    /\ Finish(r)
    /\ UNCHANGED <<battle, winner, clockVars, statsVars, historyVars>>

(* ... and takes it out of JUDGING, whosever submission put it there.      *)
CatchRestore(r) ==
    /\ pc[r] = "restore"
    /\ IF Has(copy[r], "JUDGING")
         THEN SaveBattleState([copy[r] EXCEPT !.status = "ACTIVE"])
         ELSE UNCHANGED battle
    /\ Leave(r, 1)
    /\ Finish(r)
    /\ UNCHANGED <<winner, clockVars, statsVars, historyVars>>

(* Redis rejects a command of the catch block: only finally still runs.    *)
CatchFails(r) ==
    /\ RedisMayFail
    /\ \/ pc[r] = "catch"
       \/ pc[r] = "restore" /\ Has(copy[r], "JUDGING")
    /\ Leave(r, 1)
    /\ Finish(r)
    /\ UNCHANGED <<battle, winner, clockVars, statsVars, historyVars>>
-----------------------------------------------------------------------------
(***************************************************************************)
(* handleForfeit and handleGraceTimeout                                    *)
(***************************************************************************)

(* Mutant: whoever concedes wins.                                          *)
ConcedeAndWin(r) ==
    LET p == UserOf[r] IN
    /\ EndBattle(r, [copy[r] EXCEPT !.hp[p] = 0], p)
    /\ conceded' = conceded \cup {p}

Concede(r) ==
    LET p == UserOf[r] IN
    /\ EndBattle(r, [copy[r] EXCEPT !.hp[p] = 0], Opponent(p))
    /\ conceded' = conceded \cup {p}

TurnedAway(r) ==
    /\ Finish(r)
    /\ UNCHANGED <<battle, winner, conceded>>

(* handleForfeit asks for a player of the room, not for a running battle.  *)
HandleForfeit(r) ==
    /\ pc[r] = "check"
    /\ IF copy[r] # None /\ UserOf[r] \in Players
         THEN Concede(r)
         ELSE TurnedAway(r)
    /\ UNCHANGED <<lockVars, clockVars, statsVars, dealt, orphaned>>

(* handleGraceTimeout ends the battle only if it has read ACTIVE.          *)
HandleGraceTimeout(r) ==
    /\ pc[r] = "check"
    /\ IF Has(copy[r], "ACTIVE")
         THEN Concede(r)
         ELSE TurnedAway(r)
    /\ UNCHANGED <<lockVars, clockVars, statsVars, dealt, orphaned>>

(* Redis rejects the read or the save; both handlers only log it.          *)
ConcedeFails(r) ==
    /\ RedisMayFail
    /\ pc[r] = "check"
    /\ TurnedAway(r)
    /\ UNCHANGED <<lockVars, clockVars, statsVars, dealt, orphaned>>
-----------------------------------------------------------------------------
(***************************************************************************)
(* The two countdowns: startCountdown on battle:ready, and the one that    *)
(* createMatch schedules.  Each ends by writing its own object as ACTIVE.  *)
(***************************************************************************)

StartCountdown(r) ==
    /\ pc[r] = "check"
    /\ IF Has(copy[r], "WAITING")
         THEN SaveThenAwait(r, "countdown", [copy[r] EXCEPT !.status = "COUNTDOWN"])
         ELSE Finish(r) /\ UNCHANGED battle
    /\ UNCHANGED <<lockVars, winner, clockVars, statsVars, historyVars>>

CountdownOver(r) ==
    /\ pc[r] = "countdown"
    /\ SaveBattleState([copy[r] EXCEPT !.status = "ACTIVE"])
    /\ Finish(r)
    /\ UNCHANGED <<lockVars, winner, clockVars, statsVars, historyVars>>

(* One second after the match: COUNTDOWN.                                  *)
AutoCountdown ==
    /\ auto = "match"
    /\ SaveAsIs([NewBattle EXCEPT !.status = "COUNTDOWN"])
    /\ auto' = "countdown"
    /\ UNCHANGED <<lockVars, pc, copy, winner, timerVars, server, crashes,
                   statsVars, historyVars>>

(* Three seconds later: ACTIVE, and the interval of the timer is set.      *)
StartBattle ==
    /\ auto = "countdown"
    /\ SaveAsIs([NewBattle EXCEPT !.status = "ACTIVE"])
    /\ auto' = "started"
    /\ timer' = "idle"
    /\ UNCHANGED <<lockVars, pc, copy, winner, ticks, timerCopy, announced,
                   server, crashes, statsVars, historyVars>>
-----------------------------------------------------------------------------
(***************************************************************************)
(* startBattleTimer                                                        *)
(***************************************************************************)

ClearInterval == timer' = "off" /\ ticks' = 0 /\ timerCopy' = None

TimerTick ==
    /\ timer = "idle"
    /\ ticks' = ticks + 1
    /\ timerCopy' = battle
    /\ timer' = "tick"
    /\ UNCHANGED <<lockVars, battle, pc, copy, winner, auto, announced,
                   server, crashes, statsVars, historyVars>>

(* A tick that does not find ACTIVE clears the interval for good.  At the  *)
(* limit the battle is ENDED and a winner announced; no row is updated and *)
(* no deletion scheduled.                                                  *)
TimerCheck ==
    LET b == timerCopy IN
    /\ timer = "tick"
    /\ \/ /\ ~Has(b, "ACTIVE")
          /\ ClearInterval
          /\ UNCHANGED <<battle, announced>>
       \/ /\ Has(b, "ACTIVE") /\ ticks < TimeLimitTicks
          /\ timer' = "idle"
          /\ timerCopy' = None
          /\ UNCHANGED <<ticks, battle, announced>>
       \/ /\ Has(b, "ACTIVE") /\ ticks >= TimeLimitTicks
          /\ ClearInterval
          /\ SaveAsIs([b EXCEPT !.status = "ENDED"])
          /\ announced' = IF b.hp[Player1] >= b.hp[Player2] THEN Player1 ELSE Player2
    /\ UNCHANGED <<lockVars, pc, copy, winner, auto, server, crashes,
                   statsVars, historyVars>>

(* A rejected command clears the interval.                                 *)
TimerFails ==
    /\ RedisMayFail
    /\ timer = "tick"
    /\ ClearInterval
    /\ UNCHANGED <<lockVars, battle, pc, copy, winner, auto, announced,
                   server, crashes, statsVars, historyVars>>
-----------------------------------------------------------------------------
(***************************************************************************)
(* Crash and restart, and the two hours' life of the key                   *)
(***************************************************************************)

Begun(r) == IF r \in Submits THEN lpc[r] # "idle" ELSE pc[r] # "new"

(* Handlers, timeouts and intervals die with the process.                  *)
Crash ==
    /\ server # "down"
    /\ crashes < MaxCrashes
    /\ server' = "down"
    /\ crashes' = crashes + 1
    /\ pc' = [r \in Requests |-> IF Begun(r) THEN "out" ELSE "new"]
    /\ copy' = [r \in Requests |-> None]
    /\ winner' = [r \in Requests |-> None]
    /\ auto' = "dead"
    /\ ClearInterval
    /\ LockCrash
    /\ UNCHANGED <<battle, announced, statsVars, historyVars>>

(* startServer: the grace periods found expired are handled first ...      *)
Boot ==
    /\ server = "down"
    /\ server' = "booting"
    /\ UNCHANGED <<lockVars, battle, pc, copy, winner, auto, timerVars, crashes,
                   statsVars, historyVars>>

(* ... then checkOrphanedBattles zeroes an ACTIVE battle whose heartbeat   *)
(* is set and old, and the server listens.                                 *)
CheckOrphanedBattles ==
    /\ server = "booting"
    /\ \A r \in Graces : pc[r] \in {"new", "cleanup", "out"}
    /\ \E stale \in StaleHeartbeats :
         IF Has(battle, "ACTIVE") /\ battle.heartbeat /\ stale
           THEN /\ battle' = [battle EXCEPT !.hp = [p \in Players |-> 0],
                                            !.status = "ENDED"]
                /\ orphaned' = TRUE
           ELSE UNCHANGED <<battle, orphaned>>
    /\ server' = "up"
    /\ UNCHANGED <<lockVars, pc, copy, winner, auto, timerVars, crashes,
                   statsVars, dealt, conceded>>

(* Mutant: the key is written without a TTL.                               *)
BattleNeverExpires == FALSE

(* Every write renews the TTL of 7200 s, which no handler, timeout or      *)
(* interval outlasts.                                                      *)
BattleExpires ==
    /\ battle # None
    /\ \A r \in Requests : pc[r] \in {"new", "out"}
    /\ auto \in {"started", "dead"}
    /\ timer = "off"
    /\ battle' = None
    /\ UNCHANGED <<lockVars, pc, copy, winner, clockVars, statsVars, historyVars>>
-----------------------------------------------------------------------------
(* A submission arrives, or its handler runs a command of the lock.        *)
SubmitLock(r) ==
    /\ lpc[r] = "idle" => server = "up"
    /\ LockCommand(r) \/ LockFault(r)
    /\ pc' = [pc EXCEPT ![r] = IF lpc'[r] = "get" /\ @ = "new" THEN "out" ELSE @]
    /\ UNCHANGED <<battle, copy, winner, clockVars, statsVars, historyVars>>

LockExpires == LockExpiry /\ UNCHANGED battleVars

SubmitStep(r) ==
    \/ SubmitCheck(r) \/ ProblemFound(r) \/ ProblemMissing(r)
    \/ SubmitJudged(r) \/ SubmitSettled(r)
    \/ CatchRead(r) \/ CatchRestore(r)

EndBattleStep(r) ==
    UpdateBattleStats(r) \/ IncrementWinStreak(r) \/ ResetWinStreak(r) \/ CleanUp(r)

(* The steps a handler takes by itself once it has read the battle.        *)
Proceed(r) ==
    \/ r \in Submits /\ SubmitStep(r)
    \/ r \in Forfeits /\ HandleForfeit(r)
    \/ r \in Graces /\ HandleGraceTimeout(r)
    \/ r \in Readies /\ (StartCountdown(r) \/ CountdownOver(r))
    \/ EndBattleStep(r)

Fault(r) ==
    \/ r \in Submits /\ (SubmitFails(r) \/ CatchFails(r))
    \/ r \in Forfeits \cup Graces /\ ConcedeFails(r)

Clock == AutoCountdown \/ StartBattle \/ TimerTick \/ TimerCheck

BattleNext ==
    \/ \E r \in Requests : GetBattle(r) \/ Proceed(r) \/ Fault(r)
    \/ \E r \in Submits : SubmitLock(r)
    \/ Clock
    \/ TimerFails
    \/ Crash \/ Boot \/ CheckOrphanedBattles
    \/ BattleExpires
    \/ LockExpires

(* Requests need not arrive and nothing need fail.  What has begun goes    *)
(* on: replies come, the judge is bounded by its per-test timeouts,        *)
(* timeouts and intervals fire, keys expire.                               *)
BattleFairness ==
    /\ \A r \in Requests : WF_vars(Proceed(r))
    /\ \A r \in Submits : /\ WF_vars(GetBattle(r))
                          /\ WF_vars(lpc[r] # "idle" /\ SubmitLock(r))
    /\ WF_vars(Clock)
    /\ WF_vars(BattleExpires)

BattleSpec == BattleInit /\ [][BattleNext]_vars /\ BattleFairness
-----------------------------------------------------------------------------
(* What the store and every in-flight copy say about p's HP: at least what  *)
(* the damage judged so far leaves, unless p gave up or recovery zeroed it.*)
HpIsAccounted(b, p) ==
    b # None => b.hp[p] + dealt[p] >= InitialHp \/ p \in conceded \/ orphaned

(* Whole-record writes of stale copies can only lose damage, never invent  *)
(* it: neither the record nor the object of any handler or of the timer    *)
(* shows less HP than the judged damage explains (battle.ts:182-187).      *)
HpAccounted ==
    \A p \in Players :
        /\ HpIsAccounted(battle, p)
        /\ HpIsAccounted(timerCopy, p)
        /\ \A r \in Requests : HpIsAccounted(copy[r], p)

(* No loss without a cause: whoever has a loss in the users table was      *)
(* judged the full HP in damage or conceded, although any handler that     *)
(* holds a copy may end the battle (battle.ts:313-339).                    *)
DeservedLoss ==
    \A p \in Players :
        losses[p] > 0 => dealt[p] >= InitialHp \/ p \in conceded \/ orphaned

(* Handlers that will write a status other than ENDED from what they hold. *)
MayReopen ==
    \/ auto \in {"match", "countdown"}
    \/ \E r \in Requests :
         \/ pc[r] \in {"problem", "judge", "countdown"}
         \/ pc[r] = "check" /\ Has(copy[r], "ACTIVE")
         \/ pc[r] = "check" /\ Has(copy[r], "WAITING")
         \/ pc[r] = "restore" /\ Has(copy[r], "JUDGING")

(* An ENDED battle that no earlier reader can write back stays ENDED until *)
(* its key is deleted: later submissions, ready events, ticks, catch blocks*)
(* and restarts leave it so.                                               *)
QuietEndIsFinal ==
    [][ Has(battle, "ENDED") /\ ~MayReopen
        => battle' = None \/ Has(battle, "ENDED")' ]_vars

(* A win streak counts recorded wins: it never exceeds them, however       *)
(* endings of the same battle interleave (battle.ts:339-359).              *)
StreakWithinWins == \A p \in Players : streak[p] <= wins[p]

(* No handler, timeout or interval of the room is under way.               *)
Quiet ==
    /\ \A r \in Requests : pc[r] \in {"new", "out"}
    /\ \A r \in Submits : lpc[r] \in {"idle", "done"}
    /\ auto \in {"started", "dead"}
    /\ timer = "off"

(* "Battle ends when HP reaches 0", "ELO updated" (MVP_README.md:58-59):   *)
(* while no query is rejected and the server stays up, a room that shows a *)
(* player at 0 HP when all is quiet has entered a result in the users      *)
(* table, whichever of the overlapping writers wrote last.                 *)
ZeroHpIsSettled ==
    Quiet /\ battle # None /\ (\E p \in Players : battle.hp[p] = 0)
        => \E p \in Players : losses[p] > 0

(* "Reset to ACTIVE" (battle.ts:255): JUDGING is left again, whether the   *)
(* problem is missing, the judge or a query rejects or two submissions     *)
(* overlap; and not because the key expires after two hours: a room that   *)
(* is deleted in JUDGING had its result entered, and this was the deletion *)
(* that endBattle schedules.                                               *)
JudgingEnds ==
    Has(battle, "JUDGING")
        ~> \/ Has(battle, "ACTIVE") \/ Has(battle, "ENDED")
           \/ battle = None /\ \E p \in Players : losses[p] > 0

(* The key of a room does not stay in Redis: whatever wrote it last, after *)
(* the deletion of endBattle included, it is gone in the end.              *)
RoomIsReclaimed == <>[](battle = None)

(* The room keeps the promise of BattleLedger.                             *)
Ledger == INSTANCE BattleLedger

RefinesLedger == Ledger!LedgerSpec
-----------------------------------------------------------------------------
(***************************************************************************)
(* What the documentation and comments say, and the code does not do.      *)
(***************************************************************************)

(* "Wins/losses properly tracked in database" (CRITICAL_ISSUES_FIXED.md:12)*)
(* one battle enters at most one result for a player.                      *)
ResultEnteredOnce == \A p \in Players : wins[p] + losses[p] <= 1

(* "Server-owned battle timer" with a "Battle timeout" (matchmaking.ts:255,*)
(* 285): a running battle comes to an end.                                 *)
TimeLimitHolds == Has(battle, "ACTIVE") ~> Has(battle, "ENDED")

(* "Check for orphaned battles from server crash" (index.ts:430): once the *)
(* server listens again, two minutes after the last heartbeat, no battle   *)
(* of the crashed process is left running.                                 *)
NoBattleLeftRunning ==
    server = "up" /\ crashes > 0
        => ~Has(battle, "ACTIVE") /\ ~Has(battle, "JUDGING")
=============================================================================
