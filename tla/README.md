# CodeClash: TLA+ models of the battle server and its store

CodeClash lets two players solve the same programming puzzle against each other.
Submissions are judged, and what they pass is damage to the opponent's HP. These
modules model the battle server (`server/src`), the part of the repository that
decides who wins, and the persistence of the Redis it keeps its state in
(`local-redis/redis-stable`): TLC checks small instances, and TLAPS proves the
safety properties and the two refinements for every instance.

## The system

| part | code | state | here |
|---|---|---|---|
| submission lock | `services/battle.ts` 495-539 | Redis `submission:lock:<user>` and `...:value` | `SubmissionLock` |
| battle room | `services/battle.ts`, `matchmaking.ts` 222-314, `index.ts` 391-465 | Redis `battle:<room>`; handlers, timeouts, an interval in the process | `Battle` |
| player rows | `services/userService.ts` | `users`: wins, losses, winStreak (and elo) | `Battle`, `BattleLedger` |
| matchmaking queue | `services/matchmaking.ts` 48-237 | map in the process, interval, `battle:<room>` | `Matchmaking` |
| sessions and grace periods | `index.ts` 152-227, 311-465 | socket registry, `session:<user>`, `grace:<user>` | `Sessions` (the expired grace period is also an input of `Battle`) |
| Redis: strings, expiry, append only file | `aof.c`, `bio.c`, `t_string.c`, `expire.c`, `db.c`, `server.c` | dataset, buffer, base and incr files, manifest | `Aof`, `AofLedger`, `AofRefinement` |
| judge client | `services/judgeService.ts` | none | an await that yields a damage or an error |
| the rest | | | see "Not modelled" |

The parts meet as follows. A tab authenticates and joins the queue (`Sessions`);
a tick pairs two entries and saves a room (`Matchmaking`); the room runs until
someone wins (`Battle`, which uses `SubmissionLock`). Each module treats what the
others do to its state as an input: in `Sessions` the matchmaker takes the player
from the queue and battles start and end at any moment, in `Matchmaking` players
leave at any moment, and in `Battle` a grace timeout may come at any moment. All
of them keep what must survive a crash in Redis, and `Aof` is about what is left
of it after a crash or a power loss.

What makes it hard: a room is one JSON value in Redis. Every handler reads it,
works on its copy and writes the whole copy back, with awaits in between; the
handlers of the two players, two different countdowns, the timer and the grace
timeout do so at the same time, and no lock covers more than the submissions of
one user. Any command may be rejected, and the process may die between two of
them. In the lobby, ticks overlap and each works on a snapshot, and handlers of
an old and a new tab of one player run through each other. In Redis, the main
thread, the fsync thread and a forked child share one log. The hazards, each with
its line, are listed in `PROJECT.json`.

## Modules

- `SubmissionLock`: the per-user lock, one action per Redis command.
  `lpc[r]` is where request `r` stands; `TryAcquire`/`StoreValue` are
  acquireDistributedLock, `GetValue`/`EvalRelease`/`DelValue` are
  releaseDistributedLock, `Leave(r, n)` is the return of the protected part with
  `n` releases to come (the refusals release explicitly and again in `finally`).
  Two history variables: `taken`, the holders whose key was removed under them,
  and `hindered`, the requests with a rejected command, cut off by a crash, or
  whose `:value` another request or its expiry has changed.
- `Battle` (extends `SubmissionLock`): one room from the moment createMatch has
  saved it. `battle` is the Redis value; `pc[r]`, `copy[r]`, `winner[r]` are the
  await, the `battleState` object and the `winnerId` of the handler of request
  `r`; `auto`, `timer`, `ticks`, `timerCopy` are the closures of matchmaking.ts;
  `server` and `crashes` the process; `wins`, `losses`, `streak` the rows.
  `dealt`, `conceded`, `orphaned`, `announced` record what has happened.
  | code | actions |
  |---|---|
  | handleSubmit | `SubmitLock`, `GetBattle`, `SubmitCheck`, `ProblemFound`, `ProblemMissing`, `SubmitJudged`, `SubmitSettled`, `SubmitFails`, `CatchRead`, `CatchRestore`, `CatchFails` |
  | endBattle | `EndBattle` (in its callers), `UpdateBattleStats`, `IncrementWinStreak`, `ResetWinStreak`, `CleanUp`, `EndError` |
  | handleForfeit, handleGraceTimeout | `HandleForfeit`, `HandleGraceTimeout`, `ConcedeFails` |
  | startCountdown; createMatch, startBattle | `StartCountdown`, `CountdownOver`; `AutoCountdown`, `StartBattle` |
  | startBattleTimer | `TimerTick`, `TimerCheck`, `TimerFails` |
  | startServer, checkOrphanedBattles | `Crash`, `Boot`, `CheckOrphanedBattles` |
  | key expiry | `BattleExpires`, `LockExpires` |
- `BattleLedger`: what a battle promises about the players' rows, without store,
  handlers or time: damage is judged, players concede, recovery may write the
  battle off, and only someone with one of these against them gets a loss.
- `Matchmaking`: the queue. Entries are numbered in the order of joining, which is
  the order of the Map, of the sort and of a snapshot. `tick[t]` is one call of
  tick(): its snapshot, the outer index, the pairs so far and the await it is at.
  `spent` and `before` are history: entries whose player left or was matched, now
  and when a tick began.
  | code | actions |
  |---|---|
  | addToQueue, removeFromQueue | `addToQueue`, `removeFromQueue` |
  | tick | `StartTick`, and `Continue` within each of the following |
  | createMatch | `NoProblem`, `SaveRoom`, `Notify` |
  | clock; end of the process | `Pass`; `Crash` |
- `Sessions`: the tabs of one player. `calls` is the pipeline of the one Redis
  connection: every element is a handler waiting for its reply, named after its
  await; replies resume handlers in the order in which commands were issued.
  `signed`, `contested`, `anonymous`, `cut` are history.
  | code | actions |
  |---|---|
  | connection, authenticate | `connection`, `authenticate`, `auth`, `auth2` |
  | queue:join, queue:leave | `queueJoin`, `join`, `join2`, `queueLeave` |
  | disconnect | `disconnect`, `gone`, `deleted`, `scan`, `battle`, `graced` |
  | check:reconnection, handleGraceTimeout | `checkReconnection`, `check`, `timeout`, `ended` |
  | key expiry, clock | `Expire`, `Pass` |
  | startServer, cleanupOrphanedGraceTimers | `Crash`, `Restart` |
  | the rest of the server | `Matchmaker` |
- `Aof`: Redis with `appendonly yes`. `db` is the dataset, `aofBuf` the buffer,
  `bases`, `incrs`, `manifest` the files, `bio` the queue of the fsync thread,
  `child` the rewrite child, and `at` tells how far the main thread is in starting
  or completing a rewrite. A record is what one execution unit appends: one
  command, or several in a MULTI block. A fault may tear a record; the loader cuts
  a torn file behind its last whole *command* (`CutBehind`), which can be in the
  middle of a block. What then stays is an *unfinished block*: of the commands
  behind it the loader executes none until it reads an EXEC (`Open`, `Executed`),
  and a file that ends this way is cut before the MULTI at the next start
  (`CutBefore`). `Intact` says that no file of the manifest has such a block.
  | code | actions |
  |---|---|
  | t_string.c, db.c, expire.c | `setGenericCommand`, `getCommand`, `delGenericCommand`, `expireGenericCommand`, `persistCommand`, `activeExpireCycleTryExpire` |
  | flushAppendOnlyFile in beforeSleep, serverCron | `beforeSleep`, `serverCronFlush` |
  | bio.c | `bioProcessBackgroundJobs` |
  | rewriteAppendOnlyFileBackground, openNewIncrAofForAppend | `rewriteAppendOnlyFileBackground`, `createIncrFile`, `openNewIncrAofForAppend` |
  | rewriteAppendOnlyFile (child) | `rewriteAppendOnlyFile`, `backgroundRewriteFailed` |
  | backgroundRewriteDoneHandler, aofDelHistoryFiles | `backgroundRewriteDoneHandler`, `switchToNewBase`, `aofDelHistoryFiles`, `forgetHistory` |
  | loadDataFromDisk, aofOpenIfNeededOnServerStart | `Restart` |
  | faults | `ProcessCrash`, `PowerLoss` |
- `AofLedger`: what the log promises, without files: a durable dataset and a tail
  of records; a dying process loses the end of the tail, a power loss any of it,
  and nothing else changes the dataset. The promise is made while the log is
  `whole`; it can break (`Break`) only after a fault, and in a step that executes
  no command.
- `AofRefinement`: the mapping. The durable dataset is the base file and the
  records that fsync has covered without a gap; the tail is every record behind
  them, in the files and in the buffer; the log is whole while it is `Intact`.
- `MCSubmissionLock`, `MCBattle`, `MCMatchmaking`, `MCSessions`, `MCAof`: the
  constants of the instances.
- `SubmissionLockProofs`, `BattleProofs`, `BattleTheorems`, `MatchmakingProofs`,
  `SessionsProofs`, `AofProofs`, `AofTheorems`, `AofRefinementProofs`: the proofs.

Definitions marked "Mutant" next to an action are not used by the
specifications. Each is the action with a plausible bug; put in its place, it
makes TLC report the property named for it in `PROJECT.json`.

### Granularity

An action resumes a handler after an await, runs its synchronous code and issues
the next command, which takes effect. Interleaving at awaits is unrestricted: it
includes more orders than one connection that answers in sequence allows, so
what holds here holds there. Awaits whose result no modelled state depends on
(user names, the submission row, achievements) are merged into the step after
them. A rejected command has not taken effect. The two row updates of
updateBattleStats run in parallel and the handler goes on when the first is
rejected; the model lets the other take effect in the same step, which is
harmless because increments commute and nothing in that handler follows. A
rejection outside every try block (the countdowns, the catch block's own
commands) ends the Node process; that is `Crash`. A tick of the timer is
answered before the next one is due (10 s).

In `Matchmaking` the awaits of createMatch between the choice of a problem and
the saved room are one step, because nothing of this state is read or written
there. A rejection in tick() is not caught and ends the process (`Crash`).
`Sessions` keeps the order of the replies, which its handlers depend on; rejected
commands there end the process as well, except where a try block catches them
(authenticate, handleGraceTimeout), which is left out.

In `Aof` a command, a flush, and the creation, renaming and deletion of files are
one step each. Between the steps of a rewrite the main thread serves no client,
but the fsync thread runs and faults strike. A fault in the middle of a write
leaves a prefix of the buffer, possibly with part of a record; of the commands of
that record any number is whole when the loader reads it. After a power loss
each file keeps what fsync covered and any further prefix; renames, the manifest
and base files are synced by the code before it relies on them, and the
truncation of a torn tail is taken to last. `fsync` is a choice of the initial
state; the deployment leaves it at Redis' default, everysec, and `always` is the
policy under which an acknowledged write is a promise.

Abstracted: submission counts and timestamps (display and achievements), the ELO
(same row updates as wins and losses), the submissions table and the
`timer:<room>` key (written, never read), messages to clients, the name of the
room. `TestCasesColumn` says how `problems.testCases` reads: the schema declares
it as a string, on which getProblemData's `map` throws, and then every
submission ends in `ProblemMissing`. With `"json"`, as `FINAL_GAP_FIXED.md`
describes the column, submissions are judged. The passing runs use `"json"`, which
includes every behaviour of `"text"` where queries may be rejected; the runs that
exhibit a violation use `"text"`, so that their traces are those of this commit.
The judge answers with any damage or rejects (`SubmitFails`).

## Runs

| run | instance | shows |
|---|---|---|
| `lock` | 1 user, 3 submissions, faults, expiry during judging, crash | `OverlapOnlyAfterRemoval`, `LeftBehindOnlyIfHindered`, types |
| `battle_duel` | a submission of each player, a forfeit, countdown, timer | `DeservedLoss`, `StreakWithinWins`, `ZeroHpIsSettled`, `QuietEndIsFinal`, `RefinesLedger`, types |
| `battle_faults` | a submission, a ready, a grace timeout, rejected commands, a crash | `HpAccounted`, `StreakWithinWins`, `QuietEndIsFinal`, `RefinesLedger` |
| `battle_live` | two submissions, a judge that may reject, rejected queries, fairness | `JudgingEnds`, `RoomIsReclaimed` |
| `matchmaking` | 4 players of different ratings, 2 overlapping ticks, 4 entries, missing problems, crashes | `OnlyRacingPairs`, `PairsAreDisjoint`, `NobodyOverlooked`, `BothAccepted`, `NobodyWaitsForever`, types |
| `sessions` | 3 tabs of a player, 2 handlers waiting when an event arrives, key expiry, a crash | `UncontestedTabIsThePlayers`, `RegisteredIsOpenOrCutOff`, `NoGhostInQueue`, types |
| `aof` | 1 key, 2 records, 1 rewrite, 2 faults, both fsync policies | `LogRebuildsDataset`, `AcknowledgedIsKept`, `EverythingIsSynced`, `SyncedInOrder`, `RefusesOnlyAfterPowerLoss`, `RefusalIsTemporary`, `ImplementsLedger`, types |
| `lock_mutex` | 3 submissions, no fault, no expiry | `OneSubmissionAtATime` fails |
| `battle_result_once` | a forfeit of each player | `ResultEnteredOnce` fails |
| `battle_timer` | one submission | `TimeLimitHolds` fails |
| `battle_recovery` | one submission, one crash | `NoBattleLeftRunning` fails |
| `aof_torn` | 1 key, 3 records, 1 fault, no rewrite | `CrashCostsTheBuffer` fails |

The last five state what a comment or document says and the code does not do:

- *Mutual exclusion* (battle.ts:121). A submission that is refused the lock still
  runs `finally`; release compares the shared `:value` key with itself and
  deletes the holder's key. A third submission then enters.
- *One result per battle* (CRITICAL_ISSUES_FIXED.md:12). endBattle has no guard.
  When both players forfeit and both handlers read the record before either saves
  it, both end the battle, and each player gets a win and a loss.
- *The time limit holds* (matchmaking.ts:255, 285). A tick that meets JUDGING
  clears the interval for good.
- *Recovery* (index.ts:430). Only ACTIVE battles with a heartbeat are recovered.
  startBattle writes none, and a crash during judging leaves JUDGING.
- *A crash costs a single write* (redis.conf:1420). The loader advances
  `valid_up_to` behind every command it reads, those it only queues in a MULTI
  included (aof.c:1697). A SET that finds its key expired is logged as MULTI, DEL,
  SET, EXEC; if the process dies while writing it, the restart can leave the MULTI
  without its EXEC, and what is written behind it, acknowledged and synced, is not
  executed at the next load.

What the runs of the lobby and of the store say, and what they do not:

- A tick may pair a player who left or was matched *while it was running*; two
  overlapping ticks can therefore give one player two rooms. `OnlyRacingPairs`
  is the exact limit of that: never someone who was gone when the tick began.
- A tab that authenticated with no other tab around is the one the server talks
  to. With two tabs at once the registry may name neither, because disconnect
  deletes the entry of the user whoever holds it; and a socket that closes during
  its own authentication is registered afterwards. `RegisteredIsOpenOrCutOff`
  says that this is the only way to a dead entry.
- The log rebuilds the dataset at every cut, until a restart leaves an unfinished
  block in it, and again once a rewrite or a truncation has removed the block.
- After a power loss around a rewrite under everysec, a file that is not the last
  may be torn. The same happens when a rewrite moves on from a file with an
  unfinished block and then does not complete. The loader truncates such a file
  and only then refuses to start ("the truncated file is not the last file"), so
  the next attempt starts, without the lost records (`RefusalIsTemporary`).
- After a restart, records that the dead process had written and not synced count
  as covered (aof.c:775) and are synced with the next write only. The properties
  about fsync exclude these behaviours (`revived`), for either policy.

Bounds. One request of each kind per player is enough for every pair of handlers
to overlap at every await; three submissions are needed for a thief, a victim
and an intruder at the lock. With `InitialHp = 2`, damages 0, 1, 2 and 3 give no
hit, a chip, a lethal hit and an overkill. `TimeLimitTicks = 1` puts both a
harmless and a final tick within reach of every await. One crash reaches every
cut between two commands; `MaxCrashes` bounds it. In `matchmaking`, ratings 0, 1,
2, 4 with windows from 1 to 2 give pairs that match at once, only later, and
never; two ticks are enough for one to overtake the other, and four entries for
two pairs in one tick or a player who comes back. In `sessions`, three tabs give a
tab that displaces one which had displaced another; `GracePeriod = 1` with one
unit of time puts a reconnection before and at the deadline. In `aof`, one key is
enough because records of different keys do not interact; two records and one
rewrite put a record into each of two files, a lifetime of 1 and `MaxTime = 2` let
it expire for the active cycle and for commands, so that the second is a block of
two commands that a fault can tear, and two faults let a power loss or a crash
follow the restart that leaves the block unfinished. Larger instances hold as
well: the safety properties and the refinement with three records and one fault
(2,006,829 states), with two rewrites and two faults (1,604,794) and with three
records, two faults and no rewrite (170,950); all properties with two values and
one fault (394,651). Deadlock is not checked where the system may simply be over:
a room, or a store that has used up its records.

Fairness. The lock is checked for safety only. In `Battle` requests need not
arrive, and nothing need fail. A handler that has begun goes on (replies come or
are rejected, the judge's requests have timeouts), timeouts and intervals fire, and
keys with a TTL expire. In `Matchmaking` the clock
goes on, the interval fires and what createMatch awaits is answered. In `Aof` the
main thread finishes what it began and comes back to beforeSleep, where it cannot
forever find that a second has not passed or that an fsync is in progress (strong
fairness of the write and of the fsync); the fsync thread does its jobs; a server
that is down is started again (`restart: unless-stopped` in
docker-compose.prod.yml). Clients, rewrites and faults owe nothing.

## Proofs

All 31 theorems hold for every value of the constants under `LockAssumption`,
`BattleAssumption` (two distinct players, requests of known users, a positive
HP and limit), `NilAssumption` (Redis' nil is not a record),
`MatchmakingConstants` (natural ratings, windows that can grow),
`SessionsConstants` (a positive grace period; `None` is no socket, time or truth
value) and `AofConstants` (positive lifetimes; bounds that are numbers). They cover
every safety property and both refinements that the passing runs check.

### Lock and room

- `LockInvariance`, `LockTyped`, `OverlapTheorem`. Overlap is not inductive.
  `HolderOwnsKey` is what makes it so: the token of a holder who was not robbed is
  in the key, hence two such holders of one user are the same. `ReleaseIsDue`
  bounds the releases a request has left.
- `LeftBehindTheorem`: the lock of a request that has returned is still there only
  if the request was hindered. The invariant behind it, `StampStands`, follows an
  unhindered owner through its release: the `:value` key holds its token until it
  has deleted the lock.
- `BattleInvariance`: `BattleInv` = the lock's invariant and `RoomInv`. HP is
  accounted not only in the store but in *every* copy, because any copy may be
  saved later (`HpAccounted`); handlers that will save hold a record
  (`CopyHeld`); handlers inside endBattle name a winner whose opponent is beaten
  (`EndingIsDeserved`), which is what a loss is later justified by
  (`DeservedLoss`); the timer's count is bounded (`TicksBounded`). `HandlerStep`
  reduces a handler's step to its own pc, copy and winner, the record and the
  rows; `ClockStep` does the same for timers and the process; `LockStep` shows
  that every step is a step of the lock or leaves it alone.
- `BattleTyped`, `DamageIsNeverInvented`, `LossesAreDeserved`, `BattleOverlap`
  follow from it.
- `RoomImplementsLedger`: the room implements `BattleLedger`. `SubmitJudged` is
  `Judge`, conceding is `GiveUp`, recovery is `WriteOff`, `UpdateBattleStats` is
  `EnterResult`, and every other step leaves the ledger alone.
- `QuietEndTheorem`: an ENDED battle that no earlier reader can write back is
  never reopened.
- `StreaksCountWins`. endBattle raises the wins and, an await later, the streak,
  and several endings of one battle may be between the two. `StreakOwed` counts
  them: streak plus the endings of p that wait at that await is at most the wins
  of p. Entering the rows adds one to both sides, raising the streak trades an
  ending for a streak, a failed query or a crash only drops endings. The number of
  requests need not be finite, so that there are finitely many such endings is
  part of the invariant.
- `ZeroHpEntersResult`: if neither Redis nor Prisma rejects a command, then until
  a first crash (`crashes = 0`) a quiet room that shows a player at 0 HP has
  entered a result. `battle_duel` checks this with `MaxCrashes = 0`. Both
  conditions are necessary: a handler that fails or dies between the save and
  endBattle leaves the 0 behind. `ZeroIsSettling`: if *any* object, in the store,
  in a handler or in the timer, shows a 0, then a loss is in the table or some
  handler is on its way to enter one. It has to speak of all objects, because a
  stale copy with a 0 may be written long after its writer has settled.

### Lobby

- `MatchInvariance`: `MatchInv` for any number of players, entries and overlapping
  ticks. The properties speak of what running ticks have done, and are inductive
  only with: nothing queued is spent; windows are at least the initial one and
  follow a waiting time that never shrinks (so an accepted difference stays
  accepted while other ticks widen the shared entries); and `TickOK`, which ties a
  tick's snapshot, index and pairs to each other and to `before`. `ContinueOK`
  carries the double loop over an await; it rests on `FirstOfIsFirst`, that the pair
  chosen is the first in the order of the loop. `MatchmakingTyped`,
  `OnlyRacingPairsTheorem`, `PairsAreDisjointTheorem`, `NobodyOverlookedTheorem` and
  `BothAcceptedTheorem` follow.
- `SessionsInvariance`, `SessionsTyped`, `RegisteredTheorem`, for any number of tabs
  and waiting handlers: `SessionsInv` adds that every handler waiting in
  authenticate or check:reconnection is of a socket that is open or was cut off,
  which is what makes its later registration harmless or accounted for.
- `HandoverTheorem`: `HandoverInv` adds that while an uncontested tab is open no
  other tab is, and no handler in the pipeline can still make another tab the
  player's.
- `NoGhostTheorem`: a join that is half done when the connection goes puts the
  player into the queue after the disconnect handler has begun. `QueueInv` says why
  this does no harm: replies come in order, so a disconnect that began after the
  join also ends after it, and its end takes the player out (`Outrun`, `Leaving`).

### Append only file

- `AofInvariance`: `AofInv`, for any keys, values, lifetimes, records, rewrites and
  faults, both policies, with unfinished blocks or without. It has `SyncedInOrder`
  in it and needs the rest:
  - `FilesOK`: files of the manifest exist and are numbered in order, so that a
    rewrite's new file comes behind them and deleting history hits none of them;
  - `SourcesOK`: the dataset in memory is what the file being written and the buffer
    make of every dataset they may stand on (`Stands`): what the older files replay
    to, if the log is intact, and in any case the data of the rewrite child, later
    the new base. The second half is why a rewrite heals a broken log;
  - `StagesOK`: in an intact log the child's data, later the new base, is what the
    base and the closed files replay to, so switching to it changes nothing; the
    buffer is empty while the file is switched, so no record lands on the wrong side;
  - `SyncOK`: under always every file is synced and whole up to the one a dying
    server was writing; a dying process tears only that one; a running server has
    no torn file; after a power loss what is left is on disk;
  - `JobsOK`: the jobs of the fsync thread are in the order of the files and a closed
    file with records to sync has one, so fsync overtakes no file.
  `AofTyped`, `LogRebuildsTheorem`, `AcknowledgedTheorem` and `SyncedInOrderTheorem`
  follow. `Truncates` and `RestartFiles` say what a restart may do to the files, and
  `RefusalTheorem` is the action property that follows from `SyncOK`: a file before
  the last that ends early is torn, which needs a power loss, or has an open block.
- `LedgerTheorem`: the file implements `AofLedger`. Its durable dataset and its tail
  are the two sides of one cut through the records (`LedgerShape`), behind those that
  fsync has covered without a gap; `Books` are these two and the last fault. While
  the log is intact, a flush, an fsync and the steps of a rewrite keep the records
  (`KeepsLedger`, `SameRecords`) and only move the cut on
  (`Syncs`), also where a rewrite replaces closed files by a base that
  `StagesOK` shows equal. A command adds a record behind the cut (`Grows`). A dying
  process keeps a prefix of the records that includes the cut
  (`ProcessCrashLedger`). After a power loss each file keeps a prefix of its own, and
  what is left of the tail is picked from it in order (`PickedFiles`,
  `PowerLossLedger`); every file in front of the cut is kept whole. All of these
  leave the log intact (`StaysWhole`). Only a restart may not: it then is the
  ledger's `Break`, and otherwise leaves the books alone (`RestartLedger`).

Replay and concatenation are recursive functions. The induction these proofs need
over a log is carried out by hand: of the positions at which two runs differ there
is a least one (`LeastNatural`), and in front of it they agree.

Only model-checked: liveness (`JudgingEnds`, `RoomIsReclaimed`, `NobodyWaitsForever`,
`EverythingIsSynced`, `RefusalIsTemporary`), which is out of the prover's reach. TLC also confirms `StreakOwed` and `ZeroIsSettling` on the
instances of `battle_duel` and `battle_faults`, the latter where no query fails.

## Not modelled

- *Most of Redis.* The repository bundles the whole of it, some two hundred
  thousand lines of C. Modelled is the part whose concurrency and crashes decide
  what becomes of the game's keys. Replication, Cluster and Sentinel are not used
  by the deployment. Data types, encodings, hash tables, allocation, parsing, Lua,
  the command line tools and the like are sequential code or input and output
  whose models would repeat the code. Within the append only file, left out are
  write and fsync errors, a manifest or a file that cannot be created,
  `no-appendfsync-on-rewrite`, the orderly shutdown, switching the file on at run
  time, clients' own MULTI, and the options the game server never gives: XX, GET,
  KEEPTTL and the IF comparisons of SET, and NX, XX, GT and LT of EXPIRE.
- *Spells* (`spellService.ts`): keys that no other part reads; a spell changes
  neither the record nor a row.
- *Damage, ELO, achievements*: floating point formulas and a table that nothing
  reads; the models take any damage.
- *`testCases` as text*: with the column as the schema declares it every
  submission ends in `ProblemMissing`, and a battle is decided only by forfeit or
  time. `Battle` has this as `TestCasesColumn = "text"`, which the violation runs
  use; the passing runs use `"json"` to reach the judge.
- *`apps/api`, `services/judge`*: second implementations with their own state,
  which the battle server neither calls nor shares keys with.
- *Demo server, prototype backend, web clients, routes, scripts*: see the notes in
  `PROJECT.json`.
