-------------------------------- MODULE Aof --------------------------------
(***************************************************************************)
(* The append only persistence of Redis, in the source the repository      *)
(* bundles.  Redis keeps every lock, session and room of the game server,  *)
(* and docker-compose starts it with --appendonly yes.  Modelled: string   *)
(* commands and key expiry (t_string.c, expire.c, db.c), propagation       *)
(* (server.c), the buffer, the multi part log and its rewrite (aof.c), the *)
(* fsync thread (bio.c), and start-up.                                     *)
(*                                                                         *)
(* Time is in units of one millisecond of the key clock.  A dataset maps a *)
(* key to None or to its value and the time it expires at, -1 for never.   *)
(* A record is what one execution unit appends: one command, or several    *)
(* that MULTI and EXEC enclose.  A record that begins with Multi is an     *)
(* unfinished block: of the commands behind it, in whatever records, the   *)
(* loader executes none until it reads the EXEC of a later record.  A base *)
(* file is the dataset it holds.  An incr file has its records, how many   *)
(* of them fsync has covered, and the record, if any, of which only a part *)
(* follows them.                                                           *)
(***************************************************************************)
EXTENDS Integers, Sequences, FiniteSetsExt, Functions

CONSTANTS Keys, Values,
          Lifetimes,      \* the TTL arguments clients use; 0 means no TTL to SET
          None,           \* no such key
          MaxTime, MaxRecords, MaxRewrites, MaxFaults   \* bounds of the exploration

ASSUME AofConstants ==
    /\ Lifetimes \subseteq Nat \ {0}
    /\ {MaxTime, MaxRecords, MaxRewrites, MaxFaults} \subseteq Nat

VARIABLES
    mode,       \* "up", "down", or "refused": the loader found the log unusable
    fsync,      \* appendfsync: "always" or "everysec"
    now,        \* the clock keys expire by
    db,         \* the dataset in memory
    aofBuf,     \* server.aof_buf: records not yet written
    late,       \* records of the buffer whose replies have been sent
    postponed,  \* aof_flush_postponed_start is set
    covered,    \* aof_last_incr_fsync_offset: records of the file fsync is asked to cover
    bio,        \* the jobs of the fsync thread: [type, file]
    bases,      \* base files on disk: number -> dataset
    incrs,      \* incr files on disk: number -> [log, synced, torn]
    manifest,   \* [base, incr, oldBases, oldIncrs], on disk and in server.aof_manifest
    at,         \* where the main thread is in a rewrite or its completion
    child,      \* the rewrite child: [state, data]
    fault,      \* the last fault: "none", "process" or "power"
    revived,    \* a restart took over records that fsync had not covered
    records, rewrites, faults   \* counted for the bounds

vars == <<mode, fsync, now, db, aofBuf, late, postponed, covered, bio, bases, incrs,
          manifest, at, child, fault, revived, records, rewrites, faults>>

memory == <<db, aofBuf, late, postponed, covered, at, child>>
files == <<bases, incrs, manifest>>
bounds == <<records, rewrites, faults>>

----------------------------------------------------------------------------
(* The dataset, and what a command in the log does to it.  Nothing expires *)
(* while the log is loading.                                               *)

Empty == [k \in Keys |-> None]
Entry(v, when) == [val |-> v, exp |-> when]

Set(k, v, when) == [cmd |-> "set", key |-> k, val |-> v, exp |-> when]
SetNx(k, v) == [cmd |-> "setnx", key |-> k, val |-> v]
Del(k) == [cmd |-> "del", key |-> k]
PexpireAt(k, when) == [cmd |-> "pexpireat", key |-> k, exp |-> when]
Persist(k) == [cmd |-> "persist", key |-> k]
Multi == [cmd |-> "multi"]
Exec == [cmd |-> "exec"]

Present(d, k) == d[k] # None

Apply(d, op) ==
    CASE op.cmd = "set" -> [d EXCEPT ![op.key] = Entry(op.val, op.exp)]
      [] op.cmd = "setnx" ->
            IF Present(d, op.key) THEN d
            ELSE [d EXCEPT ![op.key] = Entry(op.val, -1)]
      [] op.cmd = "del" -> [d EXCEPT ![op.key] = None]
      [] op.cmd = "pexpireat" ->
            IF Present(d, op.key) THEN [d EXCEPT ![op.key].exp = op.exp] ELSE d
      [] op.cmd = "persist" ->
            IF Present(d, op.key) THEN [d EXCEPT ![op.key].exp = -1] ELSE d
      [] op.cmd = "multi" -> d

(* Sequences one after the other. *)
Concat(seqs) ==
    LET upTo[i \in 0..Len(seqs)] == IF i = 0 THEN <<>> ELSE upTo[i - 1] \o seqs[i]
    IN  upTo[Len(seqs)]

Replay(d, log) ==
    LET ops == Concat(log)
        after[i \in 0..Len(ops)] == IF i = 0 THEN d ELSE Apply(after[i - 1], ops[i])
    IN  after[Len(ops)]

----------------------------------------------------------------------------
(* The log as the loader reads it.                                         *)

Last(s) == s[Len(s)]
Current == Last(manifest.incr)

Unfinished(r) == r # <<>> /\ r[1] = Multi
HasExec(r) == Len(r) > 1 /\ ~Unfinished(r)

(* The unfinished blocks of a file that no EXEC ends.  A MULTI inside one  *)
(* is queued like any command, and reported as an error when it runs.      *)
Open(log) ==
    {i \in DOMAIN log : /\ Unfinished(log[i])
                        /\ \A j \in (i + 1)..Len(log) : ~HasExec(log[j])}

Executed(log) == IF Open(log) = {} THEN log ELSE SubSeq(log, 1, Min(Open(log)) - 1)

(* The base file is loaded with the keys that have expired since: the log  *)
(* that follows was written against exactly that keyspace.                 *)
Loaded(m) ==
    Replay(bases[m.base],
           Concat([i \in 1..Len(m.incr) |-> Executed(incrs[m.incr[i]].log)]))

(* No file has an unfinished block in it, ended by a later EXEC or not. *)
Intact(m) ==
    \A i \in DOMAIN m.incr :
        LET log == incrs[m.incr[i]].log
        IN  \A j \in DOMAIN log : ~Unfinished(log[j])

(* The files of the manifest, and what those before the i-th hold. *)
FileOf(i) == incrs[manifest.incr[i]]
Before(i) == Concat([j \in 1..(i - 1) |-> FileOf(j).log])

(* The files of the manifest with records that fsync has not covered. *)
Unsynced == {i \in DOMAIN manifest.incr :
                LET f == incrs[manifest.incr[i]] IN f.synced < Len(f.log)}

(* A file of the manifest that does not exist, or one before the last that *)
(* ends in the middle of a record or block, stops the server from          *)
(* starting.                                                               *)
Complete(m) == m.base \in DOMAIN bases /\ Range(m.incr) \subseteq DOMAIN incrs
EndsEarly(f) == f.torn # <<>> \/ Open(f.log) # {}
Truncated(m) == {i \in DOMAIN m.incr : EndsEarly(incrs[m.incr[i]])}
Loadable(m) == Complete(m) /\ Truncated(m) \subseteq {Len(m.incr)}

NoChild == [state |-> "none", data |-> Empty]
NewFile == [log |-> <<>>, synced |-> 0, torn |-> <<>>]
Written(f, log) == [f EXCEPT !.log = @ \o log]
Synced(f) == [f EXCEPT !.synced = Len(f.log)]

----------------------------------------------------------------------------
Init ==
    /\ mode = "up"
    /\ fsync \in {"always", "everysec"}
    /\ now = 0
    /\ db = Empty
    /\ aofBuf = <<>>
    /\ late = 0
    /\ postponed = FALSE
    /\ covered = 0
    /\ bio = <<>>
    /\ bases = [n \in {1} |-> Empty]
    /\ incrs = [n \in {1} |-> NewFile]
    /\ manifest = [base |-> 1, incr |-> <<1>>, oldBases |-> {}, oldIncrs |-> {}]
    /\ at = "loop"
    /\ child = NoChild
    /\ fault = "none"
    /\ revived = FALSE
    /\ records = 0
    /\ rewrites = 0
    /\ faults = 0

Running == mode = "up" /\ at = "loop"

----------------------------------------------------------------------------
(* Commands.  A command executes in one go on the main thread; what it     *)
(* propagates is one record.                                               *)

keyIsExpired(k) == Present(db, k) /\ db[k].exp >= 0 /\ now > db[k].exp

(* Mutant: the deletion of an expired key is not propagated. *)
expireIfNeededSilently(k) ==
    IF keyIsExpired(k) THEN [db |-> [db EXCEPT ![k] = None], ops |-> <<>>]
    ELSE [db |-> db, ops |-> <<>>]

(* A key found expired is deleted, and the deletion is propagated ahead of *)
(* the command that found it.                                              *)
expireIfNeeded(k) ==
    IF keyIsExpired(k) THEN [db |-> [db EXCEPT ![k] = None], ops |-> <<Del(k)>>]
    ELSE [db |-> db, ops |-> <<>>]

(* What an execution unit did is one record, if it did anything. *)
feedAppendOnlyFile(ops) == IF ops = <<>> THEN aofBuf ELSE Append(aofBuf, ops)

call(d, ops) ==
    /\ db' = d
    /\ aofBuf' = feedAppendOnlyFile(ops)
    /\ records' = IF ops = <<>> THEN records ELSE records + 1
    /\ UNCHANGED <<mode, fsync, now, late, postponed, covered, bio, files, at, child,
                   fault, revived, rewrites, faults>>

Accepting == Running /\ records < MaxRecords

(* SET key value [NX] [PX ttl].  A TTL is propagated as the time it ends;  *)
(* with no TTL the command is propagated as it came, NX included.  The     *)
(* options the game server never gives are left out: XX and the IF         *)
(* comparisons, which refuse as NX does, GET and KEEPTTL.                  *)
setGenericCommand(k, v, ttl, nx) ==
    LET found == expireIfNeeded(k)
        when == IF ttl = 0 THEN -1 ELSE now + ttl
        op == IF nx /\ ttl = 0 THEN SetNx(k, v) ELSE Set(k, v, when)
    IN  /\ Accepting
        /\ IF nx /\ Present(found.db, k)
           THEN call(found.db, found.ops)
           ELSE call([found.db EXCEPT ![k] = Entry(v, when)], Append(found.ops, op))

getCommand(k) ==
    LET found == expireIfNeeded(k)
    IN  Accepting /\ call(found.db, found.ops)

delGenericCommand(k) ==
    /\ Accepting
    /\ Present(db, k)
    /\ call([db EXCEPT ![k] = None], <<Del(k)>>)

(* EXPIRE key ttl.  A time that has come already deletes the key.  Left    *)
(* out are the options NX, XX, GT and LT, which refuse as for no key.      *)
expireGenericCommand(k, ttl) ==
    LET found == expireIfNeeded(k)
    IN  /\ Accepting
        /\ IF ~Present(found.db, k)
           THEN call(found.db, found.ops)
           ELSE IF ttl = 0
           THEN call([found.db EXCEPT ![k] = None], Append(found.ops, Del(k)))
           ELSE call([found.db EXCEPT ![k].exp = now + ttl],
                     Append(found.ops, PexpireAt(k, now + ttl)))

persistCommand(k) ==
    LET found == expireIfNeeded(k)
    IN  /\ Accepting
        /\ IF Present(found.db, k) /\ found.db[k].exp >= 0
           THEN call([found.db EXCEPT ![k].exp = -1], Append(found.ops, Persist(k)))
           ELSE call(found.db, found.ops)

(* The active expire cycle deletes a key from the very time it ends at,    *)
(* one tick earlier than a command would find it expired.                  *)
activeExpireCycleTryExpire(k) ==
    /\ Accepting
    /\ Present(db, k) /\ db[k].exp >= 0 /\ now >= db[k].exp
    /\ call([db EXCEPT ![k] = None], <<Del(k)>>)

Tick ==
    /\ at = "loop"
    /\ now < MaxTime
    /\ now' = now + 1
    /\ UNCHANGED <<mode, fsync, memory, bio, files, fault, revived, bounds>>
----------------------------------------------------------------------------
(* Writing the buffer.  Under "always" the main thread writes and waits    *)
(* for fsync; under "everysec" it writes and, when a second has passed and *)
(* no fsync job is waiting, hands one to the thread.  While one is         *)
(* waiting, an unforced flush may be put off for up to two seconds.        *)

Job(type, n) == [type |-> type, file |-> n]
aofFsyncInProgress == \E i \in DOMAIN bio : bio[i].type = "fsync"

(* Mutant: the newest job is done first. *)
bioSubmitFirst(jobs, job) == <<job>> \o jobs

(* The jobs of the fsync thread are done in the order they were submitted. *)
bioSubmitJob(jobs, job) == Append(jobs, job)

WriteOnly(f) == Written(f, aofBuf)
WriteAndSync(f) == Synced(Written(f, aofBuf))

(* Mutant: an empty buffer ends the flush. *)
NothingBuffered(size) == aofBuf = <<>>

(* An empty buffer is no reason not to fsync what was written before. *)
NothingToFlush(size) == aofBuf = <<>> /\ covered = size

flushAppendOnlyFile(force) ==
    LET size == Len(incrs[Current].log) + Len(aofBuf)
        idle == NothingToFlush(size)
    IN  \/ /\ idle
           /\ UNCHANGED <<incrs, aofBuf, postponed, covered, bio>>
        \/ /\ ~idle
           /\ fsync = "always"
           /\ incrs' = [incrs EXCEPT ![Current] = WriteAndSync(@)]
           /\ covered' = size
           /\ aofBuf' = <<>>
           /\ postponed' = FALSE
           /\ UNCHANGED bio
        \/ /\ ~idle
           /\ fsync = "everysec"
           /\ incrs' = [incrs EXCEPT ![Current] = WriteOnly(@)]
           /\ aofBuf' = <<>>
           /\ postponed' = FALSE
           /\ \/ UNCHANGED <<bio, covered>>
              \/ /\ ~aofFsyncInProgress
                 /\ bio' = bioSubmitJob(bio, Job("fsync", Current))
                 /\ covered' = size
        \/ /\ fsync = "everysec" /\ ~force
           /\ aofBuf # <<>> /\ aofFsyncInProgress
           /\ postponed' = TRUE
           /\ UNCHANGED <<incrs, aofBuf, covered, bio>>

(* The end of a turn of the event loop: flush, then send the replies. *)
beforeSleep ==
    /\ Running
    /\ flushAppendOnlyFile(FALSE)
    /\ late' = Len(aofBuf')
    /\ UNCHANGED <<mode, fsync, now, db, bases, manifest, at, child, fault,
                   revived, bounds>>

(* The cron retries a flush that was put off. *)
serverCronFlush ==
    /\ Running
    /\ postponed
    /\ flushAppendOnlyFile(FALSE)
    /\ late' = IF aofBuf' = <<>> THEN 0 ELSE late
    /\ UNCHANGED <<mode, fsync, now, db, bases, manifest, at, child, fault,
                   revived, bounds>>

(* The fsync thread does its first job; a deleted file is no loss. *)
bioProcessBackgroundJobs ==
    /\ mode = "up"
    /\ bio # <<>>
    /\ LET n == Head(bio).file
       IN  incrs' = IF n \in DOMAIN incrs THEN [incrs EXCEPT ![n] = Synced(@)] ELSE incrs
    /\ bio' = Tail(bio)
    /\ UNCHANGED <<mode, fsync, now, memory, bases, manifest, fault, revived, bounds>>

----------------------------------------------------------------------------
(* The rewrite.  The parent flushes, opens a new incr file and forks; the  *)
(* child writes the dataset it was forked with to a temporary base file.   *)
(* When the child has succeeded, the parent renames that file, persists a  *)
(* manifest of the new base and the current incr file, and deletes what    *)
(* became history.  The main thread serves no client between these steps,  *)
(* but the fsync thread runs and the server may die.                       *)

(* A copy of the manifest is written beside the old one, synced and        *)
(* renamed over it, and only then adopted.                                 *)
persistAofManifest(m) == manifest' = m

rewriteAppendOnlyFileBackground ==
    /\ Running
    /\ child.state = "none"
    /\ rewrites < MaxRewrites
    /\ rewrites' = rewrites + 1
    /\ flushAppendOnlyFile(TRUE)
    /\ late' = 0
    /\ at' = "open"
    /\ UNCHANGED <<mode, fsync, now, db, bases, manifest, child, fault,
                   revived, records, faults>>

(* The new file is created, or emptied if one was left behind. *)
createIncrFile ==
    /\ mode = "up" /\ at = "open"
    /\ incrs' = [n \in DOMAIN incrs \cup {Current + 1} |->
                    IF n = Current + 1 THEN NewFile ELSE incrs[n]]
    /\ at' = "switch"
    /\ UNCHANGED <<mode, fsync, now, db, aofBuf, late, postponed, covered, bio, bases,
                   manifest, child, fault, revived, bounds>>

openNewIncrAofForAppend ==
    /\ mode = "up" /\ at = "switch"
    /\ persistAofManifest([manifest EXCEPT !.incr = Append(@, Current + 1)])
    /\ bio' = bioSubmitJob(bio, Job("close", Current))
    /\ covered' = 0
    /\ \E forked \in BOOLEAN :
          child' = IF forked THEN [state |-> "running", data |-> db] ELSE child
    /\ at' = "loop"
    /\ UNCHANGED <<mode, fsync, now, db, aofBuf, late, postponed, bases, incrs, fault,
                   revived, bounds>>

(* Mutant: the child sees the dataset of the parent change. *)
rewriteAppendOnlyFileLive ==
    /\ mode = "up" /\ child.state = "running"
    /\ child' = [state |-> "done", data |-> db]
    /\ UNCHANGED <<mode, fsync, now, db, aofBuf, late, postponed, covered, at, bio, files,
                   fault, revived, bounds>>

(* The child writes the dataset it was forked with. *)
rewriteAppendOnlyFile ==
    /\ mode = "up" /\ child.state = "running"
    /\ child' = [child EXCEPT !.state = "done"]
    /\ UNCHANGED <<mode, fsync, now, db, aofBuf, late, postponed, covered, at, bio, files,
                   fault, revived, bounds>>

(* A child that fails or is killed leaves the log as it is, with one incr  *)
(* file more.                                                              *)
backgroundRewriteFailed ==
    /\ Running /\ child.state = "running"
    /\ child' = NoChild
    /\ UNCHANGED <<mode, fsync, now, db, aofBuf, late, postponed, covered, at, bio, files,
                   fault, revived, bounds>>

(* The temporary file takes the name of the next base file. *)
backgroundRewriteDoneHandler ==
    /\ Running /\ child.state = "done"
    /\ bases' = [n \in DOMAIN bases \cup {manifest.base + 1} |->
                    IF n = manifest.base + 1 THEN child.data ELSE bases[n]]
    /\ child' = NoChild
    /\ at' = "renamed"
    /\ UNCHANGED <<mode, fsync, now, db, aofBuf, late, postponed, covered, manifest, bio,
                   incrs, fault, revived, bounds>>

(* Mutant: the file being written is history, too. *)
markAllIncrAofAsHistory(m) ==
    [m EXCEPT !.incr = <<Last(m.incr)>>, !.oldIncrs = @ \cup Range(m.incr)]

(* All incr files but the one being written were rewritten. *)
markRewrittenIncrAofAsHistory(m) ==
    [m EXCEPT !.incr = <<Last(m.incr)>>,
              !.oldIncrs = @ \cup {m.incr[i] : i \in 1..(Len(m.incr) - 1)}]

getNewBaseFileNameAndMarkPreAsHistory(m) ==
    [m EXCEPT !.base = @ + 1, !.oldBases = @ \cup {m.base}]

switchToNewBase ==
    /\ mode = "up" /\ at = "renamed"
    /\ persistAofManifest(
          markRewrittenIncrAofAsHistory(getNewBaseFileNameAndMarkPreAsHistory(manifest)))
    /\ at' = "history"
    /\ UNCHANGED <<mode, fsync, now, db, aofBuf, late, postponed, covered, child, bio,
                   bases, incrs, fault, revived, bounds>>

aofDelHistoryFiles ==
    /\ mode = "up" /\ at = "history"
    /\ bases' = [n \in DOMAIN bases \ manifest.oldBases |-> bases[n]]
    /\ incrs' = [n \in DOMAIN incrs \ manifest.oldIncrs |-> incrs[n]]
    /\ at' = "deleted"
    /\ UNCHANGED <<mode, fsync, now, db, aofBuf, late, postponed, covered, manifest, child,
                   bio, fault, revived, bounds>>

forgetHistory ==
    /\ mode = "up" /\ at = "deleted"
    /\ persistAofManifest([manifest EXCEPT !.oldBases = {}, !.oldIncrs = {}])
    /\ at' = "loop"
    /\ UNCHANGED <<mode, fsync, now, db, aofBuf, late, postponed, covered, child, bio,
                   bases, incrs, fault, revived, bounds>>

----------------------------------------------------------------------------
(* Faults and the restart.  A server that dies in the middle of a flush    *)
(* has written part of the buffer, perhaps ending within a record.         *)

WrittenPart(n, cut) ==
    [incrs EXCEPT ![Current] = [Written(@, SubSeq(aofBuf, 1, n)) EXCEPT
                                    !.torn = IF cut THEN aofBuf[n + 1] ELSE <<>>]]

Dying ==
    IF mode = "up" /\ at = "loop"
    THEN {WrittenPart(n, FALSE) : n \in 0..Len(aofBuf)}
            \cup {WrittenPart(n, TRUE) : n \in 0..(Len(aofBuf) - 1)}
    ELSE {incrs}

Dead(kind) ==
    /\ faults < MaxFaults
    /\ faults' = faults + 1
    /\ fault' = kind
    /\ mode' = "down"
    /\ db' = Empty
    /\ aofBuf' = <<>>
    /\ late' = 0
    /\ postponed' = FALSE
    /\ covered' = 0
    /\ bio' = <<>>
    /\ at' = "loop"
    /\ child' = NoChild
    /\ UNCHANGED <<fsync, now, bases, manifest, revived, records, rewrites>>

(* The process dies: what it wrote is still in the page cache. *)
ProcessCrash ==
    /\ mode = "up"
    /\ incrs' \in Dying
    /\ Dead("process")

(* The machine loses power: of each file the records fsync has covered are *)
(* on disk, and as many more as the system happened to write.              *)
Survives(f, n, cut) ==
    [log |-> SubSeq(f.log, 1, n),
     synced |-> n,
     torn |-> IF ~cut THEN <<>> ELSE IF n < Len(f.log) THEN f.log[n + 1] ELSE f.torn]

PowerLoss ==
    /\ \E last \in Dying :
          \E n \in [DOMAIN last -> 0..MaxRecords], cut \in [DOMAIN last -> BOOLEAN] :
             /\ \A i \in DOMAIN last :
                   /\ n[i] \in last[i].synced..Len(last[i].log)
                   /\ cut[i] => n[i] < Len(last[i].log) \/ last[i].torn # <<>>
             /\ incrs' = [i \in DOMAIN last |-> Survives(last[i], n[i], cut[i])]
    /\ Dead("power")

(* The commands of a record as they are in the file, and what of them is   *)
(* whole when the file ends within the record.                             *)
AsWritten(r) == IF HasExec(r) THEN <<Multi>> \o r \o <<Exec>> ELSE r
Leftovers(r) == {SubSeq(AsWritten(r), 1, n) : n \in 0..(Len(AsWritten(r)) - 1)}

(* A read that stops within a command cuts the file behind the last whole  *)
(* command, be it inside a block: the block stays, without its EXEC, and   *)
(* after a power loss is on disk.  A file that ends with a whole command   *)
(* is cut before the last MULTI.                                           *)
CutBehind(f, left) ==
    LET log == IF left = <<>> THEN f.log ELSE Append(f.log, left)
    IN  [log |-> log,
         synced |-> IF fault = "power" THEN Len(log) ELSE f.synced,
         torn |-> <<>>]

CutBefore(f, n) ==
    [f EXCEPT !.log = SubSeq(@, 1, n - 1), !.synced = Min({@, n - 1})]

(* Mutant: the tail stays in the file. *)
KeepTail(f) == {f}

truncateAppendOnlyFile(f) ==
    IF f.torn # <<>>
    THEN {CutBehind(f, left) : left \in Leftovers(f.torn)}
    ELSE {CutBefore(f, Max(Open(f.log)))}

(* Mutant: only the last file is ever truncated. *)
RepairedLast(m) ==
    IF Len(m.incr) \in Truncated(m)
    THEN {[incrs EXCEPT ![Last(m.incr)] = f] : f \in truncateAppendOnlyFile(incrs[Last(m.incr)])}
    ELSE {incrs}

(* A file that ends early is truncated when it is read, and only then the  *)
(* loader asks whether it is the last one: giving up leaves it truncated.  *)
Repaired(m) ==
    IF Complete(m) /\ Truncated(m) # {}
    THEN LET n == m.incr[Min(Truncated(m))]
         IN  {[incrs EXCEPT ![n] = f] : f \in truncateAppendOnlyFile(incrs[n])}
    ELSE {incrs}

Restart ==
    /\ mode \in {"down", "refused"}
    /\ incrs' \in Repaired(manifest)
    /\ UNCHANGED <<fsync, now, aofBuf, late, postponed, bio, bases, manifest, child, fault,
                   bounds>>
    /\ IF Loadable(manifest)
       THEN /\ mode' = "up"
            /\ db' = Loaded(manifest)
            /\ covered' = Len(incrs'[Current].log)
            /\ at' = IF manifest.oldBases \cup manifest.oldIncrs = {} THEN "loop" ELSE "history"
            /\ revived' = (revived \/ Unsynced' # {})
       ELSE /\ mode' = "refused"
            /\ UNCHANGED <<db, covered, at, revived>>

----------------------------------------------------------------------------
Commands == \E k \in Keys :
    \/ \E v \in Values, ttl \in Lifetimes \cup {0}, nx \in BOOLEAN :
          setGenericCommand(k, v, ttl, nx)
    \/ getCommand(k)
    \/ delGenericCommand(k)
    \/ \E ttl \in Lifetimes \cup {0} : expireGenericCommand(k, ttl)
    \/ persistCommand(k)
    \/ activeExpireCycleTryExpire(k)

Rewrite ==
    \/ rewriteAppendOnlyFileBackground
    \/ createIncrFile
    \/ openNewIncrAofForAppend
    \/ rewriteAppendOnlyFile
    \/ backgroundRewriteFailed
    \/ backgroundRewriteDoneHandler
    \/ switchToNewBase
    \/ aofDelHistoryFiles
    \/ forgetHistory

Next ==
    \/ Commands
    \/ Tick
    \/ beforeSleep
    \/ serverCronFlush
    \/ bioProcessBackgroundJobs
    \/ Rewrite
    \/ ProcessCrash
    \/ PowerLoss
    \/ Restart

(* The main thread goes on with what it has begun, comes back to           *)
(* beforeSleep whether or not there are clients, and there, sooner or      *)
(* later, no second has to pass and no postponement is left; the fsync     *)
(* thread does its jobs.  A server that is down is started again (the      *)
(* container's restart policy).  Clients, rewrites and faults owe nothing. *)
Fairness ==
    /\ WF_vars(createIncrFile \/ openNewIncrAofForAppend \/ switchToNewBase
                 \/ aofDelHistoryFiles \/ forgetHistory)
    /\ SF_vars(aofBuf # <<>> /\ beforeSleep /\ aofBuf' = <<>>)
    /\ SF_vars(beforeSleep /\ covered' # covered)
    /\ WF_vars(bioProcessBackgroundJobs)
    /\ WF_vars(Restart)

Spec == Init /\ [][Next]_vars /\ Fairness

----------------------------------------------------------------------------
(* Properties.                                                             *)

Datasets == [Keys -> {None} \cup [val : Values, exp : Nat \cup {-1}]]

(* The files the manifest names exist and are numbered in the order they   *)
(* were made, no incr file is covered by fsync beyond its end, and history *)
(* is never a file in use.                                                 *)
AofTypeOK ==
    /\ mode \in {"up", "down", "refused"}
    /\ fault \in {"none", "process", "power"}
    /\ db \in Datasets
    /\ \A n \in DOMAIN bases : bases[n] \in Datasets
    /\ \A n \in DOMAIN incrs : incrs[n].synced \in 0..Len(incrs[n].log)
    /\ manifest.base \in DOMAIN bases
    /\ Range(manifest.incr) \subseteq DOMAIN incrs
    /\ \A i, j \in DOMAIN manifest.incr : i < j => manifest.incr[i] < manifest.incr[j]
    /\ manifest.base \notin manifest.oldBases
    /\ Range(manifest.incr) \cap manifest.oldIncrs = {}

(* At every moment of a rewrite, of a deletion of history and of a         *)
(* restart, the log on disk and the buffer rebuild exactly the dataset in  *)
(* memory: its values, the times its keys expire at, and the keys that     *)
(* have expired and are not deleted yet.  This ends when the loader leaves *)
(* an unfinished block in the log (aof.c:1697), and holds again once a     *)
(* rewrite or a truncation has removed it.                                 *)
LogRebuildsDataset ==
    mode = "up" /\ Intact(manifest) => db = Replay(Loaded(manifest), aofBuf)

(* Under "always" every record whose reply has been sent is covered by     *)
(* fsync.  Under either policy it has at least been written, unless the    *)
(* flush is being put off behind a background fsync.  Records that a       *)
(* restart took over from the page cache are not covered until the next    *)
(* write (revived).                                                        *)
AcknowledgedIsKept ==
    /\ fsync = "always" /\ ~revived /\ mode = "up" => Unsynced = {} /\ late = 0
    /\ ~postponed => late = 0

(* Everything executed is on disk in the end, also when no further command *)
(* comes to flush it, when a flush was put off behind a slow fsync, and    *)
(* when a rewrite moved on to another file: as long as the server stays up *)
(* and has taken over nothing from the page cache.                         *)
EverythingIsSynced ==
    []<>(mode # "up" \/ revived \/ (aofBuf = <<>> /\ Unsynced = {}))

(* Fsync covers the files in order: no record is durable while one before  *)
(* it is not, so that a power loss costs the end of the log and, at most,  *)
(* of the two files around a rewrite.                                      *)
SyncedInOrder ==
    ~revived => \A i, j \in DOMAIN manifest.incr :
                   i < j /\ i \in Unsynced => incrs[manifest.incr[j]].synced = 0

(* A record cut off in a file before the last stops the server only after  *)
(* a power loss, and only where fsync had not covered the file: never      *)
(* after a crash of the process, never under "always".  The one other      *)
(* reason to refuse is an unfinished block that an earlier restart left    *)
(* and a rewrite moved on from.                                            *)
RefusesOnlyAfterPowerLoss ==
    [][ Restart /\ mode' = "refused" =>
          \/ fault = "power" /\ (fsync = "everysec" \/ revived)
          \/ \E i \in 1..(Len(manifest.incr) - 1) : Open(FileOf(i).log) # {} ]_vars

(* A server that refused to start comes up at a later attempt: every       *)
(* attempt truncates the file it stumbled on.  The refusal is a warning    *)
(* and not a stop; what was cut off in the middle of the log is then       *)
(* missing, as ImplementsLedger allows after a power loss.                 *)
RefusalIsTemporary == mode = "refused" ~> mode = "up"

(* "a single write if something wrong with the Redis process itself        *)
(* happens" (redis.conf:1420): as long as only the process dies, the log   *)
(* rebuilds the dataset but for the buffer.                                *)
CrashCostsTheBuffer ==
    mode = "up" /\ fault # "power" => db = Replay(Loaded(manifest), aofBuf)
============================================================================
