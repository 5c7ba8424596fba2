---------------------------- MODULE Matchmaking ----------------------------
(***************************************************************************)
(* The matchmaking queue of the battle server                              *)
(* (server/src/services/matchmaking.ts): players join and leave, an        *)
(* interval starts tick() every two seconds whether or not the last one    *)
(* has finished, and every tick works on its own snapshot of the queue,    *)
(* awaiting createMatch once per pair.                                     *)
(*                                                                         *)
(* A queue entry is named by its place in the order of joining, so the     *)
(* insertion order of the Map, the stable sort by joinedAt and the index   *)
(* of an entry in a snapshot are all the order of the naturals.  Entries   *)
(* are objects shared by the queue and the snapshots: widening a window    *)
(* shows in all of them.  ELO and windows are in units of the caller's     *)
(* choice, time in fractions of the ten seconds after which a window grows.*)
(*                                                                         *)
(* Left out: the keys queue:player:<user>, which are written and deleted   *)
(* but read by nothing, and the queue:position messages.                   *)
(***************************************************************************)
EXTENDS Integers, Sequences, FiniteSets

CONSTANTS
    Users,          \* players
    Elo,            \* [Users -> Nat]
    InitialWindow,  \* INITIAL_ELO_WINDOW
    ExpandRate,     \* ELO_EXPAND_RATE
    MaxWindow,      \* MAX_ELO_WINDOW
    Period,         \* time units in ten seconds
    MaxEntries,     \* bound: how often addToQueue makes an entry
    Ticks           \* the ticks that can be under way at once

ASSUME MatchmakingConstants ==
    /\ Elo \in [Users -> Nat]
    /\ InitialWindow \in Nat /\ ExpandRate \in Nat \ {0}
    /\ MaxWindow \in Nat /\ InitialWindow <= MaxWindow
    /\ Period \in Nat \ {0}
    /\ MaxEntries \in Nat

VARIABLES
    entries,    \* the QueueEntry objects made so far
    queue,      \* this.queue: the numbers of the entries in the Map
    tick,       \* the calls of tick() under way
    rooms,      \* the entries of every record battle:<room> saved
    spent,      \* history: entries whose player left or was given a match
    before      \* history: what was spent when a tick took its snapshot

vars == <<entries, queue, tick, rooms, spent, before>>

----------------------------------------------------------------------------
Entry == [user : Users, elapsed : Nat, window : Nat]

User(e) == entries[e].user

\* A tick that is not running.
Idle == [pc |-> "idle", players |-> {}, from |-> 0, pairs |-> {}, pair |-> {}]

InFlight == {t \in Ticks : tick[t].pc # "idle"}

\* The players a tick has matched (the local Set matched).
Matched(tk) == UNION tk.pairs

\* From here on a window no longer changes.
FullyGrown ==
    Period * ((MaxWindow - InitialWindow + ExpandRate - 1) \div ExpandRate)

Min2(m, n) == IF m <= n THEN m ELSE n
Abs(n) == IF n < 0 THEN -n ELSE n

\* Mutant: windows do not grow.
WindowFixed(elapsed) == InitialWindow

Window(elapsed) ==
    Min2(InitialWindow + (elapsed \div Period) * ExpandRate, MaxWindow)

Gap(es, e, f) == Abs(Elo[es[e].user] - Elo[es[f].user])

\* Mutant: the wider of the two windows decides.
AcceptsWider(es, e, f) ==
    \/ Gap(es, e, f) <= es[e].window
    \/ Gap(es, e, f) <= es[f].window

\* eloDiff <= window, the smaller of the two windows
Accepts(es, e, f) ==
    Gap(es, e, f) <= Min2(es[e].window, es[f].window)

----------------------------------------------------------------------------
Init ==
    /\ entries = << >>
    /\ queue = {}
    /\ tick = [t \in Ticks |-> Idle]
    /\ rooms = {}
    /\ spent = {}
    /\ before = [t \in Ticks |-> {}]

\* Mutant: nobody asks whether the player is queued.
addToQueueAgain(u) ==
    /\ Len(entries) < MaxEntries
    /\ entries' = Append(entries, [user |-> u, elapsed |-> 0, window |-> InitialWindow])
    /\ queue' = queue \cup {Len(entries) + 1}
    /\ UNCHANGED <<tick, rooms, spent, before>>

\* queue:join, once the session check let the socket pass.  A player who is
\* queued already is left where they are.
addToQueue(u) ==
    /\ \A e \in queue : User(e) # u
    /\ Len(entries) < MaxEntries
    /\ entries' = Append(entries, [user |-> u, elapsed |-> 0, window |-> InitialWindow])
    /\ queue' = queue \cup {Len(entries) + 1}
    /\ UNCHANGED <<tick, rooms, spent, before>>

\* queue:leave, and the last thing the disconnect handler does.
removeFromQueue(u) ==
    /\ \E e \in queue : User(e) = u
    /\ queue' = {e \in queue : User(e) # u}
    /\ spent' = spent \cup (queue \ queue')
    /\ UNCHANGED <<entries, tick, rooms, before>>

\* Time passes; FullyGrown bounds the count.
Pass ==
    /\ \E e \in queue : entries[e].elapsed < FullyGrown
    /\ entries' = [e \in DOMAIN entries |->
                      IF e \in queue
                      THEN [entries[e] EXCEPT !.elapsed = Min2(@ + 1, FullyGrown)]
                      ELSE entries[e]]
    /\ UNCHANGED <<queue, tick, rooms, spent, before>>

----------------------------------------------------------------------------
\* Mutant: matched is not consulted.
CandidatesAgain(es, tk) ==
    {p \in tk.players \X tk.players :
        tk.from <= p[1] /\ p[1] < p[2] /\ Accepts(es, p[1], p[2])}

\* Mutant: only the neighbour in the snapshot is considered.
CandidatesNext(es, tk) ==
    LET open == tk.players \ Matched(tk)
    IN  {p \in open \X open :
            /\ tk.from <= p[1] /\ p[1] < p[2] /\ Accepts(es, p[1], p[2])
            /\ \A e \in tk.players : ~(p[1] < e /\ e < p[2])}

\* The pairs the double loop of tick() may still come to, and the one it
\* comes to first.  from is the outer index.
Candidates(es, tk) ==
    LET open == tk.players \ Matched(tk)
    IN  {p \in open \X open : tk.from <= p[1] /\ p[1] < p[2] /\ Accepts(es, p[1], p[2])}

FirstOf(ps) ==
    CHOOSE p \in ps : \A q \in ps : p[1] < q[1] \/ (p[1] = q[1] /\ p[2] <= q[2])

\* Mutant: only the first of the two is removed.
WithoutFirst(q, p) == {e \in q : User(e) # User(p[1])}

\* createMatch begins by taking both players out of the Map, by user id.
WithoutPlayers(q, p) == {e \in q : User(e) \notin {User(p[1]), User(p[2])}}

\* The loop runs on, from the start of tick() or after createMatch returned:
\* either the next pair is matched, up to the first await of createMatch, or
\* the tick is over.
Continue(t, es, tk, past) ==
    LET ps == Candidates(es, tk)
        p  == FirstOf(ps)
    IN  \/ /\ ps = {}
           /\ tick' = [tick EXCEPT ![t] = Idle]
           /\ before' = [before EXCEPT ![t] = {}]
           /\ UNCHANGED <<queue, spent>>
        \/ /\ ps # {}
           /\ tick' = [tick EXCEPT ![t] = [tk EXCEPT !.pc = "problem",
                                                     !.from = p[1] + 1,
                                                     !.pairs = @ \cup {{p[1], p[2]}},
                                                     !.pair = {p[1], p[2]}]]
           /\ before' = [before EXCEPT ![t] = past]
           /\ queue' = WithoutPlayers(queue, p)
           /\ spent' = spent \cup {p[1], p[2]} \cup (queue \ queue')

\* The interval fires: windows grow, the snapshot is taken, the loop starts.
StartTick(t) ==
    /\ tick[t].pc = "idle"
    /\ entries' = [e \in DOMAIN entries |->
                      IF e \in queue
                      THEN [entries[e] EXCEPT !.window = Window(entries[e].elapsed)]
                      ELSE entries[e]]
    /\ Continue(t, entries', [Idle EXCEPT !.players = queue], spent)
    /\ UNCHANGED rooms

\* selectProblemForElo has answered; without a problem createMatch returns.
NoProblem(t) ==
    /\ tick[t].pc = "problem"
    /\ Continue(t, entries, tick[t], before[t])
    /\ UNCHANGED <<entries, rooms>>

\* The problem, the user names and the match row are in (a failed insert is
\* only logged); the room is saved.
SaveRoom(t) ==
    /\ tick[t].pc = "problem"
    /\ rooms' = rooms \cup {tick[t].pair}
    /\ tick' = [tick EXCEPT ![t].pc = "notify"]
    /\ UNCHANGED <<entries, queue, spent, before>>

\* Both players are told, the countdown is scheduled, createMatch returns.
Notify(t) ==
    /\ tick[t].pc = "notify"
    /\ Continue(t, entries, tick[t], before[t])
    /\ UNCHANGED <<entries, rooms>>

\* Nothing catches a rejection in tick(): the process ends, as it does when
\* it is killed.  The Map and the running ticks are gone, the rooms are not.
Crash ==
    /\ queue # {} \/ InFlight # {}
    /\ queue' = {}
    /\ tick' = [t \in Ticks |-> Idle]
    /\ spent' = spent \cup queue
    /\ before' = [t \in Ticks |-> {}]
    /\ UNCHANGED <<entries, rooms>>

Step(t) == NoProblem(t) \/ SaveRoom(t) \/ Notify(t)

Next ==
    \/ \E u \in Users : addToQueue(u) \/ removeFromQueue(u)
    \/ \E t \in Ticks : StartTick(t) \/ Step(t)
    \/ Pass
    \/ Crash

(***************************************************************************)
(* The clock goes on, the interval keeps firing, and what createMatch      *)
(* awaits is answered or rejected.  Players and crashes owe nothing.       *)
(***************************************************************************)
Fairness ==
    /\ WF_vars(Pass)
    /\ WF_vars(\E t \in Ticks : StartTick(t))
    /\ \A t \in Ticks : WF_vars(Step(t))

Spec == Init /\ [][Next]_vars /\ Fairness

----------------------------------------------------------------------------
\* The shape of the state: the queue holds entries that exist, one per player.
MatchmakingTypeOK ==
    /\ entries \in Seq(Entry)
    /\ queue \subseteq DOMAIN entries
    /\ \A e, f \in queue : User(e) = User(f) => e = f
    /\ tick \in [Ticks -> [pc : {"idle", "problem", "notify"},
                           players : SUBSET (1 .. MaxEntries),
                           from : Nat,
                           pairs : SUBSET SUBSET (1 .. MaxEntries),
                           pair : SUBSET (1 .. MaxEntries)]]
    /\ spent \subseteq DOMAIN entries
    /\ before \in [Ticks -> SUBSET (1 .. MaxEntries)]

(***************************************************************************)
(* A tick works on a snapshot, and other ticks, leaving players and crashes*)
(* change the queue under it.  What it may do all the same: pair a player  *)
(* who left or was matched while it was running.  What it may never do:    *)
(* pair an entry that was already spent when it started.                   *)
(***************************************************************************)
OnlyRacingPairs ==
    \A t \in Ticks : Matched(tick[t]) \cap before[t] = {}

(***************************************************************************)
(* One tick gives a player at most one match, and every match has two      *)
(* different players (the Set matched and the inner index j = i + 1).      *)
(***************************************************************************)
PairsAreDisjoint ==
    \A t \in Ticks : \A p, q \in tick[t].pairs :
        /\ Cardinality({User(e) : e \in p}) = 2
        /\ p # q => {User(e) : e \in p} \cap {User(e) : e \in q} = {}

(***************************************************************************)
(* The loop overlooks nobody: of the players it is done with, no two       *)
(* unmatched ones are within the window every entry starts with.           *)
(***************************************************************************)
NobodyOverlooked ==
    \A t \in InFlight : \A e, f \in tick[t].players \ Matched(tick[t]) :
        e < f /\ e < tick[t].from => Gap(entries, e, f) > InitialWindow

(***************************************************************************)
(* A room is only saved for two players who both accept the difference in  *)
(* rating: it is inside the window of the one who waited less, too.        *)
(***************************************************************************)
BothAccepted ==
    \A p \in rooms : \A e, f \in p : Gap(entries, e, f) <= entries[e].window

(***************************************************************************)
(* Two players within the largest window of each other do not both wait    *)
(* forever: their windows grow until a tick pairs one of them.             *)
(***************************************************************************)
NobodyWaitsForever ==
    \A u, v \in Users :
        u # v /\ Abs(Elo[u] - Elo[v]) <= MaxWindow =>
            []<>~(\E e, f \in queue : User(e) = u /\ User(f) = v)
=============================================================================
