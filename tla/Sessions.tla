------------------------------ MODULE Sessions ------------------------------
(***************************************************************************)
(* The connections of one player (server/src/index.ts): several browser    *)
(* tabs, the key session:<user> and the socketRegistry entry that say which*)
(* of them is the player's, the key grace:<user> that a lost connection    *)
(* leaves behind during a battle, and the player's place in the queue.     *)
(* Nothing is shared between players here, so one player is enough.        *)
(*                                                                         *)
(* All handlers use one Redis connection.  Commands take effect when they  *)
(* are issued, and their replies resume the handlers in the order of       *)
(* issue: calls is that pipeline, each element a handler waiting for its   *)
(* reply.  Socket events arrive at any moment in between.                  *)
(***************************************************************************)
EXTENDS Integers, Sequences, FiniteSets

CONSTANTS
    Tabs,         \* the sockets the player's tabs open, one after another or at once
    GracePeriod,  \* the 30 seconds of a grace key
    MaxTime,      \* bound: how long the model runs
    MaxCalls,     \* bound: handlers waiting at once when an event comes in
    None

ASSUME SessionsConstants ==
    /\ GracePeriod \in Nat \ {0}
    /\ MaxTime \in Nat
    /\ MaxCalls \in Nat
    /\ None \notin Tabs \cup Nat \cup BOOLEAN

VARIABLES
    up,         \* the server process is listening
    fresh,      \* tabs that have not connected yet
    open,       \* connected sockets
    known,      \* sockets with a userId
    registry,   \* socketRegistry.get(user)
    session,    \* session:<user>
    grace,      \* grace:<user>: when the connection was lost
    queued,     \* the player has an entry in the matchmaking queue
    battling,   \* some record battle:* has the player in an ACTIVE battle
    calls,      \* replies to come, oldest first
    now,
    signed,     \* history: sockets whose authentication went through
    contested,  \* history: of these, the ones another tab got in the way of
    anonymous,  \* history: a socket without userId joined the queue
    cut         \* history: sockets closed in the middle of authenticating

tabVars == <<fresh, open, known>>
keyVars == <<session, grace>>
histVars == <<signed, contested, anonymous>>
vars == <<up, tabVars, registry, keyVars, queued, battling, calls, now, histVars, cut>>

----------------------------------------------------------------------------
\* What the reply a handler waits for says: a session, a battle, a grace
\* record, or nothing.
ReplyTo(at) ==
    CASE at \in {"auth", "join", "gone"}                         -> Tabs \cup {None}
      [] at \in {"scan", "battle", "timeout"}                    -> BOOLEAN
      [] at = "check"                                            -> (0 .. now) \cup {None}
      [] at \in {"auth2", "join2", "deleted", "graced", "ended"} -> {None}

Call(s, at, val) == [tab |-> s, at |-> at, val |-> val]

Rest == Tail(calls)

\* An event of a connected socket is handled up to its first command.
Event(s, call) ==
    /\ s \in open
    /\ Len(calls) < MaxCalls
    /\ calls' = Append(calls, call)

\* The oldest reply arrives.
Reply(at) == calls # << >> /\ Head(calls).at = at

\* timeSinceDisconnect of a grace record against the 30 seconds
Overdue(g) == g # None /\ now - g >= GracePeriod
InTime(g) == g # None /\ now - g < GracePeriod

\* Mutant: only the socket that holds the session is taken out of the registry.
DropsSession(s) == s \in open /\ s \in known /\ session = s

\* What disconnecting s does at once: the disconnect handler runs up to its
\* first command.  A socket that is closed already is left alone.
Drops(s) == s \in open /\ s \in known
Gone(s) == IF Drops(s) THEN <<Call(s, "gone", session)>> ELSE << >>

\* Another tab can still make itself the player's when os are connected and
\* cs are waiting.
Rivals(s, os, cs) ==
    (os \ {s}) \cup {cs[i].tab : i \in {j \in DOMAIN cs :
                        cs[j].tab # s /\ cs[j].at \in {"auth", "auth2", "join", "check"}}}

----------------------------------------------------------------------------
Init ==
    /\ up = TRUE
    /\ fresh = Tabs /\ open = {} /\ known = {}
    /\ registry = None
    /\ session = None /\ grace = None
    /\ queued = FALSE /\ battling = FALSE
    /\ calls = << >>
    /\ now = 0
    /\ signed = {} /\ contested = {} /\ anonymous = FALSE /\ cut = {}

\* Mutant: a socket id is given out again while it is in use.
connectionAgain(s) ==
    /\ up
    /\ s \in fresh
    /\ open' = open \cup {s}
    /\ contested' = contested \cup (signed \cap open)
    /\ UNCHANGED <<up, fresh, known, registry, keyVars, queued, battling, calls, now,
                   signed, anonymous>>

connection(s) ==
    /\ up
    /\ s \in fresh
    /\ fresh' = fresh \ {s}
    /\ open' = open \cup {s}
    /\ contested' = contested \cup (signed \cap open)
    /\ UNCHANGED <<up, known, registry, keyVars, queued, battling, calls, now,
                   signed, anonymous>>

----------------------------------------------------------------------------
\* authenticate, with a token that verifies (a bad one only gets an error).
authenticate(s) ==
    /\ Event(s, Call(s, "auth", session))
    /\ known' = known \cup {s}
    /\ UNCHANGED <<up, fresh, open, registry, keyVars, queued, battling, now, histVars>>

\* Mutant: the new socket is registered before the old one is disconnected.
DisplaceLate(s, old) ==
    /\ registry' = IF registry = old /\ Drops(old) THEN None ELSE s
    /\ session' = s
    /\ open' = IF registry = old THEN open \ {old} ELSE open
    /\ calls' = Rest \o (IF registry = old THEN Gone(old) ELSE << >>)
    /\ signed' = signed \cup {s}
    /\ contested' = contested \ {s}

\* Another socket holds the session: it is disconnected if it is the one
\* registered, and the session is deleted.
Displace(s, old) ==
    /\ registry' = IF registry = old /\ Drops(old) THEN None ELSE registry
    /\ session' = None
    /\ open' = IF registry = old THEN open \ {old} ELSE open
    /\ calls' = Rest \o (IF registry = old THEN Gone(old) ELSE << >>)
                     \o <<Call(s, "auth2", None)>>
    /\ UNCHANGED <<signed, contested>>

\* The socket becomes the player's.
Register(s) ==
    /\ registry' = s
    /\ session' = s
    /\ calls' = Rest
    /\ signed' = signed \cup {s}
    /\ contested' = IF Rivals(s, open, Rest) = {} THEN contested \ {s}
                    ELSE contested \cup {s}
    /\ UNCHANGED open

auth ==
    /\ Reply("auth")
    /\ LET s == Head(calls).tab
           r == Head(calls).val
       IN  \/ r \in {None, s} /\ Register(s)
           \/ r \notin {None, s} /\ Displace(s, r)
    /\ UNCHANGED <<up, fresh, known, grace, queued, battling, now, anonymous>>

auth2 ==
    /\ Reply("auth2")
    /\ Register(Head(calls).tab)
    /\ UNCHANGED <<up, fresh, known, grace, queued, battling, now, anonymous>>

----------------------------------------------------------------------------
\* queue:join takes the player from the socket or, without one, from the
\* message.
queueJoin(s) ==
    /\ Event(s, Call(s, "join", session))
    /\ anonymous' = (anonymous \/ s \notin known)
    /\ UNCHANGED <<up, tabVars, registry, keyVars, queued, battling, now, signed, contested>>

\* A session of another socket: this one is disconnected.  Otherwise it
\* becomes the session and goes on.
join ==
    /\ Reply("join")
    /\ LET s == Head(calls).tab
           r == Head(calls).val
       IN  \/ /\ r \notin {None, s}
              /\ open' = open \ {s}
              /\ registry' = IF Drops(s) THEN None ELSE registry
              /\ calls' = Rest \o Gone(s)
              /\ UNCHANGED session
           \/ /\ r \in {None, s}
              /\ session' = s
              /\ calls' = Append(Rest, Call(s, "join2", None))
              /\ UNCHANGED <<open, registry>>
    /\ UNCHANGED <<up, fresh, known, grace, queued, battling, now, histVars>>

\* addToQueue
join2 ==
    /\ Reply("join2")
    /\ queued' = TRUE
    /\ calls' = Rest
    /\ UNCHANGED <<up, tabVars, registry, keyVars, battling, now, histVars>>

\* queue:leave
queueLeave(s) ==
    /\ s \in open \cap known
    /\ queued
    /\ queued' = FALSE
    /\ UNCHANGED <<up, tabVars, registry, keyVars, battling, calls, now, histVars>>

----------------------------------------------------------------------------
\* The connection is lost or closed: the disconnect handler starts.
disconnect(s) ==
    /\ s \in open
    /\ Len(calls) < MaxCalls
    /\ open' = open \ {s}
    /\ registry' = IF Drops(s) THEN None ELSE registry
    /\ calls' = calls \o Gone(s)
    /\ UNCHANGED <<up, fresh, known, keyVars, queued, battling, now, histVars>>

\* The session read was this socket's own: delete the key.  Otherwise go on
\* to KEYS battle:*, whose reply tells whether there is a battle to look at.
gone ==
    /\ Reply("gone")
    /\ LET s == Head(calls).tab
       IN  \/ /\ Head(calls).val = s
              /\ session' = None
              /\ calls' = Append(Rest, Call(s, "deleted", None))
           \/ /\ Head(calls).val # s
              /\ calls' = Append(Rest, Call(s, "scan", battling))
              /\ UNCHANGED session
    /\ UNCHANGED <<up, tabVars, registry, grace, queued, battling, now, histVars>>

deleted ==
    /\ Reply("deleted")
    /\ calls' = Append(Rest, Call(Head(calls).tab, "scan", battling))
    /\ UNCHANGED <<up, tabVars, registry, keyVars, queued, battling, now, histVars>>

\* Mutant: the queue entry stays when a session is there.
LeaveUnlessSession == queued' = (queued /\ session # None) /\ calls' = Rest

\* removeFromQueue, the last thing the disconnect handler does
Leave == queued' = FALSE /\ calls' = Rest

\* The battles are read one by one; other players' rooms may come first.
scan ==
    /\ Reply("scan")
    /\ LET c == Head(calls)
       IN  \/ calls' = Append(Rest, c) /\ UNCHANGED queued
           \/ /\ c.val
              /\ calls' = Append(Rest, Call(c.tab, "battle", battling))
              /\ UNCHANGED queued
           \/ ~c.val /\ Leave
    /\ UNCHANGED <<up, tabVars, registry, keyVars, battling, now, histVars>>

\* An ACTIVE battle of the player starts the grace period.
battle ==
    /\ Reply("battle")
    /\ LET c == Head(calls)
       IN  \/ /\ c.val
              /\ grace' = now
              /\ calls' = Append(Rest, Call(c.tab, "graced", None))
           \/ /\ ~c.val
              /\ calls' = Append(Rest, Call(c.tab, "scan", FALSE))
              /\ UNCHANGED grace
    /\ UNCHANGED <<up, tabVars, registry, session, queued, battling, now, histVars>>

graced ==
    /\ Reply("graced")
    /\ Leave
    /\ UNCHANGED <<up, tabVars, registry, keyVars, battling, now, histVars>>

----------------------------------------------------------------------------
\* check:reconnection
checkReconnection(s) ==
    /\ Event(s, Call(s, "check", grace))
    /\ UNCHANGED <<up, tabVars, registry, keyVars, queued, battling, now, histVars>>

\* In time, the socket becomes the player's and the key is deleted; too
\* late, handleGraceTimeout reads the battle.  Without a key nothing happens.
check ==
    /\ Reply("check")
    /\ LET s == Head(calls).tab
           g == Head(calls).val
       IN  \/ /\ g = None
              /\ calls' = Rest
              /\ UNCHANGED <<known, registry, grace>>
           \/ /\ InTime(g)
              /\ known' = known \cup {s}
              /\ registry' = s
              /\ grace' = None
              /\ calls' = Rest
           \/ /\ Overdue(g)
              /\ calls' = Append(Rest, Call(s, "timeout", battling))
              /\ UNCHANGED <<known, registry, grace>>
    /\ UNCHANGED <<up, fresh, open, session, queued, battling, now, histVars>>

\* handleGraceTimeout: an ACTIVE battle is ended (module Battle has the
\* steps of endBattle), then the key is deleted.
timeout ==
    /\ Reply("timeout")
    /\ \/ /\ Head(calls).val
          /\ battling' = FALSE
          /\ calls' = Append(Rest, Call(Head(calls).tab, "ended", None))
          /\ UNCHANGED grace
       \/ /\ ~Head(calls).val
          /\ grace' = None
          /\ calls' = Rest
          /\ UNCHANGED battling
    /\ UNCHANGED <<up, tabVars, registry, session, queued, now, histVars>>

ended ==
    /\ Reply("ended")
    /\ grace' = None
    /\ calls' = Rest
    /\ UNCHANGED <<up, tabVars, registry, session, queued, battling, now, histVars>>

----------------------------------------------------------------------------
\* The rest of the server: a tick takes the player from the queue, a battle
\* of theirs starts or ends.
Matchmaker ==
    /\ up
    /\ \/ queued /\ queued' = FALSE /\ UNCHANGED battling
       \/ battling' = ~battling /\ UNCHANGED queued
    /\ UNCHANGED <<up, tabVars, registry, keyVars, calls, now, histVars>>

\* Redis: session keys live an hour, grace keys GracePeriod and no longer.
Expire ==
    /\ \/ session # None /\ session' = None /\ UNCHANGED grace
       \/ /\ Overdue(grace)
          /\ grace' = None
          /\ UNCHANGED session
    /\ UNCHANGED <<up, tabVars, registry, queued, battling, calls, now, histVars>>

\* A grace key is gone before the clock shows more than its lifetime.
Pass ==
    /\ now < MaxTime
    /\ ~Overdue(grace)
    /\ now' = now + 1
    /\ UNCHANGED <<up, tabVars, registry, keyVars, queued, battling, calls, histVars>>

\* The process dies: connections and memory are lost, Redis keeps its keys.
Crash ==
    /\ up
    /\ up' = FALSE
    /\ open' = {} /\ known' = {}
    /\ registry' = None
    /\ queued' = FALSE
    /\ calls' = << >>
    /\ UNCHANGED <<fresh, keyVars, battling, now, histVars>>

\* startServer: cleanupOrphanedGraceTimers is done before the server listens.
Restart ==
    /\ ~up
    /\ up' = TRUE
    /\ \/ /\ Overdue(grace)
          /\ battling' = FALSE
          /\ grace' = None
       \/ /\ ~Overdue(grace)
          /\ UNCHANGED <<battling, grace>>
    /\ UNCHANGED <<tabVars, registry, session, queued, calls, now, histVars>>

Replies ==
    \/ auth \/ auth2 \/ join \/ join2
    \/ gone \/ deleted \/ scan \/ battle \/ graced
    \/ check \/ timeout \/ ended

Actions ==
    \/ \E s \in Tabs :
          \/ connection(s) \/ disconnect(s) \/ authenticate(s)
          \/ queueJoin(s) \/ queueLeave(s) \/ checkReconnection(s)
    \/ Replies
    \/ Matchmaker \/ Expire \/ Pass
    \/ Crash \/ Restart

\* A socket closes with its authentication or reconnection half done.
CutOff ==
    cut' = cut \cup {s \in open \ open' :
                        \E i \in DOMAIN calls :
                            calls[i].tab = s /\ calls[i].at \in {"auth", "auth2", "check"}}

Next == Actions /\ CutOff

Spec == Init /\ [][Next]_vars

----------------------------------------------------------------------------
\* The shape of the state: a socket id is used once, and every reply in the
\* pipeline fits the await of the handler that will get it.
SessionsTypeOK ==
    /\ up \in BOOLEAN /\ queued \in BOOLEAN /\ battling \in BOOLEAN
    /\ fresh \subseteq Tabs /\ open \subseteq Tabs /\ known \subseteq Tabs
    /\ fresh \cap open = {}
    /\ registry \in Tabs \cup {None}
    /\ session \in Tabs \cup {None}
    /\ grace \in 0 .. now \cup {None}
    /\ now \in 0 .. MaxTime
    /\ \A i \in DOMAIN calls : calls[i].tab \in Tabs /\ calls[i].val \in ReplyTo(calls[i].at)
    /\ signed \subseteq Tabs /\ contested \subseteq Tabs /\ anonymous \in BOOLEAN
    /\ cut \subseteq Tabs

(***************************************************************************)
(* The two-tab handover.  A tab that has authenticated, without another    *)
(* connected tab or unfinished request of the player at that moment or     *)
(* since, is the one the server talks to: it is registered, and the        *)
(* session is its own or has expired.  The disconnect handler of the tab it*)
(* displaced, still running, and keys left by a crash do not change that.  *)
(***************************************************************************)
UncontestedTabIsThePlayers ==
    \A s \in (signed \ contested) \cap open :
        registry = s /\ session \in {s, None}

(***************************************************************************)
(* The registry, which match:found and spell:incoming go through, names a  *)
(* closed socket only if that socket closed while its own authentication or*)
(* reconnection was waiting for Redis: the handler then registers it after *)
(* its disconnect handler has run.                                         *)
(***************************************************************************)
RegisteredIsOpenOrCutOff ==
    registry # None => registry \in open \cup cut

(***************************************************************************)
(* No ghosts in the queue: when a player has no connection and nothing is  *)
(* under way, the player is not queued, even if a join was half done when  *)
(* the connection went.  (Tabs that never authenticated are another        *)
(* matter: their disconnect handler does nothing.)                         *)
(***************************************************************************)
NoGhostInQueue ==
    open = {} /\ calls = << >> /\ ~anonymous => ~queued
=============================================================================
