--------------------------- MODULE SessionsProofs ---------------------------
(***************************************************************************)
(* For any number of tabs, waiting handlers and seconds: the registry      *)
(* never names a closed socket that had finished authenticating, a tab     *)
(* nobody got in the way of is the player's, and no player stays in the    *)
(* queue without a connection.  SessionsInv says what every waiting handler*)
(* may rely on; HandoverInv and QueueInv say what the other handlers in the*)
(* pipeline can and cannot still do to a registered tab and to the queue.  *)
(***************************************************************************)
EXTENDS Sessions, SequenceTheorems, TLAPS

Places == {"auth", "auth2", "join", "join2", "gone", "deleted", "scan", "battle", "graced",
           "check", "timeout", "ended"}
Answers == Tabs \cup {None} \cup BOOLEAN \cup Nat

(* A waiting handler: its socket has connected, its reply fits, and if it  *)
(* will register the socket that is open or was cut off.                   *)
GoodCalls ==
    {c \in [tab : Tabs, at : Places, val : Answers] :
        /\ c.tab \notin fresh
        /\ c.val \in ReplyTo(c.at)
        /\ c.at \in {"auth", "auth2", "check"} => c.tab \in open \cup cut
        /\ c.at \in {"auth", "auth2"} => c.tab \in known}

FlagsOK ==
    up \in BOOLEAN /\ queued \in BOOLEAN /\ battling \in BOOLEAN /\ anonymous \in BOOLEAN

(* A socket that has authenticated does not connect again. *)
TabsOK ==
    /\ fresh \subseteq Tabs /\ open \subseteq Tabs /\ known \subseteq Tabs
    /\ signed \subseteq Tabs /\ contested \subseteq Tabs /\ cut \subseteq Tabs
    /\ fresh \cap open = {} /\ fresh \cap signed = {}

KeysOK ==
    /\ session \in Tabs \cup {None}
    /\ now \in 0 .. MaxTime
    /\ grace \in 0 .. now \cup {None}

(* Only a socket with a userId is registered, so that closing it runs the  *)
(* disconnect handler.                                                     *)
RegistryOK ==
    /\ calls \in Seq(GoodCalls)
    /\ registry \in known \cup {None}
    /\ registry # None => registry \in open \cup cut

SessionsInv == FlagsOK /\ TabsOK /\ KeysOK /\ RegistryOK

(* What the replies are, place by place. *)
LEMMA Replied ==
    /\ \A at \in {"auth", "join", "gone"} : ReplyTo(at) = Tabs \cup {None}
    /\ \A at \in {"scan", "battle", "timeout"} : ReplyTo(at) = BOOLEAN
    /\ ReplyTo("check") = (0 .. now) \cup {None}
    /\ \A at \in {"auth2", "join2", "deleted", "graced", "ended"} : ReplyTo(at) = {None}
BY DEF ReplyTo

(* Closing a socket with a handler waiting cuts it off, so the handlers    *)
(* that waited before a step are still good after it.                      *)
LEMMA CallsStayGood ==
    ASSUME SessionsInv, CutOff, known \subseteq known', fresh' \subseteq fresh,
           now' \in Nat, now <= now'
    PROVE  /\ calls \in Seq(GoodCalls')
           /\ calls # << >> => /\ Rest \in Seq(GoodCalls')
                               /\ Head(calls) \in GoodCalls
                               /\ Head(calls) \in GoodCalls'
<1>1. calls \in Seq(GoodCalls) /\ \A i \in DOMAIN calls : calls[i] \in GoodCalls
  BY DEF SessionsInv, RegistryOK
<1>2. ASSUME NEW a \in Places
      PROVE  ReplyTo(a) \subseteq ReplyTo(a)'
  <2>1. 0 .. now \subseteq 0 .. now'
    BY DEF SessionsInv, KeysOK
  <2>2. ReplyTo("check") = 0 .. now \cup {None} /\ ReplyTo("check")' = 0 .. now' \cup {None}
    BY Zenon DEF ReplyTo
  <2>3. a # "check" => ReplyTo(a)' = ReplyTo(a)
    BY Zenon DEF ReplyTo, Places
  <2> QED
    BY <2>1, <2>2, <2>3
<1>3. ASSUME NEW i \in DOMAIN calls
      PROVE  calls[i] \in GoodCalls'
  <2>1. PICK c : c = calls[i]
    OBVIOUS
  <2>2. /\ c \in [tab : Tabs, at : Places, val : Answers]
        /\ c.tab \notin fresh'
        /\ c.val \in ReplyTo(c.at)
        /\ c.at \in {"auth", "auth2"} => c.tab \in known'
    BY <1>1, <2>1 DEF GoodCalls
  <2>3. ASSUME c.at \in {"auth", "auth2", "check"}
        PROVE  c.tab \in open' \cup cut'
    <3>1. c.tab \in open \cup cut
      BY <1>1, <2>1, <2>3 DEF GoodCalls
    <3> QED
      BY <2>1, <2>3, <3>1 DEF CutOff
  <2>4. c.at \in Places
    BY <2>2
  <2>5. c.val \in ReplyTo(c.at)'
    BY <1>2, <2>2, <2>4
  <2> QED
    BY <2>1, <2>2, <2>3, <2>5 DEF GoodCalls
<1>4. calls \in Seq(GoodCalls')
  BY <1>1, <1>3
<1> QED
  BY <1>1, <1>4 DEF Rest

(* Every handler, reply, expiry, crash and restart preserves the invariant.*)
LEMMA SessionsNextInv == SessionsInv /\ [Next]_vars => SessionsInv'
<1> SUFFICES ASSUME SessionsInv, [Next]_vars
             PROVE  SessionsInv'
  OBVIOUS
<1> DEFINE Good == GoodCalls'
<1>1. /\ FlagsOK /\ TabsOK /\ KeysOK /\ RegistryOK
      /\ session \in Tabs \cup {None} /\ now \in 0 .. MaxTime
      /\ now \in Nat /\ grace \in 0 .. now \cup {None} /\ MaxTime \in Nat
      /\ registry \in known \cup {None}
      /\ registry # None => registry \in open \cup cut
  BY SessionsConstants DEF SessionsInv, KeysOK, RegistryOK
<1>a. session \in Answers /\ grace \in Answers /\ None \in Answers
  BY <1>1 DEF Answers
<1>b. battling \in Answers /\ FALSE \in Answers /\ battling \in BOOLEAN
  BY <1>1, Zenon DEF Answers, FlagsOK
<1>4. CASE UNCHANGED vars
  <2>1. GoodCalls' = GoodCalls
    BY <1>4 DEF GoodCalls, ReplyTo, vars, tabVars
  <2> QED
    BY <1>1, <1>4, <2>1 DEF SessionsInv, vars, tabVars, keyVars, histVars, FlagsOK, TabsOK, KeysOK,
                     RegistryOK
<1> SUFFICES ASSUME Actions, CutOff
             PROVE  SessionsInv'
  BY <1>4 DEF Next
<1>c. /\ known \subseteq known' \/ Crash
      /\ fresh' \subseteq fresh
      /\ now' \in 0 .. MaxTime /\ now' \in Nat /\ now <= now'
  <2>1. UNCHANGED now \/ Pass
    BY Zenon DEF Actions, connection, disconnect, authenticate, queueJoin, queueLeave,
       checkReconnection, Replies, auth, auth2, join, join2, gone, deleted, scan, battle,
       graced, check, timeout, ended, Matchmaker, Expire, Crash, Restart
  <2>2. UNCHANGED fresh \/ \E s \in Tabs : connection(s)
    BY Zenon DEF Actions, disconnect, authenticate, queueJoin, queueLeave,
       checkReconnection, Replies, auth, auth2, join, join2, gone, deleted, scan, battle,
       graced, check, timeout, ended, Matchmaker, Expire, Pass, Crash, Restart, tabVars
  <2>3. UNCHANGED known \/ Crash \/ (\E s \in Tabs : authenticate(s)) \/ check
    BY Zenon DEF Actions, connection, disconnect, queueJoin, queueLeave,
       checkReconnection, Replies, auth, auth2, join, join2, gone, deleted, scan, battle,
       graced, timeout, ended, Matchmaker, Expire, Pass, Restart, tabVars
  <2>4. now' \in 0 .. MaxTime /\ now' \in Nat /\ now <= now'
    BY <1>1, <2>1 DEF Pass
  <2>5. fresh' \subseteq fresh
    BY <2>2 DEF connection
  <2> QED
    BY <2>3, <2>4, <2>5 DEF authenticate, check
<1>5. FlagsOK'
  <2>1. up' \in BOOLEAN /\ anonymous' \in BOOLEAN
    BY <1>1, Zenon DEF FlagsOK, Actions, connection, disconnect, authenticate, queueJoin,
       queueLeave, checkReconnection, Replies, auth, auth2, join, join2, gone, deleted, scan,
       battle, graced, check, timeout, ended, Matchmaker, Expire, Pass, Crash, Restart, histVars
  <2>2. queued' \in BOOLEAN
    BY <1>1, Zenon DEF FlagsOK, Actions, connection, disconnect, authenticate, queueJoin,
       queueLeave, checkReconnection, Replies, auth, auth2, join, join2, gone, deleted, scan,
       battle, graced, check, timeout, ended, Matchmaker, Expire, Pass, Crash, Restart, Leave
  <2>3. battling' \in BOOLEAN
    BY <1>1, Zenon DEF FlagsOK, Actions, connection, disconnect, authenticate, queueJoin,
       queueLeave, checkReconnection, Replies, auth, auth2, join, join2, gone, deleted, scan,
       battle, graced, check, timeout, ended, Matchmaker, Expire, Pass, Crash, Restart
  <2> QED
    BY <2>1, <2>2, <2>3 DEF FlagsOK
<1>6. cut \subseteq cut' /\ cut' \subseteq cut \cup open
  BY DEF CutOff
<1>7. ASSUME known \subseteq known'
      PROVE  /\ calls \in Seq(Good)
             /\ calls # << >> => /\ Rest \in Seq(Good)
                                 /\ Head(calls) \in GoodCalls
                                 /\ Head(calls) \in Good
  BY <1>7, <1>c, CallsStayGood
<1>8. calls # << >> => /\ Head(calls).tab \in Tabs \ fresh
                       /\ Head(calls).at \in {"auth", "join", "gone"} =>
                             Head(calls).val \in Tabs \cup {None}
  <2>1. calls # << >> => Head(calls) \in GoodCalls
    BY <1>1 DEF RegistryOK
  <2>2. ASSUME NEW c \in GoodCalls
        PROVE  /\ c.tab \in Tabs \ fresh
               /\ c.at \in {"auth", "join", "gone"} => c.val \in Tabs \cup {None}
    BY Replied DEF GoodCalls
  <2> QED
    BY <2>1, <2>2
<1>9. TabsOK'
  <2>1. /\ fresh \subseteq Tabs /\ open \subseteq Tabs /\ known \subseteq Tabs
        /\ signed \subseteq Tabs /\ contested \subseteq Tabs /\ cut' \subseteq Tabs
        /\ fresh \cap open = {} /\ fresh \cap signed = {}
    BY <1>1, <1>6 DEF TabsOK
  <2>2. ASSUME NEW s \in Tabs, connection(s)
        PROVE  TabsOK'
    BY <2>1, <2>2 DEF connection, TabsOK
  <2>3. ASSUME UNCHANGED <<fresh, signed, contested>>, known' \subseteq Tabs, open' \subseteq open
        PROVE  TabsOK'
    BY <2>1, <2>3 DEF TabsOK
  <2>4. ASSUME NEW s \in Tabs, disconnect(s) \/ authenticate(s) \/ queueJoin(s) \/ queueLeave(s)
                                  \/ checkReconnection(s)
        PROVE  TabsOK'
    BY <2>1, <2>3, <2>4 DEF disconnect, authenticate, queueJoin, queueLeave, checkReconnection,
                            tabVars, histVars
  <2>5. CASE Matchmaker \/ Expire \/ Pass \/ Crash \/ Restart
    BY <2>1, <2>3, <2>5 DEF Matchmaker, Expire, Pass, Crash, Restart, tabVars, histVars
  <2>6. CASE gone \/ deleted \/ scan \/ battle \/ graced \/ timeout \/ ended \/ join2
    BY <2>1, <2>3, <2>6, Zenon DEF gone, deleted, scan, battle, graced, timeout, ended, join2,
                            tabVars, histVars
  <2>7. CASE join \/ check
    BY <1>8, <2>1, <2>3, <2>7 DEF join, check, Reply, tabVars, histVars
  <2>8. ASSUME NEW s \in Tabs \ fresh, Register(s), UNCHANGED <<fresh, known>>
        PROVE  TabsOK'
    BY <2>1, <2>8 DEF Register, TabsOK
  <2>9. CASE auth
    <3>1. calls # << >> /\ UNCHANGED <<fresh, known>>
      BY <2>9 DEF auth, Reply
    <3>2. \/ Register(Head(calls).tab)
          \/ UNCHANGED <<signed, contested>> /\ open' \subseteq open
      BY <2>9 DEF auth, Displace
    <3> QED
      BY <1>8, <2>1, <2>3, <2>8, <3>1, <3>2
  <2>10. CASE auth2
    BY <1>8, <2>8, <2>10 DEF auth2, Reply
  <2> QED
    BY <2>2, <2>4, <2>5, <2>6, <2>7, <2>9, <2>10 DEF Actions, Replies
<1>10. KeysOK'
  <2>1. grace' \in {grace, None, now}
    BY Zenon DEF Actions, connection, disconnect, authenticate, queueJoin, queueLeave,
       checkReconnection, Replies, auth, auth2, join, join2, gone, deleted, scan, battle,
       graced, check, timeout, ended, Matchmaker, Expire, Pass, Crash, Restart, keyVars
  <2>2. \/ session' \in {session, None}
        \/ calls # << >> /\ session' = Head(calls).tab
    BY Zenon DEF Actions, connection, disconnect, authenticate, queueJoin, queueLeave,
       checkReconnection, Replies, auth, auth2, join, join2, gone, deleted, scan, battle,
       graced, check, timeout, ended, Matchmaker, Expire, Pass, Crash, Restart, keyVars,
       Register, Displace, Reply
  <2>3. session' \in Tabs \cup {None}
    BY <1>1, <1>8, <2>2
  <2> QED
    BY <1>1, <1>c, <2>1, <2>3 DEF KeysOK
<1>11. ASSUME NEW s \in Tabs \ fresh, NEW at \in Places, NEW v \in Answers,
              v \in ReplyTo(at)', at \notin {"auth", "auth2", "check"}
       PROVE  Call(s, at, v) \in Good
  BY <1>11, <1>c DEF Call, GoodCalls
<1>12. /\ \A a \in {"auth", "join", "gone"} : ReplyTo(a)' = Tabs \cup {None}
       /\ ReplyTo("check")' = (0 .. now') \cup {None}
       /\ \A a \in {"auth2", "join2", "deleted", "graced", "ended"} : ReplyTo(a)' = {None}
       /\ \A a \in {"scan", "battle", "timeout"} : ReplyTo(a)' = BOOLEAN
  BY Zenon DEF ReplyTo
<1>13. ASSUME NEW s \in Tabs, s \notin fresh
       PROVE  Gone(s) \in Seq(Good)
  <2>1. Call(s, "gone", session) \in Good
    BY <1>1, <1>a, <1>11, <1>12, <1>13 DEF Places
  <2> QED
    BY <2>1 DEF Gone
<1>14. open \cap fresh = {}
  BY <1>1 DEF TabsOK
<1> HIDE DEF Good
<1> SUFFICES RegistryOK'
  BY <1>5, <1>9, <1>10 DEF SessionsInv
<1>15. ASSUME NEW s \in Tabs, connection(s)
       PROVE  RegistryOK'
  <2>1. open \subseteq open' /\ UNCHANGED <<known, registry, calls>>
    BY <1>15 DEF connection
  <2> QED
    BY <1>1, <1>6, <1>7, <2>1 DEF RegistryOK, Good
<1>16. ASSUME NEW s \in Tabs, disconnect(s)
       PROVE  RegistryOK'
  <2>1. /\ open' = open \ {s}
        /\ registry' = IF Drops(s) THEN None ELSE registry
        /\ calls' = calls \o Gone(s)
        /\ s \in open
        /\ UNCHANGED known
    BY <1>16 DEF disconnect
  <2>2. calls' \in Seq(Good)
    BY <1>7, <1>13, <1>14, <2>1
  <2> QED
    BY <1>1, <1>6, <2>1, <2>2 DEF RegistryOK, Good, Drops
<1>17. ASSUME NEW s \in Tabs, authenticate(s) \/ queueJoin(s) \/ checkReconnection(s)
       PROVE  RegistryOK'
  <2>1. s \in open /\ s \notin fresh' /\ known \subseteq known' /\ UNCHANGED <<open, registry>>
    BY <1>c, <1>14, <1>17 DEF authenticate, queueJoin, checkReconnection, Event, tabVars
  <2>2. CASE authenticate(s)
    <3>1. known' = known \cup {s} /\ calls' = Append(calls, Call(s, "auth", session))
      BY <2>2 DEF authenticate, Event
    <3>2. Call(s, "auth", session) \in Good
      BY <1>1, <1>a, <1>12, <2>1, <3>1 DEF Good, GoodCalls, Call, Places
    <3> QED
      BY <1>1, <1>6, <1>7, <2>1, <3>1, <3>2 DEF RegistryOK, Good
  <2>3. CASE queueJoin(s)
    <3>1. UNCHANGED known /\ calls' = Append(calls, Call(s, "join", session))
      BY <2>3 DEF queueJoin, Event, tabVars
    <3>2. Call(s, "join", session) \in Good
      BY <1>1, <1>a, <1>11, <1>12, <1>14, <2>1 DEF Places
    <3> QED
      BY <1>1, <1>6, <1>7, <2>1, <3>1, <3>2 DEF RegistryOK, Good
  <2>4. CASE checkReconnection(s)
    <3>1. UNCHANGED <<known, now>> /\ calls' = Append(calls, Call(s, "check", grace))
      BY <2>4 DEF checkReconnection, Event, tabVars
    <3>2. Call(s, "check", grace) \in Good
      BY <1>1, <1>a, <1>12, <2>1, <3>1 DEF Good, GoodCalls, Call, Places
    <3> QED
      BY <1>1, <1>6, <1>7, <2>1, <3>1, <3>2 DEF RegistryOK, Good
  <2> QED
    BY <1>17, <2>2, <2>3, <2>4
<1>18. CASE (\E s \in Tabs : queueLeave(s)) \/ Matchmaker \/ Expire \/ Pass \/ Restart
  <2>1. UNCHANGED <<open, known, registry, calls>>
    BY <1>18, Zenon DEF queueLeave, Matchmaker, Expire, Pass, Restart, tabVars
  <2> QED
    BY <1>1, <1>6, <1>7, <2>1 DEF RegistryOK, Good
<1>19. CASE Crash
  BY <1>19 DEF Crash, RegistryOK
<1>20. CASE Replies
  <2> DEFINE c == Head(calls)
             s == c.tab
  <2>1. calls # << >>
    BY <1>20, Zenon DEF Replies, Reply, auth, auth2, join, join2, gone, deleted, scan, battle,
                 graced, check, timeout, ended
  <2>2. known \subseteq known'
    BY <1>20, Zenon DEF Replies, auth, auth2, join, join2, gone, deleted, scan, battle,
                 graced, check, timeout, ended, tabVars
  <2>3. c \in GoodCalls /\ c \in Good /\ Rest \in Seq(Good)
    BY <1>7, <2>1, <2>2
  <2>4. s \in Tabs \ fresh /\ c.val \in Answers
    BY <2>3 DEF GoodCalls
  <2>5. c.at = "auth" => c.val \in Tabs \cup {None}
    BY <1>8, <2>1
  <2> HIDE DEF c
  <2>6. ASSUME NEW at \in Places, NEW v \in Answers, at \notin {"auth", "auth2", "check"},
               v \in ReplyTo(at)'
        PROVE  Append(Rest, Call(s, at, v)) \in Seq(Good)
    BY <1>11, <2>3, <2>4, <2>6
  <2>7. ASSUME Register(s), c.at \in {"auth", "auth2"}, UNCHANGED known
        PROVE  RegistryOK'
    <3>1. registry' = s /\ calls' = Rest /\ UNCHANGED open
      BY <2>7 DEF Register
    <3>2. s \in known /\ s \in open \cup cut
      BY <2>3, <2>7 DEF GoodCalls
    <3> QED
      BY <1>6, <2>3, <2>7, <3>1, <3>2 DEF RegistryOK, Good
  <2>8. CASE auth
    <3>1. c.at = "auth" /\ UNCHANGED known
      BY <2>8 DEF auth, Reply, c
    <3>2. CASE Register(s)
      BY <2>7, <3>1, <3>2
    <3>3. ASSUME c.val \notin {None, s}, Displace(s, c.val)
          PROVE  RegistryOK'
      <4> DEFINE old == c.val
      <4>1. /\ registry' = IF registry = old /\ Drops(old) THEN None ELSE registry
            /\ open' = IF registry = old THEN open \ {old} ELSE open
            /\ calls' = Rest \o (IF registry = old THEN Gone(old) ELSE << >>)
                             \o <<Call(s, "auth2", None)>>
        BY <3>3 DEF Displace
      <4>2. s \in open' \cup cut' /\ s \in known' /\ s \notin fresh'
        BY <2>3, <3>1 DEF Good, GoodCalls
      <4>3. Call(s, "auth2", None) \in Good
        BY <1>a, <1>12, <2>4, <4>2 DEF Good, GoodCalls, Call, Places
      <4>4. (IF registry = old THEN Gone(old) ELSE << >>) \in Seq(Good)
        <5>1. old \in Tabs
          BY <2>5, <3>1, <3>3
        <5> HIDE DEF old
        <5>2. old \in fresh => Gone(old) = << >>
          BY <1>14 DEF Gone, Drops
        <5>3. CASE old \in fresh
          BY <5>2, <5>3
        <5>4. CASE old \notin fresh
          BY <1>13, <5>1, <5>4
        <5> QED
          BY <5>3, <5>4
      <4> HIDE DEF old
      <4>5. calls' \in Seq(Good)
        BY <2>3, <4>1, <4>3, <4>4
      <4>6. registry' \in known' \cup {None} /\ (registry' # None => registry' \in open' \cup cut')
        BY <1>1, <1>6, <3>1, <4>1, Zenon DEF Drops
      <4> QED
        BY <4>5, <4>6 DEF RegistryOK, Good
    <3> QED
      BY <2>8, <3>2, <3>3 DEF auth, c
  <2>9. CASE auth2
    BY <2>7, <2>9 DEF auth2, Reply, c
  <2>10. CASE join
    <3>1. UNCHANGED known
      BY <2>10 DEF join
    <3>2. CASE /\ open' = open \ {s}
               /\ registry' = IF Drops(s) THEN None ELSE registry
               /\ calls' = Rest \o Gone(s)
      <4>1. calls' \in Seq(Good)
        BY <1>13, <2>3, <2>4, <3>2
      <4> QED
        BY <1>1, <1>6, <3>1, <3>2, <4>1 DEF RegistryOK, Good, Drops
    <3>3. CASE /\ calls' = Append(Rest, Call(s, "join2", None))
               /\ UNCHANGED <<open, registry>>
      <4>1. calls' \in Seq(Good)
        BY <1>a, <1>12, <2>6, <3>3 DEF Places
      <4> QED
        BY <1>1, <1>6, <3>1, <3>3, <4>1 DEF RegistryOK, Good
    <3> QED
      BY <2>10, <3>2, <3>3 DEF join, c
  <2>11. CASE join2 \/ gone \/ deleted \/ scan \/ battle \/ graced \/ timeout \/ ended
    <3>1. UNCHANGED <<open, known, registry>>
      BY <2>11, Zenon DEF join2, gone, deleted, scan, battle, graced, timeout, ended, tabVars
    <3>2. \/ calls' = Rest
          \/ calls' = Append(Rest, Call(s, "deleted", None))
          \/ calls' = Append(Rest, Call(s, "graced", None))
          \/ calls' = Append(Rest, Call(s, "ended", None))
          \/ calls' = Append(Rest, Call(s, "scan", battling))
          \/ calls' = Append(Rest, Call(s, "scan", FALSE))
          \/ calls' = Append(Rest, Call(s, "battle", battling))
          \/ calls' = Append(Rest, c)
      BY <2>11, Zenon DEF join2, gone, deleted, scan, battle, graced, timeout, ended, Leave, c
    <3>3. /\ Append(Rest, Call(s, "deleted", None)) \in Seq(Good)
          /\ Append(Rest, Call(s, "graced", None)) \in Seq(Good)
          /\ Append(Rest, Call(s, "ended", None)) \in Seq(Good)
      BY <1>a, <1>12, <2>6 DEF Places
    <3>4. /\ Append(Rest, Call(s, "scan", battling)) \in Seq(Good)
          /\ Append(Rest, Call(s, "scan", FALSE)) \in Seq(Good)
          /\ Append(Rest, Call(s, "battle", battling)) \in Seq(Good)
      <4>1. /\ "scan" \in Places /\ "battle" \in Places
            /\ "scan" \notin {"auth", "auth2", "check"}
            /\ "battle" \notin {"auth", "auth2", "check"}
        BY DEF Places
      <4>2. /\ battling \in ReplyTo("scan")' /\ FALSE \in ReplyTo("scan")'
            /\ battling \in ReplyTo("battle")'
        BY <1>b, <1>12, Zenon
      <4> QED
        BY <1>b, <2>6, <4>1, <4>2, Zenon
    <3>5. Append(Rest, c) \in Seq(Good)
      BY <2>3
    <3>6. calls' \in Seq(Good)
      BY <2>3, <3>2, <3>3, <3>4, <3>5, Zenon
    <3> QED
      BY <1>1, <1>6, <3>1, <3>6 DEF RegistryOK, Good
  <2>12. CASE check
    <3>1. c.at = "check" /\ UNCHANGED open
      BY <2>12 DEF check, Reply, c
    <3>2. s \in open' \cup cut'
      BY <2>3, <3>1 DEF Good, GoodCalls
    <3>3. CASE calls' = Rest /\ UNCHANGED <<known, registry>>
      BY <1>1, <1>6, <2>3, <3>1, <3>3 DEF RegistryOK, Good
    <3>4. CASE known' = known \cup {s} /\ registry' = s /\ calls' = Rest
      BY <2>3, <3>1, <3>2, <3>4 DEF RegistryOK, Good
    <3>5. CASE calls' = Append(Rest, Call(s, "timeout", battling)) /\ UNCHANGED <<known, registry>>
      <4>1. "timeout" \in Places /\ "timeout" \notin {"auth", "auth2", "check"}
        BY DEF Places
      <4>2. battling \in ReplyTo("timeout")'
        BY <1>b, <1>12, Zenon
      <4>3. calls' \in Seq(Good)
        BY <1>b, <2>6, <3>5, <4>1, <4>2, Zenon
      <4> QED
        BY <1>1, <1>6, <3>1, <3>5, <4>3 DEF RegistryOK, Good
    <3> QED
      BY <2>12, <3>3, <3>4, <3>5 DEF check, c
  <2> QED
    BY <1>20, <2>8, <2>9, <2>10, <2>11, <2>12, Zenon DEF Replies
<1> QED
  BY <1>15, <1>16, <1>17, <1>18, <1>19, <1>20 DEF Actions

----------------------------------------------------------------------------
(* For any number of tabs, every handler finds what it relies on. *)
THEOREM SessionsInvariance == Spec => []SessionsInv
<1>1. Init => SessionsInv
  <2> SUFFICES ASSUME Init PROVE SessionsInv
    OBVIOUS
  <2>1. FlagsOK
    BY Zenon DEF Init, FlagsOK
  <2> QED
    BY <2>1, SessionsConstants DEF Init, SessionsInv, TabsOK, KeysOK, RegistryOK
<1> QED
  BY <1>1, SessionsNextInv, PTL DEF Spec

(* index.ts:156-378: a socket id is used once, and every reply fits the    *)
(* await of the handler that will get it.                                  *)
THEOREM SessionsTyped == Spec => []SessionsTypeOK
<1>1. SessionsInv => SessionsTypeOK
  <2> SUFFICES ASSUME SessionsInv PROVE SessionsTypeOK
    OBVIOUS
  <2>1. ASSUME NEW i \in DOMAIN calls
        PROVE  calls[i].tab \in Tabs /\ calls[i].val \in ReplyTo(calls[i].at)
    <3>1. calls[i] \in GoodCalls
      BY DEF SessionsInv, RegistryOK
    <3> QED
      BY <3>1 DEF GoodCalls
  <2> QED
    BY <2>1 DEF SessionsInv, FlagsOK, TabsOK, KeysOK, RegistryOK, SessionsTypeOK
<1> QED
  BY <1>1, SessionsInvariance, PTL

(* index.ts:311-345 against index.ts:156-193 and 348-378: a registered     *)
(* socket is open, or closed while its own handler was waiting for Redis,  *)
(* for any number of tabs.                                                 *)
THEOREM RegisteredTheorem == Spec => []RegisteredIsOpenOrCutOff
<1>1. SessionsInv => RegisteredIsOpenOrCutOff
  BY DEF SessionsInv, RegistryOK, RegisteredIsOpenOrCutOff
<1> QED
  BY <1>1, SessionsInvariance, PTL

----------------------------------------------------------------------------
(* The two-tab handover.  The tabs whose waiting handlers may still make   *)
(* them the player's:                                                      *)
Contenders(cs) ==
    {cs[i].tab : i \in {j \in DOMAIN cs : cs[j].at \in {"auth", "auth2", "join", "check"}}}

HandoverInv ==
    \A s \in (signed \ contested) \cap open :
        /\ registry = s /\ session \in {s, None}
        /\ open \subseteq {s} /\ Contenders(calls) \subseteq {s}

(* index.ts:156-193, 207-233: a tab that authenticated with no other tab   *)
(* connected or under way is registered and holds the session, or it has   *)
(* expired, whatever the handlers of earlier tabs still do.                *)
THEOREM HandoverTheorem == Spec => []UncontestedTabIsThePlayers
<1>1. Init => HandoverInv
  BY DEF Init, HandoverInv
<1>2. ASSUME SessionsInv, HandoverInv, [Next]_vars
      PROVE  HandoverInv'
  <2>1. CASE UNCHANGED vars
    BY <1>2, <2>1 DEF HandoverInv, Contenders, vars, tabVars, keyVars, histVars
  <2> SUFFICES ASSUME Actions
               PROVE  HandoverInv'
    BY <1>2, <2>1 DEF Next
  <2> DEFINE c == Head(calls)
             Reqs == [tab : Tabs, at : Places, val : Answers]
  <2>2. calls \in Seq(Reqs) /\ fresh \cap signed = {} /\ open \cap fresh = {}
    <3>1. GoodCalls \subseteq Reqs /\ calls \in Seq(GoodCalls)
      BY <1>2 DEF SessionsInv, RegistryOK, GoodCalls
    <3> HIDE DEF Reqs
    <3>2. calls \in Seq(Reqs)
      BY <3>1, SeqMonotonic
    <3> QED
      BY <1>2, <3>2 DEF SessionsInv, TabsOK
  <2> HIDE DEF Reqs
  <2>3. ASSUME NEW cs \in Seq(Reqs), NEW ds \in Seq(Reqs)
        PROVE  Contenders(cs \o ds) \subseteq Contenders(cs) \cup Contenders(ds)
    BY DEF Contenders
  <2>4. ASSUME calls # << >>
        PROVE  /\ Contenders(Rest) \subseteq Contenders(calls)
               /\ c.at \in {"auth", "auth2", "join", "check"} => c.tab \in Contenders(calls)
               /\ Rest \in Seq(Reqs) /\ c \in Reqs
    <3>1. /\ Rest \in Seq(Reqs) /\ Len(Rest) = Len(calls) - 1 /\ c \in Reqs
          /\ c = calls[1] /\ 1 \in DOMAIN calls
          /\ \A i \in DOMAIN Rest : i + 1 \in DOMAIN calls /\ Rest[i] = calls[i + 1]
      BY <2>2, <2>4 DEF Rest
    <3> QED
      BY <3>1 DEF Contenders
  <2>5. ASSUME NEW cs \in Seq(Reqs), NEW r
        PROVE  /\ Contenders(Append(cs, r)) \subseteq Contenders(cs) \cup {r.tab}
               /\ r.at \notin {"auth", "auth2", "join", "check"} =>
                     Contenders(Append(cs, r)) \subseteq Contenders(cs)
    BY DEF Contenders
  <2>6. ASSUME NEW cs \in Seq(Reqs), NEW s \in Tabs
        PROVE  Contenders(cs \o Gone(s)) \subseteq Contenders(cs) /\ cs \o Gone(s) \in Seq(Reqs)
    <3>1. PICK r : r = Call(s, "gone", session)
      OBVIOUS
    <3>2. r.at = "gone" /\ r \in Reqs
      BY <1>2, <3>1 DEF Call, Reqs, Places, Answers, SessionsInv, KeysOK
    <3>3. cs \o << >> = cs /\ cs \o <<r>> = Append(cs, r) /\ Append(cs, r) \in Seq(Reqs)
      BY <3>2
    <3>4. Contenders(cs \o <<r>>) \subseteq Contenders(cs)
      BY <2>5, <3>2, <3>3, Zenon
    <3> QED
      BY <3>1, <3>3, <3>4, Zenon DEF Gone
  <2>7. Contenders(calls') \subseteq Contenders(calls) \cup open
    <3>1. ASSUME NEW s \in Tabs, disconnect(s)
          PROVE  Contenders(calls') \subseteq Contenders(calls)
      BY <2>2, <2>6, <3>1 DEF disconnect
    <3>2. ASSUME NEW s \in Tabs, authenticate(s) \/ queueJoin(s) \/ checkReconnection(s)
          PROVE  Contenders(calls') \subseteq Contenders(calls) \cup open
      <4>1. PICK r : s \in open /\ r.tab = s /\ calls' = Append(calls, r)
        BY <3>2 DEF authenticate, queueJoin, checkReconnection, Event, Call
      <4> QED
        BY <2>2, <2>5, <4>1
    <3>3. CASE \/ \E s \in Tabs : connection(s) \/ queueLeave(s)
               \/ Matchmaker \/ Expire \/ Pass \/ Restart \/ Crash
      <4>1. calls' = calls \/ calls' = << >>
        BY <3>3, Zenon DEF connection, queueLeave, Matchmaker, Expire, Pass, Restart, Crash
      <4> QED
        BY <4>1 DEF Contenders
    <3>4. CASE auth2 \/ join2 \/ gone \/ deleted \/ scan \/ battle \/ graced \/ check \/ timeout \/ ended
      <4>1. calls # << >>
        BY <3>4, Zenon DEF Reply, auth2, join2, gone, deleted, scan, battle, graced, check, timeout, ended
      <4>2. \/ calls' = Rest
            \/ \E r : /\ r.at \notin {"auth", "auth2", "join", "check"}
                     /\ calls' = Append(Rest, r)
        BY <3>4 DEF Reply, auth2, join2, gone, deleted, scan, battle, graced, check, timeout, ended,
                    Leave, Call, Register
      <4> QED
        BY <2>4, <2>5, <4>1, <4>2, Zenon
    <3>5. CASE join
      <4>1. calls # << >> /\ c.tab \in Tabs
        BY <2>4, <3>5, Zenon DEF join, Reply, Reqs
      <4>2. CASE calls' = Rest \o Gone(c.tab)
        BY <2>4, <2>6, <4>1, <4>2, Zenon
      <4>3. CASE calls' = Append(Rest, Call(c.tab, "join2", None))
        <5>1. Call(c.tab, "join2", None).at = "join2"
          BY DEF Call
        <5> QED
          BY <2>4, <2>5, <4>1, <4>3, <5>1
      <4> QED
        BY <3>5, <4>2, <4>3, Zenon DEF join
    <3>6. CASE auth
      <4>1. calls # << >> /\ c.at = "auth"
        BY <3>6 DEF auth, Reply
      <4>2. PICK s, old : s = c.tab /\ old = c.val
        OBVIOUS
      <4>3. /\ s \in Contenders(calls) /\ Contenders(Rest) \subseteq Contenders(calls)
            /\ Rest \in Seq(Reqs) /\ s \in Tabs
        BY <2>4, <4>1, <4>2 DEF Reqs
      <4>4. CASE Register(s)
        BY <4>3, <4>4 DEF Register
      <4>5. ASSUME old \notin {None, s}, Displace(s, old)
            PROVE  Contenders(calls') \subseteq Contenders(calls)
        <5>1. old \in Tabs
          <6>1. c \in GoodCalls
            BY <1>2, <4>1 DEF SessionsInv, RegistryOK
          <6>2. old \in ReplyTo("auth")
            BY <4>1, <4>2, <6>1 DEF GoodCalls
          <6> QED
            BY <4>5, <6>2, Replied
        <5>2. PICK cs \in Seq(Reqs) : /\ calls' = cs \o <<Call(s, "auth2", None)>>
                                       /\ Contenders(cs) \subseteq Contenders(Rest)
          <6>1. CASE registry = old
            BY <2>6, <4>3, <4>5, <5>1, <6>1, Zenon DEF Displace
          <6>2. CASE registry # old
            BY <4>3, <4>5, <6>2, SMTT(30) DEF Displace
          <6> QED
            BY <6>1, <6>2, Zenon
        <5>3. calls' = Append(cs, Call(s, "auth2", None)) /\ Call(s, "auth2", None).tab = s
          BY <5>2 DEF Call
        <5> QED
          BY <2>5, <4>3, <5>2, <5>3, Zenon
      <4> QED
        BY <3>6, <4>2, <4>4, <4>5 DEF auth
    <3> QED
      BY <3>1, <3>2, <3>3, <3>4, <3>5, <3>6 DEF Actions, Replies
  <2>8. \/ \E x \in Tabs : connection(x)
        \/ open' \subseteq open
    BY Zenon DEF Actions, disconnect, authenticate, queueJoin, queueLeave, checkReconnection,
       Replies, auth, auth2, join, join2, gone, deleted, scan, battle, graced, check, timeout,
       ended, Matchmaker, Expire, Pass, Crash, Restart, tabVars, Register, Displace
  <2>9. \/ UNCHANGED <<signed, contested>>
        \/ \E x \in Tabs : connection(x)
        \/ (auth \/ auth2) /\ Register(c.tab)
    BY Zenon DEF Actions, disconnect, authenticate, queueJoin, queueLeave, checkReconnection,
       Replies, auth, auth2, join, join2, gone, deleted, scan, battle, graced, check, timeout,
       ended, Matchmaker, Expire, Pass, Crash, Restart, histVars, Displace
  <2>10. \/ registry' = registry
         \/ \E x \in open : x \notin open'
         \/ calls # << >> /\ c.at \in {"auth", "auth2", "check"} /\ registry' = c.tab
         \/ open' = {}
    BY Zenon DEF Actions, connection, disconnect, authenticate, queueJoin, queueLeave,
       checkReconnection, Replies, auth, auth2, join, join2, gone, deleted, scan, battle,
       graced, check, timeout, ended, Matchmaker, Expire, Pass, Crash, Restart, Register,
       Displace, Reply, Drops
  <2>11. \/ session' \in {session, None}
         \/ calls # << >> /\ c.at \in {"auth", "auth2", "join"} /\ session' = c.tab
    BY Zenon DEF Actions, connection, disconnect, authenticate, queueJoin, queueLeave,
       checkReconnection, Replies, auth, auth2, join, join2, gone, deleted, scan, battle,
       graced, check, timeout, ended, Matchmaker, Expire, Pass, Crash, Restart, keyVars,
       Register, Displace, Reply
  <2> SUFFICES ASSUME NEW s \in (signed' \ contested') \cap open'
               PROVE  /\ registry' = s /\ session' \in {s, None}
                      /\ open' \subseteq {s} /\ Contenders(calls') \subseteq {s}
    BY DEF HandoverInv, Contenders
  <2> HIDE DEF c
  <2>12. CASE s \in (signed \ contested) \cap open
    <3>1. /\ registry = s /\ session \in {s, None}
          /\ open \subseteq {s} /\ Contenders(calls) \subseteq {s}
      BY <1>2, <2>12 DEF HandoverInv
    <3>2. open' \subseteq open
      BY <2>8, <2>12 DEF connection
    <3>3. calls # << >> /\ c.at \in {"auth", "auth2", "join", "check"} => c.tab = s
      BY <2>4, <3>1 DEF c
    <3>4. registry' = s
      BY <2>10, <3>1, <3>3
    <3>5. session' \in {s, None}
      BY <2>11, <3>1, <3>3
    <3> QED
      BY <2>7, <3>1, <3>2, <3>4, <3>5
  <2>13. CASE s \notin (signed \ contested) \cap open
    <3>1. ASSUME NEW x \in Tabs, connection(x)
          PROVE  FALSE
      BY <2>2, <2>13, <3>1 DEF connection
    <3>2. (auth \/ auth2) /\ Register(c.tab)
      BY <2>8, <2>9, <2>13, <3>1
    <3>3. s = c.tab /\ Rivals(s, open, Rest) = {}
      BY <2>13, <3>2 DEF Register
    <3>4. registry' = s /\ session' = s /\ calls' = Rest /\ open' = open
      BY <3>2, <3>3 DEF Register
    <3>5. open \subseteq {s} /\ Contenders(Rest) \subseteq {s}
      BY <3>3 DEF Rivals, Contenders
    <3> QED
      BY <3>4, <3>5
  <2> QED
    BY <2>12, <2>13
<1>3. SessionsInv /\ HandoverInv => UncontestedTabIsThePlayers
  BY Zenon DEF HandoverInv, UncontestedTabIsThePlayers
<1> QED
  BY <1>1, <1>2, <1>3, SessionsInvariance, PTL DEF Spec

----------------------------------------------------------------------------
(* The queue.  The awaits of a disconnect handler, which ends with         *)
(* removeFromQueue, and those it is sure to get past without ending:       *)
Closing == {"gone", "deleted", "scan", "battle", "graced"}
Unfinished == {"gone", "deleted", "battle"}

Leaving(cs) == \E j \in DOMAIN cs : cs[j].at \in Closing

(* A join is two replies from the queue and a disconnect handler at least  *)
(* two from its end, so one that started later ends later.                 *)
Outrun(cs) ==
    \A i \in DOMAIN cs :
        /\ cs[i].at = "join" => \E j \in DOMAIN cs : i < j /\ cs[j].at = "gone"
        /\ cs[i].at = "join2" => \E j \in DOMAIN cs : \/ i < j /\ cs[j].at \in Closing
                                                     \/ cs[j].at \in Unfinished

QueueInv ==
    ~anonymous /\ open \cap known = {} => Outrun(calls) /\ (queued => Leaving(calls))

(* What happens to Outrun and Leaving when a reply is taken from the front *)
(* of the pipeline and a call added to its end.                            *)
LEMMA PipelineStep ==
    ASSUME NEW S, NEW cs \in Seq(S), Outrun(cs)
    PROVE  /\ \A r : r.at \notin {"join", "join2"} => Outrun(Append(cs, r))
           /\ \A r : Leaving(cs) \/ r.at \in Closing => Leaving(Append(cs, r))
           /\ cs # << >> =>
                 /\ Head(cs).at \notin Unfinished => Outrun(Tail(cs))
                 /\ Head(cs).at \in Unfinished =>
                       \A r : r.at \in Closing => Outrun(Append(Tail(cs), r))
                 /\ Head(cs).at = "join" =>
                       \A r : r.at = "join2" => Outrun(Append(Tail(cs), r))
                 /\ Head(cs).at = "join2" => Leaving(Tail(cs))
                 /\ Leaving(cs) /\ Head(cs).at \notin Closing => Leaving(Tail(cs))
<1>0. "join" \notin Closing /\ "join2" \notin Closing /\ Unfinished \subseteq Closing
      /\ "gone" \in Unfinished
  BY DEF Closing, Unfinished
<1>1. ASSUME NEW r
      PROVE  /\ Len(Append(cs, r)) = Len(cs) + 1
             /\ DOMAIN Append(cs, r) = 1 .. Len(cs) + 1
             /\ \A i \in DOMAIN cs : i \in DOMAIN Append(cs, r) /\ Append(cs, r)[i] = cs[i]
             /\ Append(cs, r)[Len(cs) + 1] = r
             /\ \A i \in DOMAIN Append(cs, r) : i \in DOMAIN cs \/ i = Len(cs) + 1
             /\ \A i \in DOMAIN cs : i < Len(cs) + 1
  BY SMTT(30)
<1>2. ASSUME NEW r, r.at \notin {"join", "join2"}
      PROVE  Outrun(Append(cs, r))
  <2> DEFINE as == Append(cs, r)
  <2> HIDE DEF as
  <2> SUFFICES ASSUME NEW i \in DOMAIN as
               PROVE  /\ as[i].at = "join" => \E j \in DOMAIN as : i < j /\ as[j].at = "gone"
                      /\ as[i].at = "join2" => \E j \in DOMAIN as : \/ i < j /\ as[j].at \in Closing
                                                                   \/ as[j].at \in Unfinished
    BY DEF Outrun, as
  <2>1. CASE i = Len(cs) + 1
    BY <1>1, <1>2, <2>1 DEF as
  <2>2. CASE i \in DOMAIN cs
    BY <1>1, <2>2 DEF as, Outrun
  <2> QED
    BY <1>1, <2>1, <2>2, Zenon DEF as
<1>3. ASSUME NEW r, Leaving(cs) \/ r.at \in Closing
      PROVE  Leaving(Append(cs, r))
  BY <1>1, <1>3 DEF Leaving
<1> SUFFICES ASSUME cs # << >>
             PROVE  /\ Head(cs).at \notin Unfinished => Outrun(Tail(cs))
                    /\ Head(cs).at \in Unfinished =>
                          \A r : r.at \in Closing => Outrun(Append(Tail(cs), r))
                    /\ Head(cs).at = "join" =>
                          \A r : r.at = "join2" => Outrun(Append(Tail(cs), r))
                    /\ Head(cs).at = "join2" => Leaving(Tail(cs))
                    /\ Leaving(cs) /\ Head(cs).at \notin Closing => Leaving(Tail(cs))
  BY <1>2, <1>3
<1> DEFINE ts == Tail(cs)
<1>4. /\ ts \in Seq(S) /\ Head(cs) = cs[1] /\ 1 \in DOMAIN cs
      /\ \A i \in DOMAIN ts : i + 1 \in DOMAIN cs /\ ts[i] = cs[i + 1] /\ i \in Nat /\ i + 1 # 1
      /\ \A j \in DOMAIN cs : j \in Nat /\ (j # 1 => j - 1 \in DOMAIN ts /\ cs[j] = ts[j - 1])
  OBVIOUS
<1> HIDE DEF ts
<1>5. ASSUME NEW i \in DOMAIN ts, ts[i].at = "join"
      PROVE  \E j \in DOMAIN ts : i < j /\ ts[j].at = "gone"
  <2>1. PICK j \in DOMAIN cs : i + 1 < j /\ cs[j].at = "gone"
    BY <1>4, <1>5, Zenon DEF Outrun
  <2>2. i \in Nat /\ j \in Nat
    BY <1>4
  <2>3. j # 1 /\ i < j - 1
    BY <2>1, <2>2
  <2>4. j - 1 \in DOMAIN ts /\ ts[j - 1].at = "gone"
    BY <1>4, <2>1, <2>3, Zenon
  <2> QED
    BY <2>3, <2>4
<1>6. ASSUME NEW i \in DOMAIN ts, ts[i].at = "join2", cs[1].at \notin Unfinished
      PROVE  \E j \in DOMAIN ts : \/ i < j /\ ts[j].at \in Closing
                                  \/ ts[j].at \in Unfinished
  <2>1. PICK j \in DOMAIN cs : \/ i + 1 < j /\ cs[j].at \in Closing
                               \/ cs[j].at \in Unfinished
    BY <1>4, <1>6, Zenon DEF Outrun
  <2>2. i \in Nat /\ j \in Nat
    BY <1>4
  <2>3. j # 1 /\ (i + 1 < j => i < j - 1)
    BY <1>6, <2>1, <2>2
  <2>4. j - 1 \in DOMAIN ts /\ cs[j] = ts[j - 1]
    BY <1>4, <2>3
  <2> QED
    BY <2>1, <2>3, <2>4
<1>7. cs[1].at \notin Unfinished => Outrun(ts)
  BY <1>5, <1>6 DEF Outrun
<1>8. ASSUME NEW r
      PROVE  /\ DOMAIN Append(ts, r) = 1 .. Len(ts) + 1
             /\ \A i \in DOMAIN ts : i \in DOMAIN Append(ts, r) /\ Append(ts, r)[i] = ts[i]
             /\ Len(ts) + 1 \in DOMAIN Append(ts, r)
             /\ Append(ts, r)[Len(ts) + 1] = r
             /\ \A i \in DOMAIN Append(ts, r) : i \in DOMAIN ts \/ i = Len(ts) + 1
             /\ \A i \in DOMAIN ts : i < Len(ts) + 1
  BY <1>4
<1>9. ASSUME NEW r, r.at \in Closing
      PROVE  Outrun(Append(ts, r))
  <2> DEFINE as == Append(ts, r)
  <2> HIDE DEF as
  <2> SUFFICES ASSUME NEW i \in DOMAIN as
               PROVE  /\ as[i].at = "join" => \E j \in DOMAIN as : i < j /\ as[j].at = "gone"
                      /\ as[i].at = "join2" => \E j \in DOMAIN as : \/ i < j /\ as[j].at \in Closing
                                                                   \/ as[j].at \in Unfinished
    BY DEF Outrun, as
  <2>1. CASE i = Len(ts) + 1
    BY <1>0, <1>8, <1>9, <2>1 DEF as
  <2>2. CASE i \in DOMAIN ts
    <3>1. as[i] = ts[i] /\ i < Len(ts) + 1
      BY <1>8, <2>2 DEF as
    <3>2. Len(ts) + 1 \in DOMAIN as /\ as[Len(ts) + 1].at \in Closing
      BY <1>8, <1>9 DEF as
    <3>3. as[i].at = "join" => \E j \in DOMAIN as : i < j /\ as[j].at = "gone"
      BY <1>5, <1>8, <2>2, <3>1 DEF as
    <3> QED
      BY <3>1, <3>2, <3>3, Zenon
  <2> QED
    BY <1>8, <2>1, <2>2, Zenon DEF as
<1>10. ASSUME NEW r, r.at = "join2", cs[1].at = "join"
       PROVE  Outrun(Append(ts, r))
  <2> DEFINE as == Append(ts, r)
  <2>1. PICK j \in DOMAIN cs : 1 < j /\ cs[j].at = "gone"
    BY <1>4, <1>10 DEF Outrun
  <2>2. j - 1 \in DOMAIN ts /\ ts[j - 1].at \in Unfinished
    BY <1>0, <1>4, <2>1, SMTT(30)
  <2>3. \E k \in DOMAIN as : as[k].at \in Unfinished
    BY <1>8, <2>2
  <2> HIDE DEF as
  <2> SUFFICES ASSUME NEW i \in DOMAIN as
               PROVE  as[i].at = "join" => \E k \in DOMAIN as : i < k /\ as[k].at = "gone"
    BY <2>3 DEF Outrun, as
  <2>4. CASE i = Len(ts) + 1
    BY <1>8, <1>10, <2>4, Zenon DEF as
  <2>5. CASE i \in DOMAIN ts
    BY <1>5, <1>8, <2>5 DEF as
  <2> QED
    BY <1>8, <2>4, <2>5 DEF as
<1>11. ASSUME cs[1].at = "join2"
       PROVE  Leaving(ts)
  <2>1. PICK j \in DOMAIN cs : cs[j].at \in Closing
    BY <1>0, <1>4, <1>11, Zenon DEF Outrun
  <2> QED
    BY <1>0, <1>4, <1>11, <2>1 DEF Leaving
<1>12. ASSUME Leaving(cs), cs[1].at \notin Closing
       PROVE  Leaving(ts)
  BY <1>4, <1>12, Zenon DEF Leaving
<1> QED
  BY <1>4, <1>7, <1>9, <1>10, <1>11, <1>12 DEF ts

(* index.ts:207-255 against 348-378: a player without a connection and     *)
(* with nothing under way is not in the queue, for any number of tabs,     *)
(* whatever joins and disconnect handlers overlapped.                      *)
THEOREM NoGhostTheorem == Spec => []NoGhostInQueue
<1>1. Init => QueueInv
  BY DEF Init, QueueInv, Outrun
<1>2. ASSUME SessionsInv, QueueInv, [Next]_vars
      PROVE  QueueInv'
  <2>1. CASE UNCHANGED vars
    BY <1>2, <2>1, Zenon DEF QueueInv, Outrun, Leaving, vars, tabVars, histVars
  <2> SUFFICES ASSUME Actions, ~anonymous', open' \cap known' = {}
               PROVE  Outrun(calls') /\ (queued' => Leaving(calls'))
    BY <1>2, <2>1 DEF Next, QueueInv, Outrun, Leaving
  <2> DEFINE c == Head(calls)
  <2>2. calls \in Seq(GoodCalls) /\ (calls # << >> => Rest \in Seq(GoodCalls) /\ Rest = Tail(calls))
    BY <1>2 DEF SessionsInv, RegistryOK, Rest
  <2>3. ~anonymous
    BY Zenon DEF Actions, connection, disconnect, authenticate, queueJoin, queueLeave,
       checkReconnection, Replies, auth, auth2, join, join2, gone, deleted, scan, battle,
       graced, check, timeout, ended, Matchmaker, Expire, Pass, Crash, Restart, histVars
  <2>4. ASSUME open \cap known = {}
        PROVE  Outrun(calls) /\ (queued => Leaving(calls))
    BY <1>2, <2>3, <2>4 DEF QueueInv
  \* A tab closes: its disconnect handler is behind every join.
  <2>5. ASSUME NEW cs \in Seq(GoodCalls), NEW s \in Tabs \ fresh, Drops(s)
        PROVE  \E r : /\ cs \o Gone(s) = Append(cs, r)
                      /\ Outrun(Append(cs, r)) /\ Leaving(Append(cs, r))
    <3>1. PICK r : r = Call(s, "gone", session)
      OBVIOUS
    <3>2. cs \o Gone(s) = Append(cs, r) /\ r.at = "gone"
      BY <2>5, <3>1 DEF Gone, Call
    <3>3. /\ DOMAIN Append(cs, r) = 1 .. Len(cs) + 1 /\ Len(cs) \in Nat
          /\ Append(cs, r)[Len(cs) + 1] = r
      BY SMTT(30)
    <3>4. Outrun(Append(cs, r)) /\ Leaving(Append(cs, r))
      BY <3>2, <3>3 DEF Outrun, Leaving, Closing
    <3> QED
      BY <3>2, <3>4
  <2>6. ASSUME NEW cs \in Seq(GoodCalls), NEW s, ~Drops(s)
        PROVE  cs \o Gone(s) = cs
    BY <2>6 DEF Gone
  <2>7. ASSUME NEW s \in Tabs, disconnect(s)
        PROVE  Outrun(calls') /\ (queued' => Leaving(calls'))
    <3>1. /\ s \in open /\ open' = open \ {s} /\ calls' = calls \o Gone(s)
          /\ UNCHANGED <<known, queued>>
      BY <2>7 DEF disconnect
    <3>2. CASE Drops(s)
      BY <1>2, <2>2, <2>5, <3>1, <3>2, Zenon DEF SessionsInv, TabsOK
    <3>3. CASE ~Drops(s)
      BY <2>2, <2>4, <2>6, <3>1, <3>3, Zenon DEF Drops
    <3> QED
      BY <3>2, <3>3
  <2>8. ASSUME NEW s \in Tabs,
               authenticate(s) \/ queueJoin(s) \/ queueLeave(s)
        PROVE  FALSE
    <3>1. authenticate(s) => s \in open' \cap known'
      BY DEF authenticate, Event
    <3>2. queueJoin(s) => s \in open' \cap known'
      BY Zenon DEF queueJoin, Event, tabVars
    <3>3. queueLeave(s) => s \in open' \cap known'
      BY DEF queueLeave, tabVars
    <3> QED
      BY <2>8, <3>1, <3>2, <3>3
  <2>9. ASSUME NEW s \in Tabs, checkReconnection(s)
        PROVE  Outrun(calls') /\ (queued' => Leaving(calls'))
    <3>1. /\ calls' = Append(calls, Call(s, "check", grace))
          /\ UNCHANGED <<open, known, queued>>
      BY <2>9 DEF checkReconnection, Event, tabVars
    <3>2. Call(s, "check", grace).at = "check"
      BY DEF Call
    <3> QED
      BY <2>2, <2>4, <3>1, <3>2, PipelineStep
  <2>10. CASE (\E s \in Tabs : connection(s)) \/ Matchmaker \/ Expire \/ Pass \/ Restart
    <3>1. open \subseteq open' /\ UNCHANGED <<known, calls>>
      BY <2>10 DEF connection, Matchmaker, Expire, Pass, Restart, tabVars
    <3>2. queued' => queued
      BY <2>10, Zenon DEF connection, Matchmaker, Expire, Pass, Restart
    <3>3. Outrun(calls) /\ (queued => Leaving(calls))
      BY <2>4, <3>1
    <3> QED
      BY <3>1, <3>2, <3>3
  <2>11. CASE Crash
    BY <2>11 DEF Crash, Outrun
  <2>12. CASE Replies
    <3>1. calls # << >>
      BY <2>12, Zenon DEF Replies, Reply, auth, auth2, join, join2, gone, deleted, scan, battle,
                   graced, check, timeout, ended
    <3>2. c \in GoodCalls /\ c.tab \in Tabs \ fresh
      BY <2>2, <3>1 DEF GoodCalls
    <3>3. ASSUME open \cap known = {}, c.at \notin Closing
          PROVE  /\ Outrun(Rest) /\ (queued => Leaving(Rest))
                 /\ c.at = "join2" => Leaving(Rest)
      BY <2>2, <2>4, <3>1, <3>3, PipelineStep, Zenon DEF Closing, Unfinished
    <3>4. CASE auth
      <4>1. PICK s, old : s = c.tab /\ old = c.val
        OBVIOUS
      <4>2. c.at = "auth" /\ UNCHANGED <<known, queued>>
        BY <3>4 DEF auth, Reply
      <4>3. CASE Register(s)
        <5>1. calls' = Rest /\ UNCHANGED open
          BY <4>3 DEF Register
        <5> QED
          BY <3>3, <4>2, <5>1 DEF Closing
      <4>4. ASSUME old \notin {None, s}, Displace(s, old)
            PROVE  Outrun(calls') /\ (queued' => Leaving(calls'))
        <5>1. PICK r : r = Call(s, "auth2", None)
          OBVIOUS
        <5>2. r.at = "auth2"
          BY <5>1, Zenon DEF Call
        <5>3. CASE registry = old /\ Drops(old)
          <6>1. old \in Tabs \ fresh
            BY <1>2, <5>3 DEF Drops, SessionsInv, TabsOK
          <6>2. PICK g : /\ Rest \o Gone(old) = Append(Rest, g)
                         /\ Outrun(Append(Rest, g)) /\ Leaving(Append(Rest, g))
            BY <2>2, <2>5, <3>1, <5>3, <6>1
          <6>3. Append(Rest, g) \in Seq(GoodCalls \cup {g})
            BY <2>2, <3>1
          <6>4. calls' = Append(Append(Rest, g), r)
            BY <4>4, <5>1, <5>3, <6>2, <6>3 DEF Displace
          <6> QED
            BY <5>2, <6>2, <6>3, <6>4, PipelineStep, Zenon
        <5>4. CASE ~(registry = old /\ Drops(old))
          <6>1. open \cap known = {}
            BY <4>2, <4>4, <5>4 DEF Displace, Drops
          <6>2. (IF registry = old THEN Gone(old) ELSE << >>) = << >>
            BY <5>4 DEF Gone
          <6>3. calls' = Rest \o << >> \o <<r>>
            BY <4>4, <5>1, <6>2, Zenon DEF Displace
          <6>4. calls' = Append(Rest, r)
            BY <2>2, <3>1, <6>3
          <6> QED
            BY <2>2, <3>1, <3>3, <4>2, <5>2, <6>1, <6>4, PipelineStep DEF Closing
        <5> QED
          BY <5>3, <5>4
      <4> QED
        BY <3>4, <4>1, <4>3, <4>4 DEF auth
    <3>5. CASE auth2 \/ check \/ timeout \/ ended
      <4>1. c.at \in {"auth2", "check", "timeout", "ended"} /\ UNCHANGED <<open, queued>>
        BY <3>5 DEF auth2, check, timeout, ended, Reply, tabVars, Register
      <4>2. known \subseteq known'
        BY <3>5, Zenon DEF auth2, check, timeout, ended, tabVars
      <4>3. \/ calls' = Rest
            \/ \E r : r.at \notin {"join", "join2"} /\ calls' = Append(Rest, r)
        BY <3>5 DEF auth2, check, timeout, ended, Register, Call
      <4>4. Outrun(Rest) /\ (queued => Leaving(Rest))
        BY <3>3, <4>1, <4>2, Zenon DEF Closing
      <4> QED
        BY <2>2, <3>1, <4>1, <4>3, <4>4, PipelineStep, Zenon
    <3>6. CASE join
      <4>1. c.at = "join" /\ UNCHANGED <<known, queued>>
        BY <3>6, Zenon DEF join, Reply
      <4>2. CASE open' = open \ {c.tab} /\ calls' = Rest \o Gone(c.tab)
        <5>1. CASE Drops(c.tab)
          BY <2>2, <2>5, <3>1, <3>2, <4>2, <5>1, Zenon
        <5>2. CASE ~Drops(c.tab)
          <6>1. open \cap known = {}
            BY <4>1, <4>2, <5>2 DEF Drops
          <6>2. calls' = Rest
            BY <2>2, <2>6, <3>1, <4>2, <5>2
          <6> QED
            BY <3>3, <4>1, <6>1, <6>2 DEF Closing
        <5> QED
          BY <5>1, <5>2, Zenon
      <4>3. CASE UNCHANGED open /\ calls' = Append(Rest, Call(c.tab, "join2", None))
        <5>1. PICK r : r = Call(c.tab, "join2", None)
          OBVIOUS
        <5>2. r.at = "join2" /\ open \cap known = {} /\ calls' = Append(Rest, r)
          BY <4>1, <4>3, <5>1 DEF Call
        <5>3. Outrun(calls) /\ Rest = Tail(calls)
          BY <2>2, <2>4, <3>1, <5>2
        <5>4. Outrun(Append(Rest, r))
          BY <2>2, <3>1, <4>1, <5>2, <5>3, PipelineStep, Zenon
        <5>5. Outrun(Rest) /\ (queued => Leaving(Rest))
          BY <3>3, <4>1, <5>2, Zenon DEF Closing
        <5>6. queued => Leaving(Append(Rest, r))
          BY <2>2, <3>1, <5>5, PipelineStep
        <5> QED
          BY <4>1, <5>2, <5>4, <5>6
      <4> QED
        BY <3>6, <4>2, <4>3, Zenon DEF join
    <3>7. CASE join2
      <4>1. c.at = "join2" /\ calls' = Rest /\ UNCHANGED <<open, known>>
        BY <3>7 DEF join2, Reply, tabVars
      <4> QED
        BY <3>3, <4>1 DEF Closing
    <3>8. CASE gone \/ deleted \/ battle
      <4>1. c.at \in Unfinished /\ UNCHANGED <<open, known, queued>>
        BY <3>8, Zenon DEF gone, deleted, battle, Reply, tabVars, Unfinished
      <4>2. PICK r : r.at \in Closing /\ calls' = Append(Rest, r)
        BY <3>8 DEF gone, deleted, battle, Call, Closing
      <4>3. Outrun(calls) /\ Rest = Tail(calls)
        BY <2>2, <2>4, <3>1, <4>1
      <4>4. Outrun(Append(Rest, r))
        BY <2>2, <3>1, <4>1, <4>2, <4>3, PipelineStep
      <4>5. Leaving(Append(Rest, r))
        <5>1. /\ Len(Rest) + 1 \in DOMAIN Append(Rest, r)
              /\ Append(Rest, r)[Len(Rest) + 1] = r
          BY <2>2, <3>1
        <5> QED
          BY <4>2, <5>1 DEF Leaving
      <4> QED
        BY <4>2, <4>4, <4>5, Zenon
    <3>9. CASE scan \/ graced
      <4>1. c.at \in {"scan", "graced"} /\ UNCHANGED <<open, known>>
        BY <3>9, Zenon DEF scan, graced, Reply, tabVars
      <4>2. Outrun(Rest)
        <5>1. Outrun(calls) /\ c.at \notin Unfinished
          BY <2>4, <4>1 DEF Unfinished
        <5> QED
          BY <2>2, <3>1, <5>1, PipelineStep, Zenon
      <4>3. CASE Leave
        BY <4>2, <4>3 DEF Leave
      <4>4. ASSUME NEW r, r.at \in {"scan", "battle"}, calls' = Append(Rest, r)
            PROVE  Outrun(calls') /\ Leaving(calls')
        <5>1. r.at \in Closing /\ r.at \notin {"join", "join2"}
          BY <4>4 DEF Closing
        <5> QED
          BY <2>2, <3>1, <4>2, <4>4, <5>1, PipelineStep
      <4>5. Leave \/ \E r : r.at \in {"scan", "battle"} /\ calls' = Append(Rest, r)
        BY <3>9 DEF scan, graced, Reply, Call
      <4> QED
        BY <4>3, <4>4, <4>5, SMTT(30)
    <3> QED
      BY <2>12, <3>4, <3>5, <3>6, <3>7, <3>8, <3>9, Zenon DEF Replies
  <2> QED
    BY <2>7, <2>8, <2>9, <2>10, <2>11, <2>12, Zenon DEF Actions
<1>3. QueueInv => NoGhostInQueue
  BY DEF QueueInv, NoGhostInQueue, Leaving
<1> QED
  BY <1>1, <1>2, <1>3, SessionsInvariance, PTL DEF Spec
=============================================================================
