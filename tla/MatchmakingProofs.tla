------------------------- MODULE MatchmakingProofs -------------------------
(***************************************************************************)
(* For any players, ratings, windows and number of overlapping ticks: what *)
(* a tick pairs, and the rooms it saves, are sound although the queue      *)
(* changes under it.  The invariant says what a tick may rely on: its      *)
(* snapshot has one entry per player, none of them spent when the snapshot *)
(* was taken, and the entries it shares with other ticks only ever grow    *)
(* their windows.                                                          *)
(***************************************************************************)
EXTENDS Matchmaking, FiniteSetTheorems, WellFoundedInduction, TLAPS

(* An entry's window is what some earlier tick computed from its waiting   *)
(* time, so it is never wider than the next tick will make it.             *)
WindowOK(en) ==
    /\ InitialWindow <= en.window
    /\ en.window <= Window(en.elapsed)
    /\ en.elapsed <= FullyGrown

Accepting(es, p) == \A e, f \in p : Gap(es, e, f) <= es[e].window

(* What a tick may rely on, and what its loop has established so far. *)
TickOK(es, tk, past) ==
    /\ tk.players \subseteq DOMAIN es
    /\ tk.players \cap past = {}
    /\ \A e, f \in tk.players : es[e].user = es[f].user => e = f
    /\ \A p \in tk.pairs : \E e, f \in tk.players : e # f /\ p = {e, f}
    /\ \A p, q \in tk.pairs : p # q => p \cap q = {}
    /\ tk.pair \subseteq DOMAIN es
    /\ Accepting(es, tk.pair)
    /\ \A e, f \in tk.players \ Matched(tk) :
          e < f /\ e < tk.from => Gap(es, e, f) > InitialWindow

MatchInv ==
    /\ MatchmakingTypeOK
    /\ Len(entries) <= MaxEntries
    /\ queue \cap spent = {}
    /\ \A e \in DOMAIN entries : WindowOK(entries[e])
    /\ \A p \in rooms : p \subseteq DOMAIN entries /\ Accepting(entries, p)
    /\ \A t \in Ticks : TickOK(entries, tick[t], before[t])

TickRecord == [pc : {"idle", "problem", "notify"},
               players : SUBSET (1 .. MaxEntries),
               from : Nat,
               pairs : SUBSET SUBSET (1 .. MaxEntries),
               pair : SUBSET (1 .. MaxEntries)]

(* From one state to the next, entries are added and windows widened. *)
Grown(es, fs) ==
    /\ DOMAIN es \subseteq DOMAIN fs
    /\ \A e \in DOMAIN es : fs[e].user = es[e].user /\ es[e].window <= fs[e].window

----------------------------------------------------------------------------
(* Every set of naturals has a least element. *)
LEMMA LeastNatural ==
    ASSUME NEW S \in SUBSET Nat, S # {}
    PROVE  \E m \in S : \A n \in S : m <= n
<1>1. PICK m \in S : \A n \in S : <<n, m>> \notin OpToRel(<, Nat)
  BY NatLessThanWellFounded, WFMin
<1>2. \A n \in S : ~(n < m)
  BY <1>1, Zenon DEF OpToRel
<1> QED
  BY <1>2

(* The double loop comes to the pair with the least outer index, and among *)
(* these to the one with the least inner index (matchmaking.ts:103-120).   *)
LEMMA FirstOfIsFirst ==
    ASSUME NEW ps \in SUBSET (Nat \X Nat), ps # {}
    PROVE  /\ FirstOf(ps) \in ps
           /\ \A q \in ps : FirstOf(ps)[1] <= q[1]
<1> DEFINE outer == {p[1] : p \in ps}
<1>1. outer \in SUBSET Nat /\ outer # {}
  OBVIOUS
<1>2. PICK m \in outer : \A n \in outer : m <= n
  BY <1>1, LeastNatural, Zenon
<1> DEFINE inner == {p[2] : p \in {q \in ps : q[1] = m}}
<1>3. inner \in SUBSET Nat /\ inner # {}
  BY <1>2
<1>4. PICK k \in inner : \A n \in inner : k <= n
  BY <1>3, LeastNatural, Zenon
<1>5. PICK p \in ps : p[1] = m /\ p[2] = k
  BY <1>4
<1>6. \A q \in ps : p[1] < q[1] \/ (p[1] = q[1] /\ p[2] <= q[2])
  <2> TAKE q \in ps
  <2>1. q[1] \in outer /\ q[1] \in Nat /\ q[2] \in Nat /\ m \in Nat /\ k \in Nat
    BY <1>1, <1>2, <1>3, <1>4
  <2>2. CASE q[1] = m
    <3>1. q[2] \in inner
      BY <2>2
    <3> QED
      BY <3>1, <2>2, <1>4, <1>5
  <2>3. CASE q[1] # m
    BY <2>1, <2>3, <1>2, <1>5
  <2> QED
    BY <2>2, <2>3
<1>7. /\ FirstOf(ps) \in ps
      /\ \A q \in ps : \/ FirstOf(ps)[1] < q[1]
                       \/ FirstOf(ps)[1] = q[1] /\ FirstOf(ps)[2] <= q[2]
  BY <1>5, <1>6 DEF FirstOf
<1> QED
  BY <1>7

(* A window starts at InitialWindow and grows with the waiting time        *)
(* (matchmaking.ts:91-95).                                                 *)
LEMMA WindowGrows ==
    ASSUME NEW m \in Nat, NEW n \in Nat, m <= n
    PROVE  /\ Window(m) \in Nat
           /\ InitialWindow <= Window(m)
           /\ Window(m) <= Window(n)
<1> USE MatchmakingConstants
<1> DEFINE a == m \div Period
           b == n \div Period
<1>1. a \in Nat /\ b \in Nat
  OBVIOUS
<1>2. a <= b
  OBVIOUS
<1> HIDE DEF a, b
<1>3. a * ExpandRate \in Nat /\ b * ExpandRate \in Nat
  BY <1>1
<1>4. a * ExpandRate <= b * ExpandRate
  BY <1>1, <1>2
<1>5. /\ Window(m) = Min2(InitialWindow + a * ExpandRate, MaxWindow)
      /\ Window(n) = Min2(InitialWindow + b * ExpandRate, MaxWindow)
  BY DEF Window, a, b
<1> DEFINE x == a * ExpandRate
           y == b * ExpandRate
<1> HIDE DEF x, y
<1>6. x \in Nat /\ y \in Nat /\ x <= y
  BY <1>3, <1>4 DEF x, y
<1>7. /\ Window(m) = Min2(InitialWindow + x, MaxWindow)
      /\ Window(n) = Min2(InitialWindow + y, MaxWindow)
  BY <1>5 DEF x, y
<1> QED
  BY <1>6, <1>7 DEF Min2

(* The difference in rating of two players is a number. *)
LEMMA GapType ==
    ASSUME NEW es, NEW e, NEW f, es[e] \in Entry, es[f] \in Entry
    PROVE  Gap(es, e, f) \in Nat /\ Gap(es, e, f) = Gap(es, f, e)
<1>1. Elo[es[e].user] \in Nat /\ Elo[es[f].user] \in Nat
  BY MatchmakingConstants DEF Entry
<1> QED
  BY <1>1 DEF Gap, Abs

(* What holds of a tick and of a room is not lost when entries grow. *)
LEMMA GrownKeeps ==
    ASSUME NEW es \in Seq(Entry), NEW fs \in Seq(Entry), Grown(es, fs)
    PROVE  /\ \A p \in SUBSET DOMAIN es : Accepting(es, p) => Accepting(fs, p)
           /\ \A tk, past : TickOK(es, tk, past) => TickOK(fs, tk, past)
<1> USE MatchmakingConstants
<1>1. \A e \in DOMAIN es : es[e] \in Entry /\ fs[e] \in Entry
  BY DEF Grown
<1>2. \A e, f \in DOMAIN es : Gap(es, e, f) \in Int
  BY <1>1, GapType
<1>3. \A e \in DOMAIN es : es[e].window \in Nat /\ fs[e].window \in Nat
  BY <1>1 DEF Entry
<1>4. \A e, f \in DOMAIN es : Gap(fs, e, f) = Gap(es, e, f)
  BY DEF Grown, Gap
<1>5. ASSUME NEW p \in SUBSET DOMAIN es, Accepting(es, p)
      PROVE  Accepting(fs, p)
  <2> SUFFICES ASSUME NEW e \in p, NEW f \in p
               PROVE  Gap(fs, e, f) <= fs[e].window
    BY DEF Accepting
  <2>1. Gap(fs, e, f) = Gap(es, e, f)
    BY <1>4
  <2>2. Gap(es, e, f) <= es[e].window
    BY <1>5 DEF Accepting
  <2>3. es[e].window <= fs[e].window
    BY DEF Grown
  <2> QED
    BY <1>2, <1>3, <2>1, <2>2, <2>3, SMTT(30)
<1>6. ASSUME NEW tk, NEW past, TickOK(es, tk, past)
      PROVE  TickOK(fs, tk, past)
  <2>1. tk.players \subseteq DOMAIN es /\ tk.pair \subseteq DOMAIN es
    BY <1>6 DEF TickOK
  <2>2. tk.players \subseteq DOMAIN fs /\ tk.pair \subseteq DOMAIN fs
    BY <2>1 DEF Grown
  <2>3. \A e, f \in tk.players : fs[e].user = fs[f].user => e = f
    BY <1>6, <2>1, Zenon DEF TickOK, Grown
  <2>4. Accepting(fs, tk.pair)
    BY <1>5, <1>6 DEF TickOK
  <2>5. \A e, f \in tk.players \ Matched(tk) :
          e < f /\ e < tk.from => Gap(fs, e, f) > InitialWindow
    BY <1>6, <1>4, <2>1 DEF TickOK
  <2> QED
    BY <1>6, <2>2, <2>3, <2>4, <2>5 DEF TickOK
<1> QED
  BY <1>5, <1>6

----------------------------------------------------------------------------
(* A tick that is not running relies on nothing. *)
LEMMA IdleOK == \A es : Idle \in TickRecord /\ TickOK(es, Idle, {})
BY DEF Idle, TickRecord, TickOK, Accepting

(* Two players the loop accepts are within both windows. *)
LEMMA AcceptedPair ==
    ASSUME NEW es, NEW e, NEW f, es[e] \in Entry, es[f] \in Entry, Accepts(es, e, f)
    PROVE  Accepting(es, {e, f})
<1>1. /\ Gap(es, e, f) \in Nat /\ Gap(es, e, f) = Gap(es, f, e)
      /\ es[e].window \in Nat /\ es[f].window \in Nat
  BY GapType DEF Entry
<1>2. Gap(es, e, e) = 0 /\ Gap(es, f, f) = 0
  <2>1. Elo[es[e].user] \in Nat /\ Elo[es[f].user] \in Nat
    BY MatchmakingConstants DEF Entry
  <2> QED
    BY <2>1 DEF Gap, Abs
<1>3. Gap(es, e, f) <= es[e].window /\ Gap(es, e, f) <= es[f].window
  BY <1>1 DEF Accepts, Min2
<1> QED
  BY <1>1, <1>2, <1>3 DEF Accepting

(* The loop of a tick, resumed with es as the entries and past as what was *)
(* spent at its start, keeps what the tick relies on, and takes from the   *)
(* queue what it spends (matchmaking.ts:103-126, 139-140).                 *)
LEMMA ContinueOK ==
    ASSUME NEW t \in Ticks, NEW es \in Seq(Entry), NEW tk \in TickRecord,
           NEW past \in SUBSET (1 .. MaxEntries),
           Len(es) <= MaxEntries,
           \A e \in DOMAIN es : WindowOK(es[e]),
           TickOK(es, tk, past),
           queue \cap spent = {}, spent \subseteq DOMAIN es, queue \subseteq DOMAIN es,
           Continue(t, es, tk, past)
    PROVE  /\ \E n \in TickRecord, b \in SUBSET (1 .. MaxEntries) :
                 /\ tick' = [tick EXCEPT ![t] = n]
                 /\ before' = [before EXCEPT ![t] = b]
                 /\ TickOK(es, n, b)
           /\ queue' \subseteq queue
           /\ queue' \cap spent' = {}
           /\ spent' \subseteq DOMAIN es
<1> DEFINE ps == Candidates(es, tk)
           p == FirstOf(ps)
           new == [tk EXCEPT !.pc = "problem", !.from = p[1] + 1,
                             !.pairs = @ \cup {{p[1], p[2]}},
                             !.pair = {p[1], p[2]}]
<1>1. CASE ps = {}
  <2>1. /\ tick' = [tick EXCEPT ![t] = Idle]
        /\ before' = [before EXCEPT ![t] = {}]
        /\ UNCHANGED <<queue, spent>>
    BY <1>1 DEF Continue
  <2> QED
    BY <2>1, IdleOK, Zenon
<1>2. CASE ps # {}
  <2>1. /\ tick' = [tick EXCEPT ![t] = new]
        /\ before' = [before EXCEPT ![t] = past]
        /\ queue' = WithoutPlayers(queue, p)
        /\ spent' = spent \cup {p[1], p[2]} \cup (queue \ queue')
    BY <1>2 DEF Continue
  <2>2. DOMAIN es = 1 .. Len(es) /\ Len(es) \in Nat
    OBVIOUS
  <2>3. tk.players \subseteq DOMAIN es /\ DOMAIN es \subseteq 1 .. MaxEntries
    BY <2>2, MatchmakingConstants DEF TickOK
  <2>4. ps \in SUBSET (Nat \X Nat)
    BY <2>2, <2>3 DEF Candidates
  <2> HIDE DEF ps
  <2>5. p \in ps /\ \A q \in ps : p[1] <= q[1]
    BY <1>2, <2>4, FirstOfIsFirst
  <2> HIDE DEF p
  <2>6. /\ p[1] \in tk.players \ Matched(tk) /\ p[2] \in tk.players \ Matched(tk)
        /\ p[1] \in Nat /\ p[2] \in Nat /\ p[1] < p[2] /\ tk.from <= p[1]
        /\ Accepts(es, p[1], p[2])
    BY <2>4, <2>5 DEF ps, Candidates
  <2>7. queue' \subseteq queue /\ queue' \cap spent' = {} /\ spent' \subseteq DOMAIN es
    BY <2>1, <2>3, <2>6 DEF WithoutPlayers
  <2> DEFINE pairs == tk.pairs \cup {{p[1], p[2]}}
  <2> DEFINE pair == {p[1], p[2]}
             from == p[1] + 1
  <2>8a. /\ pair \in SUBSET (1 .. MaxEntries) /\ from \in Nat
         /\ pairs \in SUBSET SUBSET (1 .. MaxEntries)
    BY <2>3, <2>6 DEF TickRecord
  <2> HIDE DEF pair, from, pairs
  <2>8b. new = [tk EXCEPT !.pc = "problem", !.from = from, !.pairs = pairs, !.pair = pair]
    BY DEF pair, from, pairs, TickRecord
  <2> HIDE DEF new
  <2>8c. /\ new \in TickRecord
         /\ new.players = tk.players /\ new.pairs = pairs
         /\ new.pair = pair /\ new.from = from
    BY <2>8a, <2>8b, Zenon DEF TickRecord
  <2>8. /\ new \in TickRecord
        /\ new.players = tk.players /\ new.pairs = pairs
        /\ new.pair = {p[1], p[2]} /\ new.from = p[1] + 1
    BY <2>8c DEF pair, from
  <2> USE DEF pairs
  <2> HIDE DEF new
  <2>9. \A q \in pairs : \E e, f \in tk.players : e # f /\ q = {e, f}
    BY <2>6, SMTT(30) DEF TickOK
  <2>10. \A q, r \in pairs : q # r => q \cap r = {}
    <3>1. \A q \in tk.pairs : p[1] \notin q /\ p[2] \notin q
      BY <2>6 DEF Matched
    <3>2. \A q \in tk.pairs : q \cap {p[1], p[2]} = {} /\ {p[1], p[2]} \cap q = {}
      BY <3>1
    <3> QED
      BY <3>2, Zenon DEF TickOK
  <2>11. Accepting(es, {p[1], p[2]})
    BY <2>3, <2>6, AcceptedPair
  <2>12. ASSUME NEW e \in tk.players \ Matched(new), NEW f \in tk.players \ Matched(new),
                e < f, e < p[1] + 1
         PROVE  Gap(es, e, f) > InitialWindow
    <3>1. e \in Nat /\ f \in Nat /\ es[e] \in Entry /\ es[f] \in Entry
      BY <2>2, <2>3
    <3>2. e \notin Matched(tk) /\ f \notin Matched(tk) /\ e # p[1]
      BY <2>8 DEF Matched
    <3>3. e < p[1]
      BY <2>6, <2>12, <3>1, <3>2
    <3>4. CASE e < tk.from
      BY <2>12, <3>2, <3>4 DEF TickOK
    <3>5. CASE ~(e < tk.from)
      <4>1. tk.from \in Nat
        BY DEF TickRecord
      <4>2. <<e, f>> \notin ps
        BY <2>5, <2>6, <3>1, <3>3
      <4>3. ~Accepts(es, e, f)
        BY <2>12, <3>1, <3>2, <3>5, <4>1, <4>2, SMTT(30) DEF ps, Candidates
      <4>4. /\ Gap(es, e, f) \in Nat
            /\ es[e].window \in Nat /\ es[f].window \in Nat
        BY <3>1, GapType, Zenon DEF Entry
      <4>5. InitialWindow <= es[e].window /\ InitialWindow <= es[f].window
        BY <2>3 DEF WindowOK
      <4> QED
        BY <4>3, <4>4, <4>5, MatchmakingConstants, SMTT(30) DEF Accepts, Min2
    <3> QED
      BY <3>4, <3>5
  <2>13. TickOK(es, new, past)
    <3>1. new.players \subseteq DOMAIN es /\ new.players \cap past = {}
      BY <2>3, <2>8 DEF TickOK
    <3>2. \A e, f \in new.players : es[e].user = es[f].user => e = f
      BY <2>8 DEF TickOK
    <3>3. new.pair \subseteq DOMAIN es /\ Accepting(es, new.pair)
      BY <2>3, <2>6, <2>8, <2>11
    <3>4. \A e, f \in new.players \ Matched(new) :
             e < f /\ e < new.from => Gap(es, e, f) > InitialWindow
      BY <2>8, <2>12
    <3>5. /\ \A q \in new.pairs : \E e, f \in new.players : e # f /\ q = {e, f}
          /\ \A q, r \in new.pairs : q # r => q \cap r = {}
      BY <2>8, <2>9, <2>10, Zenon
    <3> HIDE DEF pairs
    <3> QED
      BY <3>1, <3>2, <3>3, <3>4, <3>5, Zenon DEF TickOK
  <2> QED
    BY <2>1, <2>7, <2>8, <2>13, Zenon
<1> QED
  BY <1>1, <1>2

----------------------------------------------------------------------------
(* What a step does to the entries. *)
EntriesStep ==
    /\ entries' \in Seq(Entry)
    /\ Len(entries') <= MaxEntries
    /\ Grown(entries, entries')
    /\ \A e \in DOMAIN entries' : WindowOK(entries'[e])

(* While entries grow, everything said of the queue, the rooms and the     *)
(* ticks goes on to hold.                                                  *)
LEMMA EntriesStepKeeps ==
    ASSUME MatchInv, EntriesStep
    PROVE  /\ DOMAIN entries \subseteq DOMAIN entries'
           /\ DOMAIN entries' \subseteq 1 .. MaxEntries
           /\ \A e, f \in queue : entries'[e].user = entries'[f].user => e = f
           /\ \A p \in rooms : p \subseteq DOMAIN entries' /\ Accepting(entries', p)
           /\ \A t \in Ticks : TickOK(entries', tick[t], before[t])
<1>1. entries \in Seq(Entry) /\ entries' \in Seq(Entry) /\ Grown(entries, entries')
  BY DEF MatchInv, MatchmakingTypeOK, EntriesStep
<1>2. DOMAIN entries \subseteq DOMAIN entries'
  BY <1>1 DEF Grown
<1>3. DOMAIN entries' \subseteq 1 .. MaxEntries
  BY MatchmakingConstants DEF EntriesStep
<1>4. \A e, f \in queue : entries'[e].user = entries'[f].user => e = f
  BY <1>1 DEF Grown, MatchInv, MatchmakingTypeOK, User
<1>5. \A p \in rooms : p \subseteq DOMAIN entries' /\ Accepting(entries', p)
  BY <1>1, <1>2, GrownKeeps DEF MatchInv
<1>6. \A t \in Ticks : TickOK(entries', tick[t], before[t])
  BY <1>1, GrownKeeps DEF MatchInv
<1> QED
  BY <1>2, <1>3, <1>4, <1>5, <1>6

(* A step that leaves the entries alone is one. *)
LEMMA EntriesUnchanged ==
    ASSUME MatchInv, UNCHANGED entries
    PROVE  EntriesStep
<1>1. \A e \in DOMAIN entries : entries[e] \in Entry
  BY DEF MatchInv, MatchmakingTypeOK
<1>2. \A e \in DOMAIN entries : entries[e].window \in Nat
  BY <1>1 DEF Entry
<1>3. Grown(entries, entries)
  BY <1>2 DEF Grown
<1> QED
  BY <1>3 DEF EntriesStep, MatchInv, MatchmakingTypeOK

(* A step of a tick, from the start of its loop or from an await in it. *)
LEMMA ContinueInv ==
    ASSUME MatchInv, EntriesStep, NEW t \in Ticks, NEW tk \in TickRecord,
           NEW past \in SUBSET (1 .. MaxEntries),
           TickOK(entries', tk, past), Continue(t, entries', tk, past), UNCHANGED rooms
    PROVE  MatchInv'
<1>1. /\ queue \cap spent = {}
      /\ spent \subseteq DOMAIN entries' /\ queue \subseteq DOMAIN entries'
  BY EntriesStepKeeps DEF MatchInv, MatchmakingTypeOK
<1>2. PICK n \in TickRecord, b \in SUBSET (1 .. MaxEntries) :
         /\ tick' = [tick EXCEPT ![t] = n]
         /\ before' = [before EXCEPT ![t] = b]
         /\ TickOK(entries', n, b)
  BY <1>1, ContinueOK DEF EntriesStep
<1>3. /\ queue' \subseteq queue
      /\ queue' \cap spent' = {}
      /\ spent' \subseteq DOMAIN entries'
  BY <1>1, ContinueOK DEF EntriesStep
<1>4. tick \in [Ticks -> TickRecord] /\ before \in [Ticks -> SUBSET (1 .. MaxEntries)]
  BY DEF MatchInv, MatchmakingTypeOK, TickRecord
<1>5. tick' \in [Ticks -> TickRecord] /\ before' \in [Ticks -> SUBSET (1 .. MaxEntries)]
  BY <1>2, <1>4
<1>6. \A s \in Ticks : TickOK(entries', tick'[s], before'[s])
  BY <1>2, <1>4, EntriesStepKeeps
<1>7. MatchmakingTypeOK'
  BY <1>1, <1>3, <1>5, EntriesStepKeeps DEF MatchmakingTypeOK, EntriesStep, TickRecord, User
<1> QED
  BY <1>3, <1>6, <1>7, EntriesStepKeeps DEF MatchInv, EntriesStep

(* Joining, leaving, waiting, ticking, matching and crashing preserve the  *)
(* invariant.                                                              *)
LEMMA MatchNextInv == MatchInv /\ [Next]_vars => MatchInv'
<1> SUFFICES ASSUME MatchInv, [Next]_vars
             PROVE  MatchInv'
  OBVIOUS
<1> USE MatchmakingConstants
<1>1. /\ entries \in Seq(Entry) /\ DOMAIN entries = 1 .. Len(entries) /\ Len(entries) \in Nat
      /\ Len(entries) <= MaxEntries
      /\ \A e \in DOMAIN entries : entries[e] \in Entry /\ WindowOK(entries[e])
  BY DEF MatchInv, MatchmakingTypeOK
<1>2. /\ \A e \in DOMAIN entries : entries[e].elapsed \in Nat /\ entries[e].window \in Nat
      /\ tick \in [Ticks -> TickRecord]
      /\ before \in [Ticks -> SUBSET (1 .. MaxEntries)]
      /\ queue \subseteq DOMAIN entries /\ spent \subseteq DOMAIN entries
  BY <1>1, Zenon DEF MatchInv, MatchmakingTypeOK, Entry, TickRecord
<1>0. FullyGrown \in Nat
  <2> DEFINE n == (MaxWindow - InitialWindow + ExpandRate - 1) \div ExpandRate
  <2>1. n \in Nat
    OBVIOUS
  <2> HIDE DEF n
  <2>2. Period * n \in Nat
    BY <2>1
  <2> QED
    BY <2>2 DEF FullyGrown, n
<1>3. ASSUME NEW u \in Users, addToQueue(u)
      PROVE  MatchInv'
  <2> DEFINE new == [user |-> u, elapsed |-> 0, window |-> InitialWindow]
             n == Len(entries) + 1
  <2>1. new \in Entry /\ WindowOK(new)
    BY <1>0, WindowGrows DEF Entry, WindowOK
  <2>2. new.user = u
    OBVIOUS
  <2> HIDE DEF new
  <2>3. /\ entries' = Append(entries, new) /\ Len(entries) < MaxEntries
        /\ queue' = queue \cup {n}
        /\ \A e \in queue : entries[e].user # u
    BY <1>3 DEF addToQueue, new, User
  <2>4. /\ entries' \in Seq(Entry) /\ Len(entries') = n /\ DOMAIN entries' = 1 .. n
        /\ entries'[n] = new
        /\ \A e \in DOMAIN entries : entries'[e] = entries[e]
    BY <1>1, <2>1, <2>3
  <2>5. EntriesStep
    BY <1>1, <1>2, <2>1, <2>3, <2>4 DEF EntriesStep, Grown
  <2>6. n \notin DOMAIN entries /\ n \in DOMAIN entries'
    BY <1>1, <2>4
  <2>7. \A e, f \in queue' : entries'[e].user = entries'[f].user => e = f
    BY <1>2, <2>2, <2>3, <2>4, <2>6, EntriesStepKeeps, <2>5, SMTT(30)
  <2>8. queue' \subseteq DOMAIN entries' /\ spent' \subseteq DOMAIN entries'
        /\ queue' \cap spent' = {}
    BY <1>2, <1>3, <2>3, <2>5, <2>6, EntriesStepKeeps DEF addToQueue, MatchInv
  <2>9. UNCHANGED <<tick, rooms, before>>
    BY <1>3 DEF addToQueue
  <2>10. MatchmakingTypeOK'
    BY <2>4, <2>7, <2>8, <2>9, Zenon DEF MatchmakingTypeOK, MatchInv, User
  <2> QED
    BY <2>5, <2>8, <2>9, <2>10, EntriesStepKeeps DEF MatchInv, EntriesStep
<1>4. ASSUME NEW u \in Users, removeFromQueue(u)
      PROVE  MatchInv'
  <2>1. /\ queue' \subseteq queue /\ spent' = spent \cup (queue \ queue')
        /\ UNCHANGED <<entries, tick, rooms, before>>
    BY <1>4 DEF removeFromQueue
  <2>2. queue' \cap spent' = {}
    BY <2>1 DEF MatchInv
  <2>3. MatchmakingTypeOK'
    BY <1>2, <2>1, Zenon DEF MatchmakingTypeOK, MatchInv, User
  <2> QED
    BY <2>1, <2>2, <2>3 DEF MatchInv
<1>5. CASE Pass
  <2> DEFINE aged(e) == [entries[e] EXCEPT !.elapsed = Min2(@ + 1, FullyGrown)]
  <2>1. /\ entries' = [e \in DOMAIN entries |-> IF e \in queue THEN aged(e) ELSE entries[e]]
        /\ UNCHANGED <<queue, tick, rooms, spent, before>>
    BY <1>5 DEF Pass
  <2>2. \A e \in DOMAIN entries :
           /\ aged(e) \in Entry /\ WindowOK(aged(e))
           /\ aged(e).user = entries[e].user
           /\ aged(e).window = entries[e].window
    <3> TAKE e \in DOMAIN entries
    <3> DEFINE d == Min2(entries[e].elapsed + 1, FullyGrown)
    <3>1. d \in Nat /\ entries[e].elapsed <= d /\ d <= FullyGrown
      BY <1>0, <1>1, <1>2 DEF Min2, WindowOK
    <3>2. aged(e) = [entries[e] EXCEPT !.elapsed = d]
      OBVIOUS
    <3> HIDE DEF aged, d
    <3>3. /\ aged(e) \in Entry /\ aged(e).user = entries[e].user
          /\ aged(e).window = entries[e].window /\ aged(e).elapsed = d
      BY <1>1, <3>1, <3>2, Zenon DEF Entry
    <3>4. /\ Window(entries[e].elapsed) \in Nat /\ Window(d) \in Nat
          /\ Window(entries[e].elapsed) <= Window(d)
      BY <1>2, <3>1, WindowGrows
    <3>5. InitialWindow <= entries[e].window /\ entries[e].window <= Window(entries[e].elapsed)
      BY <1>1 DEF WindowOK
    <3> QED
      BY <1>2, <3>1, <3>3, <3>4, <3>5 DEF WindowOK
  <2> HIDE DEF aged
  <2>3. /\ entries' \in Seq(Entry) /\ Len(entries') = Len(entries)
        /\ DOMAIN entries' = DOMAIN entries
    BY <1>1, <2>1, <2>2
  <2>4. EntriesStep
    BY <1>1, <1>2, <2>1, <2>2, <2>3 DEF EntriesStep, Grown
  <2>5. MatchmakingTypeOK'
    BY <2>1, <2>3, <2>4, EntriesStepKeeps, Zenon DEF MatchmakingTypeOK, MatchInv, User
  <2> QED
    BY <2>1, <2>4, <2>5, EntriesStepKeeps DEF MatchInv, EntriesStep
<1>6. ASSUME NEW t \in Ticks, StartTick(t)
      PROVE  MatchInv'
  <2> DEFINE widened(e) == [entries[e] EXCEPT !.window = Window(entries[e].elapsed)]
  <2>1. /\ entries' = [e \in DOMAIN entries |-> IF e \in queue THEN widened(e) ELSE entries[e]]
        /\ Continue(t, entries', [Idle EXCEPT !.players = queue], spent)
        /\ UNCHANGED rooms
    BY <1>6 DEF StartTick
  <2>2. \A e \in DOMAIN entries :
           /\ widened(e) \in Entry /\ WindowOK(widened(e))
           /\ widened(e).user = entries[e].user
           /\ entries[e].window <= widened(e).window
    <3> TAKE e \in DOMAIN entries
    <3> DEFINE w == Window(entries[e].elapsed)
    <3>1. w \in Nat /\ InitialWindow <= w
      BY <1>2, WindowGrows
    <3>2. entries[e].window <= w
      BY <1>1 DEF WindowOK
    <3>3. entries[e] \in Entry
      BY <1>1
    <3>4. widened(e) = [entries[e] EXCEPT !.window = w]
      OBVIOUS
    <3> HIDE DEF widened
    <3>5. /\ widened(e) \in Entry /\ widened(e).user = entries[e].user
          /\ widened(e).elapsed = entries[e].elapsed /\ widened(e).window = w
      <4> HIDE DEF w
      <4> QED
        BY <3>1, <3>3, <3>4 DEF Entry
    <3>6. entries[e].elapsed <= FullyGrown
      BY <1>1 DEF WindowOK
    <3> QED
      BY <3>1, <3>2, <3>5, <3>6 DEF WindowOK
  <2> HIDE DEF widened
  <2>3. /\ entries' \in Seq(Entry) /\ Len(entries') = Len(entries)
        /\ DOMAIN entries' = DOMAIN entries
    BY <1>1, <2>1, <2>2
  <2>4. EntriesStep
    BY <1>1, <1>2, <2>1, <2>2, <2>3 DEF EntriesStep, Grown
  <2> DEFINE tk == [Idle EXCEPT !.players = queue]
  <2>5. /\ tk \in TickRecord /\ tk.players = queue /\ tk.from = 0
        /\ tk.pairs = {} /\ tk.pair = {}
    BY <1>1, <1>2, SMTT(30) DEF Idle, TickRecord
  <2>6. queue \cap spent = {} /\ spent \in SUBSET (1 .. MaxEntries)
    BY <1>1, <1>2 DEF MatchInv
  <2> HIDE DEF tk
  <2>7. \A e \in queue : ~(e < 0)
    BY <1>1, <1>2
  <2>8. TickOK(entries', tk, spent)
    BY <1>2, <2>3, <2>4, <2>5, <2>6, <2>7, EntriesStepKeeps DEF TickOK, Accepting
  <2>9. Continue(t, entries', tk, spent)
    BY <2>1, Zenon DEF tk
  <2> QED
    BY <2>1, <2>4, <2>5, <2>6, <2>8, <2>9, ContinueInv
<1>7. ASSUME NEW t \in Ticks, NoProblem(t) \/ Notify(t)
      PROVE  MatchInv'
  <2>1. Continue(t, entries, tick[t], before[t]) /\ UNCHANGED <<entries, rooms>>
    BY <1>7 DEF NoProblem, Notify
  <2>2. EntriesStep
    BY <2>1, EntriesUnchanged
  <2>3. tick[t] \in TickRecord /\ before[t] \in SUBSET (1 .. MaxEntries)
    BY <1>2
  <2>4. TickOK(entries', tick[t], before[t]) /\ Continue(t, entries', tick[t], before[t])
    BY <2>1 DEF MatchInv
  <2> QED
    BY <2>1, <2>2, <2>3, <2>4, ContinueInv, Zenon
<1>8. ASSUME NEW t \in Ticks, SaveRoom(t)
      PROVE  MatchInv'
  <2>1. /\ tick' = [tick EXCEPT ![t].pc = "notify"]
        /\ rooms' = rooms \cup {tick[t].pair}
        /\ UNCHANGED <<entries, queue, spent, before>>
    BY <1>8 DEF SaveRoom
  <2>2. /\ tick' \in [Ticks -> TickRecord]
        /\ \A s \in Ticks : /\ tick'[s].players = tick[s].players
                            /\ tick'[s].pairs = tick[s].pairs
                            /\ tick'[s].pair = tick[s].pair
                            /\ tick'[s].from = tick[s].from
    BY <1>2, <2>1 DEF TickRecord
  <2>3. \A s \in Ticks : TickOK(entries, tick'[s], before[s])
    BY <2>2, SMTT(30) DEF MatchInv, TickOK, Matched
  <2>4. tick[t].pair \subseteq DOMAIN entries /\ Accepting(entries, tick[t].pair)
    BY DEF MatchInv, TickOK
  <2>5. MatchmakingTypeOK'
    BY <2>1, <2>2, Zenon DEF MatchmakingTypeOK, MatchInv, TickRecord, User
  <2> QED
    BY <2>1, <2>3, <2>4, <2>5, Zenon DEF MatchInv
<1>9. CASE Crash
  <2>1. /\ queue' = {} /\ spent' = spent \cup queue
        /\ tick' = [t \in Ticks |-> Idle] /\ before' = [t \in Ticks |-> {}]
        /\ UNCHANGED <<entries, rooms>>
    BY <1>9 DEF Crash
  <2>2. /\ \A t \in Ticks : TickOK(entries', tick'[t], before'[t])
        /\ tick' \in [Ticks -> TickRecord]
        /\ before' \in [Ticks -> SUBSET (1 .. MaxEntries)]
    BY <2>1, IdleOK
  <2>3. MatchmakingTypeOK'
    BY <1>2, <2>1, <2>2 DEF MatchmakingTypeOK, MatchInv, TickRecord
  <2> QED
    BY <2>1, <2>2, <2>3 DEF MatchInv
<1>10. CASE UNCHANGED vars
  BY <1>10 DEF vars, MatchInv, MatchmakingTypeOK, User
<1> QED
  BY <1>3, <1>4, <1>5, <1>6, <1>7, <1>8, <1>9, <1>10 DEF Next, Step

----------------------------------------------------------------------------
(* The state of the queue and of every tick stays well formed. *)
THEOREM MatchInvariance == Spec => []MatchInv
<1>1. Init => MatchInv
  <2> SUFFICES ASSUME Init PROVE MatchInv
    OBVIOUS
  <2> USE MatchmakingConstants
  <2>1. entries = << >> /\ entries \in Seq(Entry) /\ Len(entries) = 0 /\ DOMAIN entries = {}
    BY DEF Init
  <2>2. tick = [t \in Ticks |-> Idle] /\ before = [t \in Ticks |-> {}]
    BY DEF Init
  <2>3. \A t \in Ticks : TickOK(entries, tick[t], before[t])
    BY <2>2, IdleOK
  <2>4. tick \in [Ticks -> TickRecord] /\ before \in [Ticks -> SUBSET (1 .. MaxEntries)]
    BY <2>2, IdleOK
  <2>5. MatchmakingTypeOK
    BY <2>1, <2>4 DEF Init, MatchmakingTypeOK, TickRecord
  <2> QED
    BY <2>1, <2>3, <2>5 DEF Init, MatchInv
<1> QED
  BY <1>1, MatchNextInv, PTL DEF Spec

(* matchmaking.ts:85-131: the queue has one entry per player. *)
THEOREM MatchmakingTyped == Spec => []MatchmakingTypeOK
<1>1. MatchInv => MatchmakingTypeOK
  BY DEF MatchInv
<1> QED
  BY <1>1, MatchInvariance, PTL

(* However many ticks overlap, none of them pairs an entry that was spent  *)
(* before it took its snapshot.                                            *)
THEOREM OnlyRacingPairsTheorem == Spec => []OnlyRacingPairs
<1>1. MatchInv => OnlyRacingPairs
  BY DEF MatchInv, TickOK, OnlyRacingPairs, Matched
<1> QED
  BY <1>1, MatchInvariance, PTL

(* One tick never gives a player two matches, nor a match with themselves. *)
THEOREM PairsAreDisjointTheorem == Spec => []PairsAreDisjoint
<1>1. ASSUME MatchInv, NEW t \in Ticks, NEW p \in tick[t].pairs, NEW q \in tick[t].pairs
      PROVE  /\ Cardinality({User(e) : e \in p}) = 2
             /\ p # q => {User(e) : e \in p} \cap {User(e) : e \in q} = {}
  <2> DEFINE players == tick[t].players
  <2>1. \A e, f \in players : User(e) = User(f) => e = f
    BY <1>1 DEF MatchInv, TickOK, User
  <2>2. PICK e, f \in players : e # f /\ p = {e, f}
    BY <1>1 DEF MatchInv, TickOK
  <2>3. {User(x) : x \in p} = {User(e)} \cup {User(f)} /\ User(e) # User(f)
    BY <2>1, <2>2
  <2>4. IsFiniteSet({User(e)}) /\ Cardinality({User(e)}) = 1
    BY FS_Singleton, Zenon
  <2>5. Cardinality({User(e)} \cup {User(f)}) = 2
    <3>1. User(f) \notin {User(e)}
      BY <2>3
    <3> HIDE DEF players
    <3>2. Cardinality({User(e)} \cup {User(f)}) = Cardinality({User(e)}) + 1
      BY <2>4, <3>1, FS_AddElement, Zenon
    <3> QED
      BY <2>4, <3>2
  <2>6. p \subseteq players /\ q \subseteq players /\ (p # q => p \cap q = {})
    BY <1>1, SMTT(30) DEF MatchInv, TickOK
  <2> QED
    BY <2>1, <2>3, <2>5, <2>6, SMTT(30)
<1>2. MatchInv => PairsAreDisjoint
  BY <1>1, Zenon DEF PairsAreDisjoint
<1> QED
  BY <1>2, MatchInvariance, PTL

(* The loop passes over no two players whose ratings are within the window *)
(* they started with.                                                      *)
THEOREM NobodyOverlookedTheorem == Spec => []NobodyOverlooked
<1>1. MatchInv => NobodyOverlooked
  BY DEF MatchInv, TickOK, NobodyOverlooked, InFlight
<1> QED
  BY <1>1, MatchInvariance, PTL

(* A room is saved only for players who accept each other's rating, at the *)
(* time of the match and ever after.                                       *)
THEOREM BothAcceptedTheorem == Spec => []BothAccepted
<1>1. MatchInv => BothAccepted
  BY DEF MatchInv, Accepting, BothAccepted
<1> QED
  BY <1>1, MatchInvariance, PTL
============================================================================
