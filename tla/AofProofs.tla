----------------------------- MODULE AofProofs -----------------------------
(* What the log means (replaying records, flattening the files of the      *)
(* manifest), the invariant of the append-only file, and that commands,    *)
(* flushes and the background thread keep it. The recursive definitions    *)
(* are reasoned about by their least counterexample: of the numbers at     *)
(* which two runs differ there is a least one, and at the one before it    *)
(* they agree.                                                             *)
EXTENDS Aof, WellFoundedInduction, TLAPS

----------------------------------------------------------------------------
(* Recursion over a sequence.                                              *)

(* The commands a record of the buffer is made of, and those a record of   *)
(* the log is: a block that was cut off begins with MULTI.                 *)
Ops == {Set(k, v, t) : k \in Keys, v \in Values, t \in Nat \cup {-1}}
         \cup {SetNx(k, v) : k \in Keys, v \in Values}
         \cup {Del(k) : k \in Keys}
         \cup {PexpireAt(k, t) : k \in Keys, t \in Nat}
         \cup {Persist(k) : k \in Keys}

LogOps == Ops \cup {Multi}
Records == Seq(LogOps)

(* A record of the buffer is one of the log, and no unfinished block.      *)
LEMMA BufferedRecords ==
    /\ Ops \subseteq LogOps
    /\ Seq(Ops) \subseteq Records
    /\ \A r \in Seq(Ops) : ~Unfinished(r)
<1>1. Ops \subseteq LogOps
  BY DEF LogOps
<1>2. ASSUME NEW r \in Seq(Ops) PROVE r \in Records
  BY <1>1 DEF Records
<1>3. \A op \in Ops : op.cmd # "multi"
  BY DEF Ops, Set, SetNx, Del, PexpireAt, Persist
<1>4. Multi.cmd = "multi"
  BY DEF Multi
<1>5. ASSUME NEW r \in Seq(Ops) PROVE ~Unfinished(r)
  <2>1. r # <<>> => r[1] \in Ops
    OBVIOUS
  <2> QED
    BY <2>1, <1>3, <1>4, Zenon DEF Unfinished
<1> QED
  BY <1>1, <1>2, <1>5, Zenon

(* Of the numbers with a property there is a least one: the induction that *)
(* the recursive definitions are reasoned about with.                      *)
LEMMA LeastNatural ==
    ASSUME NEW S \in SUBSET Nat, S # {}
    PROVE  \E m \in S : \A n \in S : m <= n
<1>1. PICK m \in S : \A n \in S : <<n, m>> \notin OpToRel(<, Nat)
  BY NatLessThanWellFounded, WFMin
<1>2. \A n \in S : ~(n < m)
  BY <1>1, Zenon DEF OpToRel
<1> QED
  BY <1>2

(* Two functions take the same steps; a chain of steps from d. *)
SameSteps(f, g, n) == /\ f[0] = g[0]
                      /\ \A i \in 1..n : f[i - 1] = g[i - 1] => f[i] = g[i]
Maps(n, D) == [1..n -> [D -> D]]
IsChain(f, D, d, n, step) == /\ f \in [0..n -> D]
                             /\ f[0] = d
                             /\ \A i \in 1..n : f[i] = step[i][f[i - 1]]

(* Two functions that start alike and take the same steps are alike. *)
LEMMA Agree ==
    ASSUME NEW n \in Nat, NEW f, NEW g, SameSteps(f, g, n)
    PROVE  \A i \in 0..n : f[i] = g[i]
<1> DEFINE D == {i \in 0..n : f[i] # g[i]}
<1>1. SUFFICES ASSUME D # {} PROVE FALSE
  OBVIOUS
<1>2. PICK m \in D : \A i \in D : m <= i
  <2>1. D \in SUBSET Nat
    OBVIOUS
  <2> QED
    BY <1>1, <2>1, LeastNatural, Zenon
<1>3. m \in 1..n /\ m - 1 \in 0..n /\ m - 1 \notin D
  BY <1>2 DEF SameSteps
<1> QED
  BY <1>2, <1>3 DEF SameSteps

(* From every first element the steps make a chain. *)
LEMMA Chain ==
    ASSUME NEW D, NEW d \in D, NEW n \in Nat, NEW step \in Maps(n, D)
    PROVE  \E f : IsChain(f, D, d, n, step)
<1> DEFINE Run(k) == \E f : IsChain(f, D, d, k, step)
           Missing == {k \in 0..n : ~Run(k)}
<1>1. SUFFICES ASSUME Missing # {} PROVE FALSE
  OBVIOUS
<1>2. PICK m \in Missing : \A i \in Missing : m <= i
  <2>1. Missing \in SUBSET Nat
    <3> HIDE DEF Run
    <3> QED OBVIOUS
  <2> QED
    BY <1>1, <2>1, LeastNatural, Zenon
<1>3. Run(0)
  <2>1. IsChain([i \in 0..0 |-> d], D, d, 0, step)
    BY DEF IsChain
  <2> QED
    BY <2>1
<1>4. m \in 1..n /\ m - 1 \in 0..n /\ m - 1 \notin Missing
  <2> HIDE DEF Run
  <2>1. m \in 0..n /\ m # 0
    BY <1>2, <1>3
  <2>2. m - 1 \in 0..n /\ m \in 1..n
    BY <2>1
  <2>3. m - 1 \notin Missing
    BY <1>2, <2>1, <2>2
  <2> QED
    BY <2>2, <2>3
<1>5. PICK f : IsChain(f, D, d, m - 1, step)
  BY <1>4
<1> DEFINE g == [i \in 0..m |-> IF i = m THEN step[m][f[m - 1]] ELSE f[i]]
<1>6. f[m - 1] \in D /\ step[m] \in [D -> D]
  BY <1>4, <1>5 DEF IsChain, Maps
<1>7. g \in [0..m -> D]
  BY <1>4, <1>5, <1>6 DEF IsChain
<1>8. g[0] = d /\ \A i \in 1..m : g[i] = step[i][g[i - 1]]
  BY <1>4, <1>5 DEF IsChain
<1>9. Run(m)
  BY <1>7, <1>8, Zenon DEF IsChain
<1> QED
  BY <1>2, <1>9

(* Concat appends its arguments one after the other. *)
LEMMA ConcatChain ==
    ASSUME NEW S, NEW seqs \in Seq(Seq(S))
    PROVE  \E f \in [0..Len(seqs) -> Seq(S)] :
              /\ f[0] = <<>>
              /\ \A i \in 1..Len(seqs) : f[i] = f[i - 1] \o seqs[i]
              /\ Concat(seqs) = f[Len(seqs)]
<1> DEFINE n == Len(seqs)
           step == [i \in 1..n |-> [s \in Seq(S) |-> s \o seqs[i]]]
<1>0. n \in Nat
  OBVIOUS
<1>1. <<>> \in Seq(S) /\ \A i \in 1..n : seqs[i] \in Seq(S)
  OBVIOUS
<1>2. step \in Maps(n, Seq(S))
  BY <1>1 DEF Maps
<1>3. PICK f : IsChain(f, Seq(S), <<>>, n, step)
  <2> HIDE DEF step, n
  <2>1. <<>> \in Seq(S)
    BY <1>1
  <2> QED
    BY <1>0, <1>2, <2>1, Chain, Zenon
<1>4. \A i \in 1..n : f[i - 1] \in Seq(S) /\ f[i] = f[i - 1] \o seqs[i]
  <2> SUFFICES ASSUME NEW i \in 1..n
               PROVE  f[i - 1] \in Seq(S) /\ f[i] = f[i - 1] \o seqs[i]
    BY Zenon
  <2>1. i - 1 \in 0..n
    BY <1>0
  <2> QED
    BY <2>1, <1>3, Zenon DEF IsChain
<1> DEFINE E(h) == [i \in 0..n |-> IF i = 0 THEN <<>> ELSE h[i - 1] \o seqs[i]]
           h == CHOOSE x : x = E(x)
<1>5. f = E(f)
  <2>1. \A i \in 0..n : f[i] = E(f)[i]
    <3> TAKE i \in 0..n
    <3>1. CASE i = 0
      BY <3>1, <1>3 DEF IsChain
    <3>2. CASE i # 0
      <4>1. i \in 1..n
        BY <3>2, <1>0
      <4> QED
        BY <4>1, <3>2, <1>4, Zenon
    <3> QED
      BY <3>1, <3>2
  <2>2. f \in [0..n -> Seq(S)]
    BY <1>3 DEF IsChain
  <2> QED
    BY <2>1, <2>2
<1>6. h = E(h)
  <2> HIDE DEF E
  <2> QED
    BY <1>5, Zenon
<1>7. Concat(seqs) = h[n]
  BY Zenon DEF Concat
<1>8. SameSteps(f, h, n)
  <2> HIDE DEF h
  <2>1. f[0] = h[0]
    BY <1>0, <1>3, <1>6 DEF IsChain
  <2>2. \A i \in 1..n : h[i] = h[i - 1] \o seqs[i]
    <3> SUFFICES ASSUME NEW i \in 1..n PROVE h[i] = h[i - 1] \o seqs[i]
      BY Zenon
    <3>1. i \in 0..n /\ i # 0
      BY <1>0
    <3>2. h[i] = E(h)[i]
      BY <1>6, Zenon
    <3> QED
      BY <3>1, <3>2, Zenon
  <2> QED
    BY <2>1, <2>2, <1>4, Zenon DEF SameSteps
<1>9. \A i \in 0..n : f[i] = h[i]
  <2> HIDE DEF h, n
  <2> QED
    BY <1>0, <1>8, Agree, Zenon
<1>10. Concat(seqs) = f[n]
  <2>1. n \in 0..n
    BY <1>0
  <2> HIDE DEF h, n
  <2> QED
    BY <2>1, <1>7, <1>9
<1> QED
  BY <1>3, <1>4, <1>10, Zenon DEF IsChain

(* Flattening is a homomorphism of concatenation. *)
LEMMA ConcatFacts ==
    ASSUME NEW S
    PROVE  /\ Concat(<<>>) = <<>>
           /\ \A x \in Seq(S) : Concat(<<x>>) = x
           /\ \A s \in Seq(Seq(S)) : Concat(s) \in Seq(S)
           /\ \A s, t \in Seq(Seq(S)) : Concat(s \o t) = Concat(s) \o Concat(t)
<1>0. ASSUME NEW x \in Seq(S), NEW y \in Seq(S), NEW z \in Seq(S)
      PROVE  (x \o y) \o z = x \o (y \o z)
  <2>1. PICK l \in Seq(S), r \in Seq(S) : l = (x \o y) \o z /\ r = x \o (y \o z)
    <3>1. (x \o y) \o z \in Seq(S) /\ x \o (y \o z) \in Seq(S)
      OBVIOUS
    <3> QED
      BY <3>1, Zenon
  <2>2. Len(l) = Len(r) /\ \A i \in 1..Len(l) : l[i] = r[i]
    BY <2>1
  <2> QED
    BY <2>1, <2>2, SMTT(30)
<1>1. Concat(<<>>) = <<>>
  <2>1. <<>> \in Seq(Seq(S)) /\ Len(<<>>) = 0
    OBVIOUS
  <2>2. PICK f \in [0..0 -> Seq(S)] : f[0] = <<>> /\ Concat(<<>>) = f[0]
    BY <2>1, ConcatChain, ZenonT(30)
  <2> QED
    BY <2>2
<1>2. ASSUME NEW x \in Seq(S) PROVE Concat(<<x>>) = x
  <2>1. <<x>> \in Seq(Seq(S)) /\ Len(<<x>>) = 1
    OBVIOUS
  <2>2. PICK f \in [0..1 -> Seq(S)] : /\ f[0] = <<>>
                                     /\ \A i \in 1..1 : f[i] = f[i - 1] \o <<x>>[i]
                                     /\ Concat(<<x>>) = f[1]
    BY <2>1, ConcatChain, ZenonT(30)
  <2>3. f[1] = <<>> \o x
    BY <2>2
  <2> QED
    BY <2>2, <2>3
<1>3. ASSUME NEW s \in Seq(Seq(S)) PROVE Concat(s) \in Seq(S)
  <2>1. PICK f \in [0..Len(s) -> Seq(S)] : Concat(s) = f[Len(s)]
    BY ConcatChain, Zenon
  <2>2. Len(s) \in 0..Len(s)
    OBVIOUS
  <2> QED
    BY <2>1, <2>2
<1>4. ASSUME NEW s \in Seq(Seq(S)), NEW t \in Seq(Seq(S))
      PROVE  Concat(s \o t) = Concat(s) \o Concat(t)
  <2> DEFINE m == Len(s)
             n == Len(t)
             st == s \o t
  <2>1. /\ st \in Seq(Seq(S)) /\ Len(st) = m + n /\ m \in Nat /\ n \in Nat
        /\ \A i \in 1..m : st[i] = s[i]
        /\ \A i \in 1..n : st[m + i] = t[i]
    OBVIOUS
  <2>2. PICK f \in [0..Len(st) -> Seq(S)] :
              /\ f[0] = <<>>
              /\ \A i \in 1..Len(st) : f[i] = f[i - 1] \o st[i]
              /\ Concat(st) = f[Len(st)]
    <3> HIDE DEF st
    <3> QED BY <2>1, ConcatChain, Zenon
  <2>3. PICK g \in [0..m -> Seq(S)] :
              /\ g[0] = <<>>
              /\ \A i \in 1..m : g[i] = g[i - 1] \o s[i]
              /\ Concat(s) = g[m]
    BY ConcatChain, Zenon
  <2>4. PICK h \in [0..n -> Seq(S)] :
              /\ h[0] = <<>>
              /\ \A i \in 1..n : h[i] = h[i - 1] \o t[i]
              /\ Concat(t) = h[n]
    BY ConcatChain, Zenon
  <2> HIDE DEF m, n, st
  <2>5. \A i \in 0..m : f[i] = g[i]
    <3>1. \A i \in 1..m : f[i - 1] = g[i - 1] => f[i] = g[i]
      <4> TAKE i \in 1..m
      <4>1. i \in 1..Len(st)
        BY <2>1
      <4> QED
        BY <4>1, <2>1, <2>2, <2>3, Zenon
    <3>2. SameSteps(f, g, m)
      BY <3>1, <2>1, <2>2, <2>3 DEF SameSteps
    <3>3. m \in Nat
      BY <2>1
    <3> QED
      BY <3>2, <3>3, Agree, ZenonT(30)
  <2> DEFINE a == [i \in 0..n |-> f[m + i]]
             b == [i \in 0..n |-> g[m] \o h[i]]
  <2>6. a[0] = b[0]
    <3>1. m \in 0..m /\ 0 \in 0..n /\ m + 0 = m
      BY <2>1
    <3>2. a[0] = g[m] /\ g[m] \in Seq(S)
      BY <3>1, <2>3, <2>5
    <3>3. b[0] = g[m] \o <<>>
      BY <3>1, <2>4, Zenon
    <3> QED
      BY <3>2, <3>3
  <2>7. \A i \in 1..n : a[i - 1] = b[i - 1] => a[i] = b[i]
    <3> SUFFICES ASSUME NEW i \in 1..n, a[i - 1] = b[i - 1] PROVE a[i] = b[i]
      BY Zenon
    <3>1. i \in 0..n /\ i - 1 \in 0..n /\ m + i \in 1..(m + n) /\ m + i - 1 = m + (i - 1)
      BY <2>1
    <3>2. a[i] = a[i - 1] \o t[i]
      <4>1. PICK j \in 1..Len(st) : j = m + i
        BY <3>1, <2>1
      <4>2. f[j] = f[j - 1] \o st[j]
        BY <2>2, Zenon
      <4>3. j - 1 = m + (i - 1)
        BY <4>1, <3>1, <2>1
      <4> QED
        BY <4>1, <4>2, <4>3, <3>1, <2>1, Zenon
    <3>3. h[i - 1] \in Seq(S) /\ t[i] \in Seq(S) /\ g[m] \in Seq(S)
      <4>1. t[i] \in Seq(S)
        BY DEF n
      <4>2. m \in 0..m
        BY <2>1
      <4> QED
        BY <4>1, <4>2, <3>1, <2>3, <2>4, Zenon
    <3>4. (g[m] \o h[i - 1]) \o t[i] = g[m] \o (h[i - 1] \o t[i])
      BY <3>3, <1>0, Zenon
    <3> QED
      BY <3>1, <3>2, <3>4, <2>4, Zenon
  <2>8. \A i \in 0..n : a[i] = b[i]
    <3>1. SameSteps(a, b, n)
      BY <2>1, <2>6, <2>7, Zenon DEF SameSteps
    <3>2. n \in Nat
      BY <2>1
    <3> HIDE DEF a, b
    <3> QED
      BY <3>1, <3>2, Agree, ZenonT(30)
  <2>9. f[m + n] = g[m] \o h[n]
    <3>1. n \in 0..n
      BY <2>1
    <3> QED
      BY <2>8, <3>1, Zenon
  <2> QED
    BY <2>9, <2>1, <2>2, <2>3, <2>4 DEF st
<1> QED
  BY <1>1, <1>2, <1>3, <1>4

----------------------------------------------------------------------------
(* Replaying the log.                                                      *)

(* A command leaves a dataset. *)
LEMMA ApplyType ==
    ASSUME NEW d \in Datasets, NEW op \in LogOps
    PROVE  Apply(d, op) \in Datasets
<1>1. ASSUME NEW k \in Keys PROVE
      /\ [d EXCEPT ![k] = None] \in Datasets
      /\ \A v \in Values, t \in Nat \cup {-1} : [d EXCEPT ![k] = Entry(v, t)] \in Datasets
      /\ \A t \in Nat \cup {-1} : Present(d, k) => [d EXCEPT ![k].exp = t] \in Datasets
  BY DEF Datasets, Entry, Present
<1>2. ASSUME NEW k \in Keys, NEW v \in Values, NEW t \in Nat \cup {-1}, op = Set(k, v, t)
      PROVE  Apply(d, op) \in Datasets
  <2>1. Apply(d, op) = [d EXCEPT ![k] = Entry(v, t)]
    BY <1>2, Zenon DEF Apply, Set
  <2> QED
    BY <2>1, <1>1, ZenonT(30)
<1>3. ASSUME NEW k \in Keys, NEW v \in Values, op = SetNx(k, v)
      PROVE  Apply(d, op) \in Datasets
  <2>1. Apply(d, op) = IF Present(d, k) THEN d ELSE [d EXCEPT ![k] = Entry(v, -1)]
    BY <1>3, Zenon DEF Apply, SetNx
  <2>2. [d EXCEPT ![k] = Entry(v, -1)] \in Datasets
    BY <1>1, Zenon
  <2> QED
    BY <2>1, <2>2
<1>4. ASSUME NEW k \in Keys, op = Del(k)
      PROVE  Apply(d, op) \in Datasets
  <2>1. Apply(d, op) = [d EXCEPT ![k] = None]
    BY <1>4, Zenon DEF Apply, Del
  <2> QED
    BY <2>1, <1>1, Zenon
<1>5. ASSUME NEW k \in Keys, NEW t \in Nat, op = PexpireAt(k, t)
      PROVE  Apply(d, op) \in Datasets
  <2>1. Apply(d, op) = IF Present(d, k) THEN [d EXCEPT ![k].exp = t] ELSE d
    BY <1>5, Zenon DEF Apply, PexpireAt
  <2> QED
    BY <2>1, <1>1, Zenon
<1>6. ASSUME NEW k \in Keys, op = Persist(k)
      PROVE  Apply(d, op) \in Datasets
  <2>1. Apply(d, op) = IF Present(d, k) THEN [d EXCEPT ![k].exp = -1] ELSE d
    BY <1>6, Zenon DEF Apply, Persist
  <2> QED
    BY <2>1, <1>1, Zenon
<1>7. ASSUME op = Multi
      PROVE  Apply(d, op) \in Datasets
  <2>1. Apply(d, op) = d
    BY <1>7, Zenon DEF Apply, Multi
  <2> QED
    BY <2>1
<1> QED
  BY <1>2, <1>3, <1>4, <1>5, <1>6, <1>7 DEF LogOps, Ops
(* The datasets on the way from d, command by command. *)
Course(f, d, ops) == /\ f \in [0..Len(ops) -> Datasets]
                     /\ f[0] = d
                     /\ \A i \in 1..Len(ops) : f[i] = Apply(f[i - 1], ops[i])

(* Replay applies the commands of its records one after the other. *)
LEMMA ReplayCourse ==
    ASSUME NEW d \in Datasets, NEW log, NEW ops \in Seq(LogOps), ops = Concat(log)
    PROVE  \E f : Course(f, d, ops) /\ Replay(d, log) = f[Len(ops)]
<1>2. PICK n \in Nat : n = Len(ops)
  OBVIOUS
<1> DEFINE step == [i \in 1..n |-> [e \in Datasets |-> Apply(e, ops[i])]]
<1>3. step \in Maps(n, Datasets)
  <2>1. \A i \in 1..n : ops[i] \in LogOps
    BY <1>2
  <2>2. \A i \in 1..n, e \in Datasets : Apply(e, ops[i]) \in Datasets
    BY <2>1, ApplyType
  <2> QED
    BY <2>2 DEF Maps
<1>4. PICK f : IsChain(f, Datasets, d, n, step)
  <2> HIDE DEF step
  <2> QED
    BY <1>3, Chain, Zenon
<1>5. f \in [0..n -> Datasets] /\ f[0] = d
  BY <1>4 DEF IsChain
<1>6. \A i \in 1..n : f[i] = Apply(f[i - 1], ops[i])
  <2> TAKE i \in 1..n
  <2>1. i - 1 \in 0..n
    OBVIOUS
  <2>2. f[i - 1] \in Datasets
    BY <2>1, <1>5
  <2>3. f[i] = step[i][f[i - 1]]
    BY <1>4 DEF IsChain
  <2> QED
    BY <2>2, <2>3
<1> DEFINE E(h) == [i \in 0..n |-> IF i = 0 THEN d ELSE Apply(h[i - 1], ops[i])]
           h == CHOOSE x : x = E(x)
<1>7. f = E(f)
  <2>1. \A i \in 0..n : f[i] = E(f)[i]
    <3> TAKE i \in 0..n
    <3>1. CASE i = 0
      BY <3>1, <1>5
    <3>2. CASE i # 0
      <4>1. i \in 1..n
        BY <3>2
      <4> QED
        BY <4>1, <3>2, <1>6
    <3> QED
      BY <3>1, <3>2
  <2> QED
    BY <2>1, <1>5
<1>8. h = E(h)
  <2> HIDE DEF E
  <2> QED
    BY <1>7, Zenon
<1>9. Replay(d, log) = h[n]
  BY <1>2, Zenon DEF Replay
<1>10. SameSteps(f, h, n)
  <2> HIDE DEF h
  <2>1. f[0] = h[0]
    BY <1>8, <1>5
  <2>2. \A i \in 1..n : h[i] = Apply(h[i - 1], ops[i])
    <3> TAKE i \in 1..n
    <3>1. i \in 0..n /\ i # 0
      OBVIOUS
    <3>2. h[i] = E(h)[i]
      BY <1>8, Zenon
    <3> QED
      BY <3>1, <3>2
  <2> QED
    BY <2>1, <2>2, <1>6 DEF SameSteps
<1>11. \A i \in 0..n : f[i] = h[i]
  <2> HIDE DEF h
  <2> QED
    BY <1>10, Agree, Zenon
<1>12. Replay(d, log) = f[n]
  BY <1>9, <1>11
<1> QED
  BY <1>2, <1>5, <1>6, <1>12 DEF Course

(* Replay is an action of the records on the datasets. *)
LEMMA ReplayFacts ==
    ASSUME NEW d \in Datasets
    PROVE  /\ \A log \in Seq(Records) : Replay(d, log) \in Datasets
           /\ Replay(d, <<>>) = d
           /\ \A a \in LogOps : Replay(d, <<<<a>>>>) = Apply(d, a)
           /\ \A a, b \in LogOps : Replay(d, <<<<a, b>>>>) = Apply(Apply(d, a), b)
           /\ \A s, t \in Seq(Records) : Replay(d, s \o t) = Replay(Replay(d, s), t)
<1>0. ASSUME NEW log \in Seq(Records)
      PROVE  Concat(log) \in Seq(LogOps)
  BY ConcatFacts, Zenon DEF Records
<1>1. ASSUME NEW log \in Seq(Records) PROVE Replay(d, log) \in Datasets
  <2>1. PICK ops \in Seq(LogOps) : ops = Concat(log)
    BY <1>0
  <2>2. PICK f : Course(f, d, ops) /\ Replay(d, log) = f[Len(ops)]
    BY <2>1, ReplayCourse
  <2> QED
    BY <2>2 DEF Course
<1>2. Replay(d, <<>>) = d
  <2>1. <<>> \in Seq(LogOps) /\ <<>> = Concat(<<>>) /\ Len(<<>>) = 0
    BY ConcatFacts
  <2>2. PICK f : Course(f, d, <<>>) /\ Replay(d, <<>>) = f[Len(<<>>)]
    BY <2>1, ReplayCourse, Zenon
  <2> QED
    BY <2>1, <2>2 DEF Course
<1>3. ASSUME NEW a \in LogOps PROVE Replay(d, <<<<a>>>>) = Apply(d, a)
  <2>1. PICK ops \in Seq(LogOps) : ops = <<a>>
    <3>1. <<a>> \in Seq(LogOps)
      OBVIOUS
    <3> QED
      BY <3>1, Zenon
  <2>2. Concat(<<ops>>) = ops
    BY ConcatFacts
  <2>3. PICK f : Course(f, d, ops) /\ Replay(d, <<ops>>) = f[Len(ops)]
    BY <2>2, ReplayCourse
  <2>4. Len(ops) = 1 /\ ops[1] = a
    BY <2>1
  <2>5. f[1] = Apply(f[1 - 1], ops[1])
    BY <2>3, <2>4 DEF Course
  <2> QED
    BY <2>1, <2>3, <2>4, <2>5 DEF Course
<1>4. ASSUME NEW a \in LogOps, NEW b \in LogOps
      PROVE  Replay(d, <<<<a, b>>>>) = Apply(Apply(d, a), b)
  <2>1. PICK ops \in Seq(LogOps) : ops = <<a, b>>
    <3>1. <<a, b>> \in Seq(LogOps)
      OBVIOUS
    <3> QED
      BY <3>1, Zenon
  <2>2. Concat(<<ops>>) = ops
    BY ConcatFacts
  <2>3. PICK f : Course(f, d, ops) /\ Replay(d, <<ops>>) = f[Len(ops)]
    BY <2>2, ReplayCourse
  <2>4. Len(ops) = 2 /\ ops[1] = a /\ ops[2] = b
    BY <2>1
  <2>5. f[1] = Apply(f[1 - 1], ops[1]) /\ f[2] = Apply(f[2 - 1], ops[2])
    BY <2>3, <2>4 DEF Course
  <2> QED
    BY <2>1, <2>3, <2>4, <2>5 DEF Course
<1>5. ASSUME NEW s \in Seq(Records), NEW t \in Seq(Records)
      PROVE  Replay(d, s \o t) = Replay(Replay(d, s), t)
  <2>1. PICK os \in Seq(LogOps), ot \in Seq(LogOps) : os = Concat(s) /\ ot = Concat(t)
    BY <1>0
  <2>2. PICK ops \in Seq(LogOps) : ops = os \o ot
    <3>1. os \o ot \in Seq(LogOps)
      OBVIOUS
    <3> QED
      BY <3>1, Zenon
  <2>3. ops = Concat(s \o t)
    BY <2>1, <2>2, ConcatFacts, Zenon DEF Records
  <2>4. PICK m \in Nat, n \in Nat : m = Len(os) /\ n = Len(ot)
    OBVIOUS
  <2>5. /\ Len(ops) = m + n
        /\ \A i \in 1..m : ops[i] = os[i]
        /\ \A i \in 1..n : ops[m + i] = ot[i]
    BY <2>2, <2>4
  <2>6. PICK f : Course(f, d, ops) /\ Replay(d, s \o t) = f[Len(ops)]
    BY <2>3, ReplayCourse
  <2>7. PICK g : Course(g, d, os) /\ Replay(d, s) = g[Len(os)]
    BY <2>1, ReplayCourse, Zenon
  <2>8. PICK e \in Datasets : e = Replay(d, s)
    BY <1>1
  <2>9. PICK h : Course(h, e, ot) /\ Replay(e, t) = h[Len(ot)]
    BY <2>1, ReplayCourse, Zenon
  <2>10. \A i \in 0..m : f[i] = g[i]
    <3>1. \A i \in 1..m : f[i] = Apply(f[i - 1], os[i])
      <4> TAKE i \in 1..m
      <4>1. i \in 1..Len(ops)
        BY <2>5
      <4> QED
        BY <4>1, <2>5, <2>6 DEF Course
    <3>2. SameSteps(f, g, m)
      BY <3>1, <2>4, <2>6, <2>7 DEF SameSteps, Course
    <3> QED
      BY <3>2, <2>4, Agree
  <2> DEFINE c == [i \in 0..n |-> f[m + i]]
  <2>11. c[0] = h[0]
    BY <2>4, <2>7, <2>8, <2>9, <2>10 DEF Course
  <2>12. \A i \in 1..n : c[i] = Apply(c[i - 1], ot[i])
    <3> SUFFICES ASSUME NEW i \in 1..n PROVE c[i] = Apply(c[i - 1], ot[i])
      BY Zenon
    <3>1. PICK j \in 1..Len(ops) : j = m + i
      BY <2>5
    <3>2. f[j] = Apply(f[j - 1], ops[j])
      BY <2>6 DEF Course
    <3>3. j - 1 = m + (i - 1) /\ i - 1 \in 0..n /\ i \in 0..n
      BY <3>1
    <3>4. c[i] = f[j] /\ c[i - 1] = f[j - 1] /\ ops[j] = ot[i]
      BY <3>1, <3>3, <2>5
    <3> QED
      BY <3>2, <3>4
  <2>13. SameSteps(c, h, n)
    <3> HIDE DEF c
    <3> QED
      BY <2>11, <2>12, <2>4, <2>9 DEF SameSteps, Course
  <2>14. \A i \in 0..n : c[i] = h[i]
    <3> HIDE DEF c
    <3> QED
      BY <2>13, <2>4, Agree
  <2>15. f[m + n] = h[n]
    <3>1. n \in 0..n
      OBVIOUS
    <3> QED
      BY <3>1, <2>14
  <2> QED
    BY <2>15, <2>4, <2>5, <2>6, <2>8, <2>9
<1> QED
  BY <1>1, <1>2, <1>3, <1>4, <1>5

----------------------------------------------------------------------------
(* The inductive invariant.                                                *)

(* An incr file, a background job and the stages of a rewrite.             *)
File == [log : Seq(Records), synced : Nat, torn : Records]
Jobs == [type : {"fsync", "close"}, file : Nat]
Stages == {"loop", "open", "switch", "renamed", "history", "deleted"}

(* The type of every variable; a file is never synced beyond its end.      *)
TypesOK ==
    /\ mode \in {"up", "down", "refused"}
    /\ fsync \in {"always", "everysec"}
    /\ now \in Nat
    /\ db \in Datasets
    /\ aofBuf \in Seq(Records)
    /\ postponed \in BOOLEAN
    /\ bio \in Seq(Jobs)
    /\ bases \in [DOMAIN bases -> Datasets]
    /\ incrs \in [DOMAIN incrs -> File]
    /\ \A n \in DOMAIN incrs : incrs[n].synced <= Len(incrs[n].log)
    /\ manifest \in [base : Nat, incr : Seq(Nat), oldBases : SUBSET Nat, oldIncrs : SUBSET Nat]
    /\ at \in Stages
    /\ child \in [state : {"none", "running", "done"}, data : Datasets]
    /\ fault \in {"none", "process", "power"}
    /\ revived \in BOOLEAN

(* The manifest lists existing files, its newest last; what is history is  *)
(* older than what is in use.                                              *)
FilesOK ==
    /\ manifest.incr # <<>>
    /\ \A i \in DOMAIN manifest.incr : manifest.incr[i] \in DOMAIN incrs
    /\ \A i, j \in DOMAIN manifest.incr : i < j => manifest.incr[i] < manifest.incr[j]
    /\ \A i \in DOMAIN manifest.incr, n \in manifest.oldIncrs : n < manifest.incr[i]
    /\ manifest.base \in DOMAIN bases
    /\ \A n \in manifest.oldBases : n < manifest.base

(* The records of the files of a manifest, what they hold if every one is  *)
(* executed, and the files that end within a record.                       *)
Logs(m) == [i \in 1..Len(m.incr) |-> incrs[m.incr[i]].log]
Held(m) == Replay(bases[m.base], Concat(Logs(m)))
Torn(m) == {i \in DOMAIN m.incr : incrs[m.incr[i]].torn # <<>>}

(* What the base and the closed files hold: the dataset a rewrite forked   *)
(* its child with, and the one its result replaces.                        *)
Prefix == Replay(bases[manifest.base], Before(Len(manifest.incr)))

(* The datasets that the file being written goes on from: the prefix, if   *)
(* no unfinished block is in the way of it, and, whatever the loader left  *)
(* in the older files, the data of the rewrite child, later the new base.  *)
Stands(d) ==
    \/ Intact(manifest) /\ d = Prefix
    \/ child.state # "none" /\ d = child.data
    \/ at = "renamed" /\ d = bases[manifest.base + 1]

(* Each of them, the file being written and the buffer rebuild the         *)
(* dataset; the buffer has no unfinished block.                            *)
SourcesOK ==
    /\ mode = "up" =>
          \A d \in Datasets : Stands(d) => db = Replay(Replay(d, incrs[Current].log), aofBuf)
    /\ \A i \in 1..Len(aofBuf) : ~Unfinished(aofBuf[i])

(* What holds between the steps of openNewIncrAofForAppend and of          *)
(* backgroundRewriteDoneHandler: the buffer is empty while the file is     *)
(* switched, and the child's data, later the new base, is the prefix.      *)
StagesOK ==
    /\ mode # "up" => /\ at = "loop" /\ child.state = "none" /\ bio = <<>>
                      /\ aofBuf = <<>> /\ late = 0 /\ fault # "none"
    /\ at # "loop" => child.state = "none"
    /\ at \in {"open", "switch"} => aofBuf = <<>>
    /\ at = "switch" => Current + 1 \in DOMAIN incrs /\ incrs[Current + 1] = NewFile
    /\ at = "renamed" => manifest.base + 1 \in DOMAIN bases
    /\ Intact(manifest) /\ at = "renamed" => bases[manifest.base + 1] = Prefix
    /\ Intact(manifest) /\ child.state # "none" => child.data = Prefix

(* Under always the log is synced and whole up to the file a dying server  *)
(* was writing; a running server has no torn file, and after a power loss  *)
(* what is left is on disk.                                                *)
SyncOK ==
    /\ fsync = "always" => ~postponed
    /\ ~postponed => late = 0
    /\ fsync = "always" /\ ~revived =>
          \A i \in DOMAIN manifest.incr : mode = "up" \/ i < Len(manifest.incr) =>
             FileOf(i).synced = Len(FileOf(i).log) /\ FileOf(i).torn = <<>>
    /\ mode = "up" => Torn(manifest) = {}
    /\ mode # "up" /\ fault = "process" => Torn(manifest) \subseteq {Len(manifest.incr)}
    /\ mode # "up" /\ fault = "power" => Unsynced = {}

(* The jobs of the background thread are queued in the order of the files. *)
InFileOrder(jobs, last) ==
    /\ \A i \in 1..Len(jobs) : jobs[i].file <= last
    /\ \A i, j \in 1..Len(jobs) : i < j => jobs[i].file <= jobs[j].file

(* A closed file with records to sync is still in the queue.               *)
JobsOK ==
    /\ InFileOrder(bio, Current)
    /\ mode = "up" /\ ~revived =>
          \A i \in Unsynced : i < Len(manifest.incr) =>
             \E j \in DOMAIN bio : bio[j].file = manifest.incr[i]

(* The inductive invariant.                                                *)
AofInv == /\ TypesOK /\ FilesOK /\ StagesOK /\ SyncOK /\ JobsOK
          /\ SourcesOK /\ SyncedInOrder

(* The log of the last file follows the others. *)
LEMMA SplitLogs ==
    ASSUME NEW n \in Nat \ {0}, NEW l \in [1..n -> Seq(Records)]
    PROVE  /\ Concat([j \in 1..(n - 1) |-> l[j]]) \in Seq(Records)
           /\ Concat(l) = Concat([j \in 1..(n - 1) |-> l[j]]) \o l[n]
<1> DEFINE front == [j \in 1..(n - 1) |-> l[j]]
<1>1. l \in Seq(Seq(Records)) /\ front \in Seq(Seq(Records)) /\ l[n] \in Seq(Records)
  OBVIOUS
<1>2. l = front \o <<l[n]>>
  OBVIOUS
<1>3. <<l[n]>> \in Seq(Seq(Records))
  BY <1>1
<1>4. Concat(front \o <<l[n]>>) = Concat(front) \o Concat(<<l[n]>>)
  <2> HIDE DEF front
  <2> QED
    BY <1>1, <1>3, ConcatFacts, Zenon
<1>5. Concat(<<l[n]>>) = l[n] /\ Concat(front) \in Seq(Records)
  <2> HIDE DEF front
  <2> QED
    BY <1>1, ConcatFacts
<1> QED
  <2> HIDE DEF front
  <2>1. Concat(l) = Concat(front) \o l[n]
    BY <1>2, <1>4, <1>5, Zenon
  <2> QED
    BY <2>1, <1>5 DEF front

(* The file being written is the last of the manifest and the newest; the  *)
(* dataset is what the files before it hold, followed by its log.          *)
LogFacts ==
    /\ Len(manifest.incr) \in Nat \ {0}
    /\ DOMAIN manifest.incr = 1..Len(manifest.incr)
    /\ Current = manifest.incr[Len(manifest.incr)]
    /\ Current \in Nat /\ Current \in DOMAIN incrs
    /\ \A i \in 1..Len(manifest.incr) :
          /\ manifest.incr[i] \in Nat /\ manifest.incr[i] \in DOMAIN incrs
          /\ i < Len(manifest.incr) => manifest.incr[i] < Current
    /\ \A n \in DOMAIN incrs :
          /\ incrs[n] \in File /\ incrs[n].log \in Seq(Records) /\ incrs[n].torn \in Records
          /\ Len(incrs[n].log) \in Nat /\ incrs[n].synced \in 0..Len(incrs[n].log)
    /\ Len(bio) \in Nat /\ DOMAIN bio = 1..Len(bio)
    /\ \A i \in 1..Len(bio) : bio[i].file \in Nat
    /\ Prefix \in Datasets
    /\ Held(manifest) \in Datasets
    /\ Held(manifest) = Replay(Prefix, incrs[Current].log)

(* The facts above follow from the types and from the order of the files,  *)
(* in this state and in the next.                                          *)
LEMMA LogShape ==
    /\ TypesOK /\ FilesOK => LogFacts
    /\ (TypesOK /\ FilesOK => LogFacts)'
<1>1. ASSUME TypesOK, FilesOK PROVE LogFacts
  <2> DEFINE n == Len(manifest.incr)
             l == Logs(manifest)
  <2>1. n \in Nat \ {0} /\ manifest.incr \in Seq(Nat) /\ bases[manifest.base] \in Datasets
    BY <1>1 DEF TypesOK, FilesOK
  <2>2. DOMAIN manifest.incr = 1..n /\ \A i \in 1..n : manifest.incr[i] \in DOMAIN incrs
    BY <1>1, <2>1 DEF FilesOK
  <2>3. Current = manifest.incr[n]
    BY DEF Current, Last
  <2>4. /\ Current \in Nat /\ Current \in DOMAIN incrs
        /\ \A i \in 1..n : /\ manifest.incr[i] \in Nat
                           /\ i < n => manifest.incr[i] < Current
    BY <1>1, <2>1, <2>2, <2>3, SMTT(30) DEF FilesOK
  <2>5. \A m \in DOMAIN incrs :
           /\ incrs[m] \in File /\ incrs[m].log \in Seq(Records) /\ incrs[m].torn \in Records
           /\ Len(incrs[m].log) \in Nat /\ incrs[m].synced \in 0..Len(incrs[m].log)
    BY <1>1 DEF TypesOK, File
  <2>6. l \in [1..n -> Seq(Records)] /\ \A i \in 1..n : l[i] = FileOf(i).log
    BY <2>2, <2>5 DEF Logs, FileOf
  <2>7. Before(n) = Concat([j \in 1..(n - 1) |-> l[j]])
    <3>1. [j \in 1..(n - 1) |-> l[j]] = [j \in 1..(n - 1) |-> FileOf(j).log]
      BY <2>1, <2>6
    <3> QED
      BY <3>1, Zenon DEF Before
  <2>8. Before(n) \in Seq(Records) /\ Concat(l) = Before(n) \o l[n]
    <3> HIDE DEF l, n
    <3> QED
      BY <2>1, <2>6, <2>7, SplitLogs, Zenon
  <2>9. l[n] = incrs[Current].log /\ l[n] \in Seq(Records)
    BY <2>1, <2>3, <2>6, SMTT(30) DEF FileOf
  <2>10. Prefix \in Datasets
    BY <2>1, <2>8, ReplayFacts, Zenon DEF Prefix
  <2>11. Held(manifest) = Replay(Prefix, l[n])
    BY <2>1, <2>8, <2>9, ReplayFacts DEF Prefix, Held
  <2>12. Held(manifest) \in Datasets
    BY <2>9, <2>10, <2>11, ReplayFacts
  <2>13. /\ Len(bio) \in Nat /\ DOMAIN bio = 1..Len(bio)
         /\ \A i \in 1..Len(bio) : bio[i].file \in Nat
    <3>1. bio \in Seq(Jobs)
      BY <1>1 DEF TypesOK
    <3>2. Len(bio) \in Nat /\ DOMAIN bio = 1..Len(bio) /\ \A i \in 1..Len(bio) : bio[i] \in Jobs
      BY <3>1
    <3> QED
      BY <3>2 DEF Jobs
  <2> QED
    BY <2>1, <2>2, <2>3, <2>4, <2>5, <2>9, <2>10, <2>11, <2>12, <2>13, Zenon DEF LogFacts
<1> QED
  BY <1>1, PTL

(* A job for the file being written goes behind the others. *)
LEMMA Submitted ==
    ASSUME NEW jobs \in Seq(Jobs), NEW n \in Nat, NEW type \in {"fsync", "close"},
           InFileOrder(jobs, n)
    PROVE  /\ Append(jobs, Job(type, n)) \in Seq(Jobs)
           /\ InFileOrder(Append(jobs, Job(type, n)), n)
           /\ Len(Append(jobs, Job(type, n))) = Len(jobs) + 1
           /\ Append(jobs, Job(type, n))[Len(jobs) + 1].file = n
           /\ \A i \in 1..Len(jobs) : Append(jobs, Job(type, n))[i] = jobs[i]
<1>1. PICK job \in Jobs : job = Job(type, n) /\ job.file = n
  <2>1. Job(type, n) \in Jobs /\ Job(type, n).file = n
    BY DEF Job, Jobs
  <2> QED
    BY <2>1
<1>2. PICK all \in Seq(Jobs) : all = Append(jobs, job)
  <2>1. Append(jobs, job) \in Seq(Jobs)
    OBVIOUS
  <2> QED
    BY <2>1, Zenon
<1>3. Len(all) = Len(jobs) + 1 /\ all[Len(jobs) + 1] = job /\ Len(jobs) \in Nat
  BY <1>2
<1>4. \A i \in 1..Len(jobs) : all[i] = jobs[i] /\ jobs[i] \in Jobs
  BY <1>2
<1>5. \A i \in 1..Len(jobs) : jobs[i].file \in Nat
  BY <1>4 DEF Jobs
<1>6. InFileOrder(all, n)
  BY <1>1, <1>3, <1>4, <1>5, SMTT(30) DEF InFileOrder
<1> QED
  BY <1>1, <1>2, <1>3, <1>4, <1>6

----------------------------------------------------------------------------
(* Commands.                                                               *)

(* What is before the last file depends on the other files only. *)
LEMMA PrefixStays ==
    ASSUME manifest'.incr = manifest.incr, manifest'.base = manifest.base,
           bases'[manifest.base] = bases[manifest.base],
           \A i \in 1..(Len(manifest.incr) - 1) :
              incrs'[manifest.incr[i]].log = incrs[manifest.incr[i]].log
    PROVE  Prefix' = Prefix
<1>1. [j \in 1..(Len(manifest.incr) - 1) |-> incrs'[manifest.incr[j]].log]
        = [j \in 1..(Len(manifest.incr) - 1) |-> incrs[manifest.incr[j]].log]
  OBVIOUS
<1> QED
  BY <1>1 DEF Prefix, Before, FileOf

(* A step that leaves the files of the manifest leaves what they hold. *)
LEMMA FilesStay ==
    ASSUME TypesOK,
           manifest'.incr = manifest.incr, manifest'.base = manifest.base,
           bases'[manifest.base] = bases[manifest.base],
           \A i \in 1..Len(manifest.incr) :
              incrs'[manifest.incr[i]] = incrs[manifest.incr[i]]
    PROVE  /\ Prefix' = Prefix /\ Held(manifest)' = Held(manifest)
           /\ Intact(manifest)' = Intact(manifest)
           /\ Torn(manifest)' = Torn(manifest) /\ Unsynced' = Unsynced /\ Current' = Current
           /\ \A i \in 1..Len(manifest.incr) : FileOf(i)' = FileOf(i)
<1>0. DOMAIN manifest.incr = 1..Len(manifest.incr) /\ Len(manifest.incr) \in Nat
  BY DEF TypesOK
<1>1. Prefix' = Prefix
  BY <1>0, PrefixStays
<1>2. Logs(manifest)' = Logs(manifest)
  BY <1>0 DEF Logs
<1>3. Held(manifest)' = Held(manifest)
  BY <1>2 DEF Held
<1>4. Torn(manifest)' = Torn(manifest) /\ Unsynced' = Unsynced /\ Current' = Current
  BY <1>0, Zenon DEF Torn, Unsynced, Current
<1>5. \A i \in 1..Len(manifest.incr) : FileOf(i)' = FileOf(i)
  BY DEF FileOf
<1>6. Intact(manifest)' = Intact(manifest)
  BY <1>0, Zenon DEF Intact
<1> QED
  BY <1>1, <1>3, <1>4, <1>5, <1>6

(* A file that only grew had no unfinished block if it has none. *)
LEMMA IntactBefore ==
    ASSUME TypesOK, manifest'.incr = manifest.incr,
           \A i \in 1..Len(manifest.incr) : \A j \in DOMAIN FileOf(i).log :
              j \in DOMAIN FileOf(i)'.log /\ FileOf(i)'.log[j] = FileOf(i).log[j]
    PROVE  Intact(manifest)' => Intact(manifest)
<1>1. DOMAIN manifest.incr = 1..Len(manifest.incr)
  BY DEF TypesOK
<1> QED
  BY <1>1, Zenon DEF Intact, FileOf

(* A command executes against the dataset and feeds the buffer. *)
LEMMA CallInv ==
    ASSUME AofInv, Running, NEW d \in Datasets, NEW ops \in Seq(Ops), call(d, ops),
           d = IF ops = <<>> THEN db ELSE Replay(db, <<ops>>)
    PROVE  AofInv'
<1> USE DEF AofInv
<1>0. ops \in Records /\ ~Unfinished(ops)
  BY BufferedRecords, Zenon
<1>1. UNCHANGED <<mode, fsync, now, late, postponed, covered, bio, bases, incrs, manifest,
                  at, child, fault, revived>>
  BY DEF call, files
<1>2. db' = d /\ aofBuf' = IF ops = <<>> THEN aofBuf ELSE Append(aofBuf, ops)
  BY DEF call, feedAppendOnlyFile
<1>3. mode = "up" /\ at = "loop"
  BY Zenon DEF Running
<1>4. /\ Prefix' = Prefix /\ Intact(manifest)' = Intact(manifest)
      /\ Torn(manifest)' = Torn(manifest) /\ Unsynced' = Unsynced /\ Current' = Current
      /\ FilesOK'
  BY <1>1, FilesStay DEF FilesOK
<1>5. TypesOK'
  BY <1>0, <1>1, <1>2, SMTT(30) DEF TypesOK
<1>6. StagesOK'
  <2>1. StagesOK
    BY Zenon
  <2> HIDE DEF AofInv
  <2> QED
    BY <1>1, <1>3, <1>4, <2>1, Zenon DEF StagesOK, NewFile
<1>7. SyncOK'
  BY <1>1, <1>4, Zenon DEF SyncOK, FileOf
<1>8. JobsOK'
  BY <1>1, <1>4, Zenon DEF JobsOK
<1>9. SourcesOK'
  <2>0. aofBuf \in Seq(Records) /\ incrs[Current].log \in Seq(Records)
    BY LogShape, Zenon DEF TypesOK, LogFacts
  <2>1. ASSUME NEW e \in Datasets, db = Replay(Replay(e, incrs[Current].log), aofBuf)
        PROVE  db' = Replay(Replay(e, incrs[Current].log), aofBuf')
    <3>1. CASE ops = <<>>
      BY <2>1, <3>1, <1>2
    <3>2. CASE ops # <<>>
      <4>1. <<ops>> \in Seq(Records) /\ aofBuf' = aofBuf \o <<ops>>
        BY <2>0, <3>2, <1>0, <1>2
      <4>2. PICK c \in Datasets : c = Replay(e, incrs[Current].log)
        BY <2>0, ReplayFacts, Zenon
      <4>3. Replay(c, aofBuf \o <<ops>>) = Replay(Replay(c, aofBuf), <<ops>>)
        BY <2>0, <4>1, ReplayFacts, ZenonT(40)
      <4> QED
        BY <4>1, <4>2, <4>3, <2>1, <3>2, <1>2
    <3> QED
      BY <3>1, <3>2, Zenon
  <2>2. \A e : Stands(e)' => Stands(e)
    BY <1>1, <1>4, Zenon DEF Stands
  <2>3. (\A i \in 1..Len(aofBuf) : ~Unfinished(aofBuf[i]))'
    <3>1. CASE ops = <<>>
      BY <3>1, <1>2 DEF SourcesOK
    <3>2. CASE ops # <<>>
      <4>1. aofBuf' = Append(aofBuf, ops)
        BY <3>2, <1>2
      <4>2. ASSUME NEW i \in 1..Len(aofBuf')
            PROVE  aofBuf'[i] = ops \/ (i \in 1..Len(aofBuf) /\ aofBuf'[i] = aofBuf[i])
        BY <4>1, <2>0
      <4>3. \A i \in 1..Len(aofBuf) : ~Unfinished(aofBuf[i])
        BY DEF SourcesOK
      <4> HIDE DEF AofInv
      <4> QED
        BY <4>2, <4>3, <1>0, Zenon
    <3> QED
      BY <3>1, <3>2, Zenon
  <2>4. \A e \in Datasets : Stands(e) => db = Replay(Replay(e, incrs[Current].log), aofBuf)
    BY <1>3 DEF SourcesOK
  <2> HIDE DEF AofInv
  <2>5. \A e \in Datasets : Stands(e)' => (db = Replay(Replay(e, incrs[Current].log), aofBuf))'
    BY <2>1, <2>2, <2>4, <1>1, <1>4, Zenon
  <2> QED
    BY <2>3, <2>5, Zenon DEF SourcesOK
<1>10. SyncedInOrder'
  BY <1>1, <1>4 DEF SyncedInOrder
<1> QED
  BY <1>4, <1>5, <1>6, <1>7, <1>8, <1>9, <1>10, Zenon

(* Every command and every expiry keeps the invariant. *)
LEMMA CommandsInv ==
    ASSUME AofInv, Commands
    PROVE  AofInv'
<1>1. PICK k \in Keys :
          \/ \E v \in Values, ttl \in Lifetimes \cup {0}, nx \in BOOLEAN :
                setGenericCommand(k, v, ttl, nx)
          \/ getCommand(k)
          \/ delGenericCommand(k)
          \/ \E ttl \in Lifetimes \cup {0} : expireGenericCommand(k, ttl)
          \/ persistCommand(k)
          \/ activeExpireCycleTryExpire(k)
  BY DEF Commands
<1>2. /\ db \in Datasets /\ now \in Nat
      /\ db \in [Keys -> {None} \cup [val : Values, exp : Nat \cup {-1}]]
  BY DEF AofInv, TypesOK, Datasets
<1>3. PICK pre, preops : pre = expireIfNeeded(k).db /\ preops = expireIfNeeded(k).ops
  OBVIOUS
<1>4. /\ Del(k) \in Ops /\ Persist(k) \in Ops
      /\ \A t \in Nat : PexpireAt(k, t) \in Ops
      /\ \A v \in Values : SetNx(k, v) \in Ops
      /\ \A v \in Values, t \in Nat \cup {-1} : Set(k, v, t) \in Ops
  BY DEF Ops
<1>4a. Ops \subseteq LogOps
  BY BufferedRecords
<1>5. Apply(db, Del(k)) = [db EXCEPT ![k] = None]
  BY Zenon DEF Apply, Del
<1>6. \/ pre = db /\ preops = <<>>
      \/ pre = Apply(db, Del(k)) /\ preops = <<Del(k)>>
  BY <1>3, <1>5 DEF expireIfNeeded
<1>7. pre \in Datasets
  BY <1>2, <1>4, <1>4a, <1>6, ApplyType
<1>8. ASSUME NEW op \in Ops, call(Apply(pre, op), Append(preops, op)), Running
      PROVE  AofInv'
  <2>1. Apply(pre, op) \in Datasets
    BY <1>4a, <1>7, ApplyType
  <2>2. CASE preops = <<>>
    <3>1. Append(preops, op) = <<op>> /\ <<op>> \in Seq(Ops) /\ <<op>> # <<>>
      <4>1. Append(<<>>, op) = <<op>> /\ <<op>> # <<>>
        BY SMTT(30)
      <4>2. <<op>> \in Seq(Ops)
        BY SMTT(30)
      <4> QED
        BY <2>2, <4>1, <4>2, Zenon
    <3>2. Replay(db, <<<<op>>>>) = Apply(pre, op)
      BY <2>2, <1>2, <1>6, <1>4a, ReplayFacts
    <3> QED
      BY <3>1, <3>2, <2>1, <1>8, CallInv, Zenon
  <2>3. CASE preops # <<>>
    <3>1. /\ Append(preops, op) = <<Del(k), op>> /\ <<Del(k), op>> \in Seq(Ops)
          /\ <<Del(k), op>> # <<>>
      <4>1. PICK del \in Ops : del = Del(k)
        BY <1>4
      <4>2. preops = <<del>>
        BY <4>1, <2>3, <1>6
      <4>3. Append(preops, op) = <<del, op>> /\ <<del, op>> \in Seq(Ops) /\ <<del, op>> # <<>>
        <5>0. <<del, op>> \in Seq(Ops) /\ <<del>> \in Seq(Ops)
          OBVIOUS
        <5>1. Append(<<del>>, op) = <<del, op>>
          <6>1. /\ Append(<<del>>, op) \in Seq(Ops) /\ Len(Append(<<del>>, op)) = 2
                /\ Append(<<del>>, op)[1] = del /\ Append(<<del>>, op)[2] = op
            BY <5>0
          <6>2. PICK a \in Seq(Ops), b \in Seq(Ops) :
                   a = Append(<<del>>, op) /\ b = <<del, op>>
            BY <6>1, <5>0, Zenon
          <6>3. Len(a) = 2 /\ Len(b) = 2 /\ a[1] = b[1] /\ a[2] = b[2]
            BY <6>1, <6>2
          <6>4. Len(a) = Len(b) /\ \A i \in 1..Len(a) : a[i] = b[i]
            BY <6>3
          <6>5. a = b
            BY <6>4
          <6> QED
            BY <6>2, <6>5, Zenon
        <5>2. <<del, op>> # <<>>
          OBVIOUS
        <5> QED
          BY <5>0, <5>1, <5>2, <4>2
      <4> QED
        BY <4>1, <4>3
    <3>2. Replay(db, <<<<Del(k), op>>>>) = Apply(pre, op)
      BY <2>3, <1>2, <1>4, <1>6, <1>4a, ReplayFacts
    <3> QED
      BY <3>1, <3>2, <2>1, <1>8, CallInv, Zenon
  <2> QED
    BY <2>2, <2>3
<1>9. ASSUME call(pre, preops), Running
      PROVE  AofInv'
  <2>1. CASE preops = <<>>
    <3>1. <<>> \in Seq(Ops) /\ pre = db
      BY <2>1, <1>6
    <3> QED
      BY <3>1, <2>1, <1>2, <1>9, CallInv, Zenon
  <2>2. CASE preops # <<>>
    <3>1. preops = <<Del(k)>> /\ <<Del(k)>> \in Seq(Ops)
      BY <2>2, <1>4, <1>6, SMTT(30)
    <3>2. Replay(db, <<<<Del(k)>>>>) = pre
      BY <2>2, <1>2, <1>4, <1>6, <1>4a, ReplayFacts, Zenon
    <3> QED
      BY <3>1, <3>2, <2>2, <1>7, <1>9, CallInv, Zenon
  <2> QED
    BY <2>1, <2>2
<1>10. ASSUME call([db EXCEPT ![k] = None], <<Del(k)>>), Running
       PROVE  AofInv'
  <2>1. [db EXCEPT ![k] = None] \in Datasets /\ <<Del(k)>> \in Seq(Ops) /\ <<Del(k)>> # <<>>
    <3>1. [db EXCEPT ![k] = None] \in Datasets
      BY <1>2, <1>4, <1>4a, <1>5, ApplyType, Zenon
    <3>2. <<Del(k)>> \in Seq(Ops) /\ <<Del(k)>> # <<>>
      BY <1>4
    <3> QED
      BY <3>1, <3>2
  <2>2. Replay(db, <<<<Del(k)>>>>) = [db EXCEPT ![k] = None]
    BY <1>2, <1>4, <1>5, <1>4a, ReplayFacts, Zenon
  <2> QED
    BY <2>1, <2>2, <1>10, CallInv, Zenon
<1>11. ASSUME NEW v \in Values, NEW ttl \in Lifetimes \cup {0}, NEW nx \in BOOLEAN,
              setGenericCommand(k, v, ttl, nx)
       PROVE  AofInv'
  <2>1. PICK when : when = IF ttl = 0 THEN -1 ELSE now + ttl
    OBVIOUS
  <2>2. when \in Nat \cup {-1}
    BY <2>1, <1>2, AofConstants
  <2>3. PICK op : op = IF nx /\ ttl = 0 THEN SetNx(k, v) ELSE Set(k, v, when)
    OBVIOUS
  <2>4. op \in Ops
    BY <2>2, <2>3, <1>4, Zenon
  <2>5. Running
    BY <1>11 DEF setGenericCommand, Accepting
  <2>6. CASE nx /\ Present(pre, k)
    <3>1. call(pre, preops)
      BY <2>6, <1>3, <1>11 DEF setGenericCommand
    <3> QED
      BY <3>1, <2>5, <1>9, Zenon
  <2>7. CASE ~(nx /\ Present(pre, k))
    <3>1. call([pre EXCEPT ![k] = Entry(v, when)], Append(preops, op))
      BY <2>7, <2>1, <2>3, <1>3, <1>11, Zenon DEF setGenericCommand
    <3>2. Apply(pre, op) = [pre EXCEPT ![k] = Entry(v, when)]
      <4>1. CASE nx /\ ttl = 0
        <5>1. op = SetNx(k, v) /\ when = -1 /\ ~Present(pre, k)
          BY <4>1, <2>1, <2>3, <2>7
        <5>2. Apply(pre, SetNx(k, v)) = IF Present(pre, k) THEN pre
                                        ELSE [pre EXCEPT ![k] = Entry(v, -1)]
          BY Zenon DEF Apply, SetNx
        <5> QED
          BY <5>1, <5>2
      <4>2. CASE ~(nx /\ ttl = 0)
        <5>1. op = Set(k, v, when)
          BY <4>2, <2>3
        <5> QED
          BY <5>1, Zenon DEF Apply, Set
      <4> QED
        BY <4>1, <4>2
    <3> QED
      BY <3>1, <3>2, <2>4, <2>5, <1>8, Zenon
  <2> QED
    BY <2>6, <2>7
<1>12. ASSUME getCommand(k) PROVE AofInv'
  BY <1>12, <1>3, <1>9 DEF getCommand, Accepting
<1>13. ASSUME delGenericCommand(k) \/ activeExpireCycleTryExpire(k) PROVE AofInv'
  BY <1>13, <1>10 DEF delGenericCommand, activeExpireCycleTryExpire, Accepting
<1>14. ASSUME NEW ttl \in Lifetimes \cup {0}, expireGenericCommand(k, ttl) PROVE AofInv'
  <2>1. Running
    BY <1>14 DEF expireGenericCommand, Accepting
  <2>2. CASE ~Present(pre, k)
    <3>1. call(pre, preops)
      BY <2>2, <1>3, <1>14 DEF expireGenericCommand
    <3> QED
      BY <3>1, <2>1, <1>9
  <2>3. CASE Present(pre, k) /\ ttl = 0
    <3>1. call([pre EXCEPT ![k] = None], Append(preops, Del(k)))
      BY <2>3, <1>3, <1>14 DEF expireGenericCommand
    <3>2. Apply(pre, Del(k)) = [pre EXCEPT ![k] = None]
      BY Zenon DEF Apply, Del
    <3> QED
      BY <3>1, <3>2, <2>1, <1>4, <1>8, Zenon
  <2>4. CASE Present(pre, k) /\ ttl # 0
    <3>1. now + ttl \in Nat
      BY <1>2, AofConstants
    <3>2. PICK t \in Nat : t = now + ttl
      BY <3>1
    <3>3. call([pre EXCEPT ![k].exp = t], Append(preops, PexpireAt(k, t)))
      BY <3>2, <2>4, <1>3, <1>14 DEF expireGenericCommand
    <3>4. Apply(pre, PexpireAt(k, t)) = IF Present(pre, k) THEN [pre EXCEPT ![k].exp = t]
                                        ELSE pre
      BY Zenon DEF Apply, PexpireAt
    <3>5. Apply(pre, PexpireAt(k, t)) = [pre EXCEPT ![k].exp = t]
      BY <3>4, <2>4
    <3> QED
      BY <3>3, <3>5, <2>1, <1>4, <1>8, Zenon
  <2> QED
    BY <2>2, <2>3, <2>4
<1>15. ASSUME persistCommand(k) PROVE AofInv'
  <2>1. Running
    BY <1>15 DEF persistCommand, Accepting
  <2>2. CASE ~(Present(pre, k) /\ pre[k].exp >= 0)
    <3>1. call(pre, preops)
      BY <2>2, <1>3, <1>15 DEF persistCommand
    <3> QED
      BY <3>1, <2>1, <1>9
  <2>3. CASE Present(pre, k) /\ pre[k].exp >= 0
    <3>1. call([pre EXCEPT ![k].exp = -1], Append(preops, Persist(k)))
      BY <2>3, <1>3, <1>15 DEF persistCommand
    <3>2. Apply(pre, Persist(k)) = IF Present(pre, k) THEN [pre EXCEPT ![k].exp = -1] ELSE pre
      BY Zenon DEF Apply, Persist
    <3>3. Apply(pre, Persist(k)) = [pre EXCEPT ![k].exp = -1]
      BY <3>2, <2>3
    <3> QED
      BY <3>1, <3>3, <2>1, <1>4, <1>8, Zenon
  <2> QED
    BY <2>2, <2>3
<1> QED
  BY <1>1, <1>11, <1>12, <1>13, <1>14, <1>15

----------------------------------------------------------------------------
(* Flushing and background fsync.                                          *)

(* Flushing the buffer. *)
LEMMA FlushInv ==
    ASSUME AofInv, Running, NEW force \in BOOLEAN, flushAppendOnlyFile(force),
           UNCHANGED <<mode, fsync, now, db, bases, manifest, child, fault, revived>>,
           ~postponed' => late' = 0,
           at' = "loop" \/ (at' = "open" /\ aofBuf' = <<>> /\ child.state = "none")
    PROVE  AofInv'
<1> DEFINE L == Len(manifest.incr)
<1>0. mode = "up" /\ at = "loop" /\ TypesOK /\ FilesOK
  BY Zenon DEF Running, AofInv
<1>1. \/ /\ UNCHANGED <<incrs, aofBuf, bio>>
         /\ postponed' = postponed \/ (postponed' = TRUE /\ fsync = "everysec")
      \/ \E g : /\ incrs' = [incrs EXCEPT ![Current] = g]
                /\ g = IF fsync = "always" THEN WriteAndSync(incrs[Current])
                       ELSE WriteOnly(incrs[Current])
                /\ aofBuf' = <<>>
                /\ postponed' = FALSE
                /\ bio' = bio \/ bio' = Append(bio, Job("fsync", Current))
  BY <1>0, Zenon DEF flushAppendOnlyFile, bioSubmitJob, TypesOK
<1>2. CASE UNCHANGED <<incrs, aofBuf, bio>>
           /\ (postponed' = postponed \/ (postponed' = TRUE /\ fsync = "everysec"))
  <2>1. /\ Prefix' = Prefix /\ Intact(manifest)' = Intact(manifest)
        /\ Torn(manifest)' = Torn(manifest) /\ Unsynced' = Unsynced /\ Current' = Current
        /\ FilesOK'
    BY <1>0, <1>2, FilesStay DEF FilesOK
  <2>2. TypesOK'
    BY <1>0, <1>2, ZenonT(30) DEF TypesOK, Stages
  <2>3. StagesOK'
    BY <1>0, <1>2, <2>1, ZenonT(40) DEF StagesOK, AofInv
  <2>4. SyncOK'
    BY <1>2, <2>1 DEF SyncOK, FileOf, AofInv
  <2>5. JobsOK'
    BY <1>2, <2>1, Zenon DEF JobsOK, AofInv
  <2>6. SourcesOK'
    <3>1. \A e : Stands(e)' => Stands(e)
      BY <1>0, <2>1, ZenonT(40) DEF Stands
    <3> QED
      BY <3>1, <1>2, <2>1, Zenon DEF SourcesOK, AofInv
  <2>7. SyncedInOrder'
    BY <1>2, <2>1 DEF SyncedInOrder, AofInv
  <2> QED
    BY <2>1, <2>2, <2>3, <2>4, <2>5, <2>6, <2>7, Zenon DEF AofInv
<1>3. ASSUME NEW g,
             incrs' = [incrs EXCEPT ![Current] = g],
             g = IF fsync = "always" THEN WriteAndSync(incrs[Current])
                 ELSE WriteOnly(incrs[Current]),
             aofBuf' = <<>>, postponed' = FALSE,
             bio' = bio \/ bio' = Append(bio, Job("fsync", Current))
      PROVE  AofInv'
  <2>1. /\ L \in Nat \ {0} /\ DOMAIN manifest.incr = 1..L /\ Current = manifest.incr[L]
        /\ Current \in Nat /\ Current \in DOMAIN incrs
        /\ \A i \in 1..L : /\ manifest.incr[i] \in Nat /\ manifest.incr[i] \in DOMAIN incrs
                           /\ i < L => manifest.incr[i] < Current
    BY <1>0, LogShape DEF LogFacts
  <2>2. /\ incrs[Current] \in File /\ aofBuf \in Seq(Records)
        /\ incrs[Current].log \in Seq(Records) /\ incrs[Current].synced <= Len(incrs[Current].log)
    BY <1>0, <2>1, Zenon DEF TypesOK, File
  <2>3. /\ g \in File /\ g.log = incrs[Current].log \o aofBuf /\ g.torn = incrs[Current].torn
        /\ g.synced = IF fsync = "always" THEN Len(g.log) ELSE incrs[Current].synced
        /\ g.synced <= Len(g.log)
    <3>1. PICK l \in Seq(Records) : l = incrs[Current].log \o aofBuf
      <4>1. incrs[Current].log \o aofBuf \in Seq(Records)
        BY <2>2, SMTT(30)
      <4> QED
        BY <4>1, Zenon
    <3>2. Len(l) \in Nat /\ incrs[Current].synced <= Len(l) /\ incrs[Current].synced \in Nat
      BY <3>1, <2>2 DEF File
    <3>3. WriteOnly(incrs[Current]) = [log |-> l, synced |-> incrs[Current].synced,
                                       torn |-> incrs[Current].torn]
      <4>1. PICK f \in File : f = incrs[Current]
        BY <2>2
      <4>2. [f EXCEPT !.log = l] = [log |-> l, synced |-> f.synced, torn |-> f.torn]
        BY DEF File
      <4>3. WriteOnly(f) = [f EXCEPT !.log = l]
        BY <3>1, <4>1 DEF WriteOnly, Written
      <4> QED
        BY <4>1, <4>2, <4>3, Zenon
    <3>4. WriteAndSync(incrs[Current]) = [log |-> l, synced |-> Len(l),
                                          torn |-> incrs[Current].torn]
      <4>1. WriteAndSync(incrs[Current]) = Synced(WriteOnly(incrs[Current]))
        BY DEF WriteAndSync, WriteOnly
      <4> QED
        BY <4>1, <3>3 DEF Synced
    <3>5. incrs[Current].torn \in Records
      BY <2>2, Zenon DEF File
    <3>6. CASE fsync = "always"
      <4>1. g = [log |-> l, synced |-> Len(l), torn |-> incrs[Current].torn]
        BY <3>4, <3>6, <1>3, Zenon
      <4>2. Len(l) <= Len(l)
        BY <3>2
      <4> QED
        BY <3>1, <3>2, <3>5, <3>6, <4>1, <4>2, Zenon DEF File
    <3>7. CASE fsync # "always"
      <4>1. g = [log |-> l, synced |-> incrs[Current].synced, torn |-> incrs[Current].torn]
        BY <3>3, <3>7, <1>3, Zenon
      <4> QED
        BY <3>1, <3>2, <3>5, <3>7, <4>1, Zenon DEF File
    <3> QED
      BY <3>6, <3>7
  <2>4. /\ incrs' \in [DOMAIN incrs -> File] /\ DOMAIN incrs' = DOMAIN incrs
        /\ incrs'[Current] = g /\ \A n \in DOMAIN incrs : n # Current => incrs'[n] = incrs[n]
    BY <1>0, <1>3, <2>1, <2>3, Zenon DEF TypesOK
  <2>5. \A i \in 1..L : i # L => incrs'[manifest.incr[i]] = incrs[manifest.incr[i]]
    BY <2>1, <2>4
  <2>6. Current' = Current /\ manifest' = manifest
    BY Zenon DEF Current
  <2>7. Prefix' = Prefix
    BY <2>1, <2>5, PrefixStays, SMTT(30)
  <2>7a. Intact(manifest)' => Intact(manifest)
    <3>1. ASSUME NEW i \in 1..L, NEW j \in DOMAIN FileOf(i).log
          PROVE  j \in DOMAIN FileOf(i)'.log /\ FileOf(i)'.log[j] = FileOf(i).log[j]
      <4>1. CASE i = L
        <5>1. FileOf(i).log = incrs[Current].log /\ FileOf(i)'.log = g.log
          BY <4>1, <2>1, <2>4, <2>6, Zenon DEF FileOf
        <5>2. \A k \in DOMAIN incrs[Current].log :
                 k \in DOMAIN g.log /\ g.log[k] = incrs[Current].log[k]
          BY <2>2, <2>3, SMTT(30)
        <5> QED
          BY <5>1, <5>2, <3>1, Zenon
      <4>2. CASE i # L
        BY <4>2, <3>1, <2>5, <2>6, Zenon DEF FileOf
      <4> QED
        BY <4>1, <4>2
    <3> QED
      BY <3>1, <1>0, <2>6, IntactBefore, Zenon
  <2>0. /\ bio' \in Seq(Jobs) /\ InFileOrder(bio', Current)
        /\ \A i \in 1..Len(bio) : i \in 1..Len(bio') /\ bio'[i] = bio[i]
    <3>1. bio \in Seq(Jobs) /\ InFileOrder(bio, Current) /\ Len(bio) \in Nat
      BY <1>0 DEF TypesOK, JobsOK, AofInv
    <3>2. CASE bio' = bio
      BY <3>1, <3>2, Zenon
    <3>3. CASE bio' = Append(bio, Job("fsync", Current))
      <4>1. /\ Append(bio, Job("fsync", Current)) \in Seq(Jobs)
            /\ InFileOrder(Append(bio, Job("fsync", Current)), Current)
            /\ Len(Append(bio, Job("fsync", Current))) = Len(bio) + 1
            /\ \A i \in 1..Len(bio) : Append(bio, Job("fsync", Current))[i] = bio[i]
        BY <3>1, <2>1, Submitted
      <4> QED
        BY <4>1, <3>1, <3>3, SMTT(30)
    <3> QED
      BY <3>2, <3>3, <1>3, Zenon
  <2>8. TypesOK'
    <3>1. bio' \in Seq(Jobs)
      BY <2>0
    <3>2. \A n \in DOMAIN incrs' : incrs'[n].synced <= Len(incrs'[n].log)
      BY <1>0, <2>3, <2>4, Zenon DEF TypesOK
    <3> QED
      <4>1. incrs' \in [DOMAIN incrs' -> File] /\ aofBuf' \in Seq(Records)
        BY <1>3, <2>4
      <4>2. at' \in Stages
        BY Zenon DEF Stages
      <4> QED
        BY <3>1, <3>2, <4>1, <4>2, <1>0, <1>3, Zenon DEF TypesOK
  <2>9. FilesOK'
    BY <1>0, <2>4, Zenon DEF FilesOK
  <2>10. StagesOK'
    BY <1>0, <1>3, <2>6, <2>7, <2>7a, Zenon DEF StagesOK, AofInv
  <2>11. SyncOK'
    <3>1. \A i \in 1..L : FileOf(i)' = IF i = L THEN g ELSE FileOf(i)
      BY <2>1, <2>4, <2>5, Zenon DEF FileOf
    <3>2. FileOf(L) = incrs[Current]
      BY <2>1, Zenon DEF FileOf
    <3>3. Torn(manifest)' = Torn(manifest)
      BY <3>1, <3>2, <2>1, <2>3, Zenon DEF Torn, FileOf
    <3>4. fsync = "always" /\ ~revived =>
             \A i \in 1..L : FileOf(i)'.synced = Len(FileOf(i)'.log) /\ FileOf(i)'.torn = <<>>
      <4> SUFFICES ASSUME fsync = "always" /\ ~revived, NEW i \in 1..L
                   PROVE  FileOf(i)'.synced = Len(FileOf(i)'.log) /\ FileOf(i)'.torn = <<>>
        OBVIOUS
      <4>1. FileOf(i).synced = Len(FileOf(i).log) /\ FileOf(i).torn = <<>>
        BY <1>0, <2>1, Zenon DEF SyncOK, AofInv
      <4>2. CASE i = L
        BY <4>1, <4>2, <3>1, <3>2, <2>3, Zenon
      <4>3. CASE i # L
        BY <4>1, <4>3, <3>1
      <4> QED
        BY <4>2, <4>3
    <3>5. mode' = mode /\ fsync' = fsync /\ revived' = revived /\ fault' = fault
      BY Zenon
    <3> QED
      BY <3>3, <3>4, <3>5, <1>0, <1>3, <2>1, <2>6, SMTT(30) DEF SyncOK, AofInv
  <2>12. Unsynced' \ {L} = Unsynced \ {L}
    BY <2>1, <2>5, Zenon DEF Unsynced
  <2>13. JobsOK'
    <3>1. bio \in Seq(Jobs) /\ InFileOrder(bio, Current)
      BY <1>0 DEF TypesOK, JobsOK, AofInv
    <3>2. Len(bio) \in Nat /\ DOMAIN bio = 1..Len(bio)
      BY <3>1
    <3>3. bio' \in Seq(Jobs) /\ DOMAIN bio' = 1..Len(bio')
      BY <2>0
    <3>4. /\ InFileOrder(bio', Current)
          /\ \A i \in 1..Len(bio) : i \in 1..Len(bio') /\ bio'[i] = bio[i]
      BY <2>0, Zenon
    <3>5. mode' = "up" /\ ~revived' =>
             \A i \in Unsynced' : i < Len(manifest'.incr) =>
                \E j \in DOMAIN bio' : bio'[j].file = manifest'.incr[i]
      <4> SUFFICES ASSUME ~revived, NEW i \in Unsynced', i < L
                   PROVE  \E j \in DOMAIN bio' : bio'[j].file = manifest.incr[i]
        BY <1>0, Zenon
      <4>1. i \in Unsynced
        BY <2>1, <2>12
      <4>2. PICK j \in DOMAIN bio : bio[j].file = manifest.incr[i]
        BY <4>1, <1>0, Zenon DEF JobsOK, AofInv
      <4> QED
        BY <4>2, <3>2, <3>3, <3>4, Zenon
    <3> QED
      BY <3>4, <3>5, <2>6, Zenon DEF JobsOK
  <2>14. SourcesOK'
    <3>1. ASSUME NEW e \in Datasets, Stands(e)'
          PROVE  db' = Replay(Replay(e, incrs'[Current'].log), aofBuf')
      <4>1. Stands(e)
        BY <3>1, <1>0, <2>6, <2>7, <2>7a, Zenon DEF Stands
      <4>2. db = Replay(Replay(e, incrs[Current].log), aofBuf)
        BY <4>1, <1>0, Zenon DEF SourcesOK, AofInv
      <4>3. db = Replay(e, g.log)
        BY <4>2, <2>2, <2>3, ReplayFacts, SMTT(30)
      <4>4. incrs'[Current'] = g /\ Replay(e, g.log) \in Datasets
        BY <2>2, <2>3, <2>4, <2>6, ReplayFacts, Zenon DEF File
      <4> QED
        BY <4>3, <4>4, <1>3, ReplayFacts, Zenon
    <3>2. \A i \in 1..Len(aofBuf') : ~Unfinished(aofBuf'[i])
      BY <1>3
    <3> QED
      BY <3>1, <3>2, Zenon DEF SourcesOK
  <2>15. SyncedInOrder'
    <3> SUFFICES ASSUME ~revived, NEW i \in 1..L, NEW j \in 1..L, i < j, i \in Unsynced'
                 PROVE  incrs'[manifest.incr[j]].synced = 0
      BY <2>1, Zenon DEF SyncedInOrder
    <3>1. i # L /\ i < L
      BY <2>1
    <3>2. i \in Unsynced
      BY <3>1, <2>12, Zenon
    <3>3. incrs[manifest.incr[j]].synced = 0
      BY <3>2, <1>0, <2>1, Zenon DEF SyncedInOrder, AofInv
    <3>4. incrs[manifest.incr[i]].synced # Len(incrs[manifest.incr[i]].log)
      <4>1. PICK f \in File : f = incrs[manifest.incr[i]]
        BY <1>0, <2>1, Zenon DEF TypesOK
      <4>2. f.synced < Len(f.log) /\ f.synced \in Nat /\ Len(f.log) \in Nat
        BY <4>1, <3>2 DEF Unsynced, File
      <4>3. f.synced # Len(f.log)
        BY <4>2
      <4> QED
        BY <4>1, <4>3, Zenon
    <3>5. fsync # "always"
      BY <3>1, <3>4, <1>0, <2>1, Zenon DEF SyncOK, FileOf, AofInv
    <3>6. g.synced = incrs[Current].synced
      BY <3>5, <2>3, Zenon
    <3> QED
      BY <3>3, <3>6, <2>1, <2>4, <2>5, Zenon
  <2> QED
    BY <2>8, <2>9, <2>10, <2>11, <2>13, <2>14, <2>15, Zenon DEF AofInv
<1> QED
  BY <1>1, <1>2, <1>3, Zenon

(* The event loop, the rewrite child, and a step that changes nothing.     *)
LEMMA LoopInv ==
    ASSUME AofInv,
           Tick \/ beforeSleep \/ serverCronFlush \/ rewriteAppendOnlyFileBackground
             \/ rewriteAppendOnlyFile \/ backgroundRewriteFailed \/ UNCHANGED vars
    PROVE  AofInv'
<1>0. TypesOK /\ FilesOK /\ aofBuf \in Seq(Records)
  BY Zenon DEF AofInv, TypesOK
<1>1. ASSUME NEW force \in BOOLEAN, flushAppendOnlyFile(force)
      PROVE  /\ aofBuf' = <<>> \/ postponed'
             /\ force => aofBuf' = <<>>
  BY <1>1 DEF flushAppendOnlyFile, NothingToFlush
<1>2. CASE beforeSleep
  <2>1. ~postponed' => late' = 0
    <3>1. aofBuf' = <<>> \/ postponed'
      BY <1>1, <1>2, Zenon DEF beforeSleep
    <3>2. late' = Len(aofBuf')
      BY <1>2 DEF beforeSleep
    <3> QED
      BY <3>1, <3>2
  <2>2. UNCHANGED <<mode, fsync, now, db, bases, manifest, child, fault, revived>> /\ at' = "loop"
    BY <1>2 DEF beforeSleep, Running
  <2> QED
    BY <2>1, <2>2, <1>2, FlushInv, Zenon DEF beforeSleep
<1>3. CASE serverCronFlush
  <2>1. ~postponed' => late' = 0
    BY <1>1, <1>3, Zenon DEF serverCronFlush
  <2>2. UNCHANGED <<mode, fsync, now, db, bases, manifest, child, fault, revived>> /\ at' = "loop"
    BY <1>3 DEF serverCronFlush, Running
  <2> QED
    BY <2>1, <2>2, <1>3, FlushInv, Zenon DEF serverCronFlush
<1>4. CASE rewriteAppendOnlyFileBackground
  <2>1. aofBuf' = <<>> /\ late' = 0 /\ at' = "open" /\ child.state = "none"
    BY <1>1, <1>4, Zenon DEF rewriteAppendOnlyFileBackground
  <2>2. UNCHANGED <<mode, fsync, now, db, bases, manifest, child, fault, revived>>
    BY <1>4 DEF rewriteAppendOnlyFileBackground
  <2> QED
    BY <2>1, <2>2, <1>4, FlushInv, Zenon DEF rewriteAppendOnlyFileBackground
<1>5. CASE Tick \/ rewriteAppendOnlyFile \/ backgroundRewriteFailed \/ UNCHANGED vars
  <2>1. /\ UNCHANGED <<mode, fsync, db, aofBuf, late, postponed, bio, bases, incrs, manifest, at,
                       fault, revived>>
        /\ now' \in {now, now + 1}
        /\ \/ child' = child
           \/ child' = [child EXCEPT !.state = "done"] /\ child.state = "running"
           \/ child' = NoChild
    <3>1. CASE Tick
      BY <3>1 DEF Tick, memory, files
    <3>2. CASE rewriteAppendOnlyFile
      BY <3>2 DEF rewriteAppendOnlyFile, files
    <3>3. CASE backgroundRewriteFailed
      BY <3>3 DEF backgroundRewriteFailed, files
    <3>4. CASE UNCHANGED vars
      BY <3>4 DEF vars
    <3> QED
      BY <1>5, <3>1, <3>2, <3>3, <3>4, Zenon
  <2>2. /\ Prefix' = Prefix /\ Intact(manifest)' = Intact(manifest)
        /\ Torn(manifest)' = Torn(manifest) /\ Unsynced' = Unsynced /\ Current' = Current
        /\ FilesOK'
    BY <1>0, <2>1, FilesStay DEF FilesOK
  <2>3. /\ child' \in [state : {"none", "running", "done"}, data : Datasets]
        /\ child'.state # "none" => child'.data = child.data /\ child.state # "none"
    <3>1. Empty \in Datasets
      BY DEF Empty, Datasets
    <3>2. child \in [state : {"none", "running", "done"}, data : Datasets]
      BY <1>0 DEF TypesOK
    <3> QED
      BY <3>1, <3>2, <2>1 DEF NoChild
  <2>4. TypesOK'
    BY <1>0, <2>1, <2>3 DEF TypesOK
  <2>5. StagesOK'
    BY <2>1, <2>2, <2>3 DEF StagesOK, AofInv
  <2>6. SyncOK'
    BY <2>1, <2>2 DEF SyncOK, FileOf, AofInv
  <2>7. JobsOK'
    BY <2>1, <2>2 DEF JobsOK, AofInv
  <2>8. SyncedInOrder'
    BY <2>1, <2>2 DEF SyncedInOrder, AofInv
  <2>9. SourcesOK'
    <3>1. \A e : Stands(e)' => Stands(e)
      BY <2>1, <2>2, <2>3, Zenon DEF Stands
    <3> QED
      BY <3>1, <2>1, <2>2, Zenon DEF SourcesOK, AofInv
  <2> QED
    BY <2>2, <2>4, <2>5, <2>6, <2>7, <2>8, <2>9, Zenon DEF AofInv
<1> QED
  BY <1>2, <1>3, <1>4, <1>5, Zenon

(* The fsync thread. *)
LEMMA BioInv ==
    ASSUME AofInv, bioProcessBackgroundJobs
    PROVE  AofInv'
<1> DEFINE L == Len(manifest.incr)
           n == Head(bio).file
<1>0. TypesOK /\ FilesOK /\ LogFacts /\ JobsOK /\ bio # <<>> /\ mode = "up"
  BY LogShape DEF AofInv, bioProcessBackgroundJobs
<1>1. /\ UNCHANGED <<mode, fsync, now, db, aofBuf, late, postponed, covered, at, child, bases,
                     manifest, fault, revived>>
      /\ bio' = Tail(bio)
      /\ incrs' = IF n \in DOMAIN incrs THEN [incrs EXCEPT ![n] = Synced(@)] ELSE incrs
  BY Zenon DEF bioProcessBackgroundJobs, memory
<1>2. /\ L \in Nat \ {0} /\ DOMAIN manifest.incr = 1..L /\ Current = manifest.incr[L]
      /\ \A i \in 1..L : manifest.incr[i] \in Nat /\ manifest.incr[i] \in DOMAIN incrs
  BY <1>0, Zenon DEF LogFacts
<1>3. /\ DOMAIN incrs' = DOMAIN incrs /\ incrs' \in [DOMAIN incrs -> File]
      /\ \A m \in DOMAIN incrs :
            /\ incrs'[m].log = incrs[m].log /\ incrs'[m].torn = incrs[m].torn
            /\ incrs'[m].synced = IF m = n THEN Len(incrs[m].log) ELSE incrs[m].synced
            /\ incrs'[m].synced <= Len(incrs'[m].log)
            /\ m # n => incrs'[m] = incrs[m]
            /\ incrs[m] = NewFile => incrs'[m] = NewFile
  <2>1. \A m \in DOMAIN incrs : incrs[m] \in File
    BY <1>0 DEF LogFacts
  <2>2. ASSUME NEW f \in File
        PROVE  Synced(f) = [log |-> f.log, synced |-> Len(f.log), torn |-> f.torn]
    BY SMTT(30) DEF Synced, File
  <2>3. CASE n \in DOMAIN incrs
    <3>1. incrs' = [incrs EXCEPT ![n] = Synced(incrs[n])]
      BY <2>3, <1>1, Zenon
    <3>2. Synced(incrs[n]) = [log |-> incrs[n].log, synced |-> Len(incrs[n].log),
                              torn |-> incrs[n].torn]
      BY <2>1, <2>2, <2>3, Zenon
    <3>3. Synced(incrs[n]) \in File
      BY <3>2, <1>0, <2>3 DEF LogFacts, File
    <3>4. incrs' \in [DOMAIN incrs -> File] /\ DOMAIN incrs' = DOMAIN incrs
      BY <3>1, <3>3, <1>0, Zenon DEF TypesOK
    <3>5. incrs'[n] = Synced(incrs[n]) /\ \A m \in DOMAIN incrs : m # n => incrs'[m] = incrs[m]
      BY <3>1, <2>3, ZenonT(40)
    <3>6. incrs[n] = NewFile => incrs'[n] = NewFile
      BY <3>2, <3>5, SMTT(30) DEF NewFile
    <3>7. \A m \in DOMAIN incrs :
             incrs[m].synced <= Len(incrs[m].log) /\ Len(incrs[m].log) <= Len(incrs[m].log)
      BY <1>0, SMTT(30) DEF LogFacts
    <3>8. /\ incrs'[n].log = incrs[n].log /\ incrs'[n].torn = incrs[n].torn
          /\ incrs'[n].synced = Len(incrs[n].log)
      BY <3>2, <3>5
    <3> QED
      BY <3>4, <3>5, <3>6, <3>7, <3>8, Zenon
  <2>4. CASE n \notin DOMAIN incrs
    <3>1. incrs' = incrs /\ incrs \in [DOMAIN incrs -> File]
      BY <2>4, <1>0, <1>1, Zenon DEF TypesOK
    <3>2. \A m \in DOMAIN incrs : incrs[m].synced <= Len(incrs[m].log)
      BY <1>0, SMTT(30) DEF LogFacts
    <3> QED
      BY <2>4, <3>1, <3>2, Zenon
  <2> QED
    BY <2>3, <2>4, Zenon
<1>4. Prefix' = Prefix
  BY <1>1, <1>2, <1>3, PrefixStays, SMTT(30)
<1>5. Current' = Current /\ Torn(manifest)' = Torn(manifest)
  BY <1>1, <1>2, <1>3, SMTT(30) DEF Current, Torn
<1>5a. Intact(manifest)' = Intact(manifest)
  BY <1>1, <1>2, <1>3, ZenonT(40) DEF Intact
<1>6. Unsynced' = {i \in Unsynced : manifest.incr[i] # n}
  <2>1. \A m \in DOMAIN incrs :
           incrs'[m].synced < Len(incrs'[m].log) <=> m # n /\ incrs[m].synced < Len(incrs[m].log)
    <3>1. \A m \in DOMAIN incrs : ~(Len(incrs[m].log) < Len(incrs[m].log))
      BY <1>0 DEF LogFacts
    <3> QED
      BY <1>3, <3>1, Zenon
  <2>2. /\ manifest' = manifest
        /\ \A i \in DOMAIN manifest.incr : manifest.incr[i] \in DOMAIN incrs
    BY <1>0, <1>1, <1>2, Zenon DEF LogFacts
  <2> QED
    BY <2>1, <2>2, Zenon DEF Unsynced
<1>7. /\ Len(bio) \in Nat \ {0} /\ bio' \in Seq(Jobs) /\ Len(bio') = Len(bio) - 1
      /\ \A i \in 1..Len(bio') : bio'[i] = bio[i + 1]
      /\ bio[1].file = n
  BY <1>0, <1>1, SMTT(30) DEF TypesOK
<1>8. TypesOK'
  BY <1>0, <1>1, <1>3, <1>7, Zenon DEF TypesOK
<1>9. FilesOK'
  BY <1>0, <1>1, <1>3, Zenon DEF FilesOK
<1>10. StagesOK'
  BY <1>0, <1>1, <1>3, <1>4, <1>5, <1>5a, Zenon DEF StagesOK, AofInv
<1>11. SyncOK'
  BY <1>0, <1>1, <1>2, <1>3, <1>5, SMTT(30) DEF SyncOK, FileOf, AofInv
<1>12. JobsOK'
  <2>1. InFileOrder(bio', Current)
    BY <1>0, <1>7, SMTT(30) DEF JobsOK, InFileOrder
  <2>2. ASSUME ~revived, NEW i \in Unsynced', i < L
        PROVE  \E j \in DOMAIN bio' : bio'[j].file = manifest.incr[i]
    <3>1. i \in Unsynced /\ manifest.incr[i] # n
      BY <1>6
    <3>2. PICK j \in DOMAIN bio : bio[j].file = manifest.incr[i]
      BY <3>1, <2>2, <1>0 DEF JobsOK
    <3>3. DOMAIN bio = 1..Len(bio) /\ DOMAIN bio' = 1..Len(bio')
      BY <1>0, <1>7 DEF TypesOK
    <3>4. j \in 2..Len(bio)
      BY <3>1, <3>2, <3>3, <1>7
    <3>5. j - 1 \in 1..Len(bio') /\ bio'[j - 1] = bio[j]
      BY <3>4, <1>7
    <3> QED
      BY <3>2, <3>3, <3>5
  <2> QED
    BY <2>1, <2>2, <1>1, <1>5, Zenon DEF JobsOK
<1>13. SourcesOK'
  <2>1. \A e : Stands(e)' => Stands(e)
    BY <1>1, <1>4, <1>5a, Zenon DEF Stands
  <2>2. incrs'[Current'].log = incrs[Current].log
    BY <1>0, <1>3, <1>5, Zenon DEF LogFacts
  <2> QED
    BY <2>1, <2>2, <1>1, Zenon DEF SourcesOK, AofInv
<1>14. SyncedInOrder'
  <2> SUFFICES ASSUME ~revived, NEW i \in 1..L, NEW j \in 1..L, i < j, i \in Unsynced'
               PROVE  incrs'[manifest.incr[j]].synced = 0
    BY <1>1, <1>2 DEF SyncedInOrder
  <2>1. i \in Unsynced /\ manifest.incr[i] # n
    BY <1>6
  <2>2. incrs[manifest.incr[j]].synced = 0
    BY <2>1, <1>2, Zenon DEF SyncedInOrder, AofInv
  <2>3. PICK k \in DOMAIN bio : bio[k].file = manifest.incr[i]
    BY <2>1, <1>0, <1>2, SMTT(30) DEF JobsOK
  <2>4. n <= manifest.incr[i]
    <3>1. k \in 1..Len(bio) /\ 1 \in 1..Len(bio) /\ bio[1].file \in Nat
      BY <2>3, <1>0, <1>7, SMTT(30) DEF LogFacts
    <3>2. k = 1 \/ bio[1].file <= bio[k].file
      BY <3>1, <1>0, SMTT(30) DEF JobsOK, InFileOrder
    <3> QED
      BY <3>1, <3>2, <2>3, <1>7, SMTT(30)
  <2>5. manifest.incr[i] < manifest.incr[j]
    BY <1>0, <1>2, ZenonT(40) DEF FilesOK
  <2>6. manifest.incr[j] # n
    BY <2>4, <2>5, <1>0, <1>2, <1>7, SMTT(30) DEF LogFacts
  <2> QED
    BY <2>2, <2>6, <1>2, <1>3, Zenon
<1> QED
  BY <1>8, <1>9, <1>10, <1>11, <1>12, <1>13, <1>14, Zenon DEF AofInv
=============================================================================
