------------------------ MODULE AofRefinementProofs ------------------------
(* The append-only file implements the ledger. The durable dataset and the *)
(* tail of the ledger are the two sides of one cut through the records,    *)
(* behind those that fsync has covered without a gap. Most steps leave the *)
(* records as they are and can only move the cut on; a command adds a      *)
(* record behind it; a fault takes records from behind it and never from   *)
(* in front of it.                                                         *)
EXTENDS AofTheorems, AofRefinement

----------------------------------------------------------------------------
(* Sequences of records, cut and joined.                                   *)

(* The sequence a is what s holds from n + 1 on. *)
Part(a, s, n) == \A i \in 1..Len(a) : a[i] = s[n + i]

(* A sequence is made of its two parts. *)
LEMMA Glue ==
    ASSUME NEW s \in Seq(Records), NEW a \in Seq(Records), NEW b \in Seq(Records),
           Len(s) = Len(a) + Len(b), Part(a, s, 0), Part(b, s, Len(a))
    PROVE  s = a \o b
<1>1. a \o b \in Seq(Records) /\ Len(a \o b) = Len(s)
  OBVIOUS
<1>2. ASSUME NEW i \in 1..Len(s) PROVE (a \o b)[i] = s[i]
  <2>1. CASE i <= Len(a)
    <3>1. (a \o b)[i] = a[i]
      BY <2>1
    <3>2. i \in 1..Len(a) /\ 0 + i = i
      BY <2>1
    <3> QED
      BY <3>1, <3>2, Zenon DEF Part
  <2>2. CASE ~(i <= Len(a))
    <3>0. Len(a) \in Nat /\ Len(b) \in Nat /\ i \in 1..(Len(a) + Len(b))
      OBVIOUS
    <3>1. PICK k \in 1..Len(b) : k = i - Len(a)
      <4>1. i - Len(a) \in 1..Len(b)
        BY <2>2, <3>0
      <4> QED
        BY <4>1, Zenon
    <3>2. Len(a) + k = i
      BY <3>1
    <3>3. (a \o b)[i] = b[k]
      BY <3>1, <2>2
    <3> QED
      BY <3>2, <3>3, Zenon DEF Part
  <2> QED
    BY <2>1, <2>2
<1> QED
  BY <1>1, <1>2, SMTT(30)

(* A sequence with another behind it. *)
LEMMA JoinFacts ==
    ASSUME NEW s \in Seq(Records), NEW t \in Seq(Records)
    PROVE  /\ s \o t \in Seq(Records) /\ Len(s \o t) = Len(s) + Len(t)
           /\ SubSeq(s \o t, 1, Len(s)) = s
           /\ SubSeq(s \o t, Len(s) + 1, Len(s \o t)) = t
<1>1. s \o t \in Seq(Records) /\ Len(s \o t) = Len(s) + Len(t)
  OBVIOUS
<1>2. SubSeq(s \o t, 1, Len(s)) = s
  OBVIOUS
<1>3. SubSeq(s \o t, Len(s) + 1, Len(s \o t)) = t
  OBVIOUS
<1> QED
  BY <1>1, <1>2, <1>3, Zenon

(* A sequence cut in two. *)
LEMMA CutFacts ==
    ASSUME NEW s \in Seq(Records), NEW n \in 0..Len(s)
    PROVE  /\ SubSeq(s, 1, n) \in Seq(Records) /\ Len(SubSeq(s, 1, n)) = n
           /\ SubSeq(s, n + 1, Len(s)) \in Seq(Records)
           /\ Len(SubSeq(s, n + 1, Len(s))) = Len(s) - n
           /\ s = SubSeq(s, 1, n) \o SubSeq(s, n + 1, Len(s))
           /\ Part(SubSeq(s, 1, n), s, 0)
           /\ Part(SubSeq(s, n + 1, Len(s)), s, n)
<1>0. Len(s) \in Nat /\ n \in Nat /\ n <= Len(s)
  OBVIOUS
<1>1. SubSeq(s, 1, n) \in Seq(Records) /\ Len(SubSeq(s, 1, n)) = n
  OBVIOUS
<1>2. /\ SubSeq(s, n + 1, Len(s)) \in Seq(Records)
      /\ Len(SubSeq(s, n + 1, Len(s))) = Len(s) - n
  OBVIOUS
<1>3. Part(SubSeq(s, 1, n), s, 0)
  BY <1>0 DEF Part
<1>4. Part(SubSeq(s, n + 1, Len(s)), s, n)
  BY <1>0 DEF Part
<1>5. Len(s) = n + (Len(s) - n)
  BY <1>0
<1>6. s = SubSeq(s, 1, n) \o SubSeq(s, n + 1, Len(s))
  BY <1>1, <1>2, <1>3, <1>4, <1>5, Glue, Zenon
<1> QED
  BY <1>1, <1>2, <1>3, <1>4, <1>6, Zenon

(* Two sequences cut within the first, and within the second. *)
LEMMA CutLeft ==
    ASSUME NEW x \in Seq(Records), NEW y \in Seq(Records), NEW k \in 0..Len(x)
    PROVE  /\ SubSeq(x \o y, 1, k) = SubSeq(x, 1, k)
           /\ SubSeq(x \o y, k + 1, Len(x \o y)) = SubSeq(x, k + 1, Len(x)) \o y
<1>1. SubSeq(x \o y, 1, k) = SubSeq(x, 1, k)
  OBVIOUS
<1>2. Len(x) \in Nat /\ Len(y) \in Nat /\ k \in Nat /\ k <= Len(x)
  OBVIOUS
<1>3. PICK q \in Seq(Records) :
         /\ q = x \o y /\ Len(q) = Len(x) + Len(y)
         /\ \A i \in 1..Len(x) : q[i] = x[i]
         /\ \A i \in 1..Len(y) : q[Len(x) + i] = y[i]
  <2>1. /\ x \o y \in Seq(Records) /\ Len(x \o y) = Len(x) + Len(y)
        /\ \A i \in 1..Len(x) : (x \o y)[i] = x[i]
        /\ \A i \in 1..Len(y) : (x \o y)[Len(x) + i] = y[i]
    OBVIOUS
  <2> QED
    BY <2>1, Zenon
<1>4. PICK a \in Seq(Records) : /\ a = SubSeq(x, k + 1, Len(x)) /\ Len(a) = Len(x) - k
                                /\ Part(a, x, k)
  BY CutFacts, Zenon
<1>5. PICK w \in Seq(Records) : /\ w = SubSeq(q, k + 1, Len(q)) /\ Len(w) = Len(q) - k
                                /\ Part(w, q, k)
  <2>1. k \in 0..Len(q)
    BY <1>2, <1>3
  <2> QED
    BY <2>1, CutFacts, Zenon
<1>6. /\ Len(a) = Len(x) - k /\ Len(w) = (Len(x) + Len(y)) - k
      /\ Len(w) = Len(a) + Len(y) /\ Len(a) \in Nat
  <2>1. Len(a) = Len(x) - k /\ Len(w) = (Len(x) + Len(y)) - k
    BY <1>3, <1>4, <1>5, Zenon
  <2> QED
    BY <2>1, <1>2
<1>a. Part(a, w, 0)
  <2> SUFFICES ASSUME NEW i \in 1..Len(a) PROVE a[i] = w[0 + i]
    BY Zenon DEF Part
  <2>1. 0 + i = i /\ i \in 1..Len(w) /\ k + i \in 1..Len(x)
    BY <1>2, <1>6
  <2> QED
    BY <2>1, <1>3, <1>4, <1>5, ZenonT(40) DEF Part
<1>b. Part(y, w, Len(a))
  <2> SUFFICES ASSUME NEW i \in 1..Len(y) PROVE y[i] = w[Len(a) + i]
    BY Zenon DEF Part
  <2>1. Len(a) + i \in 1..Len(w) /\ k + (Len(a) + i) = Len(x) + i
    BY <1>2, <1>6
  <2> QED
    BY <2>1, <1>3, <1>5, ZenonT(40) DEF Part
<1>7. w = a \o y
  BY <1>6, <1>a, <1>b, Glue, Zenon
<1> QED
  BY <1>1, <1>3, <1>4, <1>5, <1>7, Zenon

(* The same when the cut is in the second. *)
LEMMA CutRight ==
    ASSUME NEW x \in Seq(Records), NEW y \in Seq(Records), NEW k \in 0..Len(y)
    PROVE  /\ SubSeq(x \o y, 1, Len(x) + k) = x \o SubSeq(y, 1, k)
           /\ SubSeq(x \o y, (Len(x) + k) + 1, Len(x \o y)) = SubSeq(y, k + 1, Len(y))
<1>1. SubSeq(x \o y, 1, Len(x) + k) = x \o SubSeq(y, 1, k)
  OBVIOUS
<1>2. SubSeq(x \o y, (Len(x) + k) + 1, Len(x \o y)) = SubSeq(y, k + 1, Len(y))
  OBVIOUS
<1> QED
  BY <1>1, <1>2, Zenon

(* Concatenation is associative. *)
LEMMA Associative ==
    ASSUME NEW x \in Seq(Records), NEW y \in Seq(Records), NEW z \in Seq(Records)
    PROVE  (x \o y) \o z = x \o (y \o z)
<1> DEFINE l == (x \o y) \o z
           r == x \o (y \o z)
<1>1. l \in Seq(Records) /\ r \in Seq(Records) /\ Len(l) = Len(r)
  OBVIOUS
<1>2. ASSUME NEW i \in 1..Len(l) PROVE l[i] = r[i]
  OBVIOUS
<1> QED
  BY <1>1, <1>2

(* The logs of the first m files, then those of the others. *)
LEMMA SplitAt ==
    ASSUME NEW n \in Nat, NEW l \in [1..n -> Seq(Records)], NEW m \in 0..n
    PROVE  /\ Concat([j \in 1..m |-> l[j]]) \in Seq(Records)
           /\ Concat([j \in 1..(n - m) |-> l[m + j]]) \in Seq(Records)
           /\ Concat(l) = Concat([j \in 1..m |-> l[j]])
                            \o Concat([j \in 1..(n - m) |-> l[m + j]])
<1> DEFINE a == [j \in 1..m |-> l[j]]
           b == [j \in 1..(n - m) |-> l[m + j]]
<1>1. a \in Seq(Seq(Records)) /\ b \in Seq(Seq(Records))
  OBVIOUS
<1>2. l = a \o b
  OBVIOUS
<1> HIDE DEF a, b
<1>3. Concat(a) \in Seq(Records) /\ Concat(b) \in Seq(Records)
  BY <1>1, ConcatFacts
<1>4. Concat(a \o b) = Concat(a) \o Concat(b)
  BY <1>1, ConcatFacts
<1> QED
  BY <1>2, <1>3, <1>4, Zenon DEF a, b

----------------------------------------------------------------------------
(* Lists of files, and how much of them fsync has covered.                 *)

(* The logs of n files, and how much of each fsync has covered. *)
LogList(n, l) == l \in [1..n -> Seq(Records)]
Counts(n, s) == s \in [1..n -> Nat]

(* The logs before the u-th file, its own, and those after it. *)
InThree(n, l, u) ==
    /\ Concat([j \in 1..(u - 1) |-> l[j]]) \in Seq(Records)
    /\ l[u] \in Seq(Records)
    /\ Concat([j \in 1..(n - u) |-> l[u + j]]) \in Seq(Records)
    /\ Concat(l) = (Concat([j \in 1..(u - 1) |-> l[j]]) \o l[u])
                     \o Concat([j \in 1..(n - u) |-> l[u + j]])

(* They make up the log. *)
LEMMA SplitThree ==
    ASSUME NEW n \in Nat, NEW l, LogList(n, l), NEW u \in 1..n
    PROVE  InThree(n, l, u)
<1> DEFINE d == [j \in 1..u |-> l[j]]
<1>1. /\ u \in 0..n /\ u \in Nat \ {0} /\ u \in 1..u
      /\ \A j \in 1..u : j \in 1..n
      /\ \A j \in 1..(u - 1) : j \in 1..u
  OBVIOUS
<1>2. d \in [1..u -> Seq(Records)] /\ l[u] \in Seq(Records)
  BY <1>1, Zenon DEF LogList
<1>3. d[u] = l[u] /\ [j \in 1..(u - 1) |-> d[j]] = [j \in 1..(u - 1) |-> l[j]]
  BY <1>1, Zenon
<1>4. /\ Concat([j \in 1..(n - u) |-> l[u + j]]) \in Seq(Records)
      /\ Concat(l) = Concat(d) \o Concat([j \in 1..(n - u) |-> l[u + j]])
  BY <1>1, SplitAt, Zenon DEF LogList
<1> HIDE DEF d
<1>5. /\ Concat([j \in 1..(u - 1) |-> d[j]]) \in Seq(Records)
      /\ Concat(d) = Concat([j \in 1..(u - 1) |-> d[j]]) \o d[u]
  BY <1>1, <1>2, SplitLogs, Zenon
<1> QED
  BY <1>2, <1>3, <1>4, <1>5, Zenon DEF InThree

(* A file further on has the whole of this one before it. *)
LEMMA LeadGrows ==
    ASSUME NEW m \in Nat, NEW k, LogList(m, k), NEW u \in 1..m, NEW v \in 1..m, u < v
    PROVE  /\ Len(Concat([j \in 1..(u - 1) |-> k[j]])) + Len(k[u])
                <= Len(Concat([j \in 1..(v - 1) |-> k[j]]))
           /\ Len(Concat([j \in 1..(v - 1) |-> k[j]])) \in Nat
<1>1. PICK x \in Nat : x = v - 1 /\ u \in 1..x /\ \A j \in 1..x : j \in 1..m
  OBVIOUS
<1>2. PICK c : c = [j \in 1..x |-> k[j]]
  BY Zenon
<1>3. LogList(x, c)
  BY <1>1, <1>2, Zenon DEF LogList
<1>4. [j \in 1..(u - 1) |-> c[j]] = [j \in 1..(u - 1) |-> k[j]] /\ c[u] = k[u]
  <2>1. \A j \in 1..(u - 1) : j \in 1..x
    BY <1>1
  <2> QED
    BY <2>1, <1>1, <1>2, Zenon
<1>5. InThree(x, c, u)
  BY <1>1, <1>3, SplitThree, Zenon
<1>6. PICK f \in Seq(Records), g \in Seq(Records), h \in Seq(Records) :
         f = Concat([j \in 1..(u - 1) |-> c[j]]) /\ g = c[u] /\ Concat(c) = (f \o g) \o h
  BY <1>5, Zenon DEF InThree
<1>7. Len(f) + Len(g) <= Len((f \o g) \o h) /\ Len((f \o g) \o h) \in Nat
  OBVIOUS
<1> QED
  BY <1>1, <1>2, <1>4, <1>6, <1>7, Zenon

(* Of n files with the logs l, of which fsync has covered s, u is the      *)
(* first that is not covered, or the last; so many records lead the log.   *)
FirstOf(u, n, l, s) ==
    /\ u \in 1..n
    /\ \A i \in 1..(u - 1) : s[i] = Len(l[i])
    /\ u < n => s[u] < Len(l[u])

Lead(l, s, u) == Len(Concat([j \in 1..(u - 1) |-> l[j]])) + s[u]

(* The files have only grown, at their end, and fsync has covered more. *)
Grown(n, l, s, k, r) ==
    /\ \A i \in 1..(n - 1) : k[i] = l[i]
    /\ Len(l[n]) <= Len(k[n])
    /\ \A i \in 1..n : s[i] <= Len(l[i]) /\ s[i] <= r[i]

(* Files that grow at their end lead with no fewer records. *)
LEMMA Advance ==
    ASSUME NEW n \in Nat \ {0}, NEW m \in Nat \ {0}, n <= m,
           NEW l, LogList(n, l), NEW s, Counts(n, s),
           NEW k, LogList(m, k), NEW r, Counts(m, r),
           Grown(n, l, s, k, r),
           NEW u, FirstOf(u, n, l, s), NEW v, FirstOf(v, m, k, r)
    PROVE  Lead(l, s, u) <= Lead(k, r, v)
<1>1. u \in 1..n /\ v \in 1..m /\ u \in Nat /\ v \in Nat
  BY DEF FirstOf
<1>2. /\ \A i \in 1..n : l[i] \in Seq(Records) /\ s[i] \in Nat /\ Len(l[i]) \in Nat
      /\ \A i \in 1..m : k[i] \in Seq(Records) /\ r[i] \in Nat /\ Len(k[i]) \in Nat
  BY DEF LogList, Counts
<1>3. u <= v
  <2> SUFFICES ASSUME v < u PROVE FALSE
    BY <1>1
  <2>1. v \in 1..(u - 1) /\ v \in 1..(n - 1) /\ v \in 1..n /\ v < m
    BY <1>1
  <2>2. s[v] = Len(l[v])
    BY <2>1, Zenon DEF FirstOf
  <2>3. k[v] = l[v] /\ s[v] <= r[v]
    BY <2>1, Zenon DEF Grown
  <2>4. r[v] < Len(k[v])
    BY <2>1, Zenon DEF FirstOf
  <2>5. s[v] \in Nat /\ r[v] \in Nat
    BY <1>1, <1>2, <2>1, Zenon
  <2> QED
    BY <2>2, <2>3, <2>4, <2>5
<1> DEFINE a == Concat([j \in 1..(u - 1) |-> l[j]])
<1>4. a = Concat([j \in 1..(u - 1) |-> k[j]])
  <2>1. \A j \in 1..(u - 1) : j \in 1..(n - 1)
    BY <1>1
  <2>2. [j \in 1..(u - 1) |-> k[j]] = [j \in 1..(u - 1) |-> l[j]]
    BY <2>1, Zenon DEF Grown
  <2> QED
    BY <2>2, Zenon
<1>5. a \in Seq(Records) /\ Len(a) \in Nat
  <2>1. u - 1 \in 0..n
    BY <1>1
  <2>2. a \in Seq(Records)
    BY <2>1, SplitAt, Zenon DEF LogList
  <2> QED
    BY <2>2
<1>6. s[u] <= Len(l[u]) /\ s[u] <= r[u] /\ s[u] \in Nat /\ r[u] \in Nat /\ u \in 1..m
  <2>1. u \in 1..m
    BY <1>1
  <2> QED
    BY <1>1, <1>2, <2>1, Zenon DEF Grown
<1>7. CASE v = u
  <2>1. Lead(l, s, u) = Len(a) + s[u] /\ Lead(k, r, v) = Len(a) + r[u]
    BY <1>4, <1>7, Zenon DEF Lead
  <2> HIDE DEF a
  <2> QED
    BY <2>1, <1>5, <1>6
<1>8. CASE v # u
  <2> DEFINE c == Concat([j \in 1..(v - 1) |-> k[j]])
  <2>7. k[u] \in Seq(Records) /\ Len(k[u]) \in Nat
    BY <1>2, <1>6, Zenon
  <2>8. Len(a) + Len(k[u]) <= Len(c) /\ Len(c) \in Nat
    <3>1. u < v
      BY <1>1, <1>3, <1>8
    <3> QED
      BY <3>1, <1>1, <1>4, <1>6, LeadGrows, Zenon
  <2>9. Len(l[u]) <= Len(k[u])
    <3>1. CASE u = n
      BY <3>1, Zenon DEF Grown
    <3>2. CASE u # n
      <4>1. u \in 1..(n - 1)
        BY <1>1, <3>2
      <4>2. k[u] = l[u]
        BY <4>1, Zenon DEF Grown
      <4> QED
        BY <4>2, <2>7
    <3> QED
      BY <3>1, <3>2
  <2>10. Lead(k, r, v) = Len(c) + r[v] /\ r[v] \in Nat
    BY <1>1, <1>2, Zenon DEF Lead
  <2>11. Lead(l, s, u) = Len(a) + s[u] /\ Len(l[u]) \in Nat
    BY <1>1, <1>2, Zenon DEF Lead
  <2> QED
    <3> HIDE DEF a, c
    <3>1. \A A, C, K, F, S, R \in Nat : A + K <= C /\ F <= K /\ S <= F => A + S <= C + R
      OBVIOUS
    <3>3. Len(a) + s[u] <= Len(c) + r[v]
      BY <3>1, <2>7, <2>8, <2>9, <2>10, <2>11, <1>5, <1>6, Zenon
    <3> QED
      BY <3>3, <2>10, <2>11, Zenon
<1> QED
  BY <1>7, <1>8

(* A log w that was cut after p records and is cut after q now: the tail   *)
(* loses its first records, and the dataset in front of it has them.       *)
MovedOn(b, w, p, q, t, r) ==
    /\ Len(t) - Len(r) = q - p
    /\ r = SubSeq(t, (q - p) + 1, Len(t))
    /\ Replay(b, SubSeq(w, 1, q)) = Replay(Replay(b, SubSeq(w, 1, p)), SubSeq(t, 1, q - p))

(* As fsync goes on from p to q, the first records of what was not covered *)
(* become durable.                                                         *)
LEMMA MoreSynced ==
    ASSUME NEW b \in Datasets, NEW w \in Seq(Records),
           NEW p \in 0..Len(w), NEW q \in 0..Len(w), p <= q,
           NEW t, t = SubSeq(w, p + 1, Len(w)), NEW r, r = SubSeq(w, q + 1, Len(w))
    PROVE  MovedOn(b, w, p, q, t, r)
<1>1. Len(w) \in Nat /\ p \in Nat /\ q \in Nat /\ p <= Len(w) /\ q <= Len(w)
  OBVIOUS
<1>2. t \in Seq(Records) /\ Len(t) = Len(w) - p /\ Len(SubSeq(w, q + 1, Len(w))) = Len(w) - q
  BY <1>1
<1>3. SubSeq(w, q + 1, Len(w)) = SubSeq(t, (q - p) + 1, Len(t))
  BY <1>1
<1>4. SubSeq(w, 1, q) = SubSeq(w, 1, p) \o SubSeq(t, 1, q - p)
  BY <1>1, SMTT(30)
<1>5. SubSeq(w, 1, p) \in Seq(Records) /\ SubSeq(t, 1, q - p) \in Seq(Records)
  BY <1>1, <1>2
<1>6. Replay(b, SubSeq(w, 1, q)) = Replay(Replay(b, SubSeq(w, 1, p)), SubSeq(t, 1, q - p))
  <2>1. \A x, y \in Seq(Records) : Replay(b, x \o y) = Replay(Replay(b, x), y)
    BY ReplayFacts, Zenon
  <2> QED
    BY <2>1, <1>4, <1>5, Zenon
<1>7. Len(t) - Len(SubSeq(w, q + 1, Len(w))) = q - p
  <2>1. \A x, y, z \in Nat : (x - y) - (x - z) = z - y
    OBVIOUS
  <2>2. (Len(w) - p) - (Len(w) - q) = q - p
    BY <2>1, <1>1, Zenon
  <2> QED
    BY <2>2, <1>2, Zenon
<1> QED
  BY <1>3, <1>6, <1>7, Zenon DEF MovedOn

(* A log of three parts and a buffer, cut after p records.  The cut leaves *)
(* k records of the middle part behind.                                    *)
Placed(w, p, x, y, z, f, k) ==
    /\ p \in 0..Len((x \o y) \o z)
    /\ SubSeq(w, 1, p) = x \o SubSeq(y, 1, k)
    /\ SubSeq(w, p + 1, Len(w)) = (SubSeq(y, k + 1, Len(y)) \o z) \o f

(* Where a log is cut that k records of its middle part are behind. *)
LEMMA Position ==
    ASSUME NEW x \in Seq(Records), NEW y \in Seq(Records), NEW z \in Seq(Records),
           NEW f \in Seq(Records), NEW k \in 0..Len(y),
           NEW w, w = ((x \o y) \o z) \o f, NEW p, p = Len(x) + k
    PROVE  Placed(w, p, x, y, z, f, k)
<1>1. PICK u \in Seq(Records) : u = x \o y /\ Len(u) = Len(x) + Len(y)
  BY JoinFacts, Zenon
<1>2. PICK v \in Seq(Records) : v = u \o z /\ Len(v) = Len(u) + Len(z)
  BY JoinFacts, Zenon
<1>3. p \in 0..Len(u) /\ p \in 0..Len(v)
  BY <1>1, <1>2
<1>4. SubSeq(w, 1, p) = SubSeq(v, 1, p) /\ SubSeq(w, p + 1, Len(w)) = SubSeq(v, p + 1, Len(v)) \o f
  <2>1. w = v \o f
    BY <1>1, <1>2, Zenon
  <2>2. /\ SubSeq(v \o f, 1, p) = SubSeq(v, 1, p)
        /\ SubSeq(v \o f, p + 1, Len(v \o f)) = SubSeq(v, p + 1, Len(v)) \o f
    BY <1>3, CutLeft, ZenonT(30)
  <2> QED
    BY <2>1, <2>2, Zenon
<1>5. SubSeq(v, 1, p) = SubSeq(u, 1, p) /\ SubSeq(v, p + 1, Len(v)) = SubSeq(u, p + 1, Len(u)) \o z
  BY <1>2, <1>3, CutLeft, ZenonT(40)
<1>6. SubSeq(u, 1, p) = x \o SubSeq(y, 1, k) /\ SubSeq(u, p + 1, Len(u)) = SubSeq(y, k + 1, Len(y))
  BY <1>1, CutRight, ZenonT(40)
<1> QED
  BY <1>1, <1>2, <1>3, <1>4, <1>5, <1>6, Zenon DEF Placed

----------------------------------------------------------------------------
(* The ledger of a state.                                                  *)

(* How much of each file fsync has covered, all the records in their       *)
(* order, and how many of them lead the log covered by fsync.              *)
Counted == [i \in 1..Len(manifest.incr) |-> FileOf(i).synced]
Whole == Concat(Logs(manifest)) \o aofBuf
SyncedTo == Lead(Logs(manifest), Counted, FirstUnsynced)

(* The durable dataset and the tail of the ledger, in these terms. *)
LedgerFacts ==
    /\ LogList(Len(manifest.incr), Logs(manifest))
    /\ Counts(Len(manifest.incr), Counted)
    /\ FirstOf(FirstUnsynced, Len(manifest.incr), Logs(manifest), Counted)
    /\ bases[manifest.base] \in Datasets
    /\ Concat(Logs(manifest)) \in Seq(Records) /\ aofBuf \in Seq(Records)
    /\ SyncedTo \in 0..Len(Concat(Logs(manifest)))
    /\ Durable = Replay(bases[manifest.base], SubSeq(Whole, 1, SyncedTo))
    /\ Pending = SubSeq(Whole, SyncedTo + 1, Len(Whole))

(* They hold whenever the types and the order of the files do. *)
LEMMA LedgerShape ==
    /\ TypesOK /\ FilesOK => LedgerFacts
    /\ (TypesOK /\ FilesOK => LedgerFacts)'
<1>1. ASSUME TypesOK, FilesOK PROVE LedgerFacts
  <2> DEFINE L == Len(manifest.incr)
             l == Logs(manifest)
             s == Counted
             u == FirstUnsynced
  <2>1. LogFacts /\ L \in Nat \ {0} /\ L \in Nat /\ DOMAIN manifest.incr = 1..L
    BY <1>1, LogShape DEF LogFacts
  <2>2. \A i \in 1..L : /\ l[i] = FileOf(i).log /\ l[i] \in Seq(Records) /\ Len(l[i]) \in Nat
                       /\ s[i] = FileOf(i).synced /\ s[i] \in Nat /\ s[i] \in 0..Len(l[i])
    BY <2>1 DEF LogFacts, Logs, Counted, FileOf
  <2>3. LogList(L, l) /\ Counts(L, s)
    <3>1. l = [i \in 1..L |-> l[i]] /\ s = [i \in 1..L |-> s[i]]
      BY Zenon DEF Logs, Counted
    <3> QED
      BY <2>2, <3>1, Zenon DEF LogList, Counts
  <2>4. \A i \in 1..L : i \in Unsynced <=> s[i] < Len(l[i])
    BY <2>1, <2>2, Zenon DEF Unsynced, FileOf
  <2> HIDE DEF l, s
  <2>5. FirstOf(u, L, l, s)
    <3>1. CASE Unsynced = {}
      <4>1. u = L /\ L \in 1..L /\ ~(L < L) /\ \A i \in 1..(L - 1) : i \in 1..L
        BY <3>1, <2>1 DEF FirstUnsynced
      <4>2. \A i \in 1..L : s[i] = Len(l[i])
        BY <3>1, <2>2, <2>4
      <4> QED
        BY <4>1, <4>2, Zenon DEF FirstOf
    <3>2. CASE Unsynced # {}
      <4>1. Unsynced \subseteq 1..L /\ Unsynced \subseteq Nat
        BY <2>1 DEF Unsynced
      <4>2. u \in Unsynced /\ \A i \in Unsynced : u <= i
        <5>1. \E m \in Unsynced : \A n \in Unsynced : m <= n
          BY <3>2, <4>1, LeastNatural, Zenon
        <5>2. u = Min(Unsynced)
          BY <3>2 DEF FirstUnsynced
        <5> QED
          BY <5>1, <5>2, Zenon DEF Min
      <4> HIDE DEF u
      <4>3. u \in 1..L /\ s[u] < Len(l[u])
        BY <4>1, <4>2, <2>4
      <4>4. ASSUME NEW i \in 1..(u - 1) PROVE s[i] = Len(l[i])
        <5>1. i \in 1..L /\ i \notin Unsynced
          BY <4>2, <4>3
        <5> QED
          BY <5>1, <2>2, <2>4
      <4> QED
        BY <4>3, <4>4 DEF FirstOf
    <3> QED
      BY <3>1, <3>2
  <2> HIDE DEF u
  <2>6. u \in 1..L /\ u \in DOMAIN manifest.incr
    BY <2>1, <2>5, Zenon DEF FirstOf
  <2> DEFINE x == Concat([j \in 1..(u - 1) |-> l[j]])
             z == Concat([j \in 1..(L - u) |-> l[u + j]])
  <2>7. InThree(L, l, u)
    BY <2>1, <2>3, <2>6, SplitThree, Zenon
  <2>8. Before(u) = x
    <3>1. \A j \in 1..(u - 1) : j \in 1..L
      BY <2>1, <2>6
    <3>2. [j \in 1..(u - 1) |-> FileOf(j).log] = [j \in 1..(u - 1) |-> l[j]]
      BY <2>2, <3>1, Zenon
    <3> QED
      BY <3>2, Zenon DEF Before
  <2>9. After(u) = z
    <3>1. \A j \in 1..(L - u) : u + j \in 1..L
      BY <2>1, <2>6
    <3>2. [j \in 1..(L - u) |-> FileOf(u + j).log] = [j \in 1..(L - u) |-> l[u + j]]
      BY <2>2, <3>1, Zenon
    <3> QED
      BY <3>2, Zenon DEF After
  <2>10. Durable = Replay(bases[manifest.base], Before(u) \o Covered(u))
    BY <2>6, Zenon DEF Durable, u
  <2>11. Pending = (Uncovered(u) \o After(u)) \o aofBuf
    BY <2>6, Zenon DEF Pending, u
  <2>12. Covered(u) = SubSeq(l[u], 1, s[u]) /\ Uncovered(u) = SubSeq(l[u], s[u] + 1, Len(l[u]))
    BY <2>2, <2>6, Zenon DEF Covered, Uncovered
  <2>13. aofBuf \in Seq(Records) /\ bases[manifest.base] \in Datasets
    BY <1>1 DEF TypesOK, FilesOK
  <2>14. /\ x \in Seq(Records) /\ l[u] \in Seq(Records) /\ z \in Seq(Records)
         /\ Concat(l) = (x \o l[u]) \o z
    BY <2>7, Zenon DEF InThree
  <2>15. SyncedTo = Len(x) + s[u] /\ s[u] \in 0..Len(l[u])
    BY <2>2, <2>6, Zenon DEF SyncedTo, Lead, u, l, s
  <2>16. Whole = Concat(l) \o aofBuf
    BY Zenon DEF Whole, l
  <2> HIDE DEF x, z
  <2>17. /\ SyncedTo \in 0..Len(Concat(l))
         /\ SubSeq(Whole, 1, SyncedTo) = x \o SubSeq(l[u], 1, s[u])
         /\ SubSeq(Whole, SyncedTo + 1, Len(Whole))
              = (SubSeq(l[u], s[u] + 1, Len(l[u])) \o z) \o aofBuf
    <3>1. Whole = ((x \o l[u]) \o z) \o aofBuf
      BY <2>14, <2>16, Zenon
    <3>2. /\ SyncedTo \in 0..Len((x \o l[u]) \o z)
          /\ SubSeq(Whole, 1, SyncedTo) = x \o SubSeq(l[u], 1, s[u])
          /\ SubSeq(Whole, SyncedTo + 1, Len(Whole))
               = (SubSeq(l[u], s[u] + 1, Len(l[u])) \o z) \o aofBuf
      <4>1. Placed(Whole, SyncedTo, x, l[u], z, aofBuf, s[u])
        BY <2>13, <2>14, <2>15, <3>1, Position, Zenon
      <4> QED
        BY <4>1, Zenon DEF Placed
    <3> QED
      BY <2>14, <3>2, Zenon
  <2>18. Concat(l) \in Seq(Records)
    <3>1. x \o l[u] \in Seq(Records)
      BY <2>14, JoinFacts, Zenon
    <3>2. (x \o l[u]) \o z \in Seq(Records)
      BY <2>14, <3>1, JoinFacts, Zenon
    <3> QED
      BY <2>14, <3>2, Zenon
  <2> QED
    BY <2>3, <2>5, <2>8, <2>9, <2>10, <2>11, <2>12, <2>13, <2>17, <2>18, Zenon
       DEF LedgerFacts, u, l, s
<1> QED
  BY <1>1, PTL

----------------------------------------------------------------------------
(* Steps that take no record away.                                         *)

(* What the ledger has, apart from whether the files are intact. *)
Books == <<Durable, Pending, fault>>

(* More of the log is covered by fsync than before, or as much: the ledger *)
(* takes the difference from its tail.                                     *)
LEMMA Syncs ==
    ASSUME NEW b \in Datasets, NEW w \in Seq(Records),
           NEW p \in 0..Len(w), NEW q \in 0..Len(w), p <= q,
           Durable = Replay(b, SubSeq(w, 1, p)), Pending = SubSeq(w, p + 1, Len(w)),
           Durable' = Replay(b, SubSeq(w, 1, q)), Pending' = SubSeq(w, q + 1, Len(w)),
           fault' = fault
    PROVE  Ledger!Sync \/ UNCHANGED Books
<1>1. CASE p = q
  BY <1>1, Zenon DEF Books
<1>2. CASE p < q
  <2>1. PICK t : t = SubSeq(w, p + 1, Len(w))
    OBVIOUS
  <2>2. PICK r : r = SubSeq(w, q + 1, Len(w))
    OBVIOUS
  <2>3. /\ Len(t) - Len(r) = q - p
        /\ r = SubSeq(t, (q - p) + 1, Len(t))
        /\ Replay(b, SubSeq(w, 1, q)) = Replay(Replay(b, SubSeq(w, 1, p)), SubSeq(t, 1, q - p))
    <3>1. MovedOn(b, w, p, q, t, r)
      BY <2>1, <2>2, MoreSynced, Zenon
    <3> QED
      BY <3>1, Zenon DEF MovedOn
  <2>4. Len(r) < Len(t)
    <3>1. Len(t) = Len(w) - p /\ Len(r) = Len(w) - q
      BY <2>1, <2>2, CutFacts, Zenon
    <3> QED
      BY <1>2, <3>1
  <2>5. Pending = t /\ Pending' = r
    BY <2>1, <2>2, Zenon
  <2>6. Len(Pending') < Len(Pending) /\ Len(Pending) - Len(Pending') = q - p
    BY <2>3, <2>4, <2>5, Zenon
  <2>7. Pending' = SubSeq(Pending, (q - p) + 1, Len(Pending))
    BY <2>3, <2>5, Zenon
  <2>8. Durable' = Replay(Durable, SubSeq(Pending, 1, q - p))
    BY <2>3, <2>5, Zenon
  <2> QED
    BY <2>6, <2>7, <2>8, Zenon DEF Ledger!Sync
<1> QED
  BY <1>1, <1>2

(* The records stay what they are and none is covered less than before. *)
LEMMA SameRecords ==
    ASSUME LedgerFacts, LedgerFacts', Whole' = Whole, fault' = fault,
           (bases[manifest.base])' = bases[manifest.base], SyncedTo <= SyncedTo'
    PROVE  Ledger!Sync \/ UNCHANGED Books
<1>1. PICK b \in Datasets : b = bases[manifest.base]
  BY Zenon DEF LedgerFacts
<1>2. PICK w \in Seq(Records) : w = Whole
  BY JoinFacts, Zenon DEF LedgerFacts, Whole
<1>3. SyncedTo \in 0..Len(w) /\ SyncedTo' \in 0..Len(w)
  <2>1. ASSUME NEW x \in Seq(Records), NEW y \in Seq(Records), NEW p \in 0..Len(x)
        PROVE  p \in 0..Len(x \o y)
    <3>1. Len(x \o y) = Len(x) + Len(y)
      BY JoinFacts, Zenon
    <3> QED
      BY <3>1
  <2>2. SyncedTo \in 0..Len(Whole)
    BY <2>1, Zenon DEF LedgerFacts, Whole
  <2>3. SyncedTo' \in 0..Len(Whole')
    BY <2>1, Zenon DEF LedgerFacts, Whole
  <2> QED
    BY <1>2, <2>2, <2>3, Zenon
<1>4. PICK p \in 0..Len(w) : p = SyncedTo
  BY <1>3, Zenon
<1>5. PICK q \in 0..Len(w) : q = SyncedTo'
  BY <1>3, Zenon
<1>6. p <= q
  BY <1>4, <1>5, Zenon
<1>7. Durable = Replay(b, SubSeq(w, 1, p)) /\ Pending = SubSeq(w, p + 1, Len(w))
  BY <1>1, <1>2, <1>4, Zenon DEF LedgerFacts
<1>8. Durable' = Replay(b, SubSeq(w, 1, q)) /\ Pending' = SubSeq(w, q + 1, Len(w))
  BY <1>1, <1>2, <1>5, Zenon DEF LedgerFacts
<1> QED
  BY <1>6, <1>7, <1>8, Syncs, Zenon

(* The files only grow at their end, and the records stay what they are. *)
LEMMA Grows ==
    ASSUME LedgerFacts, LedgerFacts', LogFacts, LogFacts',
           Len(manifest.incr) <= Len(manifest.incr)',
           Grown(Len(manifest.incr), Logs(manifest), Counted, Logs(manifest)', Counted'),
           Whole' = Whole, fault' = fault,
           (bases[manifest.base])' = bases[manifest.base]
    PROVE  Ledger!Sync \/ UNCHANGED Books
<1>1. PICK n \in Nat \ {0} : n = Len(manifest.incr)
  BY Zenon DEF LogFacts
<1>2. PICK m \in Nat \ {0} : m = Len(manifest.incr)'
  BY Zenon DEF LogFacts
<1>3. Lead(Logs(manifest), Counted, FirstUnsynced)
        <= Lead(Logs(manifest)', Counted', FirstUnsynced')
  <2>1. /\ n <= m /\ LogList(n, Logs(manifest)) /\ Counts(n, Counted)
        /\ FirstOf(FirstUnsynced, n, Logs(manifest), Counted)
        /\ Grown(n, Logs(manifest), Counted, Logs(manifest)', Counted')
    BY <1>1, <1>2, Zenon DEF LedgerFacts
  <2>2. /\ LogList(m, Logs(manifest)') /\ Counts(m, Counted')
        /\ FirstOf(FirstUnsynced', m, Logs(manifest)', Counted')
    BY <1>2, Zenon DEF LedgerFacts
  <2> QED
    BY <2>1, <2>2, Advance, Zenon
<1>4. SyncedTo <= SyncedTo'
  BY <1>3, Zenon DEF SyncedTo
<1> QED
  BY <1>4, SameRecords, Zenon

(* A log without unfinished blocks. *)
Sound(log) == \A j \in DOMAIN log : ~Unfinished(log[j])

(* What is written to such a log, or left of it, is one. *)
LEMMA SoundFacts ==
    /\ Sound(<<>>)
    /\ \A s, t \in Seq(Records) : Sound(s) /\ Sound(t) => Sound(s \o t)
    /\ \A s \in Seq(Records) : \A n \in 0..Len(s) : Sound(s) => Sound(SubSeq(s, 1, n))
<1>1. Sound(<<>>)
  BY DEF Sound
<1>2. ASSUME NEW s \in Seq(Records), NEW t \in Seq(Records), Sound(s), Sound(t),
             NEW j \in DOMAIN (s \o t)
      PROVE  ~Unfinished((s \o t)[j])
  <2>1. \/ j \in DOMAIN s /\ (s \o t)[j] = s[j]
        \/ j - Len(s) \in DOMAIN t /\ (s \o t)[j] = t[j - Len(s)]
    BY SMT
  <2> QED
    BY <1>2, <2>1, Zenon DEF Sound
<1>3. ASSUME NEW s \in Seq(Records), NEW n \in 0..Len(s), Sound(s),
             NEW j \in DOMAIN SubSeq(s, 1, n)
      PROVE  ~Unfinished(SubSeq(s, 1, n)[j])
  <2>1. j \in DOMAIN s /\ SubSeq(s, 1, n)[j] = s[j]
    BY SMT
  <2> QED
    BY <1>3, <2>1, Zenon DEF Sound
<1> QED
  BY <1>1, <1>2, <1>3, Zenon DEF Sound

LogsSound == \A i \in 1..Len(manifest.incr) : Sound(Logs(manifest)[i])

(* The files are intact when their logs are. *)
LEMMA IntactLogs ==
    /\ LogFacts => (Intact(manifest) <=> LogsSound)
    /\ (LogFacts => (Intact(manifest) <=> LogsSound))'
<1>1. LogFacts => (Intact(manifest) <=> LogsSound)
  BY Zenon DEF LogFacts, Intact, LogsSound, Logs, Sound
<1> QED
  BY <1>1, PTL

(* No record that waits to be written is an unfinished block. *)
LEMMA BufferSound ==
    ASSUME AofInv
    PROVE  Sound(aofBuf)
<1>1. aofBuf \in Seq(Records)
  BY Zenon DEF AofInv, TypesOK
<1>2. DOMAIN aofBuf = 1..Len(aofBuf)
  BY <1>1
<1> QED
  BY <1>2, Zenon DEF AofInv, SourcesOK, Sound

(* The step leaves the files intact. *)
StaysWhole == Intact(manifest)'

(* A step that changes no record, at most what fsync has covered. *)
Keeps ==
    /\ manifest'.incr = manifest.incr /\ aofBuf' = aofBuf /\ fault' = fault
    /\ bases'[manifest'.base] = bases[manifest.base]
    /\ \A i \in 1..Len(manifest.incr) :
          LET n == manifest.incr[i]
          IN  incrs'[n].log = incrs[n].log /\ incrs[n].synced <= incrs'[n].synced

(* Such a step is fsync, or nothing to the ledger. *)
LEMMA KeepsLedger ==
    ASSUME AofInv, AofInv', Intact(manifest), Keeps
    PROVE  StaysWhole /\ (Ledger!Sync \/ UNCHANGED Books)
<1>1. LedgerFacts /\ LedgerFacts' /\ LogFacts /\ LogFacts'
  BY LedgerShape, LogShape, Zenon DEF AofInv
<1> DEFINE L == Len(manifest.incr)
<1>2. L \in Nat \ {0} /\ Len(manifest.incr)' = L
  BY <1>1, Zenon DEF LogFacts, Keeps
<1>3. \A i \in 1..L : /\ Logs(manifest)'[i] = Logs(manifest)[i]
                      /\ Counted[i] <= Counted'[i]
                      /\ Counted[i] <= Len(Logs(manifest)[i])
                      /\ Len(Logs(manifest)[i]) \in Nat
  <2> SUFFICES ASSUME NEW i \in 1..L
               PROVE  /\ Logs(manifest)'[i] = Logs(manifest)[i]
                      /\ Counted[i] <= Counted'[i]
                      /\ Counted[i] <= Len(Logs(manifest)[i])
                      /\ Len(Logs(manifest)[i]) \in Nat
    OBVIOUS
  <2> DEFINE n == manifest.incr[i]
  <2>1. /\ Logs(manifest)'[i] = incrs'[n].log /\ Logs(manifest)[i] = incrs[n].log
        /\ Counted[i] = incrs[n].synced /\ Counted'[i] = incrs'[n].synced
    BY <1>2, Zenon DEF Logs, Counted, FileOf, Keeps
  <2>2. /\ incrs'[n].log = incrs[n].log /\ incrs[n].synced <= incrs'[n].synced
    BY Zenon DEF Keeps
  <2>3. incrs[n].synced \in 0..Len(incrs[n].log) /\ Len(incrs[n].log) \in Nat
    BY <1>1, Zenon DEF LogFacts
  <2>4. incrs[n].synced <= Len(incrs[n].log)
    BY <2>3
  <2> QED
    BY <2>1, <2>2, <2>3, <2>4, Zenon
<1>4. Logs(manifest)' = Logs(manifest)
  <2>1. Logs(manifest)' = [i \in 1..L |-> Logs(manifest)'[i]]
    BY <1>2, Zenon DEF Logs
  <2>2. Logs(manifest) = [i \in 1..L |-> Logs(manifest)[i]]
    BY Zenon DEF Logs
  <2> QED
    BY <1>3, <2>1, <2>2, Zenon
<1>5. Grown(L, Logs(manifest), Counted, Logs(manifest)', Counted')
  <2>1. L \in 1..L /\ \A i \in 1..(L - 1) : i \in 1..L
    BY <1>2
  <2>2. \A x \in Nat : x <= x
    OBVIOUS
  <2>3. Len(Logs(manifest)[L]) <= Len(Logs(manifest)'[L])
    BY <1>3, <2>1, <2>2, Zenon
  <2> QED
    BY <1>3, <2>1, <2>3, Zenon DEF Grown
<1>6. Whole' = Whole /\ fault' = fault /\ (bases[manifest.base])' = bases[manifest.base]
  BY <1>4, Zenon DEF Whole, Keeps
<1>7. Len(manifest.incr) <= Len(manifest.incr)'
  BY <1>2
<1>8. StaysWhole
  BY <1>1, <1>2, <1>4, IntactLogs, Zenon DEF LogsSound, StaysWhole
<1> QED
  BY <1>1, <1>5, <1>6, <1>7, <1>8, Grows, Zenon

(* The buffer goes to the end of the last file. *)
Writes ==
    /\ manifest' = manifest /\ bases' = bases /\ fault' = fault /\ aofBuf' = <<>>
    /\ \A i \in 1..Len(manifest.incr) :
          LET n == manifest.incr[i]
          IN  /\ incrs[n].synced <= incrs'[n].synced
              /\ incrs'[n].log = IF i = Len(manifest.incr) THEN incrs[n].log \o aofBuf
                                 ELSE incrs[n].log

(* Writing it is nothing to the ledger, unless fsync is waited for. *)
LEMMA WritesLedger ==
    ASSUME AofInv, AofInv', Intact(manifest), Writes
    PROVE  StaysWhole /\ (Ledger!Sync \/ UNCHANGED Books)
<1>1. LedgerFacts /\ LedgerFacts' /\ LogFacts /\ LogFacts'
  BY LedgerShape, LogShape, Zenon DEF AofInv
<1> DEFINE L == Len(manifest.incr)
           l == Logs(manifest)
           k == Logs(manifest)'
<1>2. L \in Nat \ {0} /\ Len(manifest.incr)' = L /\ aofBuf \in Seq(Records)
  BY <1>1, Zenon DEF LogFacts, LedgerFacts, Writes
<1>3. \A i \in 1..L : /\ k[i] = IF i = L THEN l[i] \o aofBuf ELSE l[i]
                      /\ Counted[i] <= Counted'[i]
                      /\ Counted[i] <= Len(l[i])
                      /\ Len(l[i]) \in Nat
                      /\ l[i] \in Seq(Records) /\ k[i] \in Seq(Records)
  <2> SUFFICES ASSUME NEW i \in 1..L
               PROVE  /\ k[i] = IF i = L THEN l[i] \o aofBuf ELSE l[i]
                      /\ Counted[i] <= Counted'[i]
                      /\ Counted[i] <= Len(l[i])
                      /\ Len(l[i]) \in Nat
                      /\ l[i] \in Seq(Records) /\ k[i] \in Seq(Records)
    OBVIOUS
  <2> DEFINE n == manifest.incr[i]
  <2>1. /\ k[i] = incrs'[n].log /\ l[i] = incrs[n].log
        /\ Counted[i] = incrs[n].synced /\ Counted'[i] = incrs'[n].synced
    BY <1>2, Zenon DEF Logs, Counted, FileOf, Writes
  <2>2. /\ incrs'[n].log = IF i = L THEN incrs[n].log \o aofBuf ELSE incrs[n].log
        /\ incrs[n].synced <= incrs'[n].synced
    BY Zenon DEF Writes
  <2>3. /\ incrs[n].synced \in 0..Len(incrs[n].log) /\ Len(incrs[n].log) \in Nat
        /\ incrs[n].log \in Seq(Records)
    BY <1>1, Zenon DEF LogFacts
  <2>4. incrs'[n].log \in Seq(Records)
    <3>1. i \in 1..Len(manifest.incr)' /\ n = manifest'.incr[i]
      BY <1>2, Zenon DEF Writes
    <3>2. n \in DOMAIN incrs'
      BY <1>1, <3>1, Zenon DEF LogFacts
    <3> QED
      BY <1>1, <3>2, Zenon DEF LogFacts
  <2>5. incrs[n].synced <= Len(incrs[n].log)
    BY <2>3
  <2> QED
    BY <2>1, <2>2, <2>3, <2>4, <2>5, Zenon
<1>4. L \in 1..L /\ \A i \in 1..(L - 1) : i \in 1..L /\ i # L
  BY <1>2
<1>5. Grown(L, l, Counted, k, Counted')
  <2>1. Len(l[L]) <= Len(k[L])
    <3>1. k[L] = l[L] \o aofBuf
      BY <1>3, <1>4, Zenon
    <3>2. Len(l[L] \o aofBuf) = Len(l[L]) + Len(aofBuf)
      BY <1>2, <1>3, <1>4, JoinFacts, Zenon
    <3>3. Len(aofBuf) \in Nat
      BY <1>2
    <3>3a. Len(l[L]) \in Nat
      BY <1>3, <1>4, Zenon
    <3>4. \A x, y \in Nat : x <= x + y
      OBVIOUS
    <3> QED
      BY <3>1, <3>2, <3>3, <3>3a, <3>4, Zenon
  <2> QED
    BY <1>3, <1>4, <2>1, Zenon DEF Grown
<1>6. Whole' = Whole
  <2>1. l \in [1..L -> Seq(Records)] /\ k \in [1..L -> Seq(Records)]
    <3>1. l = [i \in 1..L |-> l[i]] /\ k = [i \in 1..L |-> k[i]]
      BY <1>2, Zenon DEF Logs
    <3> QED
      BY <1>3, <3>1, Zenon
  <2> DEFINE f == Concat([j \in 1..(L - 1) |-> l[j]])
  <2>2. [j \in 1..(L - 1) |-> l[j]] = [j \in 1..(L - 1) |-> k[j]]
    BY <1>3, <1>4, Zenon
  <2>3. f \in Seq(Records) /\ Concat(l) = f \o l[L]
    BY <1>2, <2>1, SplitLogs, Zenon
  <2>4. Concat(k) = Concat([j \in 1..(L - 1) |-> k[j]]) \o k[L]
    BY <1>2, <2>1, SplitLogs, Zenon
  <2>5. Concat(k) = f \o (l[L] \o aofBuf)
    BY <1>3, <1>4, <2>2, <2>4, Zenon
  <2> HIDE DEF f
  <2>6. (f \o l[L]) \o aofBuf = f \o (l[L] \o aofBuf)
    BY <1>2, <1>3, <1>4, <2>3, Associative, Zenon
  <2>7. Concat(k) \in Seq(Records) /\ Whole' = Concat(k) \o <<>>
    BY <1>1, Zenon DEF LedgerFacts, Whole, Writes
  <2>8. Concat(k) \o <<>> = Concat(k)
    BY <2>7
  <2> QED
    BY <2>3, <2>5, <2>6, <2>7, <2>8, Zenon DEF Whole
<1>7. fault' = fault /\ (bases[manifest.base])' = bases[manifest.base]
  BY Zenon DEF Writes
<1>8. Len(manifest.incr) <= Len(manifest.incr)'
  BY <1>2
<1>9. StaysWhole
  <2>1. Sound(aofBuf) /\ \A i \in 1..L : Sound(l[i])
    BY <1>1, BufferSound, IntactLogs, Zenon DEF LogsSound
  <2>2. \A i \in 1..L : Sound(k[i])
    BY <1>2, <1>3, <2>1, SoundFacts, Zenon
  <2> QED
    BY <1>1, <1>2, <2>2, IntactLogs, Zenon DEF LogsSound, StaysWhole
<1> QED
  BY <1>1, <1>5, <1>6, <1>7, <1>8, <1>9, Grows, Zenon

(* A file is added that has no records yet. *)
Opens ==
    /\ manifest' = [manifest EXCEPT !.incr = Append(@, Current + 1)]
    /\ bases' = bases /\ fault' = fault /\ aofBuf' = aofBuf /\ incrs' = incrs
    /\ incrs[Current + 1] = NewFile

(* The ledger does not change, or takes the end of a file as synced. *)
LEMMA OpensLedger ==
    ASSUME AofInv, AofInv', Intact(manifest), Opens
    PROVE  StaysWhole /\ (Ledger!Sync \/ UNCHANGED Books)
<1>1. LedgerFacts /\ LedgerFacts' /\ LogFacts /\ LogFacts'
  BY LedgerShape, LogShape, Zenon DEF AofInv
<1> DEFINE L == Len(manifest.incr)
           l == Logs(manifest)
           k == Logs(manifest)'
<1>2. manifest.incr \in Seq(Nat) /\ L \in Nat \ {0} /\ Current \in Nat
  BY <1>1, Zenon DEF LogFacts, AofInv, TypesOK
<1>3. /\ Len(manifest.incr)' = L + 1 /\ manifest'.incr[L + 1] = Current + 1
      /\ \A i \in 1..L : manifest'.incr[i] = manifest.incr[i] /\ i \in 1..(L + 1)
  <2>1. manifest'.incr = Append(manifest.incr, Current + 1)
    BY DEF Opens, AofInv, TypesOK
  <2> QED
    BY <1>2, <2>1
<1>4. \A i \in 1..L : /\ k[i] = l[i] /\ Counted[i] = Counted'[i]
                      /\ Counted[i] <= Len(l[i]) /\ Counted[i] \in Nat /\ Len(l[i]) \in Nat
  <2> SUFFICES ASSUME NEW i \in 1..L
               PROVE  /\ k[i] = l[i] /\ Counted[i] = Counted'[i]
                      /\ Counted[i] <= Len(l[i]) /\ Counted[i] \in Nat /\ Len(l[i]) \in Nat
    OBVIOUS
  <2> DEFINE n == manifest.incr[i]
  <2>1. /\ k[i] = incrs[n].log /\ l[i] = incrs[n].log
        /\ Counted[i] = incrs[n].synced /\ Counted'[i] = incrs[n].synced
    BY <1>3, Zenon DEF Logs, Counted, FileOf, Opens
  <2>2. incrs[n].synced \in 0..Len(incrs[n].log) /\ Len(incrs[n].log) \in Nat
    BY <1>1, Zenon DEF LogFacts
  <2>3. incrs[n].synced <= Len(incrs[n].log) /\ incrs[n].synced \in Nat
    BY <2>2
  <2> QED
    BY <2>1, <2>2, <2>3, Zenon
<1>5. k[L + 1] = <<>>
  <2>1. L + 1 \in 1..(L + 1)
    BY <1>2
  <2>2. k[L + 1] = incrs[Current + 1].log
    BY <1>3, <2>1, Zenon DEF Logs, Opens
  <2> QED
    BY <2>2 DEF NewFile, Opens
<1>6. Grown(L, l, Counted, k, Counted')
  <2>1. L \in 1..L /\ \A i \in 1..(L - 1) : i \in 1..L
    BY <1>2
  <2>2. \A x \in Nat : x <= x
    OBVIOUS
  <2>3. Len(l[L]) <= Len(k[L]) /\ \A i \in 1..L : Counted[i] <= Counted'[i]
    BY <1>4, <2>1, <2>2, Zenon
  <2> QED
    BY <1>4, <2>1, <2>3, Zenon DEF Grown
<1>7. Whole' = Whole
  <2>1. LogList(L, l) /\ LogList(L + 1, k) /\ L + 1 \in Nat \ {0} /\ (L + 1) - 1 = L
    <3>1. L + 1 \in Nat \ {0} /\ (L + 1) - 1 = L
      BY <1>2
    <3> QED
      BY <1>1, <1>3, <3>1, Zenon DEF LedgerFacts
  <2>2. k \in [1..(L + 1) -> Seq(Records)]
    BY <2>1, Zenon DEF LogList
  <2>3. Concat(k) = Concat([j \in 1..((L + 1) - 1) |-> k[j]]) \o k[L + 1]
    BY <2>1, <2>2, SplitLogs, Zenon
  <2>4. [j \in 1..L |-> k[j]] = l
    <3>1. l = [j \in 1..L |-> l[j]]
      BY Zenon DEF Logs
    <3> QED
      BY <1>4, <3>1, Zenon
  <2>5. Concat(k) = Concat(l) \o <<>>
    BY <1>5, <2>1, <2>3, <2>4, Zenon
  <2>6. Concat(l) \in Seq(Records)
    BY <1>1, Zenon DEF LedgerFacts
  <2>7. Concat(l) \o <<>> = Concat(l)
    BY <2>6
  <2> QED
    BY <2>5, <2>7, Zenon DEF Whole, Opens
<1>8. fault' = fault /\ (bases[manifest.base])' = bases[manifest.base]
  <2>1. manifest'.base = manifest.base
    BY DEF Opens, AofInv, TypesOK
  <2> QED
    BY <2>1, Zenon DEF Opens
<1>9. Len(manifest.incr) <= Len(manifest.incr)'
  BY <1>2, <1>3
<1>10. StaysWhole
  <2>1. \A i \in 1..L : Sound(l[i])
    BY <1>1, IntactLogs, Zenon DEF LogsSound
  <2>2. \A i \in 1..(L + 1) : i \in 1..L \/ i = L + 1
    BY <1>2
  <2>3. \A i \in 1..(L + 1) : Sound(k[i])
    BY <1>4, <1>5, <2>1, <2>2, SoundFacts, Zenon
  <2> QED
    BY <1>1, <1>3, <2>3, IntactLogs, Zenon DEF LogsSound, StaysWhole
<1> QED
  BY <1>1, <1>6, <1>7, <1>8, <1>9, <1>10, Grows, Zenon

(* The ledger, with what is in the files apart from what is in the buffer. *)
LedgerCut ==
    /\ Durable = Replay(bases[manifest.base], SubSeq(Concat(Logs(manifest)), 1, SyncedTo))
    /\ Pending = SubSeq(Concat(Logs(manifest)), SyncedTo + 1, Len(Concat(Logs(manifest))))
                   \o aofBuf

(* The first record that fsync has not covered is in the files or behind   *)
(* them.                                                                   *)
LEMMA CutInFiles == (LedgerFacts => LedgerCut) /\ (LedgerFacts => LedgerCut)'
<1>1. ASSUME LedgerFacts PROVE LedgerCut
  <2>1. PICK c \in Seq(Records) : c = Concat(Logs(manifest))
    BY <1>1, Zenon DEF LedgerFacts
  <2>2. PICK p \in 0..Len(c) : p = SyncedTo
    BY <1>1, <2>1, Zenon DEF LedgerFacts
  <2>3. PICK f \in Seq(Records) : f = aofBuf
    BY <1>1, Zenon DEF LedgerFacts
  <2>4. /\ SubSeq(c \o f, 1, p) = SubSeq(c, 1, p)
        /\ SubSeq(c \o f, p + 1, Len(c \o f)) = SubSeq(c, p + 1, Len(c)) \o f
    BY CutLeft, Zenon
  <2>5. Whole = c \o f
    BY <2>1, <2>3, Zenon DEF Whole
  <2>6. /\ Durable = Replay(bases[manifest.base], SubSeq(Whole, 1, p))
        /\ Pending = SubSeq(Whole, p + 1, Len(Whole))
    BY <1>1, <2>2, Zenon DEF LedgerFacts
  <2> QED
    BY <2>1, <2>2, <2>3, <2>4, <2>5, <2>6, Zenon DEF LedgerCut
<1> QED
  BY <1>1, PTL

(* What the ledger sees of the files is the same when they are. *)
LEMMA SameFiles ==
    ASSUME UNCHANGED files
    PROVE  SyncedTo' = SyncedTo /\ Logs(manifest)' = Logs(manifest)
<1>1. incrs' = incrs /\ manifest' = manifest
  BY DEF files
<1>2. Logs(manifest)' = Logs(manifest) /\ Counted' = Counted /\ Unsynced' = Unsynced
  BY <1>1, Zenon DEF Logs, Counted, Unsynced, FileOf
<1>3. FirstUnsynced' = FirstUnsynced
  BY <1>1, <1>2, Zenon DEF FirstUnsynced
<1> QED
  BY <1>2, <1>3, Zenon DEF SyncedTo

(* A command that does something is one more record of the tail; one that  *)
(* does nothing changes nothing.                                           *)
LEMMA CallLedger ==
    ASSUME AofInv, AofInv', Intact(manifest), NEW d, NEW ops, call(d, ops)
    PROVE  StaysWhole /\ (Ledger!Record \/ Ledger!Sync \/ UNCHANGED Books)
<1>1. LedgerFacts /\ LedgerFacts' /\ LogFacts /\ LogFacts' /\ LedgerCut /\ LedgerCut'
  BY LedgerShape, LogShape, CutInFiles, Zenon DEF AofInv
<1>2. UNCHANGED files /\ fault' = fault /\ aofBuf' = feedAppendOnlyFile(ops)
  BY DEF call
<1>3. bases' = bases /\ incrs' = incrs /\ manifest' = manifest
  BY <1>2 DEF files
<1>4. SyncedTo' = SyncedTo /\ Logs(manifest)' = Logs(manifest)
  BY <1>2, SameFiles, Zenon
<1>5. Durable' = Durable
  BY <1>1, <1>3, <1>4, Zenon DEF LedgerCut
<1>5a. StaysWhole
  BY <1>3, Zenon DEF Intact, StaysWhole
<1>6. CASE ops = <<>>
  <2>1. aofBuf' = aofBuf
    BY <1>2, <1>6, Zenon DEF feedAppendOnlyFile
  <2>2. Pending' = Pending
    BY <1>1, <1>4, <2>1, Zenon DEF LedgerCut
  <2> QED
    BY <1>2, <1>5, <1>5a, <2>2, Zenon DEF Books
<1>7. CASE ops # <<>>
  <2>1. aofBuf' = Append(aofBuf, ops)
    BY <1>2, <1>7, Zenon DEF feedAppendOnlyFile
  <2>2. PICK c \in Seq(Records) : c = SubSeq(Concat(Logs(manifest)), SyncedTo + 1,
                                             Len(Concat(Logs(manifest))))
    BY <1>1, CutFacts, Zenon DEF LedgerFacts
  <2>3. PICK f \in Seq(Records) : f = aofBuf
    BY <1>1, Zenon DEF LedgerFacts
  <2>4. PICK g \in Seq(Records) : g = Append(f, ops)
    BY <1>1, <2>1, <2>3, Zenon DEF LedgerFacts
  <2>5. Pending = c \o f /\ Pending' = c \o g
    BY <1>1, <1>4, <2>1, <2>2, <2>3, <2>4, Zenon DEF LedgerCut
  <2>6. Len(g) = Len(f) + 1 /\ SubSeq(g, 1, Len(f)) = f
    BY <2>4
  <2>7. Len(c \o g) = Len(c \o f) + 1 /\ Len(c \o f) = Len(c) + Len(f) /\ Len(f) \in 0..Len(g)
    BY <2>6
  <2>8. SubSeq(c \o g, 1, Len(c) + Len(f)) = c \o SubSeq(g, 1, Len(f))
    BY <2>7, CutRight, Zenon
  <2>9. SubSeq(Pending', 1, Len(Pending)) = Pending
    BY <2>5, <2>6, <2>7, <2>8, Zenon
  <2>10. Len(Pending') = Len(Pending) + 1
    BY <2>5, <2>7, Zenon
  <2> QED
    BY <1>2, <1>5, <1>5a, <2>9, <2>10, Zenon DEF Ledger!Record
<1> QED
  BY <1>6, <1>7

(* Every command is a call. *)
LEMMA CommandsLedger ==
    ASSUME AofInv, AofInv', Intact(manifest), Commands
    PROVE  StaysWhole /\ (Ledger!Record \/ Ledger!Sync \/ UNCHANGED Books)
<1>1. \E d, ops : call(d, ops)
  BY Zenon DEF Commands, setGenericCommand, getCommand, delGenericCommand, expireGenericCommand,
         persistCommand, activeExpireCycleTryExpire
<1> QED
  BY <1>1, CallLedger, Zenon

(* A step that leaves the files of the manifest alone. *)
LEMMA KeepsFiles ==
    ASSUME AofInv, AofInv', Intact(manifest),
           manifest'.incr = manifest.incr, aofBuf' = aofBuf, fault' = fault,
           bases'[manifest'.base] = bases[manifest.base],
           \A i \in 1..Len(manifest.incr) : incrs'[manifest.incr[i]] = incrs[manifest.incr[i]]
    PROVE  StaysWhole /\ (Ledger!Sync \/ UNCHANGED Books)
<1>1. LogFacts
  BY LogShape, Zenon DEF AofInv
<1>2. \A i \in 1..Len(manifest.incr) : incrs[manifest.incr[i]].synced \in Nat
  <2> SUFFICES ASSUME NEW i \in 1..Len(manifest.incr)
               PROVE  incrs[manifest.incr[i]].synced \in Nat
    OBVIOUS
  <2>1. incrs[manifest.incr[i]].synced \in 0..Len(incrs[manifest.incr[i]].log)
    BY <1>1, Zenon DEF LogFacts
  <2>2. Len(incrs[manifest.incr[i]].log) \in Nat
    BY <1>1, Zenon DEF LogFacts
  <2> QED
    BY <2>1, <2>2
<1>3. \A x \in Nat : x <= x
  OBVIOUS
<1>4. Keeps
  BY <1>2, <1>3, Zenon DEF Keeps
<1> QED
  BY <1>4, KeepsLedger, Zenon

(* Flushing the buffer, with or without fsync, now or later. *)
LEMMA FlushLedger ==
    ASSUME AofInv, AofInv', Intact(manifest), NEW force, flushAppendOnlyFile(force),
           bases' = bases, manifest' = manifest, fault' = fault
    PROVE  StaysWhole /\ (Ledger!Sync \/ UNCHANGED Books)
<1>1. LogFacts /\ LogFacts'
  BY LogShape, Zenon DEF AofInv
<1>2. CASE incrs' = incrs /\ aofBuf' = aofBuf
  BY <1>2, KeepsFiles, Zenon
<1>4. CASE /\ aofBuf' = <<>>
           /\ \/ incrs' = [incrs EXCEPT ![Current] = WriteAndSync(@)]
              \/ incrs' = [incrs EXCEPT ![Current] = WriteOnly(@)]
  <2>1. \A i \in 1..Len(manifest.incr) :
           i # Len(manifest.incr) => incrs'[manifest.incr[i]] = incrs[manifest.incr[i]]
    <3> SUFFICES ASSUME NEW i \in 1..Len(manifest.incr), i # Len(manifest.incr)
                 PROVE  incrs'[manifest.incr[i]] = incrs[manifest.incr[i]]
      OBVIOUS
    <3>1. /\ manifest.incr[i] \in DOMAIN incrs
          /\ i < Len(manifest.incr) => manifest.incr[i] < Current
          /\ manifest.incr[i] \in Nat /\ Current \in Nat /\ Len(manifest.incr) \in Nat
      BY <1>1, Zenon DEF LogFacts
    <3>2. manifest.incr[i] # Current
      BY <3>1
    <3> QED
      BY <1>4, <3>1, <3>2, Zenon
  <2> DEFINE f == incrs[Current]
             g == incrs'[Current]
  <2>2. /\ f \in File /\ f.log \in Seq(Records) /\ f.synced \in 0..Len(f.log)
        /\ Current \in DOMAIN incrs /\ aofBuf \in Seq(Records)
    BY <1>1, Zenon DEF LogFacts, AofInv, TypesOK
  <2>3. g.log = f.log \o aofBuf /\ (g.synced = f.synced \/ g.synced = Len(f.log \o aofBuf))
    <3>1. g = WriteAndSync(f) \/ g = WriteOnly(f)
      BY <1>4, <2>2, Zenon
    <3> HIDE DEF g, f
    <3> QED
      BY <2>2, <3>1, Zenon DEF WriteAndSync, WriteOnly, Synced, Written, File
  <2>4. f.synced <= g.synced
    <3> HIDE DEF f, g
    <3>1. Len(f.log \o aofBuf) = Len(f.log) + Len(aofBuf)
      BY <2>2, JoinFacts, Zenon
    <3>2. Len(f.log) \in Nat /\ Len(aofBuf) \in Nat
      BY <2>2
    <3> QED
      BY <2>2, <2>3, <3>1, <3>2
  <2>5. \A i \in 1..Len(manifest.incr) :
           /\ incrs[manifest.incr[i]].synced <= incrs'[manifest.incr[i]].synced
           /\ incrs'[manifest.incr[i]].log
                = IF i = Len(manifest.incr) THEN incrs[manifest.incr[i]].log \o aofBuf
                  ELSE incrs[manifest.incr[i]].log
    <3> SUFFICES ASSUME NEW i \in 1..Len(manifest.incr)
        PROVE  /\ incrs[manifest.incr[i]].synced <= incrs'[manifest.incr[i]].synced
               /\ incrs'[manifest.incr[i]].log
                    = IF i = Len(manifest.incr) THEN incrs[manifest.incr[i]].log \o aofBuf
                      ELSE incrs[manifest.incr[i]].log
      OBVIOUS
    <3>1. CASE i = Len(manifest.incr)
      <4>1. manifest.incr[i] = Current
        BY <1>1, <3>1, Zenon DEF LogFacts
      <4> QED
        BY <2>3, <2>4, <3>1, <4>1, Zenon
    <3>2. CASE i # Len(manifest.incr)
      <4>1. incrs'[manifest.incr[i]] = incrs[manifest.incr[i]]
        BY <2>1, <3>2, Zenon
      <4>2. incrs[manifest.incr[i]].synced \in 0..Len(incrs[manifest.incr[i]].log)
        BY <1>1, Zenon DEF LogFacts
      <4>3. \A y : \A x \in 0..y : x <= x
        OBVIOUS
      <4> QED
        BY <3>2, <4>1, <4>2, <4>3, Zenon
    <3> QED
      BY <3>1, <3>2, Zenon
  <2>6. Writes
    BY <1>4, <2>5, Zenon DEF Writes
  <2> QED
    BY <2>6, WritesLedger, Zenon
<1> QED
  BY <1>2, <1>4, Zenon DEF flushAppendOnlyFile

(* The steps of the event loop and of the clock, and no step at all. *)
LEMMA LoopLedger ==
    ASSUME AofInv, AofInv', Intact(manifest),
           Tick \/ beforeSleep \/ serverCronFlush \/ UNCHANGED vars
    PROVE  StaysWhole /\ (Ledger!Sync \/ UNCHANGED Books)
<1>1. CASE Tick
  <2>1. /\ incrs' = incrs /\ manifest' = manifest /\ bases' = bases
        /\ fault' = fault /\ aofBuf' = aofBuf
    BY <1>1, Zenon DEF Tick, memory, files
  <2> QED
    BY <2>1, KeepsFiles, Zenon
<1>2. CASE beforeSleep
  <2>1. flushAppendOnlyFile(FALSE) /\ bases' = bases /\ manifest' = manifest /\ fault' = fault
    BY <1>2, Zenon DEF beforeSleep
  <2> QED
    BY <2>1, FlushLedger, Zenon
<1>3. CASE serverCronFlush
  <2>1. flushAppendOnlyFile(FALSE) /\ bases' = bases /\ manifest' = manifest /\ fault' = fault
    BY <1>3, Zenon DEF serverCronFlush
  <2> QED
    BY <2>1, FlushLedger, Zenon
<1>4. CASE UNCHANGED vars
  <2>1. /\ incrs' = incrs /\ manifest' = manifest /\ bases' = bases
        /\ fault' = fault /\ aofBuf' = aofBuf
    BY <1>4, Zenon DEF vars
  <2> QED
    BY <2>1, KeepsFiles, Zenon
<1> QED
  BY <1>1, <1>2, <1>3, <1>4, Zenon

(* The fsync thread covers a file, whichever it is. *)
LEMMA BioLedger ==
    ASSUME AofInv, AofInv', Intact(manifest), bioProcessBackgroundJobs
    PROVE  StaysWhole /\ (Ledger!Sync \/ UNCHANGED Books)
<1>1. manifest' = manifest /\ bases' = bases /\ fault' = fault /\ aofBuf' = aofBuf
  BY Zenon DEF bioProcessBackgroundJobs, memory
<1>2. LogFacts
  BY LogShape, Zenon DEF AofInv
<1>3. PICK h : incrs' = IF h \in DOMAIN incrs THEN [incrs EXCEPT ![h] = Synced(@)] ELSE incrs
  BY Zenon DEF bioProcessBackgroundJobs
<1>4. ASSUME NEW n \in DOMAIN incrs
      PROVE  incrs'[n].log = incrs[n].log /\ incrs[n].synced <= incrs'[n].synced
  <2>1. incrs'[n] = incrs[n] \/ incrs'[n] = Synced(incrs[n])
    BY <1>3, Zenon
  <2>2. PICK f \in File : f = incrs[n] /\ f.synced \in 0..Len(f.log) /\ Len(f.log) \in Nat
    BY <1>2, Zenon DEF LogFacts
  <2>3. Synced(f).log = f.log /\ Synced(f).synced = Len(f.log)
    BY DEF Synced, File
  <2>4. f.synced <= Len(f.log) /\ f.synced <= f.synced
    BY <2>2
  <2> QED
    BY <2>1, <2>2, <2>3, <2>4, Zenon
<1>5. \A i \in 1..Len(manifest.incr) : manifest.incr[i] \in DOMAIN incrs
  BY <1>2, Zenon DEF LogFacts
<1>6. Keeps
  BY <1>1, <1>4, <1>5, Zenon DEF Keeps
<1> QED
  BY <1>6, KeepsLedger, Zenon

(* A restart that leaves no unfinished block in a file takes no record     *)
(* from it: the file is truncated because its last record is torn, and     *)
(* behind its last whole one.                                              *)
LEMMA RestartLedger ==
    ASSUME AofInv, AofInv', Intact(manifest), Intact(manifest)', Restart
    PROVE  StaysWhole /\ (Ledger!Sync \/ UNCHANGED Books)
<1>1. manifest' = manifest /\ bases' = bases /\ fault' = fault /\ aofBuf' = aofBuf
  BY Zenon DEF Restart
<1>2. LogFacts
  BY LogShape, Zenon DEF AofInv
<1>3. ASSUME NEW i \in 1..Len(manifest.incr)
      PROVE  LET n == manifest.incr[i]
             IN  incrs'[n].log = incrs[n].log /\ incrs[n].synced <= incrs'[n].synced
  <2>1. PICK n \in DOMAIN incrs : n = manifest.incr[i]
    BY <1>2, Zenon DEF LogFacts
  <2>2. PICK f \in File : /\ f = incrs[n] /\ f = FileOf(i) /\ f.log \in Seq(Records)
                          /\ f.synced \in 0..Len(f.log)
    BY <1>2, <2>1, Zenon DEF LogFacts, FileOf
  <2>3. PICK g : g = incrs'[n] /\ g = FileOf(i)'
    BY <1>1, <2>1, Zenon DEF FileOf
  <2>4. CASE g = f
    <3>1. f.synced <= f.synced
      BY <2>2
    <3> QED
      BY <2>1, <2>2, <2>3, <2>4, <3>1, Zenon
  <2>5. CASE i \in Truncated(manifest) /\ Truncates(f, g)
    <3>1. i \in DOMAIN manifest.incr /\ DOMAIN manifest.incr = DOMAIN manifest'.incr
      BY <1>1, <1>2, Zenon DEF LogFacts
    <3>2. \A j \in DOMAIN f.log : ~Unfinished(f.log[j])
      BY <2>1, <2>2, <3>1, Zenon DEF Intact
    <3>3. \A j \in DOMAIN g.log : ~Unfinished(g.log[j])
      BY <1>1, <2>1, <2>3, <3>1, Zenon DEF Intact
    <3>4. Open(f.log) = {} /\ Executed(f.log) = f.log
      BY <2>2, <3>2, ExecutedFacts, Zenon
    <3>5. f.torn # <<>>
      BY <2>1, <2>2, <2>5, <3>4, Zenon DEF Truncated, EndsEarly
    <3>6. g.log = f.log /\ f.synced <= g.synced
      BY <2>5, <3>3, <3>4, <3>5, Zenon DEF Truncates
    <3> QED
      BY <2>1, <2>2, <2>3, <3>6, Zenon
  <2> QED
    BY <2>2, <2>3, <2>4, <2>5, RestartFiles, Zenon
<1>4. Keeps
  BY <1>1, <1>3, Zenon DEF Keeps
<1> QED
  BY <1>4, KeepsLedger, Zenon

(* The new base file holds what the old one and the closed files did, so   *)
(* that the ledger goes on behind them.                                    *)
LEMMA SwitchLedger ==
    ASSUME AofInv, AofInv', Intact(manifest), switchToNewBase
    PROVE  StaysWhole /\ (Ledger!Sync \/ UNCHANGED Books)
<1>1. LedgerFacts /\ LedgerFacts' /\ LogFacts /\ LogFacts'
  BY LedgerShape, LogShape, Zenon DEF AofInv
<1> DEFINE L == Len(manifest.incr)
           l == Logs(manifest)
           x == Concat([j \in 1..(L - 1) |-> l[j]])
           y == l[L]
<1>2. L \in Nat \ {0} /\ l \in [1..L -> Seq(Records)] /\ L \in 1..L
  <2>1. L \in Nat \ {0} /\ l \in [1..L -> Seq(Records)]
    BY <1>1, Zenon DEF LogFacts, LedgerFacts, LogList
  <2> QED
    BY <2>1
<1>3. /\ manifest'.base = manifest.base + 1 /\ manifest'.incr = <<manifest.incr[L]>>
      /\ bases' = bases /\ incrs' = incrs /\ fault' = fault /\ aofBuf' = aofBuf
      /\ at = "renamed"
  BY Zenon DEF switchToNewBase, persistAofManifest, markRewrittenIncrAofAsHistory, Last,
         getNewBaseFileNameAndMarkPreAsHistory, AofInv, TypesOK
<1>4. /\ Len(manifest.incr)' = 1 /\ Logs(manifest)' = <<y>> /\ Counted'[1] = Counted[L]
      /\ Counted[L] \in 0..Len(y) /\ Len(y) \in Nat
  <2>1. Len(manifest.incr)' = 1 /\ manifest'.incr[1] = manifest.incr[L] /\ 1 \in 1..1
    BY <1>3
  <2>2. Logs(manifest)' = [i \in 1..1 |-> y]
    <3>1. y = incrs[manifest.incr[L]].log
      BY <1>2, Zenon DEF Logs
    <3>2. \A i \in 1..1 : incrs'[manifest'.incr[i]].log = y
      BY <1>3, <2>1, <3>1
    <3> QED
      BY <2>1, <3>2, Zenon DEF Logs
  <2>3. Counted[L] = incrs[manifest.incr[L]].synced /\ Counted'[1] = incrs[manifest.incr[L]].synced
    BY <1>2, <1>3, <2>1, Zenon DEF Counted, FileOf
  <2>4. incrs[manifest.incr[L]].synced \in 0..Len(y) /\ Len(y) \in Nat
    BY <1>1, <1>2, Zenon DEF LogFacts, Logs
  <2> QED
    BY <2>1, <2>2, <2>3, <2>4
<1>5. /\ x \in Seq(Records) /\ y \in Seq(Records) /\ aofBuf \in Seq(Records)
      /\ Concat(l) = x \o y
  BY <1>1, <1>2, SplitLogs, Zenon DEF LedgerFacts
<1>6. Before(L) = x
  <2>1. \A j \in 1..(L - 1) : j \in 1..L
    BY <1>2
  <2>2. [j \in 1..(L - 1) |-> FileOf(j).log] = [j \in 1..(L - 1) |-> l[j]]
    BY <2>1, Zenon DEF Logs, FileOf
  <2> QED
    BY <2>2, Zenon DEF Before
<1>7. PICK b \in Datasets : b = bases[manifest.base] /\ (bases[manifest.base])' = Replay(b, x)
  <2>1. bases[manifest.base] \in Datasets
    BY <1>1, Zenon DEF LedgerFacts
  <2>2. bases[manifest.base + 1] = Prefix
    BY <1>3, Zenon DEF AofInv, StagesOK
  <2> QED
    BY <1>3, <1>6, <2>1, <2>2, Zenon DEF Prefix
<1>8. Concat(Logs(manifest)') = y /\ SyncedTo' = Counted[L]
  <2>1. Concat(<<y>>) = y
    BY <1>5, ConcatFacts, Zenon
  <2>2. FirstUnsynced' = 1
    <3>1. FirstUnsynced' \in 1..1
      BY <1>1, <1>4, Zenon DEF LedgerFacts, FirstOf
    <3> QED
      BY <3>1
  <2> HIDE DEF y
  <2>3. [j \in 1..(1 - 1) |-> <<y>>[j]] = <<>>
    OBVIOUS
  <2>4. Concat(<<>>) = <<>>
    BY ConcatFacts, Zenon
  <2>5. SyncedTo' = Len(Concat([j \in 1..(1 - 1) |-> <<y>>[j]])) + Counted[L]
    BY <1>4, <2>2, Zenon DEF SyncedTo, Lead
  <2>6. SyncedTo' = 0 + Counted[L]
    BY <2>3, <2>4, <2>5
  <2> QED
    BY <1>4, <2>1, <2>6
<1>9. PICK k \in 0..Len(y) : k = Counted[L]
  BY <1>4, Zenon
<1>10. PICK g \in Seq(Records) : g = y \o aofBuf /\ k \in 0..Len(g)
  <2> HIDE DEF x, y
  <2>1. y \o aofBuf \in Seq(Records) /\ Len(y \o aofBuf) = Len(y) + Len(aofBuf)
    BY <1>5, JoinFacts, Zenon
  <2>2. Len(aofBuf) \in Nat
    BY <1>5
  <2>3. k \in 0..Len(y \o aofBuf)
    BY <1>4, <2>1, <2>2
  <2> QED
    BY <2>1, <2>3, Zenon
<1>11. PICK w \in Seq(Records) : w = x \o g /\ Len(w) = Len(x) + Len(g)
  BY <1>5, JoinFacts, Zenon
<1>12. Whole = w /\ Whole' = g
  <2> HIDE DEF x, y
  <2>1. (x \o y) \o aofBuf = x \o (y \o aofBuf)
    BY <1>5, Associative, Zenon
  <2> QED
    BY <1>3, <1>5, <1>8, <1>10, <1>11, <2>1, Zenon DEF Whole
<1>13. PICK q \in 0..Len(w) : q = Len(x) + k
  <2> HIDE DEF x, y
  <2>1. Len(x) \in Nat /\ Len(g) \in Nat
    BY <1>5
  <2> QED
    BY <1>10, <1>11, <2>1
<1>14. PICK p \in 0..Len(w) : p = SyncedTo
  <2>1. SyncedTo \in 0..Len(x \o y)
    BY <1>1, <1>5, Zenon DEF LedgerFacts
  <2> HIDE DEF x, y
  <2>2. Len(x \o y) = Len(x) + Len(y) /\ Len(g) = Len(y) + Len(aofBuf)
    BY <1>5, <1>10, JoinFacts, Zenon
  <2>3. Len(x) \in Nat /\ Len(y) \in Nat /\ Len(aofBuf) \in Nat
    BY <1>5
  <2>4. SyncedTo \in 0..Len(w)
    BY <1>11, <2>1, <2>2, <2>3
  <2> QED
    BY <2>4
<1>15. p <= q
  <2> DEFINE u == FirstUnsynced
             a == Concat([j \in 1..(u - 1) |-> l[j]])
  <2>1. /\ LogList(L, l) /\ u \in 1..L /\ p = Len(a) + Counted[u] /\ q = Len(x) + Counted[L]
        /\ L \in Nat
    BY <1>1, <1>2, <1>9, <1>13, <1>14, Zenon DEF LedgerFacts, FirstOf, SyncedTo, Lead
  <2>2. CASE u = L
    <3>1. p = q
      BY <2>1, <2>2, Zenon
    <3> QED
      BY <3>1
  <2>3. CASE u # L
    <3>1. u < L
      BY <2>1, <2>3
    <3>2. Len(a) + Len(l[u]) <= Len(x)
      BY <1>2, <2>1, <3>1, LeadGrows, Zenon
    <3>3. Counted[u] \in 0..Len(l[u]) /\ Len(l[u]) \in Nat
      BY <1>1, <2>1, Zenon DEF Counted, Logs, LogFacts, FileOf
    <3>4. a \in Seq(Records)
      BY <1>2, <2>1, SplitThree, Zenon DEF InThree
    <3> HIDE DEF u, a, l, x, y
    <3>5. Len(a) \in Nat /\ Len(x) \in Nat
      BY <1>5, <3>4
    <3>6. Counted[u] \in Nat /\ Counted[u] <= Len(l[u])
      BY <3>3
    <3>7. \A i, c, m, n, j \in Nat : c <= m /\ i + m <= n => i + c <= n + j
      OBVIOUS
    <3>8. k \in Nat
      BY <1>4
    <3> QED
      BY <1>9, <2>1, <3>2, <3>3, <3>5, <3>6, <3>7, <3>8, Zenon
  <2> QED
    BY <2>2, <2>3
<1>16. /\ SubSeq(w, 1, q) = x \o SubSeq(g, 1, k)
       /\ SubSeq(w, q + 1, Len(w)) = SubSeq(g, k + 1, Len(g))
  <2> HIDE DEF x, y
  <2>1. x \in Seq(Records) /\ k \in 0..Len(g)
    BY <1>5, <1>10
  <2>2. /\ SubSeq(x \o g, 1, Len(x) + k) = x \o SubSeq(g, 1, k)
        /\ SubSeq(x \o g, (Len(x) + k) + 1, Len(x \o g)) = SubSeq(g, k + 1, Len(g))
    BY <2>1, CutRight, Zenon
  <2> QED
    BY <1>11, <1>13, <2>2, Zenon
<1>17. Durable = Replay(b, SubSeq(w, 1, p)) /\ Pending = SubSeq(w, p + 1, Len(w))
  BY <1>1, <1>7, <1>12, <1>14, Zenon DEF LedgerFacts
<1>18. Durable' = Replay(b, SubSeq(w, 1, q)) /\ Pending' = SubSeq(w, q + 1, Len(w))
  <2>1. Durable' = Replay(Replay(b, x), SubSeq(g, 1, k)) /\ Pending' = SubSeq(g, k + 1, Len(g))
    BY <1>1, <1>7, <1>8, <1>9, <1>12, Zenon DEF LedgerFacts
  <2>2. PICK v \in Seq(Records) : v = SubSeq(g, 1, k)
    BY <1>10, CutFacts, Zenon
  <2> HIDE DEF x, y
  <2>3. x \in Seq(Records)
    BY <1>5
  <2>4. \A s, t \in Seq(Records) : Replay(b, s \o t) = Replay(Replay(b, s), t)
    BY ReplayFacts, Zenon
  <2>5. Replay(b, x \o v) = Replay(Replay(b, x), v)
    BY <2>3, <2>4, Zenon
  <2> QED
    BY <1>16, <2>1, <2>2, <2>5, Zenon
<1>19. StaysWhole
  <2>1. \A i \in 1..1 : i = 1 /\ <<y>>[i] = y
    BY SMT
  <2>2. Sound(y)
    BY <1>1, <1>2, IntactLogs, Zenon DEF LogsSound
  <2> HIDE DEF y
  <2>3. \A i \in 1..1 : Sound(<<y>>[i])
    BY <2>1, <2>2, Zenon
  <2> QED
    BY <1>1, <1>4, <2>3, IntactLogs, Zenon DEF LogsSound, StaysWhole
<1> QED
  BY <1>3, <1>15, <1>17, <1>18, <1>19, Syncs, Zenon

(* The steps of a rewrite. *)
LEMMA RewriteLedger ==
    ASSUME AofInv, AofInv', Intact(manifest), Rewrite
    PROVE  StaysWhole /\ (Ledger!Sync \/ UNCHANGED Books)
<1>1. LogFacts /\ LogFacts'
  BY LogShape, Zenon DEF AofInv
<1>2. \A i \in 1..Len(manifest.incr) :
         /\ manifest.incr[i] \in DOMAIN incrs /\ manifest.incr[i] \in Nat
         /\ manifest.incr[i] # Current + 1
  <2> SUFFICES ASSUME NEW i \in 1..Len(manifest.incr)
               PROVE  /\ manifest.incr[i] \in DOMAIN incrs /\ manifest.incr[i] \in Nat
                      /\ manifest.incr[i] # Current + 1
    OBVIOUS
  <2>1. /\ manifest.incr[i] \in DOMAIN incrs /\ manifest.incr[i] \in Nat
        /\ i < Len(manifest.incr) => manifest.incr[i] < Current
        /\ Current = manifest.incr[Len(manifest.incr)] /\ Current \in Nat
        /\ Len(manifest.incr) \in Nat
    BY <1>1, Zenon DEF LogFacts
  <2>2. manifest.incr[i] <= Current
    <3>1. CASE i = Len(manifest.incr)
      BY <2>1, <3>1
    <3>2. CASE i # Len(manifest.incr)
      BY <2>1, <3>2
    <3> QED
      BY <3>1, <3>2
  <2> QED
    BY <2>1, <2>2
<1>3. /\ manifest.base \in DOMAIN bases /\ manifest.base # manifest.base + 1
      /\ manifest.base \notin manifest.oldBases
      /\ \A i \in 1..Len(manifest.incr) : manifest.incr[i] \notin manifest.oldIncrs
  <2>1. /\ manifest.base \in DOMAIN bases /\ manifest.base \in Nat
        /\ \A n \in manifest.oldBases : n < manifest.base
    BY DEF AofInv, FilesOK, TypesOK
  <2>2. \A i \in 1..Len(manifest.incr) : \A n \in manifest.oldIncrs : n < manifest.incr[i]
    BY <1>1, Zenon DEF AofInv, FilesOK, LogFacts
  <2>3. \A n \in Nat : ~(n < n) /\ n # n + 1
    OBVIOUS
  <2> QED
    BY <1>2, <2>1, <2>2, <2>3, Zenon
<1>4. CASE rewriteAppendOnlyFileBackground
  <2>1. flushAppendOnlyFile(TRUE) /\ bases' = bases /\ manifest' = manifest /\ fault' = fault
    BY <1>4, Zenon DEF rewriteAppendOnlyFileBackground
  <2> QED
    BY <2>1, FlushLedger, Zenon
<1>5. CASE createIncrFile
  <2>1. /\ bases' = bases /\ manifest' = manifest /\ fault' = fault /\ aofBuf' = aofBuf
        /\ incrs' = [n \in DOMAIN incrs \cup {Current + 1} |->
                        IF n = Current + 1 THEN NewFile ELSE incrs[n]]
    BY <1>5, Zenon DEF createIncrFile
  <2>2. \A i \in 1..Len(manifest.incr) : incrs'[manifest.incr[i]] = incrs[manifest.incr[i]]
    BY <1>2, <2>1, Zenon
  <2> QED
    BY <2>1, <2>2, KeepsFiles, Zenon
<1>6. CASE openNewIncrAofForAppend
  <2>1. Opens
    BY <1>6, Zenon DEF openNewIncrAofForAppend, persistAofManifest, Opens, AofInv, StagesOK
  <2> QED
    BY <2>1, OpensLedger, Zenon
<1>7. CASE rewriteAppendOnlyFile \/ backgroundRewriteFailed
  <2>1. /\ incrs' = incrs /\ manifest' = manifest /\ bases' = bases
        /\ fault' = fault /\ aofBuf' = aofBuf
    BY <1>7, Zenon DEF rewriteAppendOnlyFile, backgroundRewriteFailed, files
  <2> QED
    BY <2>1, KeepsFiles, Zenon
<1>8. CASE backgroundRewriteDoneHandler
  <2>1. /\ incrs' = incrs /\ manifest' = manifest /\ fault' = fault /\ aofBuf' = aofBuf
        /\ bases' = [n \in DOMAIN bases \cup {manifest.base + 1} |->
                        IF n = manifest.base + 1 THEN child.data ELSE bases[n]]
    BY <1>8, Zenon DEF backgroundRewriteDoneHandler
  <2>2. bases'[manifest.base] = bases[manifest.base]
    BY <1>3, <2>1, Zenon
  <2> QED
    BY <2>1, <2>2, KeepsFiles, Zenon
<1>9. CASE switchToNewBase
  BY <1>9, SwitchLedger, Zenon
<1>10. CASE aofDelHistoryFiles
  <2>1. /\ manifest' = manifest /\ fault' = fault /\ aofBuf' = aofBuf
        /\ bases' = [n \in DOMAIN bases \ manifest.oldBases |-> bases[n]]
        /\ incrs' = [n \in DOMAIN incrs \ manifest.oldIncrs |-> incrs[n]]
    BY <1>10, Zenon DEF aofDelHistoryFiles
  <2>2. bases'[manifest.base] = bases[manifest.base]
    BY <1>3, <2>1, Zenon
  <2>3. \A i \in 1..Len(manifest.incr) : incrs'[manifest.incr[i]] = incrs[manifest.incr[i]]
    BY <1>2, <1>3, <2>1, Zenon
  <2> QED
    BY <2>1, <2>2, <2>3, KeepsFiles, Zenon
<1>11. CASE forgetHistory
  <2>1. /\ incrs' = incrs /\ bases' = bases /\ fault' = fault /\ aofBuf' = aofBuf
        /\ manifest'.base = manifest.base /\ manifest'.incr = manifest.incr
    BY <1>11 DEF forgetHistory, persistAofManifest, AofInv, TypesOK
  <2> QED
    BY <2>1, KeepsFiles, Zenon
<1> QED
  BY <1>4, <1>5, <1>6, <1>7, <1>8, <1>9, <1>10, <1>11, Zenon DEF Rewrite

----------------------------------------------------------------------------
(* Some records of a log, in their order.                                  *)

(* The records of s are some of t, in the same order: at places f. *)
Places(f, s, t) ==
    /\ f \in [1..Len(s) -> 1..Len(t)]
    /\ \A i, j \in 1..Len(s) : i < j => f[i] < f[j]
    /\ \A i \in 1..Len(s) : s[i] = t[f[i]]
Picked(s, t) == Len(s) <= Len(t) /\ \E f : Places(f, s, t)

(* A log that is cut short has some of its records. *)
LEMMA PickedPrefix ==
    ASSUME NEW t \in Seq(Records), NEW n \in 0..Len(t)
    PROVE  Picked(SubSeq(t, 1, n), t)
<1>1. PICK s \in Seq(Records) : s = SubSeq(t, 1, n) /\ Len(s) = n
  BY CutFacts, Zenon
<1>2. Len(s) <= Len(t) /\ \A i \in 1..Len(s) : i \in 1..Len(t) /\ s[i] = t[i]
  BY <1>1
<1>3. PICK f : f = [i \in 1..Len(s) |-> i]
  BY Zenon
<1>4. Places(f, s, t)
  BY <1>2, <1>3, Zenon DEF Places
<1> QED
  BY <1>1, <1>2, <1>4, Zenon DEF Picked

(* Where the records of two logs are, one after the other. *)
LEMMA JoinPlaces ==
    ASSUME NEW a \in Seq(Records), NEW c \in Seq(Records)
    PROVE  /\ \A i \in 1..Len(a) : (a \o c)[i] = a[i]
           /\ \A i \in 1..Len(c) : (a \o c)[Len(a) + i] = c[i]
<1>1. \A i \in 1..Len(a) : (a \o c)[i] = a[i]
  OBVIOUS
<1>2. \A i \in 1..Len(c) : (a \o c)[Len(a) + i] = c[i]
  OBVIOUS
<1> QED
  BY <1>1, <1>2, Zenon

(* Of two logs one after the other, too. *)
LEMMA PickedJoin ==
    ASSUME NEW a \in Seq(Records), NEW b \in Seq(Records),
           NEW c \in Seq(Records), NEW d \in Seq(Records), Picked(a, b), Picked(c, d)
    PROVE  Picked(a \o c, b \o d)
<1>1. PICK g : Places(g, a, b)
  BY DEF Picked
<1>2. PICK h : Places(h, c, d)
  BY DEF Picked
<1>3. PICK m \in Nat, n \in Nat, k \in Nat, l \in Nat :
         m = Len(a) /\ n = Len(c) /\ k = Len(b) /\ l = Len(d) /\ m <= k /\ n <= l
  <2>1. Len(a) \in Nat /\ Len(b) \in Nat /\ Len(c) \in Nat /\ Len(d) \in Nat
    OBVIOUS
  <2> QED
    BY <2>1, Zenon DEF Picked
<1>4. PICK s \in Seq(Records) : /\ s = a \o c /\ Len(s) = m + n
                                /\ \A i \in 1..m : s[i] = a[i]
                                /\ \A i \in 1..n : s[m + i] = c[i]
  <2>1. a \o c \in Seq(Records) /\ Len(a \o c) = Len(a) + Len(c)
    BY JoinFacts, Zenon
  <2>2. /\ \A i \in 1..Len(a) : (a \o c)[i] = a[i]
        /\ \A i \in 1..Len(c) : (a \o c)[Len(a) + i] = c[i]
    BY JoinPlaces, Zenon
  <2> QED
    BY <1>3, <2>1, <2>2, Zenon
<1>5. PICK t \in Seq(Records) : /\ t = b \o d /\ Len(t) = k + l
                                /\ \A i \in 1..k : t[i] = b[i]
                                /\ \A i \in 1..l : t[k + i] = d[i]
  <2>1. b \o d \in Seq(Records) /\ Len(b \o d) = Len(b) + Len(d)
    BY JoinFacts, Zenon
  <2>2. /\ \A i \in 1..Len(b) : (b \o d)[i] = b[i]
        /\ \A i \in 1..Len(d) : (b \o d)[Len(b) + i] = d[i]
    BY JoinPlaces, Zenon
  <2> QED
    BY <1>3, <2>1, <2>2, Zenon
<1>6. PICK f : f = [i \in 1..(m + n) |-> IF i <= m THEN g[i] ELSE k + h[i - m]]
  BY Zenon
<1>7. /\ \A i \in 1..m : g[i] \in 1..k /\ a[i] = b[g[i]]
      /\ \A i \in 1..n : h[i] \in 1..l /\ c[i] = d[h[i]]
      /\ \A i, j \in 1..m : i < j => g[i] < g[j]
      /\ \A i, j \in 1..n : i < j => h[i] < h[j]
  BY <1>1, <1>2, <1>3, Zenon DEF Places
<1>8. ASSUME NEW i \in 1..(m + n)
      PROVE  f[i] \in 1..(k + l) /\ s[i] = t[f[i]]
  <2>1. CASE i <= m
    <3>1. i \in 1..m /\ f[i] = g[i]
      BY <1>6, <2>1
    <3>2. g[i] \in 1..k /\ s[i] = a[i] /\ a[i] = b[g[i]] /\ t[g[i]] = b[g[i]]
      BY <1>4, <1>5, <1>7, <3>1, Zenon
    <3>3. \A x \in 1..k : x \in 1..(k + l)
      OBVIOUS
    <3> QED
      BY <3>1, <3>2, <3>3, Zenon
  <2>2. CASE ~(i <= m)
    <3>1. PICK e \in 1..n : e = i - m /\ i = m + e
      BY <2>2
    <3>2. f[i] = k + h[e]
      BY <1>6, <2>2, <3>1, Zenon
    <3>3. h[e] \in 1..l /\ s[i] = c[e] /\ c[e] = d[h[e]] /\ t[k + h[e]] = d[h[e]]
      BY <1>4, <1>5, <1>7, <3>1, Zenon
    <3>4. \A x \in 1..l : k + x \in 1..(k + l)
      OBVIOUS
    <3> QED
      BY <3>2, <3>3, <3>4, Zenon
  <2> QED
    BY <2>1, <2>2
<1>9. ASSUME NEW i \in 1..(m + n), NEW j \in 1..(m + n), i < j
      PROVE  f[i] < f[j]
  <2>1. CASE j <= m
    <3>1. i \in 1..m /\ j \in 1..m /\ f[i] = g[i] /\ f[j] = g[j]
      BY <1>6, <1>9, <2>1
    <3> QED
      BY <1>7, <1>9, <3>1, Zenon
  <2>2. CASE i <= m /\ ~(j <= m)
    <3>1. i \in 1..m /\ f[i] = g[i]
      BY <1>6, <2>2
    <3>2. PICK e \in 1..n : e = j - m
      BY <2>2
    <3>3. f[j] = k + h[e]
      BY <1>6, <2>2, <3>2, Zenon
    <3>4. \A x \in 1..k, y \in 1..l : x < k + y
      OBVIOUS
    <3> QED
      BY <1>7, <3>1, <3>3, <3>4, Zenon
  <2>3. CASE ~(i <= m)
    <3>1. PICK e \in 1..n : e = i - m
      BY <2>3
    <3>2. PICK q \in 1..n : q = j - m /\ ~(j <= m) /\ e < q
      BY <1>9, <2>3, <3>1
    <3>3. f[i] = k + h[e] /\ f[j] = k + h[q]
      BY <1>6, <2>3, <3>1, <3>2, Zenon
    <3>4. \A x, y \in 1..l : x < y => k + x < k + y
      OBVIOUS
    <3> QED
      BY <1>7, <3>2, <3>3, <3>4, Zenon
  <2> QED
    BY <2>1, <2>2, <2>3
<1>10. f \in [1..(m + n) -> 1..(k + l)]
  BY <1>6, <1>8, Zenon
<1>11. Places(f, s, t) /\ Len(s) <= Len(t)
  <2>1. m + n <= k + l
    BY <1>3
  <2> QED
    BY <1>4, <1>5, <1>8, <1>9, <1>10, <2>1, Zenon DEF Places
<1> QED
  BY <1>4, <1>5, <1>11, Zenon DEF Picked

(* Of a list of logs, each of them cut short, or not at all. *)
LEMMA PickedFiles ==
    ASSUME NEW n \in Nat, NEW k, LogList(n, k), NEW l, LogList(n, l),
           \A i \in 1..n : Picked(k[i], l[i])
    PROVE  Picked(Concat(k), Concat(l))
<1> DEFINE Front(c, m) == Concat([j \in 1..m |-> c[j]])
           Bad == {m \in 0..n : ~Picked(Front(k, m), Front(l, m))}
<1>1. ASSUME NEW c, LogList(n, c), NEW m \in 1..n
      PROVE  /\ Front(c, m) = Front(c, m - 1) \o c[m]
             /\ Front(c, m - 1) \in Seq(Records) /\ c[m] \in Seq(Records)
  <2>1. m \in Nat \ {0} /\ m \in 1..m /\ \A j \in 1..m : j \in 1..n
    OBVIOUS
  <2>2. \A j \in 1..(m - 1) : j \in 1..m
    OBVIOUS
  <2> DEFINE d == [j \in 1..m |-> c[j]]
  <2>3. d \in [1..m -> Seq(Records)] /\ c[m] \in Seq(Records)
    BY <1>1, <2>1, Zenon DEF LogList
  <2>4. d[m] = c[m] /\ [j \in 1..(m - 1) |-> d[j]] = [j \in 1..(m - 1) |-> c[j]]
    BY <2>1, <2>2, Zenon
  <2> HIDE DEF d
  <2>5. /\ Concat([j \in 1..(m - 1) |-> d[j]]) \in Seq(Records)
        /\ Concat(d) = Concat([j \in 1..(m - 1) |-> d[j]]) \o d[m]
    BY <2>1, <2>3, SplitLogs, Zenon
  <2> QED
    BY <2>3, <2>4, <2>5, Zenon DEF d
<1>2. Picked(Front(k, 0), Front(l, 0))
  <2>1. [j \in 1..0 |-> k[j]] = <<>> /\ [j \in 1..0 |-> l[j]] = <<>>
    OBVIOUS
  <2>2. Concat(<<>>) = <<>>
    BY ConcatFacts, Zenon
  <2>3. Picked(<<>>, <<>>)
    <3>1. <<>> \in Seq(Records) /\ 0 \in 0..Len(<<>>) /\ SubSeq(<<>>, 1, 0) = <<>>
      OBVIOUS
    <3> QED
      BY <3>1, PickedPrefix, Zenon
  <2> QED
    BY <2>1, <2>2, <2>3, Zenon
<1>3. ASSUME NEW m \in 1..n, Picked(Front(k, m - 1), Front(l, m - 1))
      PROVE  Picked(Front(k, m), Front(l, m))
  <2> HIDE DEF Front
  <2>1. /\ Front(k, m) = Front(k, m - 1) \o k[m]
        /\ Front(k, m - 1) \in Seq(Records) /\ k[m] \in Seq(Records)
    BY <1>1, Zenon
  <2>2. /\ Front(l, m) = Front(l, m - 1) \o l[m]
        /\ Front(l, m - 1) \in Seq(Records) /\ l[m] \in Seq(Records)
    BY <1>1, Zenon
  <2>3. Picked(Front(k, m - 1) \o k[m], Front(l, m - 1) \o l[m])
    BY <1>3, <2>1, <2>2, PickedJoin, Zenon
  <2> QED
    BY <2>1, <2>2, <2>3, Zenon
<1> HIDE DEF Front
<1>4. Bad = {}
  <2> SUFFICES ASSUME Bad # {} PROVE FALSE
    OBVIOUS
  <2>1. Bad \in SUBSET Nat
    OBVIOUS
  <2>2. PICK m \in Bad : \A i \in Bad : m <= i
    BY <2>1, LeastNatural, Zenon
  <2>3. m \in 0..n /\ ~Picked(Front(k, m), Front(l, m))
    BY Zenon
  <2>4. m # 0
    BY <1>2, <2>3, Zenon
  <2>5. m \in 1..n /\ m - 1 \in 0..n /\ ~(m <= m - 1)
    BY <2>3, <2>4
  <2>6. Picked(Front(k, m - 1), Front(l, m - 1))
    BY <2>2, <2>5, Zenon
  <2> QED
    BY <1>3, <2>3, <2>5, <2>6, Zenon
<1>5. Picked(Front(k, n), Front(l, n))
  <2>1. n \in 0..n
    OBVIOUS
  <2> QED
    BY <1>4, <2>1, Zenon
<1>6. Front(k, n) = Concat(k) /\ Front(l, n) = Concat(l)
  <2>1. k = [j \in 1..n |-> k[j]] /\ l = [j \in 1..n |-> l[j]]
    BY Zenon DEF LogList
  <2> QED
    BY <2>1, Zenon DEF Front
<1> QED
  BY <1>5, <1>6, Zenon

----------------------------------------------------------------------------
(* Faults.                                                                 *)

(* Two lists of n logs are the same but for the last. *)
SameFront(n, k, l) == \A i \in 1..(n - 1) : k[i] = l[i]

(* The first file that is not covered does not depend on the last log. *)
LEMMA FirstStays ==
    ASSUME NEW n \in Nat, NEW l, NEW s, NEW k, NEW u, FirstOf(u, n, l, s),
           SameFront(n, k, l)
    PROVE  FirstOf(u, n, k, s) /\ Lead(k, s, u) = Lead(l, s, u)
<1>1. u \in 1..n /\ \A j \in 1..(u - 1) : j \in 1..(n - 1)
  BY DEF FirstOf
<1>2. u < n => u \in 1..(n - 1)
  BY <1>1
<1>3. [j \in 1..(u - 1) |-> k[j]] = [j \in 1..(u - 1) |-> l[j]]
  BY <1>1, Zenon DEF SameFront
<1> QED
  BY <1>1, <1>2, <1>3, Zenon DEF FirstOf, Lead, SameFront

(* There is only one. *)
LEMMA FirstUnique ==
    ASSUME NEW n \in Nat, NEW l, NEW s, Counts(n, s), LogList(n, l),
           NEW u, FirstOf(u, n, l, s), NEW v, FirstOf(v, n, l, s)
    PROVE  u = v
<1>1. u \in 1..n /\ v \in 1..n
  BY DEF FirstOf
<1>2. ASSUME NEW i \in 1..n, NEW j \in 1..n, i < j, FirstOf(i, n, l, s), FirstOf(j, n, l, s)
      PROVE  FALSE
  <2>1. i < n /\ i \in 1..(j - 1)
    BY <1>2
  <2>2. s[i] = Len(l[i]) /\ s[i] < Len(l[i]) /\ s[i] \in Nat
    BY <1>2, <2>1, Zenon DEF FirstOf, Counts
  <2> QED
    BY <2>2
<1>3. u < v \/ v < u \/ u = v
  BY <1>1
<1> QED
  BY <1>1, <1>2, <1>3, Zenon

(* A dying server has written some first records of the buffer. *)
LEMMA DyingWrites ==
    ASSUME AofInv, NEW last \in Dying
    PROVE  \E n \in 0..Len(aofBuf) :
              last[Current].log = incrs[Current].log \o SubSeq(aofBuf, 1, n)
<1>1. LogFacts /\ aofBuf \in Seq(Records) /\ Len(aofBuf) \in Nat
  <2>1. LogFacts /\ aofBuf \in Seq(Records)
    BY LogShape, Zenon DEF AofInv, TypesOK
  <2> QED
    BY <2>1
<1>2. PICK f \in File : f = incrs[Current] /\ Current \in DOMAIN incrs /\ f.log \in Seq(Records)
  BY <1>1, Zenon DEF LogFacts
<1>3. ASSUME NEW n \in 0..Len(aofBuf), NEW cut, last = WrittenPart(n, cut)
      PROVE  last[Current].log = incrs[Current].log \o SubSeq(aofBuf, 1, n)
  <2>1. PICK tail : last[Current] = [Written(f, SubSeq(aofBuf, 1, n)) EXCEPT !.torn = tail]
    BY <1>2, <1>3, Zenon DEF WrittenPart
  <2>2. Written(f, SubSeq(aofBuf, 1, n)).log = f.log \o SubSeq(aofBuf, 1, n)
    BY Zenon DEF Written, File
  <2>3. last[Current].log = Written(f, SubSeq(aofBuf, 1, n)).log
    BY <2>1, Zenon DEF Written, File
  <2> QED
    BY <1>2, <2>2, <2>3, Zenon
<1>4. CASE last = incrs
  <2>1. 0 \in 0..Len(aofBuf) /\ SubSeq(aofBuf, 1, 0) = <<>>
    BY <1>1
  <2>2. f.log \o <<>> = f.log
    BY <1>2
  <2> QED
    BY <1>2, <1>4, <2>1, <2>2, Zenon
<1>5. CASE \E n \in 0..Len(aofBuf) : last = WrittenPart(n, FALSE)
  BY <1>3, <1>5, Zenon
<1>6. CASE \E n \in 0..(Len(aofBuf) - 1) : last = WrittenPart(n, TRUE)
  <2>1. \A n \in 0..(Len(aofBuf) - 1) : n \in 0..Len(aofBuf)
    BY <1>1
  <2> QED
    BY <1>3, <1>6, <2>1, Zenon
<1> QED
  BY <1>4, <1>5, <1>6, Zenon DEF Dying

(* The logs a dying server leaves, and what the ledger has of them. *)
LeftBehind(k) ==
    /\ LogList(Len(manifest.incr), k)
    /\ FirstOf(FirstUnsynced, Len(manifest.incr), k, Counted)
    /\ Lead(k, Counted, FirstUnsynced) = SyncedTo
    /\ \E n \in 0..Len(aofBuf) : Concat(k) = Concat(Logs(manifest)) \o SubSeq(aofBuf, 1, n)
    /\ Intact(manifest) => \A i \in 1..Len(manifest.incr) : Sound(k[i])

(* The files are as they were, but for the last. *)
LEMMA DyingLogs ==
    ASSUME AofInv, NEW last \in Dying, NEW k,
           k = [i \in 1..Len(manifest.incr) |-> last[manifest.incr[i]].log]
    PROVE  LeftBehind(k)
<1>1. LedgerFacts /\ LogFacts
  BY LedgerShape, LogShape, Zenon DEF AofInv
<1> DEFINE L == Len(manifest.incr)
           l == Logs(manifest)
<1>2. L \in Nat \ {0} /\ L \in Nat /\ L \in 1..L /\ \A i \in 1..(L - 1) : i \in 1..L /\ i < L
  <2>1. L \in Nat \ {0}
    BY <1>1, Zenon DEF LogFacts
  <2> QED
    BY <2>1
<1>3. /\ last \in [DOMAIN incrs -> File]
      /\ \A n \in DOMAIN incrs : n # Current => last[n] = incrs[n]
  BY DyingFacts, Zenon DEF AofInv
<1>4. \A i \in 1..L : /\ manifest.incr[i] \in DOMAIN incrs
                      /\ i < L => manifest.incr[i] # Current
  <2>1. \A x, y \in Nat : x < y => x # y
    OBVIOUS
  <2> QED
    BY <1>1, <2>1, Zenon DEF LogFacts
<1>5. SameFront(L, k, l)
  BY <1>2, <1>3, <1>4, Zenon DEF Logs, SameFront
<1>6. LogList(L, k)
  <2>1. \A f \in File : f.log \in Seq(Records)
    BY Zenon DEF File
  <2> QED
    BY <1>3, <1>4, <2>1, Zenon DEF LogList
<1>7. FirstOf(FirstUnsynced, L, k, Counted) /\ Lead(k, Counted, FirstUnsynced) = SyncedTo
  <2>1. FirstOf(FirstUnsynced, L, l, Counted) /\ SyncedTo = Lead(l, Counted, FirstUnsynced)
    BY <1>1, Zenon DEF LedgerFacts, SyncedTo
  <2> HIDE DEF l
  <2>2. FirstOf(FirstUnsynced, L, k, Counted)
    BY <1>2, <1>5, <2>1, FirstStays, Zenon
  <2>3. Lead(k, Counted, FirstUnsynced) = Lead(l, Counted, FirstUnsynced)
    BY <1>2, <1>5, <2>1, FirstStays, SMT
  <2> QED
    BY <2>1, <2>2, <2>3, Zenon
<1>8. PICK n \in 0..Len(aofBuf) : last[Current].log = incrs[Current].log \o SubSeq(aofBuf, 1, n)
  BY DyingWrites, Zenon
<1>9. Concat(k) = Concat(l) \o SubSeq(aofBuf, 1, n)
  <2> DEFINE x == Concat([j \in 1..(L - 1) |-> l[j]])
  <2>1. x \in Seq(Records) /\ Concat(l) = x \o l[L] /\ l[L] \in Seq(Records)
    BY <1>1, <1>2, SplitLogs, Zenon DEF LedgerFacts, LogList
  <2>2. Concat(k) = Concat([j \in 1..(L - 1) |-> k[j]]) \o k[L]
    BY <1>2, <1>6, SplitLogs, Zenon DEF LogList
  <2>3. [j \in 1..(L - 1) |-> l[j]] = [j \in 1..(L - 1) |-> k[j]]
    BY <1>5, Zenon DEF SameFront
  <2>4. k[L] = last[Current].log /\ l[L] = incrs[Current].log
    BY <1>1, <1>2, Zenon DEF Logs, LogFacts
  <2>5. PICK part \in Seq(Records) : part = SubSeq(aofBuf, 1, n)
    BY <1>1, CutFacts, Zenon DEF LedgerFacts
  <2>6. Concat(k) = x \o (l[L] \o part)
    BY <1>8, <2>2, <2>3, <2>4, <2>5, Zenon
  <2> HIDE DEF x, l
  <2>7. (x \o l[L]) \o part = x \o (l[L] \o part)
    BY <2>1, Associative, Zenon
  <2> QED
    BY <2>1, <2>5, <2>6, <2>7, Zenon
<1>10. ASSUME Intact(manifest), NEW i \in 1..L PROVE Sound(k[i])
  <2>1. Sound(aofBuf) /\ Sound(l[i]) /\ Sound(l[L])
    BY <1>1, <1>2, <1>10, BufferSound, IntactLogs, Zenon DEF LogsSound
  <2>2. CASE i = L
    <3>1. k[L] = l[L] \o SubSeq(aofBuf, 1, n) /\ l[L] \in Seq(Records)
      BY <1>1, <1>2, <1>8, Zenon DEF Logs, LogFacts
    <3>2. Sound(SubSeq(aofBuf, 1, n)) /\ SubSeq(aofBuf, 1, n) \in Seq(Records)
      BY <1>1, <2>1, SoundFacts, CutFacts, Zenon DEF LedgerFacts
    <3> QED
      BY <2>1, <2>2, <3>1, <3>2, SoundFacts, Zenon
  <2>3. CASE i # L
    <3>1. i \in 1..(L - 1)
      BY <1>2, <2>3
    <3> QED
      BY <1>5, <2>1, <3>1, Zenon DEF SameFront
  <2> QED
    BY <2>2, <2>3
<1> QED
  BY <1>6, <1>7, <1>9, <1>10, Zenon DEF LeftBehind

(* A crash of the process costs the ledger the last records of its tail,   *)
(* those of the buffer that were not written.                              *)
LEMMA ProcessCrashLedger ==
    ASSUME AofInv, AofInv', Intact(manifest), ProcessCrash
    PROVE  StaysWhole /\ Ledger!ProcessCrash
<1>1. /\ LedgerFacts /\ LedgerFacts' /\ LogFacts /\ LogFacts' /\ LedgerCut /\ LedgerCut'
  BY LedgerShape, LogShape, CutInFiles, Zenon DEF AofInv
<1>2. /\ manifest' = manifest /\ bases' = bases /\ fault' = "process" /\ aofBuf' = <<>>
      /\ incrs' \in Dying
  BY Zenon DEF ProcessCrash, Dead
<1> DEFINE L == Len(manifest.incr)
           k == Logs(manifest)'
           C == Concat(Logs(manifest))
           R == SubSeq(C, SyncedTo + 1, Len(C))
<1>3. LeftBehind(k)
  <2>1. k = [i \in 1..Len(manifest.incr) |-> incrs'[manifest.incr[i]].log]
    BY <1>2, Zenon DEF Logs
  <2> QED
    BY <1>2, <2>1, DyingLogs, Zenon
<1>4. Counted' = Counted
  <2>1. \A i \in 1..L : manifest.incr[i] \in DOMAIN incrs
    BY <1>1, Zenon DEF LogFacts
  <2>2. \A n \in DOMAIN incrs : incrs'[n].synced = incrs[n].synced
    BY <1>2, DyingFacts, Zenon DEF AofInv
  <2> QED
    BY <1>2, <2>1, <2>2, Zenon DEF Counted, FileOf
<1>5. FirstUnsynced' = FirstUnsynced
  <2>1. L \in Nat /\ Len(manifest.incr)' = L
    BY <1>1, <1>2, Zenon DEF LogFacts
  <2>2. FirstOf(FirstUnsynced', L, k, Counted) /\ LogList(L, k) /\ Counts(L, Counted)
    BY <1>1, <1>4, <2>1, Zenon DEF LedgerFacts
  <2>3. FirstOf(FirstUnsynced, L, k, Counted)
    BY <1>3, Zenon DEF LeftBehind
  <2> QED
    BY <2>1, <2>2, <2>3, FirstUnique, Zenon
<1>6. SyncedTo' = SyncedTo
  <2>1. SyncedTo' = Lead(k, Counted', FirstUnsynced')
    BY Zenon DEF SyncedTo
  <2> QED
    BY <1>3, <1>4, <1>5, <2>1, Zenon DEF LeftBehind
<1>7. PICK n \in 0..Len(aofBuf) : Concat(k) = C \o SubSeq(aofBuf, 1, n)
  BY <1>3, Zenon DEF LeftBehind
<1>8. PICK f \in Seq(Records) : f = aofBuf
  BY <1>1, Zenon DEF LedgerFacts
<1>9. PICK part \in Seq(Records) : part = SubSeq(f, 1, n)
  BY <1>8, CutFacts, Zenon
<1>10. PICK c \in Seq(Records) : c = C
  BY <1>1, Zenon DEF LedgerFacts
<1>11. PICK p \in 0..Len(c) : p = SyncedTo
  BY <1>1, <1>10, Zenon DEF LedgerFacts
<1>12. PICK r \in Seq(Records) : r = SubSeq(c, p + 1, Len(c))
  BY CutFacts, Zenon
<1>13. /\ SubSeq(c \o part, 1, p) = SubSeq(c, 1, p)
       /\ SubSeq(c \o part, p + 1, Len(c \o part)) = r \o part
  <2>1. /\ SubSeq(c \o part, 1, p) = SubSeq(c, 1, p)
        /\ SubSeq(c \o part, p + 1, Len(c \o part)) = SubSeq(c, p + 1, Len(c)) \o part
    BY CutLeft, Zenon
  <2> QED
    BY <1>12, <2>1, Zenon
<1>14. Concat(k) = c \o part
  BY <1>7, <1>8, <1>9, <1>10, Zenon
<1>15. Durable = Replay(bases[manifest.base], SubSeq(c, 1, p)) /\ Pending = r \o f
  BY <1>1, <1>8, <1>10, <1>11, <1>12, Zenon DEF LedgerCut
<1>16. Durable' = Replay(bases[manifest.base], SubSeq(c, 1, p)) /\ Pending' = r \o part
  <2>1. /\ Durable' = Replay(bases[manifest.base], SubSeq(Concat(k), 1, p))
        /\ Pending' = SubSeq(Concat(k), p + 1, Len(Concat(k))) \o <<>>
    BY <1>1, <1>2, <1>6, <1>11, Zenon DEF LedgerCut
  <2>2. r \o part \in Seq(Records)
    BY JoinFacts, Zenon
  <2>3. (r \o part) \o <<>> = r \o part
    BY <2>2
  <2> QED
    BY <1>13, <1>14, <2>1, <2>3, Zenon
<1>17. n \in 0..Len(f)
  BY <1>8, Zenon
<1>18. SubSeq(r \o f, 1, Len(r) + n) = r \o part
  BY <1>9, <1>17, CutRight, Zenon
<1>19. Len(r) + n \in 0..Len(r \o f)
  <2>1. Len(r \o f) = Len(r) + Len(f)
    BY JoinFacts, Zenon
  <2>2. Len(r) \in Nat /\ Len(f) \in Nat
    OBVIOUS
  <2> QED
    BY <1>17, <2>1, <2>2
<1>20. Len(r) + n \in 0..Len(Pending) /\ Pending' = SubSeq(Pending, 1, Len(r) + n)
  BY <1>15, <1>16, <1>18, <1>19, Zenon
<1>21. StaysWhole
  BY <1>1, <1>2, <1>3, IntactLogs, Zenon DEF LeftBehind, LogsSound, StaysWhole
<1> QED
  BY <1>2, <1>15, <1>16, <1>20, <1>21, Zenon DEF Ledger!ProcessCrash

(* Four logs one after the other. *)
InFour(x, h, m, v) == (x \o (h \o m)) \o v = (x \o h) \o (m \o v)

(* They may be taken in twos. *)
LEMMA FourParts ==
    ASSUME NEW x \in Seq(Records), NEW h \in Seq(Records),
           NEW m \in Seq(Records), NEW v \in Seq(Records)
    PROVE  InFour(x, h, m, v)
<1>1. (x \o h) \o m = x \o (h \o m)
  BY Associative, ZenonT(30)
<1>2. PICK g \in Seq(Records) : g = x \o h
  BY JoinFacts, Zenon
<1>3. (g \o m) \o v = g \o (m \o v)
  BY Associative, Zenon
<1> QED
  BY <1>1, <1>2, <1>3, Zenon DEF InFour

(* A log y with h covered, t behind it, and m what a cut leaves of t. *)
InTwo(y, a, b, h, t, m) ==
    /\ h = SubSeq(y, 1, a) /\ t = SubSeq(y, a + 1, Len(y))
    /\ SubSeq(y, 1, b) = h \o m /\ Picked(m, t)

(* A log cut after b records, of which a are covered. *)
LEMMA CutTwice ==
    ASSUME NEW y \in Seq(Records), NEW a \in 0..Len(y), NEW b \in a..Len(y)
    PROVE  \E h \in Seq(Records), t \in Seq(Records), m \in Seq(Records) :
              InTwo(y, a, b, h, t, m)
<1>1. PICK h \in Seq(Records) : h = SubSeq(y, 1, a) /\ Len(h) = a
  BY CutFacts, Zenon
<1>2. PICK t \in Seq(Records) : t = SubSeq(y, a + 1, Len(y)) /\ Len(t) = Len(y) - a
  BY CutFacts, Zenon
<1>3. y = h \o t
  BY <1>1, <1>2, CutFacts, Zenon
<1>4. PICK c \in 0..Len(t) : b = a + c
  <2>1. b - a \in 0..Len(t) /\ b = a + (b - a)
    BY <1>2
  <2> QED
    BY <2>1
<1>5. SubSeq(h \o t, 1, Len(h) + c) = h \o SubSeq(t, 1, c)
  BY CutRight, Zenon
<1>6. PICK m \in Seq(Records) : m = SubSeq(t, 1, c)
  BY CutFacts, Zenon
<1>7. Picked(m, t)
  BY <1>6, PickedPrefix, Zenon
<1>8. SubSeq(y, 1, b) = h \o m
  BY <1>1, <1>3, <1>4, <1>5, <1>6, Zenon
<1> QED
  BY <1>1, <1>2, <1>7, <1>8, Zenon DEF InTwo

(* What power loss leaves of the logs l of n files, of which s are         *)
(* covered: at least that.                                                 *)
Cut(n, l, s, k, r) ==
    \A i \in 1..n : /\ r[i] \in s[i]..Len(l[i]) /\ k[i] = SubSeq(l[i], 1, r[i])

(* The first p records of the logs l are those of the logs k, which go on  *)
(* with some of the others.                                                *)
LeadKept(l, k, p) ==
    \E e \in Seq(Records) :
       /\ Concat(k) = SubSeq(Concat(l), 1, p) \o e
       /\ Picked(e, SubSeq(Concat(l), p + 1, Len(Concat(l))))

(* The covered lead of the log stays, and of the rest some records do, in  *)
(* their order.                                                            *)
LEMMA CutLogs ==
    ASSUME NEW n \in Nat \ {0}, NEW l, LogList(n, l), NEW s, Counts(n, s),
           NEW k, LogList(n, k), NEW r, Counts(n, r), Cut(n, l, s, k, r),
           NEW u, FirstOf(u, n, l, s), NEW p, p = Lead(l, s, u)
    PROVE  LeadKept(l, k, p)
<1>1. u \in 1..n /\ n \in Nat
  BY DEF FirstOf
<1>2. InThree(n, l, u) /\ InThree(n, k, u)
  BY <1>1, SplitThree, Zenon
<1>3. \A i \in 1..n : l[i] \in Seq(Records) /\ k[i] \in Seq(Records) /\ s[i] \in Nat /\ r[i] \in Nat
  BY Zenon DEF LogList, Counts
<1> DEFINE front(c) == [j \in 1..(u - 1) |-> c[j]]
           rest(c) == [j \in 1..(n - u) |-> c[u + j]]
<1>4. front(k) = front(l)
  <2>1. \A j \in 1..(u - 1) : j \in 1..n
    BY <1>1
  <2>2. ASSUME NEW j \in 1..(u - 1) PROVE k[j] = l[j]
    <3>1. s[j] = Len(l[j]) /\ r[j] \in s[j]..Len(l[j]) /\ k[j] = SubSeq(l[j], 1, r[j])
      BY <2>1, Zenon DEF FirstOf, Cut
    <3>2. l[j] \in Seq(Records)
      BY <1>3, <2>1, Zenon
    <3>3. r[j] = Len(l[j])
      BY <3>1, <3>2
    <3>4. SubSeq(l[j], 1, Len(l[j])) = l[j]
      BY <3>2
    <3> QED
      BY <3>1, <3>3, <3>4, Zenon
  <2> QED
    BY <2>2, Zenon
<1>5. PICK x \in Seq(Records) : x = Concat(front(l))
  BY <1>2, Zenon DEF InThree
<1>6. PICK y \in Seq(Records) : y = l[u] /\ s[u] \in 0..Len(y) /\ r[u] \in s[u]..Len(y)
  <2>1. l[u] \in Seq(Records) /\ s[u] \in Nat /\ r[u] \in s[u]..Len(l[u])
    BY <1>1, <1>3, Zenon DEF Cut
  <2>2. s[u] \in 0..Len(l[u])
    BY <2>1
  <2> QED
    BY <2>1, <2>2, Zenon
<1>7. PICK z \in Seq(Records) : z = Concat(rest(l))
  BY <1>2, Zenon DEF InThree
<1>8. PICK v \in Seq(Records) : v = Concat(rest(k))
  BY <1>2, Zenon DEF InThree
<1>9. Concat(l) = (x \o y) \o z /\ p = Len(x) + s[u]
  BY <1>2, <1>5, <1>6, <1>7, Zenon DEF InThree, Lead
<1>10. Concat(k) = (x \o SubSeq(y, 1, r[u])) \o v
  <2>1. k[u] = SubSeq(y, 1, r[u])
    BY <1>1, <1>6, Zenon DEF Cut
  <2> QED
    BY <1>2, <1>4, <1>5, <1>8, <2>1, Zenon DEF InThree
<1>11. Picked(v, z)
  <2>1. \A j \in 1..(n - u) : u + j \in 1..n
    BY <1>1
  <2>2. n - u \in Nat
    BY <1>1
  <2>3. LogList(n - u, rest(k)) /\ LogList(n - u, rest(l))
    BY <1>3, <2>1, Zenon DEF LogList
  <2>4. \A j \in 1..(n - u) : Picked(rest(k)[j], rest(l)[j])
    <3> SUFFICES ASSUME NEW j \in 1..(n - u) PROVE Picked(rest(k)[j], rest(l)[j])
      OBVIOUS
    <3>1. PICK t \in Seq(Records) : t = l[u + j] /\ s[u + j] \in Nat
      BY <1>3, <2>1, Zenon
    <3>2. PICK m : m = r[u + j] /\ m \in s[u + j]..Len(t) /\ k[u + j] = SubSeq(t, 1, m)
      BY <2>1, <3>1, Zenon DEF Cut
    <3>3. m \in 0..Len(t)
      BY <3>1, <3>2
    <3>4. Picked(SubSeq(t, 1, m), t)
      BY <3>3, PickedPrefix, Zenon
    <3> QED
      BY <3>1, <3>2, <3>4, Zenon
  <2> HIDE DEF rest
  <2> QED
    BY <1>7, <1>8, <2>2, <2>3, <2>4, PickedFiles, Zenon
<1> HIDE DEF front, rest
<1>12. PICK h \in Seq(Records), t \in Seq(Records), m \in Seq(Records) :
          /\ h = SubSeq(y, 1, s[u]) /\ t = SubSeq(y, s[u] + 1, Len(y))
          /\ SubSeq(y, 1, r[u]) = h \o m /\ Picked(m, t)
  <2>1. \E h \in Seq(Records), t \in Seq(Records), m \in Seq(Records) :
           InTwo(y, s[u], r[u], h, t, m)
    BY <1>6, CutTwice, Zenon
  <2> QED
    BY <2>1, Zenon DEF InTwo
<1>13. PICK w \in Seq(Records) : w = (x \o y) \o z
  <2>1. x \o y \in Seq(Records)
    BY JoinFacts, Zenon
  <2>2. (x \o y) \o z \in Seq(Records)
    BY <2>1, JoinFacts, Zenon
  <2> QED
    BY <2>2, Zenon
<1>14. /\ p \in 0..Len(w) /\ SubSeq(w, 1, p) = x \o h
       /\ SubSeq(w, p + 1, Len(w)) = t \o z
  <2>1. w = w \o <<>> /\ <<>> \in Seq(Records)
    OBVIOUS
  <2>2. w = ((x \o y) \o z) \o <<>>
    BY <1>13, <2>1, Zenon
  <2>3. Placed(w, p, x, y, z, <<>>, s[u])
    BY <1>6, <1>9, <2>1, <2>2, Position, Zenon
  <2>4. t \o z \in Seq(Records)
    BY JoinFacts, Zenon
  <2>5. (t \o z) \o <<>> = t \o z
    BY <2>4
  <2> QED
    BY <1>12, <1>13, <2>3, <2>5, Zenon DEF Placed
<1>15. PICK e \in Seq(Records) : e = m \o v
  BY JoinFacts, Zenon
<1>16. Picked(e, t \o z)
  BY <1>11, <1>12, <1>15, PickedJoin, Zenon
<1>17. (x \o (h \o m)) \o v = (x \o h) \o e
  <2>1. InFour(x, h, m, v)
    BY FourParts, Zenon
  <2> QED
    BY <1>15, <2>1, Zenon DEF InFour
<1> QED
  BY <1>9, <1>10, <1>12, <1>13, <1>14, <1>15, <1>16, <1>17, Zenon DEF LeadKept

(* What is picked from the first records of a log is picked from the log. *)
LEMMA PickedFirst ==
    ASSUME NEW t \in Seq(Records), NEW n \in 0..Len(t), NEW e, Len(e) \in Nat,
           Picked(e, SubSeq(t, 1, n))
    PROVE  Picked(e, t)
<1>1. PICK s \in Seq(Records) : s = SubSeq(t, 1, n) /\ Len(s) = n
  BY CutFacts, Zenon
<1>2. PICK f : Places(f, e, s) /\ Len(e) <= Len(s)
  BY <1>1, Zenon DEF Picked
<1>3. Len(s) <= Len(t) /\ \A i \in 1..Len(s) : i \in 1..Len(t) /\ s[i] = t[i]
  BY <1>1
<1>4. Len(e) <= Len(t)
  BY <1>2, <1>3
<1>5. Places(f, e, t)
  BY <1>2, <1>3, Zenon DEF Places
<1> QED
  BY <1>4, <1>5, Zenon DEF Picked

(* Files that fsync has covered altogether. *)
Settled(n, k, r) == \A i \in 1..n : r[i] = Len(k[i])

(* The whole log is the lead of such files. *)
LEMMA SettledLead ==
    ASSUME NEW n \in Nat \ {0}, NEW k, LogList(n, k), NEW r, Counts(n, r), Settled(n, k, r),
           NEW u, FirstOf(u, n, k, r)
    PROVE  Lead(k, r, u) = Len(Concat(k))
<1>1. u = n /\ n \in 1..n
  <2>1. u \in 1..n /\ r[u] = Len(k[u]) /\ r[u] \in Nat /\ (u < n => r[u] < Len(k[u]))
    BY Zenon DEF FirstOf, Settled, Counts
  <2> QED
    BY <2>1
<1>2. k \in [1..n -> Seq(Records)] /\ k[n] \in Seq(Records) /\ r[n] = Len(k[n])
  BY <1>1, Zenon DEF LogList, Settled
<1>3. PICK x \in Seq(Records) :
         x = Concat([j \in 1..(n - 1) |-> k[j]]) /\ Concat(k) = x \o k[n]
  BY <1>2, SplitLogs, Zenon
<1>4. Len(x \o k[n]) = Len(x) + Len(k[n])
  BY <1>2, JoinFacts, Zenon
<1> QED
  BY <1>1, <1>2, <1>3, <1>4, Zenon DEF Lead

(* The file g has the first n records of f, all of them covered. *)
Leaves(g, f, n) == g.log = SubSeq(f.log, 1, n) /\ g.synced = n

(* What power loss leaves of a file is covered. *)
LEMMA Surviving ==
    ASSUME NEW f, NEW n, NEW cut
    PROVE  Leaves(Survives(f, n, cut), f, n)
BY Zenon DEF Survives, Leaves

(* A power loss costs the ledger records of its tail, and leaves the rest  *)
(* in their order on the disk.                                             *)
LEMMA PowerLossLedger ==
    ASSUME AofInv, AofInv', Intact(manifest), PowerLoss
    PROVE  StaysWhole /\ Ledger!PowerLoss
<1>1. /\ LedgerFacts /\ LedgerFacts' /\ LogFacts /\ LogFacts' /\ LedgerCut /\ LedgerCut'
  BY LedgerShape, LogShape, CutInFiles, Zenon DEF AofInv
<1>2. manifest' = manifest /\ bases' = bases /\ fault' = "power" /\ aofBuf' = <<>>
  BY Zenon DEF PowerLoss, Dead
<1>3. PICK last \in Dying :
         \E n \in [DOMAIN last -> 0..MaxRecords], cut \in [DOMAIN last -> BOOLEAN] :
            /\ \A i \in DOMAIN last :
                  /\ n[i] \in last[i].synced..Len(last[i].log)
                  /\ cut[i] => n[i] < Len(last[i].log) \/ last[i].torn # <<>>
            /\ incrs' = [i \in DOMAIN last |-> Survives(last[i], n[i], cut[i])]
  BY Zenon DEF PowerLoss
<1>4. PICK left \in [DOMAIN last -> 0..MaxRecords], cut \in [DOMAIN last -> BOOLEAN] :
         /\ \A i \in DOMAIN last :
               /\ left[i] \in last[i].synced..Len(last[i].log)
               /\ cut[i] => left[i] < Len(last[i].log) \/ last[i].torn # <<>>
         /\ incrs' = [i \in DOMAIN last |-> Survives(last[i], left[i], cut[i])]
  BY <1>3, Zenon
<1> DEFINE L == Len(manifest.incr)
           k == Logs(manifest)'
           r == Counted'
           l == [i \in 1..L |-> last[manifest.incr[i]].log]
<1>5. LeftBehind(l)
  BY DyingLogs, Zenon
<1>6. /\ last \in [DOMAIN incrs -> File] /\ DOMAIN last = DOMAIN incrs
      /\ \A n \in DOMAIN incrs : last[n].synced = incrs[n].synced
  BY DyingFacts, Zenon DEF AofInv
<1>7. \A i \in 1..L : manifest.incr[i] \in DOMAIN incrs
  BY <1>1, Zenon DEF LogFacts
<1>8. \A i \in 1..L : /\ l[i] = last[manifest.incr[i]].log
                      /\ Counted[i] = last[manifest.incr[i]].synced
                      /\ k[i] = SubSeq(l[i], 1, left[manifest.incr[i]])
                      /\ r[i] = left[manifest.incr[i]]
  <2> SUFFICES ASSUME NEW i \in 1..L
               PROVE  /\ l[i] = last[manifest.incr[i]].log
                      /\ Counted[i] = last[manifest.incr[i]].synced
                      /\ k[i] = SubSeq(l[i], 1, left[manifest.incr[i]])
                      /\ r[i] = left[manifest.incr[i]]
    BY Zenon
  <2> DEFINE n == manifest.incr[i]
  <2>1. l[i] = last[n].log /\ Counted[i] = last[n].synced
    BY <1>6, <1>7, Zenon DEF Counted, FileOf
  <2>2. k[i] = incrs'[n].log /\ r[i] = incrs'[n].synced
    BY <1>2, Zenon DEF Logs, Counted, FileOf
  <2>3. incrs'[n] = Survives(last[n], left[n], cut[n])
    BY <1>4, <1>6, <1>7, Zenon
  <2>4. incrs'[n].log = SubSeq(last[n].log, 1, left[n]) /\ incrs'[n].synced = left[n]
    <3>1. Leaves(Survives(last[n], left[n], cut[n]), last[n], left[n])
      BY Surviving, Zenon
    <3> QED
      BY <2>3, <3>1, Zenon DEF Leaves
  <2> QED
    BY <2>1, <2>2, <2>4, Zenon
<1>9. Cut(L, l, Counted, k, r)
  <2>1. \A i \in 1..L : left[manifest.incr[i]] \in Counted[i]..Len(l[i])
    BY <1>4, <1>6, <1>7, <1>8, Zenon
  <2> QED
    BY <1>8, <2>1, Zenon DEF Cut
<1>10. /\ L \in Nat \ {0} /\ L \in Nat /\ Len(manifest.incr)' = L /\ L \in 1..L
       /\ LogList(L, l) /\ Counts(L, Counted) /\ LogList(L, k) /\ Counts(L, r)
       /\ FirstOf(FirstUnsynced, L, l, Counted)
       /\ SyncedTo = Lead(l, Counted, FirstUnsynced)
  <2>1. L \in Nat \ {0} /\ Len(manifest.incr)' = L
    BY <1>1, <1>2, Zenon DEF LogFacts
  <2>2. L \in Nat /\ L \in 1..L
    BY <2>1
  <2>3. /\ LogList(L, l) /\ FirstOf(FirstUnsynced, L, l, Counted)
        /\ SyncedTo = Lead(l, Counted, FirstUnsynced)
    BY <1>5, Zenon DEF LeftBehind
  <2> QED
    BY <1>1, <2>1, <2>2, <2>3, Zenon DEF LedgerFacts
<1> HIDE DEF l
<1>11. LeadKept(l, k, SyncedTo)
  BY <1>9, <1>10, CutLogs, Zenon
<1>12. PICK c \in Seq(Records) : c = Concat(Logs(manifest))
  BY <1>1, Zenon DEF LedgerFacts
<1>13. PICK p \in 0..Len(c) : p = SyncedTo
  BY <1>1, <1>12, Zenon DEF LedgerFacts
<1>14. PICK f \in Seq(Records) : f = aofBuf
  BY <1>1, Zenon DEF LedgerFacts
<1>15. PICK n \in 0..Len(f) : Concat(l) = c \o SubSeq(f, 1, n)
  BY <1>5, <1>12, <1>14, Zenon DEF LeftBehind
<1>16. PICK part \in Seq(Records) : part = SubSeq(f, 1, n)
  BY CutFacts, Zenon
<1>17. PICK rest \in Seq(Records) : rest = SubSeq(c, p + 1, Len(c))
  BY CutFacts, Zenon
<1>18. PICK e \in Seq(Records) :
          Concat(k) = SubSeq(c, 1, p) \o e /\ Picked(e, rest \o part)
  <2>1. /\ SubSeq(c \o part, 1, p) = SubSeq(c, 1, p)
        /\ SubSeq(c \o part, p + 1, Len(c \o part)) = SubSeq(c, p + 1, Len(c)) \o part
    BY CutLeft, Zenon
  <2> QED
    BY <1>11, <1>13, <1>15, <1>16, <1>17, <2>1, Zenon DEF LeadKept
<1>19. Pending = rest \o f
  BY <1>1, <1>12, <1>13, <1>14, <1>17, Zenon DEF LedgerCut
<1>20. Picked(e, Pending)
  <2>1. SubSeq(rest \o f, 1, Len(rest) + n) = rest \o part
    BY <1>16, CutRight, Zenon
  <2>2. PICK t \in Seq(Records) : t = rest \o f /\ Len(t) = Len(rest) + Len(f)
    BY JoinFacts, Zenon
  <2>3. PICK m \in 0..Len(t) : m = Len(rest) + n
    <3>1. Len(rest) \in Nat /\ Len(f) \in Nat
      OBVIOUS
    <3>2. Len(rest) + n \in 0..Len(t)
      BY <2>2, <3>1
    <3> QED
      BY <3>2, Zenon
  <2>4. Picked(e, SubSeq(t, 1, m)) /\ Len(e) \in Nat
    <3>1. Len(e) \in Nat
      OBVIOUS
    <3> QED
      BY <1>18, <2>1, <2>2, <2>3, <3>1, Zenon
  <2>5. Picked(e, t)
    BY <2>4, PickedFirst, Zenon
  <2> QED
    BY <1>19, <2>2, <2>5, Zenon
<1>21. SyncedTo' = Len(Concat(k))
  <2>1. Settled(L, k, r)
    <3>1. ASSUME NEW i \in 1..L PROVE r[i] = Len(k[i])
      <4>1. PICK y \in Seq(Records) : y = l[i]
        BY <1>10, Zenon DEF LogList
      <4>2. PICK m : m = r[i] /\ m \in Counted[i]..Len(y) /\ k[i] = SubSeq(y, 1, m)
        BY <1>9, <4>1, Zenon DEF Cut
      <4>3. Counted[i] \in Nat
        BY <1>10, Zenon DEF Counts
      <4>4. m \in 0..Len(y)
        BY <4>2, <4>3
      <4>5. Len(SubSeq(y, 1, m)) = m
        BY <4>4, CutFacts, Zenon
      <4> QED
        BY <4>2, <4>5, Zenon
    <3> QED
      BY <3>1, Zenon DEF Settled
  <2>2. FirstOf(FirstUnsynced', L, k, r) /\ SyncedTo' = Lead(k, r, FirstUnsynced')
    BY <1>1, <1>10, Zenon DEF LedgerFacts, SyncedTo
  <2>3. Lead(k, r, FirstUnsynced') = Len(Concat(k))
    BY <1>10, <2>1, <2>2, SettledLead, SMT
  <2> QED
    BY <2>2, <2>3, Zenon
<1>22. PICK b \in Datasets : b = bases[manifest.base]
  BY <1>1, Zenon DEF LedgerFacts
<1>23. PICK d \in Seq(Records) : d = SubSeq(c, 1, p)
  BY CutFacts, Zenon
<1>24. Durable = Replay(b, d)
  BY <1>1, <1>12, <1>13, <1>22, <1>23, Zenon DEF LedgerCut
<1>25. Pending' = <<>> /\ Durable' = Replay(b, d \o e)
  <2>1. PICK g \in Seq(Records) : g = Concat(k)
    BY <1>1, Zenon DEF LedgerFacts
  <2>2. /\ Durable' = Replay(b, SubSeq(g, 1, Len(g)))
        /\ Pending' = SubSeq(g, Len(g) + 1, Len(g)) \o <<>>
    BY <1>1, <1>2, <1>21, <1>22, <2>1, Zenon DEF LedgerCut
  <2>3. SubSeq(g, 1, Len(g)) = g /\ SubSeq(g, Len(g) + 1, Len(g)) = <<>> /\ <<>> \o <<>> = <<>>
    OBVIOUS
  <2> QED
    BY <1>18, <1>23, <2>1, <2>2, <2>3, Zenon
<1>26. Durable' = Replay(Durable, e)
  <2>1. \A s, t \in Seq(Records) : Replay(b, s \o t) = Replay(Replay(b, s), t)
    BY ReplayFacts, Zenon
  <2>2. Replay(b, d \o e) = Replay(Replay(b, d), e)
    BY <2>1, Zenon
  <2> QED
    BY <1>24, <1>25, <2>2, Zenon
<1>27. PICK g : Places(g, e, Pending) /\ Len(e) <= Len(Pending)
  BY <1>20, Zenon DEF Picked
<1>28. e = [i \in 1..Len(e) |-> Pending[g[i]]]
  <2>1. e = [i \in 1..Len(e) |-> e[i]]
    OBVIOUS
  <2> QED
    BY <1>27, <2>1, Zenon DEF Places
<1>29. Len(e) \in 0..Len(Pending)
  <2>1. Len(e) \in Nat /\ Len(rest \o f) \in Nat
    OBVIOUS
  <2> QED
    BY <1>19, <1>27, <2>1
<1>30. g \in [1..Len(e) -> 1..Len(Pending)] /\ Ledger!Increasing(g)
  BY <1>27, Zenon DEF Places, Ledger!Increasing
<1>31. Durable' = Replay(Durable, [i \in 1..Len(e) |-> Pending[g[i]]])
  BY <1>26, <1>28, Zenon
<1>32. StaysWhole
  <2>1. ASSUME NEW i \in 1..L PROVE Sound(k[i])
    <3>1. PICK y \in Seq(Records) : y = l[i] /\ Sound(y)
      BY <1>5, <1>10, Zenon DEF LeftBehind, LogList
    <3>2. PICK m : m \in Counted[i]..Len(y) /\ k[i] = SubSeq(y, 1, m)
      BY <1>9, <3>1, Zenon DEF Cut
    <3>3. Counted[i] \in Nat
      BY <1>10, Zenon DEF Counts
    <3>4. m \in 0..Len(y)
      BY <3>2, <3>3
    <3> QED
      BY <3>1, <3>2, <3>4, SoundFacts, Zenon
  <2> QED
    BY <1>1, <1>10, <2>1, IntactLogs, Zenon DEF LogsSound, StaysWhole
<1> QED
  BY <1>2, <1>25, <1>32, <1>29, <1>30, <1>31, Zenon DEF Ledger!PowerLoss

----------------------------------------------------------------------------
(* The theorem.                                                            *)

(* A new log is a new ledger. *)
LEMMA InitLedger == Init => Ledger!Init
<1> SUFFICES ASSUME Init PROVE Ledger!Init
  OBVIOUS
<1>1. LedgerFacts /\ LedgerCut
  BY InitInv, LedgerShape, CutInFiles, Zenon DEF AofInv
<1>2. /\ aofBuf = <<>> /\ fault = "none" /\ bases[manifest.base] = Empty
      /\ Logs(manifest) = <<<<>>>>
  <2>1. manifest.base = 1 /\ manifest.incr = <<1>> /\ bases = [n \in {1} |-> Empty]
    BY DEF Init
  <2>2. incrs[1].log = <<>> /\ Len(<<1>>) = 1 /\ <<1>>[1] = 1
    BY DEF Init, NewFile
  <2>3. Logs(manifest) = [i \in 1..1 |-> <<>>]
    BY <2>1, <2>2 DEF Logs
  <2> QED
    BY <2>1, <2>3 DEF Init
<1>3. Concat(Logs(manifest)) = <<>>
  <2>1. <<>> \in Seq(Records)
    OBVIOUS
  <2> QED
    BY <1>2, <2>1, ConcatFacts, Zenon
<1>4. SyncedTo = 0
  <2>1. SyncedTo \in 0..Len(<<>>)
    BY <1>1, <1>3, Zenon DEF LedgerFacts
  <2> QED
    BY <2>1
<1>5. /\ Durable = Replay(Empty, SubSeq(<<>>, 1, 0))
      /\ Pending = SubSeq(<<>>, 0 + 1, Len(<<>>)) \o <<>>
  BY <1>1, <1>2, <1>3, <1>4, Zenon DEF LedgerCut
<1>6. SubSeq(<<>>, 1, 0) = <<>> /\ SubSeq(<<>>, 0 + 1, Len(<<>>)) \o <<>> = <<>>
  OBVIOUS
<1>7. Replay(Empty, <<>>) = Empty
  <2>1. Empty \in Datasets
    BY Zenon DEF Empty, Datasets
  <2> QED
    BY <2>1, ReplayFacts, Zenon
<1>8. Intact(manifest) = TRUE
  <2>1. LogFacts
    BY InitInv, LogShape, Zenon DEF AofInv
  <2>2. Len(manifest.incr) = 1 /\ \A i \in 1..1 : Logs(manifest)[i] = <<>>
    BY <1>2 DEF Init
  <2>3. LogsSound
    BY <2>2, SoundFacts, Zenon DEF LogsSound
  <2> QED
    BY <2>1, <2>3, IntactLogs, Zenon
<1> QED
  BY <1>2, <1>5, <1>6, <1>7, <1>8, Zenon DEF Ledger!Init

(* Each step of the log is a step of the ledger or leaves it as it is. *)
LEMMA StepLedger ==
    ASSUME AofInv, AofInv', [Next]_vars
    PROVE  [Ledger!Next]_(Ledger!vars)
<1>1. CASE ~Intact(manifest)
  BY <1>1, Zenon DEF Ledger!Next
<1>2. CASE Intact(manifest) /\ Restart /\ ~Intact(manifest)'
  <2>1. mode # "up" /\ fault' = fault
    BY <1>2 DEF Restart
  <2>2. fault # "none"
    BY <2>1, Zenon DEF AofInv, StagesOK
  <2> QED
    BY <1>2, <2>1, <2>2, Zenon DEF Ledger!Next, Ledger!Break
<1>3. ASSUME Intact(manifest), StaysWhole,
             \/ Ledger!Record \/ Ledger!Sync \/ Ledger!ProcessCrash \/ Ledger!PowerLoss
             \/ UNCHANGED Books
      PROVE  [Ledger!Next]_(Ledger!vars)
  <2>1. Intact(manifest)' = Intact(manifest)
    BY <1>3 DEF StaysWhole
  <2>2. CASE UNCHANGED Books
    BY <2>1, <2>2, Zenon DEF Books, Ledger!vars
  <2> QED
    BY <1>3, <2>2, Zenon DEF StaysWhole, Ledger!Next
<1>4. CASE Intact(manifest) /\ ~(Restart /\ ~Intact(manifest)')
  <2>1. CASE Commands
    BY <1>3, <1>4, <2>1, CommandsLedger, Zenon
  <2>2. CASE Tick \/ beforeSleep \/ serverCronFlush \/ UNCHANGED vars
    BY <1>3, <1>4, <2>2, LoopLedger, Zenon
  <2>3. CASE bioProcessBackgroundJobs
    BY <1>3, <1>4, <2>3, BioLedger, Zenon
  <2>4. CASE Rewrite
    BY <1>3, <1>4, <2>4, RewriteLedger, Zenon
  <2>5. CASE ProcessCrash
    BY <1>3, <1>4, <2>5, ProcessCrashLedger, Zenon
  <2>6. CASE PowerLoss
    BY <1>3, <1>4, <2>6, PowerLossLedger, Zenon
  <2>7. CASE Restart
    BY <1>3, <1>4, <2>7, RestartLedger, Zenon
  <2> QED
    BY <2>1, <2>2, <2>3, <2>4, <2>5, <2>6, <2>7, Zenon DEF Next
<1> QED
  BY <1>1, <1>2, <1>4, Zenon

(* The append only file implements the ledger: whatever commands,          *)
(* rewrites, crashes, power losses and restarts do, in any order, the      *)
(* dataset covered by fsync and the tail behind it change as the ledger    *)
(* says.                                                                   *)
THEOREM LedgerTheorem == Spec => ImplementsLedger
<1>1. AofInv /\ AofInv' /\ [Next]_vars => [Ledger!Next]_(Ledger!vars)
  BY StepLedger, Zenon
<1> QED
  BY <1>1, InitLedger, AofInvariance, PTL DEF Spec, ImplementsLedger, Ledger!Spec
=============================================================================
