------------------------- MODULE Verification_proofs -------------------------
(***************************************************************************)
(* Proofs about what verify finds in the directory of Retention, for any   *)
(* number of records, segments and checkpoints: nothing but an interrupted *)
(* prune in a log nobody touched or in an exported bundle, if enforcement  *)
(* runs do not overlap (Alone), and every change of a log that verifies,   *)
(* whether they do or not.                                                 *)
(***************************************************************************)
EXTENDS Retention_proofs, SequenceTheorems

-----------------------------------------------------------------------------
(* Counting up *)

\* What holds of 0 and goes on from each number to the next holds of every number.
LEMMA CountingUp ==
  ASSUME NEW n \in Nat, NEW S, 0 \in S, \A k \in 0 .. n - 1 : k \in S => k + 1 \in S
  PROVE  \A k \in 0 .. n : k \in S
<1> SUFFICES ASSUME NEW m \in 0 .. n, m \notin S PROVE FALSE
  OBVIOUS
<1> DEFINE T == {i \in 1 .. n + 1 : i - 1 \notin S}
<1>1. T \in SUBSET (1 .. n + 1) /\ m + 1 \in T /\ n + 1 \in Nat
  OBVIOUS
<1>2. \A i \in T : i \in 1 .. n + 1 /\ i - 1 \notin S
  OBVIOUS
<1>3. \A i \in 1 .. n + 1 : i - 1 \notin S => i \in T
  OBVIOUS
<1> HIDE DEF T
<1>4. PICK i \in T : \A j \in T : i <= j
  BY <1>1, FirstPosition
<1>5. i - 1 # 0 /\ i \in 2 .. n + 1
  BY <1>2
<1>6. i - 1 \notin T /\ i - 1 \in 1 .. n + 1
  BY <1>4, <1>5
<1>7. (i - 1) - 1 \in S /\ (i - 1) - 1 \in 0 .. n - 1
  BY <1>3, <1>5, <1>6
<1>8. ((i - 1) - 1) + 1 \in S
  BY <1>7
<1> QED
  BY <1>2, <1>5, <1>8

-----------------------------------------------------------------------------
(* The records of an honest log *)

\* The hash of record n, written out: everything the log holds up to it.
Chain(n) == [j \in 1 .. n |-> <<j, "event">>]
Entries == Nat \X {"event", "changed"}

LEMMA ChainGrows ==
  /\ Chain(0) = <<>>
  /\ \A n \in Nat : Chain(n) \in Seq(Entries) /\ Len(Chain(n)) = n
  /\ \A n \in Nat : Chain(n + 1) = Append(Chain(n), <<n + 1, "event">>)
<1>1. \A n \in Nat : Chain(n) \in Seq(Entries) /\ Len(Chain(n)) = n
  <2> TAKE n \in Nat
  <2>1. \A j \in 1 .. n : <<j, "event">> \in Entries
    BY DEF Entries
  <2> QED
    BY <2>1 DEF Chain
<1>2. Chain(0) = <<>>
  BY <1>1, EmptySeq DEF Chain
<1>3. ASSUME NEW n \in Nat PROVE Chain(n + 1) = Append(Chain(n), <<n + 1, "event">>)
  <2>1. <<n + 1, "event">> \in Entries
    BY DEF Entries
  <2> DEFINE a == Append(Chain(n), <<n + 1, "event">>)
  <2>2. /\ a \in Seq(Entries) /\ Len(a) = n + 1
        /\ \A i \in 1 .. n : a[i] = Chain(n)[i]
        /\ a[n + 1] = <<n + 1, "event">>
    BY <1>1, <2>1, AppendProperties, SMTT(30)
  <2>3. \A i \in 1 .. n + 1 : a[i] = <<i, "event">>
    <3>1. \A i \in 1 .. n : Chain(n)[i] = <<i, "event">>
      BY DEF Chain
    <3>2. \A i \in 1 .. n + 1 : i \in 1 .. n \/ i = n + 1
      OBVIOUS
    <3> HIDE DEF a
    <3> QED
      BY <2>2, <3>1, <3>2
  <2>4. Chain(n + 1) \in Seq(Entries) /\ Len(Chain(n + 1)) = n + 1
    BY <1>1
  <2> QED
    BY <2>2, <2>3, <2>4, SeqEqual DEF Chain
<1> QED
  BY <1>1, <1>2, <1>3

\* Record n by its parts.
LEMMA RecordParts ==
  ASSUME NEW n \in Nat
  PROVE  /\ Record(n) = [seq |-> n, prev |-> Record(n).prev, body |-> "event", hash |-> Chain(n)]
         /\ Record(n).seq = n /\ Record(n).body = "event" /\ Record(n).hash = Chain(n)
         /\ n > 0 => Record(n).prev = Chain(n - 1)
<1> DEFINE hash == CHOOSE h : h = [k \in 0 .. n |-> IF k = 0 THEN Genesis
                                                ELSE Append(h[k - 1], <<k, "event">>)]
           C == [k \in 0 .. n |-> Chain(k)]
<1>1. Record(n) = [seq |-> n, prev |-> hash[n - 1], body |-> "event", hash |-> hash[n]]
  BY DEF Record
<1>2. C = [k \in 0 .. n |-> IF k = 0 THEN Genesis ELSE Append(C[k - 1], <<k, "event">>)]
  <2>1. ASSUME NEW k \in 0 .. n
        PROVE  Chain(k) = IF k = 0 THEN Genesis ELSE Append(C[k - 1], <<k, "event">>)
    <3>1. CASE k = 0
      BY <3>1, ChainGrows DEF Genesis
    <3>2. CASE k # 0
      <4>1. k - 1 \in Nat /\ k - 1 \in 0 .. n /\ (k - 1) + 1 = k
        BY <3>2
      <4> QED
        BY <3>2, <4>1, ChainGrows
    <3> QED
      BY <3>1, <3>2
  <2> QED
    BY <2>1
<1>3. hash = [k \in 0 .. n |-> IF k = 0 THEN Genesis ELSE Append(hash[k - 1], <<k, "event">>)]
  <2> HIDE DEF C
  <2> QED
    BY <1>2
<1> HIDE DEF hash, C
<1>4. \A k \in 0 .. n : hash[k] = Chain(k)
  <2> DEFINE S == {k \in 0 .. n : hash[k] = Chain(k)}
  <2>1. 0 \in S
    <3>1. 0 \in 0 .. n
      OBVIOUS
    <3>2. hash[0] = Genesis
      BY <1>3, <3>1
    <3> QED
      BY <3>1, <3>2, ChainGrows DEF Genesis
  <2>2. ASSUME NEW k \in 0 .. n - 1, k \in S PROVE k + 1 \in S
    <3>1. k + 1 \in 0 .. n /\ k + 1 # 0 /\ (k + 1) - 1 = k /\ k \in Nat
      OBVIOUS
    <3>2. hash[k + 1] = Append(hash[k], <<k + 1, "event">>)
      BY <1>3, <3>1
    <3>3. hash[k + 1] = Chain(k + 1)
      BY <2>2, <3>1, <3>2, ChainGrows
    <3> QED
      BY <3>1, <3>3
  <2>3. \A k \in 0 .. n : k \in S
    <3> HIDE DEF S
    <3> QED
      BY <2>1, <2>2, CountingUp
  <2> QED
    BY <2>3
<1> QED
  BY <1>1, <1>4


-----------------------------------------------------------------------------
(* The walk over the records, for any directory *)

Records(d) == FlattenSeq(d.segments)
Steps(d, w, m) ==
  w = [k \in 0 .. m |-> IF k = 0 THEN WalkStart(d) ELSE WalkRecord(d, w[k - 1], Records(d)[k])]

\* What is known after each record, one step from what was known before it.
LEMMA WalkSteps ==
  ASSUME NEW d, Len(Records(d)) \in Nat
  PROVE  \E w : Steps(d, w, Len(Records(d))) /\ Walked(d) = w[Len(Records(d))]
<1> DEFINE n == Len(Records(d))
           S == {m \in 0 .. n : \E w : Steps(d, w, m)}
<1>1. 0 \in S
  <2> DEFINE w == [k \in 0 .. 0 |-> WalkStart(d)]
  <2>1. Steps(d, w, 0)
    BY DEF Steps
  <2> HIDE DEF w
  <2> QED
    BY <2>1
<1>2. ASSUME NEW m \in 0 .. n - 1, m \in S PROVE m + 1 \in S
  <2>1. PICK w : Steps(d, w, m)
    BY <1>2
  <2> DEFINE v == [k \in 0 .. m + 1 |-> IF k = m + 1 THEN WalkRecord(d, w[m], Records(d)[m + 1])
                                        ELSE w[k]]
  <2>2. \A k \in 0 .. m : v[k] = w[k]
    OBVIOUS
  <2>3. ASSUME NEW k \in 0 .. m + 1
        PROVE  v[k] = IF k = 0 THEN WalkStart(d) ELSE WalkRecord(d, v[k - 1], Records(d)[k])
    <3>1. CASE k = m + 1
      <4>1. v[k] = WalkRecord(d, w[m], Records(d)[m + 1]) /\ v[m] = w[m] /\ k - 1 = m /\ k # 0
        BY <2>2, <3>1
      <4> HIDE DEF v
      <4> QED
        BY <3>1, <4>1
    <3>2. CASE k # m + 1
      <4>1. k \in 0 .. m /\ (k # 0 => k - 1 \in 0 .. m)
        BY <3>2
      <4>2. w[k] = IF k = 0 THEN WalkStart(d) ELSE WalkRecord(d, w[k - 1], Records(d)[k])
        BY <2>1, <4>1 DEF Steps
      <4> HIDE DEF v
      <4> QED
        BY <2>2, <4>1, <4>2
    <3> QED
      BY <3>1, <3>2
  <2>4. v = [k \in 0 .. m + 1 |-> v[k]]
    OBVIOUS
  <2> HIDE DEF v
  <2>5. Steps(d, v, m + 1)
    BY <2>3, <2>4 DEF Steps
  <2> QED
    BY <2>5
<1>3. n \in S
  <2>1. n \in 0 .. n
    OBVIOUS
  <2> HIDE DEF S
  <2> QED
    BY <1>1, <1>2, <2>1, CountingUp
<1> DEFINE walk == CHOOSE w : w = [k \in 0 .. n |-> IF k = 0 THEN WalkStart(d)
                                   ELSE WalkRecord(d, w[k - 1], Records(d)[k])]
<1>4. Steps(d, walk, n)
  BY <1>3 DEF Steps
<1>5. Walked(d) = walk[n]
  BY DEF Walked, Records
<1> HIDE DEF walk
<1> QED
  BY <1>4, <1>5

\* The files one after the other.
Joined(segs, f) == f[1] = segs[1] /\ \A i \in 2 .. Len(segs) : f[i] = f[i - 1] \o segs[i]

LEMMA FlattenSteps ==
  ASSUME NEW segs, Len(segs) \in Nat \ {0}, NEW f, Joined(segs, f)
  PROVE  FlattenSeq(segs) = f[Len(segs)]
<1> DEFINE n == Len(segs)
<1>0. n \in Nat \ {0} /\ f[1] = segs[1] /\ \A i \in 2 .. n : f[i] = f[i - 1] \o segs[i]
  BY DEF Joined
<1> DEFINE flatten == CHOOSE h : h = [i \in 1 .. n |-> IF i = 1 THEN segs[i] ELSE h[i - 1] \o segs[i]]
           g == [i \in 1 .. n |-> f[i]]
<1>1. FlattenSeq(segs) = flatten[n]
  BY <1>0 DEF FlattenSeq
<1> HIDE DEF n
<1>2. g = [i \in 1 .. n |-> IF i = 1 THEN segs[i] ELSE g[i - 1] \o segs[i]]
  <2>1. ASSUME NEW i \in 1 .. n PROVE f[i] = IF i = 1 THEN segs[i] ELSE g[i - 1] \o segs[i]
    <3>1. CASE i = 1
      BY <1>0, <3>1
    <3>2. CASE i # 1
      <4>1. i \in 2 .. n /\ i - 1 \in 1 .. n
        BY <1>0, <3>2
      <4> QED
        BY <1>0, <3>2, <4>1
    <3> QED
      BY <3>1, <3>2
  <2> QED
    BY <2>1
<1>3. flatten = [i \in 1 .. n |-> IF i = 1 THEN segs[i] ELSE flatten[i - 1] \o segs[i]]
  <2> HIDE DEF g
  <2> QED
    BY <1>2
<1> HIDE DEF flatten, g
<1> DEFINE S == {k \in 0 .. n : k = 0 \/ flatten[k] = f[k]}
<1>4. 0 \in S
  BY <1>0
<1>5. ASSUME NEW k \in 0 .. n - 1, k \in S PROVE k + 1 \in S
  <2>1. k + 1 \in 1 .. n /\ k + 1 \in 0 .. n /\ (k + 1) - 1 = k
    BY <1>0
  <2>2. CASE k = 0
    BY <1>0, <1>3, <2>1, <2>2
  <2>3. CASE k # 0
    <3>1. flatten[k] = f[k] /\ k + 1 # 1 /\ k + 1 \in 2 .. n
      BY <1>0, <1>5, <2>3
    <3>2. flatten[k + 1] = flatten[k] \o segs[k + 1]
      BY <1>3, <2>1, <3>1
    <3>3. f[k + 1] = f[k] \o segs[k + 1]
      BY <1>0, <2>1, <3>1
    <3> QED
      BY <2>1, <3>1, <3>2, <3>3
  <2> QED
    BY <2>2, <2>3
<1>6. n \in S
  <2>1. n \in 0 .. n
    BY <1>0
  <2> HIDE DEF S
  <2> QED
    BY <1>0, <1>4, <1>5, <2>1, CountingUp
<1> QED
  BY <1>0, <1>1, <1>6 DEF n

\* Files that follow each other hold the records between their ends in order.
AllRecords == {Record(n) : n \in Nat}
Stretch(a, b) == [j \in 1 .. b - a |-> Record(a + j)]

LEMMA StretchIsSeq ==
  ASSUME NEW a \in Nat, NEW b \in Nat, a <= b
  PROVE  Stretch(a, b) \in Seq(AllRecords) /\ Len(Stretch(a, b)) = b - a
<1>1. \A j \in 1 .. b - a : Record(a + j) \in AllRecords
  BY DEF AllRecords
<1>2. b - a \in Nat
  OBVIOUS
<1> HIDE DEF AllRecords
<1> QED
  BY <1>1, <1>2 DEF Stretch

LEMMA StretchesJoin ==
  ASSUME NEW a \in Nat, NEW b \in Nat, NEW c \in Nat, a <= b, b <= c
  PROVE  Stretch(a, b) \o Stretch(b, c) = Stretch(a, c)
<1> DEFINE x == Stretch(a, b)
           y == Stretch(b, c)
           z == Stretch(a, c)
<1>1. /\ x \in Seq(AllRecords) /\ y \in Seq(AllRecords) /\ z \in Seq(AllRecords)
      /\ Len(x) = b - a /\ Len(y) = c - b /\ Len(z) = c - a
  <2>1. a <= c
    OBVIOUS
  <2>2. x \in Seq(AllRecords) /\ Len(x) = b - a
    BY StretchIsSeq
  <2>3. y \in Seq(AllRecords) /\ Len(y) = c - b
    BY StretchIsSeq
  <2>4. z \in Seq(AllRecords) /\ Len(z) = c - a
    BY <2>1, StretchIsSeq
  <2> QED
    BY <2>2, <2>3, <2>4
<1>2. /\ \A i \in 1 .. b - a : x[i] = Record(a + i)
      /\ \A i \in 1 .. c - b : y[i] = Record(b + i)
      /\ \A i \in 1 .. c - a : z[i] = Record(a + i)
  BY DEF Stretch
<1> HIDE DEF x, y, z
<1>3. /\ x \o y \in Seq(AllRecords) /\ Len(x \o y) = (b - a) + (c - b)
      /\ \A i \in 1 .. (b - a) + (c - b) : (x \o y)[i] = IF i <= b - a THEN x[i] ELSE y[i - (b - a)]
  <2>1. /\ x \o y \in Seq(AllRecords) /\ Len(x \o y) = Len(x) + Len(y)
        /\ \A i \in 1 .. Len(x) + Len(y) : (x \o y)[i] = IF i <= Len(x) THEN x[i] ELSE y[i - Len(x)]
    BY <1>1, ConcatProperties
  <2> QED
    BY <1>1, <2>1
<1>4. (b - a) + (c - b) = c - a
  OBVIOUS
<1>5. ASSUME NEW i \in 1 .. c - a PROVE (x \o y)[i] = z[i]
  <2>1. CASE i <= b - a
    BY <1>2, <1>3, <1>4, <2>1
  <2>2. CASE ~(i <= b - a)
    <3>1. i - (b - a) \in 1 .. c - b /\ b + (i - (b - a)) = a + i
      BY <2>2
    <3>2. (x \o y)[i] = y[i - (b - a)]
      BY <1>3, <1>4, <2>2
    <3> QED
      BY <1>2, <3>1, <3>2
  <2> QED
    BY <2>1, <2>2
<1>6. x \o y = z
  BY <1>1, <1>3, <1>4, <1>5, SeqEqual
<1> QED
  BY <1>6 DEF x, y, z

LEMMA FilesInOrder ==
  ASSUME NEW segs, NEW n \in Nat \ {0}, NEW bound \in [0 .. n -> Nat],
         \A k \in 1 .. n : bound[k - 1] <= bound[k],
         segs = [k \in 1 .. n |-> Stretch(bound[k - 1], bound[k])]
  PROVE  /\ bound[0] <= bound[n]
         /\ FlattenSeq(segs) = Stretch(bound[0], bound[n])
<1>1. \A k \in 0 .. n : bound[k] \in Nat
  OBVIOUS
<1>2. \A k \in 1 .. n : k \in 0 .. n /\ k - 1 \in 0 .. n
  OBVIOUS
<1>3. segs \in Seq(Seq(AllRecords)) /\ Len(segs) = n
  <2>1. \A k \in 1 .. n : Stretch(bound[k - 1], bound[k]) \in Seq(AllRecords)
    BY <1>1, <1>2, StretchIsSeq
  <2> DEFINE R == Seq(AllRecords)
             e(k) == Stretch(bound[k - 1], bound[k])
  <2>2. segs = [k \in 1 .. n |-> e(k)] /\ \A k \in 1 .. n : e(k) \in R
    BY <2>1
  <2> HIDE DEF R, e
  <2>3. segs \in Seq(R) /\ Len(segs) = n
    BY <2>2
  <2> QED
    BY <2>3 DEF R
<1>4. \A k \in 0 .. n : bound[0] <= bound[k]
  <2> DEFINE S == {k \in 0 .. n : bound[0] <= bound[k]}
  <2>1. 0 \in S
    BY <1>1
  <2>2. ASSUME NEW k \in 0 .. n - 1, k \in S PROVE k + 1 \in S
    <3>1. k + 1 \in 1 .. n /\ (k + 1) - 1 = k /\ k \in 0 .. n /\ k + 1 \in 0 .. n /\ 0 \in 0 .. n
      OBVIOUS
    <3>2. bound[k] <= bound[k + 1] /\ bound[0] <= bound[k]
      BY <2>2, <3>1
    <3> QED
      BY <1>1, <3>1, <3>2
  <2>3. \A k \in 0 .. n : k \in S
    <3> HIDE DEF S
    <3> QED
      BY <2>1, <2>2, CountingUp
  <2> QED
    BY <2>3
<1> DEFINE f == [k \in 1 .. n |-> Stretch(bound[0], bound[k])]
<1>5. f[1] = segs[1]
  OBVIOUS
<1>6. ASSUME NEW k \in 2 .. n PROVE f[k] = f[k - 1] \o segs[k]
  <2>1. k - 1 \in 1 .. n /\ k \in 1 .. n /\ k - 1 \in 0 .. n /\ k \in 0 .. n /\ 0 \in 0 .. n
    OBVIOUS
  <2>2. /\ bound[0] <= bound[k - 1] /\ bound[k - 1] <= bound[k]
        /\ bound[0] \in Nat /\ bound[k - 1] \in Nat /\ bound[k] \in Nat
    BY <1>1, <1>4, <2>1
  <2>3. Stretch(bound[0], bound[k - 1]) \o Stretch(bound[k - 1], bound[k]) = Stretch(bound[0], bound[k])
    BY <2>2, StretchesJoin
  <2> QED
    BY <2>1, <2>3
<1>7. f[n] = Stretch(bound[0], bound[n])
  OBVIOUS
<1> HIDE DEF f
<1>8. FlattenSeq(segs) = f[n]
  <2>1. Len(segs) = n /\ Joined(segs, f)
    BY <1>3, <1>5, <1>6 DEF Joined
  <2> QED
    BY <2>1, FlattenSteps
<1>9. n \in 0 .. n
  OBVIOUS
<1> QED
  BY <1>4, <1>7, <1>8, <1>9

-----------------------------------------------------------------------------
(* What the segment files hold *)

LEMMA FileIsStretch ==
  \A i, last : SegmentFile(i, last) = Stretch(StartOf(i), last)
BY DEF SegmentFile, Stretch

LEMMA IntervalSize ==
  ASSUME NEW a \in Nat, NEW b \in Int, a <= b + 1
  PROVE  Cardinality(a .. b) = (b - a) + 1
<1>1. Cardinality(a .. b) = IF a > b THEN 0 ELSE b - a + 1
  BY FS_Interval
<1>2. CASE a > b
  <2>1. b - a + 1 = 0
    BY <1>2
  <2> QED
    BY <1>1, <1>2, <2>1
<1>3. CASE ~(a > b)
  BY <1>1, <1>3
<1> QED
  BY <1>2, <1>3

\* Segments in a row are read in order.
LEMMA FilesOfRow ==
  ASSUME Types, NEW h \in 1 .. Newest, NEW m \in 0 .. Newest, h <= m + 1
  PROVE  SegmentFiles(h .. m) =
           [k \in 1 .. (m - h) + 1 |-> Stretch(StartOf(h + k - 1), ends[h + k - 1])]
<1> DEFINE S == h .. m
           nth(k) == CHOOSE i \in S : Cardinality({j \in S : j <= i}) = k
<1>1. Newest \in Nat /\ h \in Nat /\ m \in Nat
  BY Heads
<1>2. Cardinality(S) = (m - h) + 1
  BY <1>1, IntervalSize
<1>3. ASSUME NEW k \in 1 .. (m - h) + 1 PROVE nth(k) = h + k - 1
  <2>1. ASSUME NEW i \in S PROVE Cardinality({j \in S : j <= i}) = (i - h) + 1
    <3>1. {j \in S : j <= i} = h .. i /\ i \in Int /\ h <= i + 1
      BY <1>1
    <3>2. Cardinality(h .. i) = (i - h) + 1
      BY <1>1, <3>1, IntervalSize
    <3> QED
      BY <3>1, <3>2
  <2>2. h + k - 1 \in S /\ \A i \in S : ((i - h) + 1 = k) <=> (i = h + k - 1)
    BY <1>1
  <2> HIDE DEF S
  <2> QED
    BY <2>1, <2>2
<1>4. SegmentFiles(S) = [k \in 1 .. Cardinality(S) |-> SegmentFile(nth(k), ends[nth(k)])]
  BY DEF SegmentFiles
<1> HIDE DEF nth, S
<1>5. SegmentFiles(S) = [k \in 1 .. (m - h) + 1 |-> SegmentFile(h + k - 1, ends[h + k - 1])]
  BY <1>2, <1>3, <1>4
<1>6. \A k \in 1 .. (m - h) + 1 :
        SegmentFile(h + k - 1, ends[h + k - 1]) = Stretch(StartOf(h + k - 1), ends[h + k - 1])
  BY FileIsStretch
<1> QED
  BY <1>5, <1>6 DEF S

\* The files of segments in a row, the last one read as far as it went.
RowFiles(h, m, last) == Append(SegmentFiles(h .. m - 1), SegmentFile(m, last))

LEMMA RowHolds ==
  ASSUME Types, LogInv, NEW h \in 1 .. Newest, NEW m \in 1 .. Newest, h <= m,
         NEW last \in StartOf(m) .. ends[m]
  PROVE  /\ RowFiles(h, m, last) # <<>>
         /\ StartOf(h) <= last
         /\ FlattenSeq(RowFiles(h, m, last)) = Stretch(StartOf(h), last)
         /\ RowFiles(h, m, last) =
              [k \in 1 .. (m - h) + 1 |->
                 Stretch(StartOf(h + k - 1), IF h + k - 1 = m THEN last ELSE ends[h + k - 1])]
<1> DEFINE n == (m - h) + 1
           bound == [k \in 0 .. n |-> IF k = 0 THEN StartOf(h) ELSE IF k = n THEN last
                                      ELSE ends[h + k - 1]]
           segs == [k \in 1 .. n |-> Stretch(bound[k - 1], bound[k])]
           front == SegmentFiles(h .. m - 1)
<1>1. /\ Newest \in Nat /\ h \in Nat /\ m \in Nat /\ n \in Nat \ {0} /\ h >= 1
      /\ \A i \in 1 .. Newest : ends[i] \in Nat /\ StartOf(i) \in Nat
      /\ \A i \in 1 .. Newest : i > 1 => StartOf(i) = ends[i - 1]
      /\ last \in Nat /\ StartOf(m) <= last /\ last <= ends[m]
  <2>1. /\ Newest \in Nat /\ \A i \in 1 .. Newest : ends[i] \in Nat /\ StartOf(i) \in Nat
        /\ \A i \in 1 .. Newest : i > 1 => StartOf(i) = ends[i - 1]
    BY Heads
  <2> QED
    BY <2>1
<1>2. ASSUME NEW k \in 1 .. n
      PROVE  /\ h + k - 1 \in 1 .. Newest
             /\ bound[k] = IF h + k - 1 = m THEN last ELSE ends[h + k - 1]
             /\ bound[k - 1] = StartOf(h + k - 1)
             /\ bound[k - 1] <= bound[k]
  <2>1. h + k - 1 \in 1 .. Newest /\ h + k - 1 <= m /\ k \in 0 .. n /\ k - 1 \in 0 .. n /\ k # 0
    BY <1>1
  <2>2. k = n <=> h + k - 1 = m
    BY <1>1
  <2>3. bound[k] = IF h + k - 1 = m THEN last ELSE ends[h + k - 1]
    BY <2>1, <2>2
  <2>4. bound[k - 1] = StartOf(h + k - 1)
    <3>1. CASE k = 1
      BY <1>1, <2>1, <3>1
    <3>2. CASE k # 1
      <4>1. k - 1 # 0 /\ k - 1 # n /\ h + (k - 1) - 1 = (h + k - 1) - 1 /\ h + k - 1 > 1
        BY <1>1, <3>2
      <4>2. bound[k - 1] = ends[h + (k - 1) - 1]
        BY <2>1, <4>1
      <4> QED
        BY <1>1, <2>1, <4>1, <4>2
    <3> QED
      BY <3>1, <3>2
  <2>5. StartOf(h + k - 1) <= ends[h + k - 1]
    <3>1. CASE h + k - 1 \in Sealed
      <4>1. StartOf(h + k - 1) < ends[h + k - 1]
        BY <3>1 DEF LogInv
      <4> QED
        BY <1>1, <2>1, <4>1
    <3>2. CASE h + k - 1 \notin Sealed
      <4>1. h + k - 1 = Newest
        BY <1>1, <2>1, <3>2 DEF Sealed
      <4>2. m = h + k - 1
        BY <1>1, <2>1, <4>1
      <4> QED
        BY <1>1, <2>1, <4>2
    <3> QED
      BY <3>1, <3>2
  <2> HIDE DEF bound
  <2> QED
    BY <1>1, <2>1, <2>3, <2>4, <2>5
<1>3. bound \in [0 .. n -> Nat] /\ bound[0] = StartOf(h) /\ bound[n] = last
  <2>1. ASSUME NEW k \in 0 .. n, k # 0, k # n PROVE h + k - 1 \in 1 .. Newest
    BY <1>1, <2>1
  <2>2. \A k \in 0 .. n : bound[k] \in Nat
    BY <1>1, <2>1
  <2>3. 0 \in 0 .. n /\ n \in 0 .. n /\ n # 0
    BY <1>1
  <2>4. bound = [k \in 0 .. n |-> bound[k]] /\ bound[0] = StartOf(h) /\ bound[n] = last
    BY <2>3
  <2> HIDE DEF bound
  <2> QED
    BY <2>2, <2>4
<1> HIDE DEF bound
<1>4. /\ bound[0] <= bound[n]
      /\ FlattenSeq(segs) = Stretch(bound[0], bound[n])
  <2>1. n \in Nat \ {0} /\ \A k \in 1 .. n : bound[k - 1] <= bound[k]
    BY <1>1, <1>2
  <2> HIDE DEF n
  <2> QED
    BY <1>3, <2>1, FilesInOrder
<1>5. front = [k \in 1 .. n - 1 |-> segs[k]]
  <2>1. h <= (m - 1) + 1 /\ m - 1 \in 0 .. Newest /\ ((m - 1) - h) + 1 = n - 1
    BY <1>1
  <2>2. front = [k \in 1 .. n - 1 |-> Stretch(StartOf(h + k - 1), ends[h + k - 1])]
    BY <2>1, FilesOfRow
  <2>3. \A k \in 1 .. n - 1 : k \in 1 .. n /\ h + k - 1 # m
    BY <1>1
  <2>4. \A k \in 1 .. n - 1 : segs[k] = Stretch(StartOf(h + k - 1), ends[h + k - 1])
    BY <1>2, <2>3
  <2> HIDE DEF front, segs, n
  <2> QED
    BY <2>2, <2>4
<1>6. segs[n] = SegmentFile(m, last)
  <2>1. n \in 1 .. n /\ h + n - 1 = m
    BY <1>1
  <2> QED
    BY <1>2, <2>1, FileIsStretch
<1>7. \A k \in 1 .. n : segs[k] \in Seq(AllRecords)
  <2>1. \A k \in 1 .. n : k \in 0 .. n /\ k - 1 \in 0 .. n
    BY <1>1
  <2>2. \A k \in 1 .. n : bound[k - 1] \in Nat /\ bound[k] \in Nat /\ bound[k - 1] <= bound[k]
    BY <1>2, <1>3, <2>1
  <2> QED
    BY <2>2, StretchIsSeq
<1>8. Append(front, segs[n]) = segs /\ segs # <<>> /\ Len(segs) = n
  <2> DEFINE R == Seq(AllRecords)
             e(k) == segs[k]
  <2>1. segs = [k \in 1 .. n |-> e(k)] /\ n \in Nat /\ n - 1 \in Nat /\ n \in 1 .. n
    BY <1>1
  <2>2. \A k \in 1 .. n : e(k) \in R
    BY <1>7
  <2>3. \A k \in 1 .. n - 1 : k \in 1 .. n
    BY <1>1
  <2>4. front = [k \in 1 .. n - 1 |-> e(k)]
    BY <1>5
  <2> HIDE DEF R, e, segs, front, n
  <2>5. segs \in Seq(R) /\ Len(segs) = n
    BY <2>1, <2>2
  <2>6. front \in Seq(R) /\ Len(front) = n - 1
    BY <2>1, <2>2, <2>3, <2>4
  <2>7. /\ Append(front, e(n)) \in Seq(R) /\ Len(Append(front, e(n))) = (n - 1) + 1
        /\ \A i \in 1 .. n - 1 : Append(front, e(n))[i] = front[i]
        /\ Append(front, e(n))[(n - 1) + 1] = e(n)
    BY <2>1, <2>2, <2>6, AppendProperties
  <2>8. (n - 1) + 1 = n /\ \A i \in 1 .. n : i \in 1 .. n - 1 \/ i = n
    BY <2>1
  <2>9. \A i \in 1 .. n : Append(front, e(n))[i] = segs[i]
    BY <2>1, <2>4, <2>7, <2>8
  <2>10. Append(front, e(n)) = segs
    BY <2>5, <2>7, <2>8, <2>9, SeqEqual
  <2>11. segs # <<>>
    BY <2>1, <2>5, EmptySeq
  <2> QED
    BY <2>5, <2>10, <2>11 DEF e
<1>9. segs = [k \in 1 .. n |-> Stretch(StartOf(h + k - 1), IF h + k - 1 = m THEN last ELSE ends[h + k - 1])]
  <2>1. \A k \in 1 .. n : segs[k] = Stretch(StartOf(h + k - 1), IF h + k - 1 = m THEN last ELSE ends[h + k - 1])
    BY <1>2
  <2>2. segs = [k \in 1 .. n |-> segs[k]]
    OBVIOUS
  <2> HIDE DEF segs
  <2> QED
    BY <2>1, <2>2
<1>10. Append(front, SegmentFile(m, last)) = segs
  BY <1>6, <1>8
<1> HIDE DEF segs
<1> QED
  BY <1>3, <1>4, <1>8, <1>9, <1>10 DEF RowFiles

\* The files of the whole log.
LEMMA LogHolds ==
  ASSUME Types, LogInv, NEW h \in 1 .. Newest
  PROVE  /\ SegmentFiles(h .. Newest) # <<>>
         /\ StartOf(h) <= ChainHead
         /\ FlattenSeq(SegmentFiles(h .. Newest)) = Stretch(StartOf(h), ChainHead)
<1>1. /\ Newest \in Nat /\ Newest \in 1 .. Newest /\ h <= Newest /\ Newest \in 0 .. Newest
      /\ ends[Newest] \in Nat /\ StartOf(Newest) \in Nat /\ ChainHead = ends[Newest]
  <2>1. /\ Newest \in Nat /\ Newest > 0 /\ Newest \in 1 .. Newest
        /\ \A i \in 1 .. Newest : ends[i] \in Nat /\ StartOf(i) \in Nat
        /\ ChainHead = ends[Newest]
    BY Heads
  <2> QED
    BY <2>1
<1>2. ends[Newest] \in StartOf(Newest) .. ends[Newest]
  <2>1. StartOf(Newest) <= ends[Newest]
    <3>1. CASE Newest = 1
      BY <1>1, <3>1 DEF StartOf
    <3>2. CASE Newest # 1
      <4>1. Newest - 1 \in 1 .. Newest /\ Newest > 1 /\ Newest - 1 <= Newest
        BY <1>1, <3>2
      <4>2. StartOf(Newest) = ends[Newest - 1] /\ ends[Newest - 1] <= ends[Newest]
        BY <1>1, <4>1, Heads DEF LogInv
      <4> QED
        BY <4>2
    <3> QED
      BY <3>1, <3>2
  <2> QED
    BY <1>1, <2>1
<1> DEFINE held == RowFiles(h, Newest, ends[Newest])
           e(k) == Stretch(StartOf(h + k - 1), ends[h + k - 1])
           g(k) == Stretch(StartOf(h + k - 1), IF h + k - 1 = Newest THEN ends[Newest] ELSE ends[h + k - 1])
<1>3. /\ held # <<>> /\ StartOf(h) <= ends[Newest]
      /\ FlattenSeq(held) = Stretch(StartOf(h), ends[Newest])
      /\ held = [k \in 1 .. (Newest - h) + 1 |-> g(k)]
  BY <1>1, <1>2, RowHolds
<1>4. SegmentFiles(h .. Newest) = [k \in 1 .. (Newest - h) + 1 |-> e(k)]
  <2>1. h <= Newest + 1
    BY <1>1
  <2> QED
    BY <1>1, <2>1, FilesOfRow
<1>5. \A k \in 1 .. (Newest - h) + 1 : e(k) = g(k)
  OBVIOUS
<1> HIDE DEF e, g, held
<1>6. SegmentFiles(h .. Newest) = held
  BY <1>3, <1>4, <1>5
<1> QED
  BY <1>1, <1>3, <1>6

-----------------------------------------------------------------------------
(* One record of the walk, for any directory *)

IsWalk(w) == DOMAIN w = {"problems", "first", "watch", "seen", "prevHash", "prevSeq"}

LEMMA StartParts ==
  ASSUME NEW d
  PROVE  /\ IsWalk(WalkStart(d)) /\ WalkStart(d).problems = {} /\ WalkStart(d).first
         /\ WalkStart(d).watch = "off" /\ WalkStart(d).seen = {}
         /\ WalkStart(d).prevHash = IF Pruned(d) THEN d.anchor.hash ELSE Genesis
         /\ WalkStart(d).prevSeq = IF Pruned(d) THEN d.anchor.seq ELSE 0
BY DEF IsWalk, WalkStart

\* What the first record says of the anchor only adds to what was found.
Carried(w, v) == IsWalk(v) /\ ~v.first /\ v.seen = w.seen /\ w.problems \subseteq v.problems

LEMMA StartedParts ==
  ASSUME NEW d, NEW w, IsWalk(w), NEW rec
  PROVE  Carried(w, Started(d, w, rec))
<1> DEFINE v == [w EXCEPT !.first = FALSE]
<1>1. /\ IsWalk(v) /\ ~v.first /\ v.problems = w.problems /\ v.watch = w.watch
      /\ v.seen = w.seen /\ v.prevHash = w.prevHash /\ v.prevSeq = w.prevSeq
  BY DEF IsWalk
<1>2. CASE ~(w.first /\ Pruned(d))
  BY <1>1, <1>2 DEF Started, Carried
<1>3. CASE w.first /\ Pruned(d)
  <2>1. Started(d, w, rec) = PrunedStart(d, v, rec)
    BY <1>3 DEF Started
  <2> DEFINE p == {IF rec.seq > d.anchor.seq + 1 THEN "sequence_gap" ELSE "broken_link"}
             h == IF rec.seq = 1 /\ rec.prev = Genesis THEN Genesis ELSE Unknown
             inside == [v EXCEPT !.watch = "armed", !.prevHash = h, !.prevSeq = rec.seq - 1]
             other == [v EXCEPT !.problems = @ \cup p, !.prevHash = Unknown, !.prevSeq = rec.seq - 1]
  <2>2. PrunedStart(d, v, rec) = v \/ PrunedStart(d, v, rec) = inside \/ PrunedStart(d, v, rec) = other
    BY DEF PrunedStart, StartInsidePruned
  <2> HIDE DEF v, p, h
  <2>3. IsWalk(inside) /\ ~inside.first /\ inside.seen = w.seen /\ inside.problems = w.problems
    BY <1>1 DEF IsWalk
  <2>4. IsWalk(other) /\ ~other.first /\ other.seen = w.seen /\ w.problems \subseteq other.problems
    BY <1>1 DEF IsWalk
  <2> HIDE DEF inside, other
  <2> QED
    BY <1>1, <1>3, <2>1, <2>2, <2>3, <2>4 DEF Carried
<1> QED
  BY <1>2, <1>3

\* A record that can be read.
Read(d, w, v, rec, u) ==
  /\ IsWalk(u) /\ ~u.first
  /\ u.problems = v.problems \cup (LinkProblems(v, rec) \cup MatchProblems(d, rec))
  /\ u.watch = Observed(d, v, rec)
  /\ u.seen = w.seen \cup CheckpointsAt(d, rec.seq)
  /\ u.prevHash = rec.hash /\ u.prevSeq = rec.seq

LEMMA ReadParts ==
  ASSUME NEW d, NEW w, IsWalk(w), NEW rec, ~Unreadable(rec)
  PROVE  Read(d, w, Started(d, w, rec), rec, WalkRecord(d, w, rec))
<1> DEFINE v == Started(d, w, rec)
           u == WalkRecord(d, w, rec)
           p == LinkProblems(v, rec)
           q == MatchProblems(d, rec)
           o == Observed(d, v, rec)
           c == CheckpointsAt(d, rec.seq)
<1>1. IsWalk(v) /\ ~v.first /\ v.seen = w.seen
  BY StartedParts DEF Carried
<1>2. u = [v EXCEPT !.problems = @ \cup p \cup q, !.watch = o, !.seen = @ \cup c,
                    !.prevHash = rec.hash, !.prevSeq = rec.seq]
  BY DEF WalkRecord
<1> HIDE DEF v, u, p, q, o, c
<1>3. /\ IsWalk(u) /\ ~u.first
      /\ u.problems = v.problems \cup p \cup q /\ u.watch = o
      /\ u.seen = w.seen \cup c
      /\ u.prevHash = rec.hash /\ u.prevSeq = rec.seq
  BY <1>1, <1>2 DEF IsWalk
<1>4. v.problems \cup p \cup q = v.problems \cup (p \cup q)
  OBVIOUS
<1> QED
  BY <1>3, <1>4 DEF u, v, p, q, o, c, Read

LEMMA UnreadableParts ==
  ASSUME NEW d, NEW w, IsWalk(w), NEW rec, Unreadable(rec)
  PROVE  /\ IsWalk(WalkRecord(d, w, rec)) /\ ~WalkRecord(d, w, rec).first
         /\ WalkRecord(d, w, rec).problems = w.problems \cup {"malformed_record"}
         /\ WalkRecord(d, w, rec).watch = w.watch /\ WalkRecord(d, w, rec).seen = w.seen
<1>1. WalkRecord(d, w, rec) = [w EXCEPT !.problems = @ \cup {"malformed_record"}, !.prevHash = Unknown, !.first = FALSE]
  BY DEF WalkRecord
<1> QED
  BY <1>1 DEF IsWalk

\* What was found is never taken back, and every step leaves a state of the walk.
LEMMA WalkGrows ==
  ASSUME NEW d, NEW w, IsWalk(w), NEW rec
  PROVE  /\ IsWalk(WalkRecord(d, w, rec)) /\ ~WalkRecord(d, w, rec).first
         /\ w.problems \subseteq WalkRecord(d, w, rec).problems
<1>1. CASE Unreadable(rec)
  BY <1>1, UnreadableParts
<1>2. CASE ~Unreadable(rec)
  <2> DEFINE v == Started(d, w, rec)
             u == WalkRecord(d, w, rec)
  <2>1. w.problems \subseteq v.problems
    BY StartedParts DEF Carried
  <2>2. /\ IsWalk(u) /\ ~u.first
        /\ u.problems = v.problems \cup (LinkProblems(v, rec) \cup MatchProblems(d, rec))
    BY <1>2, ReadParts, SMTT(30) DEF Read
  <2> HIDE DEF v, u
  <2>3. w.problems \subseteq u.problems
    BY <2>1, <2>2
  <2> QED
    BY <2>2, <2>3 DEF u
<1> QED
  BY <1>1, <1>2

LEMMA WalkKeeps ==
  ASSUME NEW d, NEW n \in Nat, NEW w, Steps(d, w, n), NEW k \in 0 .. n
  PROVE  IsWalk(w[k]) /\ (k > 0 => ~w[k].first) /\ \A m \in k .. n : w[k].problems \subseteq w[m].problems
<1>1. w[0] = WalkStart(d) /\ \A i \in 0 .. n - 1 : w[i + 1] = WalkRecord(d, w[i], Records(d)[i + 1])
  <2>1. 0 \in 0 .. n /\ \A i \in 0 .. n - 1 : i + 1 \in 0 .. n /\ i + 1 # 0 /\ (i + 1) - 1 = i
    OBVIOUS
  <2>2. \A i \in 0 .. n : w[i] = IF i = 0 THEN WalkStart(d) ELSE WalkRecord(d, w[i - 1], Records(d)[i])
    BY DEF Steps
  <2>3. w[0] = WalkStart(d)
    BY <2>1, <2>2
  <2>4. ASSUME NEW i \in 0 .. n - 1 PROVE w[i + 1] = WalkRecord(d, w[i], Records(d)[i + 1])
    BY <2>1, <2>2
  <2> QED
    BY <2>3, <2>4
<1>2. \A i \in 0 .. n : IsWalk(w[i]) /\ (i > 0 => ~w[i].first)
  <2> DEFINE S == {i \in 0 .. n : IsWalk(w[i]) /\ (i > 0 => ~w[i].first)}
  <2>1. 0 \in S
    BY <1>1, StartParts
  <2>2. ASSUME NEW i \in 0 .. n - 1, i \in S PROVE i + 1 \in S
    <3>1. IsWalk(w[i]) /\ i + 1 \in 0 .. n
      BY <2>2
    <3>2. w[i + 1] = WalkRecord(d, w[i], Records(d)[i + 1])
      BY <1>1
    <3> QED
      BY <3>1, <3>2, WalkGrows
  <2>3. \A i \in 0 .. n : i \in S
    <3> HIDE DEF S
    <3> QED
      BY <2>1, <2>2, CountingUp
  <2> QED
    BY <2>3
<1>3. \A m \in k .. n : w[k].problems \subseteq w[m].problems
  <2> DEFINE S == {i \in 0 .. n : i >= k => w[k].problems \subseteq w[i].problems}
  <2>1. 0 \in S
    OBVIOUS
  <2>2. ASSUME NEW i \in 0 .. n - 1, i \in S PROVE i + 1 \in S
    <3>1. i \in 0 .. n /\ i + 1 \in 0 .. n
      OBVIOUS
    <3>2. w[i].problems \subseteq w[i + 1].problems
      BY <1>1, <1>2, <3>1, WalkGrows
    <3>3. i + 1 >= k => i + 1 = k \/ i >= k
      OBVIOUS
    <3> QED
      BY <2>2, <3>1, <3>2, <3>3
  <2>3. \A i \in 0 .. n : i \in S
    <3> HIDE DEF S
    <3> QED
      BY <2>1, <2>2, CountingUp
  <2> QED
    BY <2>3
<1> QED
  BY <1>2, <1>3

-----------------------------------------------------------------------------
(* The walk over an honest log *)

\* An anchor that fits a log which is left from record s + 1 to record last, and
\* checkpoints that attest what the log holds.
Fits(a, s, last) ==
  IF a.present THEN a.seq \in 1 .. last /\ s <= a.seq /\ a.hash = Chain(a.seq) ELSE s = 0
Attests(cks) == \A i \in DOMAIN cks : cks[i].seq \in Nat /\ cks[i].hash = Chain(cks[i].seq)

LEMMA HonestHash ==
  ASSUME NEW n \in Nat, n > 0
  PROVE  /\ Record(n).seq = n /\ ~Unreadable(Record(n)) /\ Record(n).hash = Chain(n)
         /\ Record(n).prev = Chain(n - 1) /\ Hash(Record(n)) = Record(n).hash
<1>1. Record(n).seq = n /\ Record(n).body = "event" /\ Record(n).hash = Chain(n) /\ Record(n).prev = Chain(n - 1)
  BY RecordParts
<1>2. n - 1 \in Nat /\ (n - 1) + 1 = n
  OBVIOUS
<1>3. Chain(n) = Append(Chain(n - 1), <<n, "event">>)
  BY <1>2, ChainGrows
<1> QED
  BY <1>1, <1>3 DEF Hash, Unreadable

LEMMA NoMismatch ==
  ASSUME NEW d, Attests(d.cks), NEW n \in Nat, n > 0
  PROVE  MatchProblems(d, Record(n)) = {}
<1>1. Record(n).seq = n /\ Record(n).hash = Chain(n)
  BY HonestHash
<1>2. \A i \in CheckpointsAt(d, n) : d.cks[i].hash = Chain(n)
  BY DEF CheckpointsAt, Attests
<1> QED
  BY <1>1, <1>2 DEF MatchProblems

\* Where the watch over the anchor is after record n.
WatchAt(a, s, n) ==
  IF ~a.present \/ a.seq = s THEN "off" ELSE IF n < a.seq THEN "armed" ELSE "agrees"
HonestState(d, w, s, n) ==
  /\ IsWalk(w) /\ ~w.first /\ w.problems = {} /\ w.watch = WatchAt(d.anchor, s, n)
  /\ w.seen = {i \in DOMAIN d.cks : d.cks[i].seq \in s + 1 .. n}
  /\ w.prevHash = Chain(n) /\ w.prevSeq = n

\* The first record that is left: the chain starts there, follows the anchor, or is
\* what an interrupted prune left.
LEMMA FirstStarts ==
  ASSUME NEW d, NEW s \in Nat, NEW last \in Nat, s < last, Fits(d.anchor, s, last),
         NEW v, v = Started(d, WalkStart(d), Record(s + 1))
  PROVE  /\ v.problems = {} /\ v.seen = {} /\ IsWalk(v)
         /\ LinkProblems(v, Record(s + 1)) = {}
         /\ v.watch = IF ~d.anchor.present \/ d.anchor.seq = s THEN "off" ELSE "armed"
<1> DEFINE rec == Record(s + 1)
           w == WalkStart(d)
           x == [w EXCEPT !.first = FALSE]
<1>1. s + 1 \in Nat /\ s + 1 > 0 /\ (s + 1) - 1 = s
  OBVIOUS
<1>2. rec.seq = s + 1 /\ rec.prev = Chain(s) /\ Hash(rec) = rec.hash
  BY <1>1, HonestHash
<1>3. /\ IsWalk(w) /\ w.problems = {} /\ w.first /\ w.watch = "off" /\ w.seen = {}
      /\ w.prevHash = IF Pruned(d) THEN d.anchor.hash ELSE Genesis
      /\ w.prevSeq = IF Pruned(d) THEN d.anchor.seq ELSE 0
  BY StartParts
<1>4. Pruned(d) <=> d.anchor.present
  BY DEF Pruned, Fits
<1> HIDE DEF rec, w
<1>5. /\ IsWalk(x) /\ x.problems = {} /\ x.watch = "off" /\ x.seen = {}
      /\ x.prevHash = w.prevHash /\ x.prevSeq = w.prevSeq
  BY <1>3 DEF IsWalk
<1>6. v = IF Pruned(d) THEN PrunedStart(d, x, rec) ELSE x
  BY <1>3 DEF Started, rec, w
<1>7. CASE ~d.anchor.present
  <2>1. v = x /\ s = 0 /\ v.prevHash = Genesis /\ v.prevSeq = 0 /\ rec.prev = Genesis
    BY <1>2, <1>3, <1>4, <1>5, <1>6, <1>7, ChainGrows DEF Fits, Genesis
  <2>2. LinkProblems(v, rec) = {}
    BY <1>2, <2>1 DEF LinkProblems
  <2> QED
    BY <1>5, <1>7, <2>1, <2>2 DEF rec
<1>8. CASE d.anchor.present /\ d.anchor.seq = s
  <2>1. v = PrunedStart(d, x, rec) /\ d.anchor.hash = Chain(s)
    BY <1>4, <1>6, <1>8 DEF Fits
  <2>2. v = x
    <3>1. /\ rec.seq = d.anchor.seq + 1 /\ rec.prev = d.anchor.hash
          /\ ~(rec.seq <= d.anchor.seq)
      BY <1>2, <1>8, <2>1
    <3> HIDE DEF x
    <3> QED
      BY <2>1, <3>1 DEF PrunedStart
  <2>3. v.prevHash = Chain(s) /\ v.prevSeq = s
    BY <1>3, <1>4, <1>5, <1>8, <2>1, <2>2
  <2>4. LinkProblems(v, rec) = {}
    BY <1>2, <2>3 DEF LinkProblems
  <2> QED
    BY <1>5, <1>8, <2>2, <2>4 DEF rec
<1>9. CASE d.anchor.present /\ d.anchor.seq # s
  <2>1. v = PrunedStart(d, x, rec) /\ d.anchor.seq \in Nat /\ rec.seq <= d.anchor.seq /\ rec.seq # d.anchor.seq + 1
    BY <1>2, <1>4, <1>6, <1>9 DEF Fits
  <2>2. v = StartInsidePruned(d, x, rec)
    BY <2>1 DEF PrunedStart
  <2> DEFINE h == IF rec.seq = 1 /\ rec.prev = Genesis THEN Genesis ELSE Unknown
  <2>3. v = [x EXCEPT !.watch = "armed", !.prevHash = h, !.prevSeq = rec.seq - 1]
    BY <2>2 DEF StartInsidePruned
  <2>4. h = Unknown \/ h = rec.prev
    OBVIOUS
  <2> HIDE DEF h, x
  <2>5. /\ IsWalk(v) /\ v.problems = {} /\ v.seen = {} /\ v.watch = "armed" /\ v.prevHash = h
        /\ v.prevSeq = s
    BY <1>1, <1>2, <1>5, <2>3 DEF IsWalk
  <2>6. LinkProblems(v, rec) = {}
    BY <1>2, <2>4, <2>5 DEF LinkProblems
  <2> QED
    BY <1>9, <2>5, <2>6 DEF rec
<1> QED
  BY <1>7, <1>8, <1>9

LEMMA HonestStep ==
  ASSUME NEW d, NEW s \in Nat, NEW last \in Nat, Fits(d.anchor, s, last), Attests(d.cks),
         NEW n \in s + 1 .. last, NEW w, NEW u, u = WalkRecord(d, w, Record(n)),
         IF n = s + 1 THEN w = WalkStart(d) ELSE HonestState(d, w, s, n - 1)
  PROVE  HonestState(d, u, s, n)
<1> DEFINE rec == Record(n)
           v == Started(d, w, rec)
<1>1. n \in Nat /\ n > 0
  OBVIOUS
<1>2. rec.seq = n /\ rec.prev = Chain(n - 1) /\ rec.hash = Chain(n) /\ Hash(rec) = rec.hash /\ ~Unreadable(rec)
  BY <1>1, HonestHash
<1>3. MatchProblems(d, rec) = {}
  BY <1>1, NoMismatch
<1>4. /\ v.problems = {} /\ LinkProblems(v, rec) = {} /\ IsWalk(w)
      /\ v.watch = IF ~d.anchor.present \/ d.anchor.seq = s THEN "off"
                   ELSE IF n - 1 < d.anchor.seq THEN "armed" ELSE "agrees"
      /\ w.seen = {i \in DOMAIN d.cks : d.cks[i].seq \in s + 1 .. n - 1}
  <2>1. CASE n = s + 1
    <3>1. w = WalkStart(d) /\ s < last
      BY <2>1
    <3>2. /\ v.problems = {} /\ v.seen = {} /\ LinkProblems(v, rec) = {}
          /\ v.watch = IF ~d.anchor.present \/ d.anchor.seq = s THEN "off" ELSE "armed"
      BY <2>1, <3>1, FirstStarts
    <3>3. n - 1 = s /\ {i \in DOMAIN d.cks : d.cks[i].seq \in s + 1 .. n - 1} = {}
      BY <2>1
    <3>4. d.anchor.present /\ d.anchor.seq # s => n - 1 < d.anchor.seq
      BY <3>3 DEF Fits
    <3> HIDE DEF v
    <3> QED
      BY <3>1, <3>2, <3>3, <3>4, StartParts
  <2>2. CASE n # s + 1
    <3>1. HonestState(d, w, s, n - 1)
      BY <2>2
    <3>2. /\ IsWalk(w) /\ ~w.first /\ w.problems = {} /\ w.watch = WatchAt(d.anchor, s, n - 1)
          /\ w.seen = {i \in DOMAIN d.cks : d.cks[i].seq \in s + 1 .. n - 1}
          /\ w.prevHash = Chain(n - 1) /\ w.prevSeq = n - 1
      BY <3>1 DEF HonestState
    <3>3. v = [w EXCEPT !.first = FALSE]
      BY <3>2 DEF Started
    <3> HIDE DEF v
    <3>4. /\ v.problems = {} /\ v.watch = w.watch /\ v.seen = w.seen
          /\ v.prevHash = Chain(n - 1) /\ v.prevSeq = n - 1
      BY <3>2, <3>3 DEF IsWalk
    <3>5. LinkProblems(v, rec) = {}
      BY <1>2, <3>4 DEF LinkProblems
    <3> QED
      BY <3>2, <3>4, <3>5 DEF WatchAt
  <2> QED
    BY <2>1, <2>2
<1>5. /\ IsWalk(u) /\ ~u.first
      /\ u.problems = v.problems \cup (LinkProblems(v, rec) \cup MatchProblems(d, rec))
      /\ u.watch = Observed(d, v, rec)
      /\ u.seen = w.seen \cup CheckpointsAt(d, n)
      /\ u.prevHash = Chain(n) /\ u.prevSeq = n
  <2>1. Read(d, w, v, rec, u)
    BY <1>2, <1>4, ReadParts
  <2> HIDE DEF v, rec
  <2> QED
    BY <1>2, <2>1 DEF Read
<1> HIDE DEF v, rec
<1>6. u.problems = {}
  BY <1>3, <1>4, <1>5
<1>7. u.seen = {i \in DOMAIN d.cks : d.cks[i].seq \in s + 1 .. n}
  <2>1. \A i \in DOMAIN d.cks : d.cks[i].seq \in Nat
    BY DEF Attests
  <2>2. \A i \in DOMAIN d.cks : d.cks[i].seq \in s + 1 .. n <=> (d.cks[i].seq \in s + 1 .. n - 1 \/ d.cks[i].seq = n)
    BY <2>1
  <2> QED
    BY <1>4, <1>5, <2>2 DEF CheckpointsAt
<1>8. u.watch = WatchAt(d.anchor, s, n)
  <2>1. CASE ~d.anchor.present \/ d.anchor.seq = s
    BY <1>4, <1>5, <2>1 DEF WatchAt, Observed
  <2>2. CASE d.anchor.present /\ d.anchor.seq # s
    <3>1. d.anchor.seq \in Nat /\ d.anchor.hash = Chain(d.anchor.seq)
      BY <2>2 DEF Fits
    <3>2. CASE n < d.anchor.seq
      BY <1>2, <1>4, <1>5, <2>2, <3>1, <3>2 DEF WatchAt, Observed
    <3>3. CASE n = d.anchor.seq
      BY <1>2, <1>4, <1>5, <2>2, <3>1, <3>3 DEF WatchAt, Observed
    <3>4. CASE n > d.anchor.seq
      BY <1>2, <1>4, <1>5, <2>2, <3>1, <3>4 DEF WatchAt, Observed
    <3> QED
      BY <3>1, <3>2, <3>3, <3>4
  <2> QED
    BY <2>1, <2>2
<1> QED
  BY <1>5, <1>6, <1>7, <1>8 DEF HonestState

\* The whole walk over an honest log finds at most that a prune was interrupted.
Attested(d, last) ==
  /\ Attests(d.cks)
  /\ \A i \in DOMAIN d.cks : /\ d.cks[i].seq > 0
                             /\ d.cks[i].seq <= last \/ (d.anchor.present /\ d.cks[i].seq <= d.anchor.seq)

LEMMA HonestEnd ==
  ASSUME NEW d, NEW s \in Nat, NEW last \in Nat, s < last, Fits(d.anchor, s, last), Attests(d.cks),
         Records(d) = Stretch(s, last)
  PROVE  HonestState(d, Walked(d), s, last)
<1> DEFINE n == last - s
<1>1. n \in Nat /\ n > 0 /\ Len(Records(d)) = n /\ \A k \in 1 .. n : Records(d)[k] = Record(s + k)
  <2>1. Len(Stretch(s, last)) = n /\ \A k \in 1 .. n : Stretch(s, last)[k] = Record(s + k)
    BY StretchIsSeq DEF Stretch
  <2> QED
    BY <2>1
<1>2. PICK w : Steps(d, w, n) /\ Walked(d) = w[n]
  <2>1. Len(Records(d)) \in Nat
    BY <1>1
  <2>2. \E w : Steps(d, w, Len(Records(d))) /\ Walked(d) = w[Len(Records(d))]
    BY <2>1, WalkSteps
  <2> QED
    BY <1>1, <2>2
<1> HIDE DEF n
<1> DEFINE S == {k \in 0 .. n : IF k = 0 THEN w[k] = WalkStart(d) ELSE HonestState(d, w[k], s, s + k)}
<1>3. w = [k \in 0 .. n |-> IF k = 0 THEN WalkStart(d) ELSE WalkRecord(d, w[k - 1], Records(d)[k])]
  BY <1>2 DEF Steps
<1>4. 0 \in S
  <2>1. 0 \in 0 .. n
    BY <1>1
  <2> QED
    BY <1>3, <2>1
<1>5. ASSUME NEW k \in 0 .. n - 1, k \in S PROVE k + 1 \in S
  <2>1. /\ k + 1 \in 0 .. n /\ k + 1 # 0 /\ (k + 1) - 1 = k /\ k + 1 \in 1 .. n /\ k \in Nat
        /\ s + (k + 1) \in s + 1 .. last /\ (s + (k + 1)) - 1 = s + k
        /\ (s + (k + 1) = s + 1 <=> k = 0)
    BY <1>1 DEF n
  <2>2. w[k + 1] = WalkRecord(d, w[k], Record(s + (k + 1)))
    BY <1>1, <1>3, <2>1
  <2>3. IF s + (k + 1) = s + 1 THEN w[k] = WalkStart(d) ELSE HonestState(d, w[k], s, (s + (k + 1)) - 1)
    BY <1>5, <2>1
  <2>4. HonestState(d, w[k + 1], s, s + (k + 1))
    BY <2>1, <2>2, <2>3, HonestStep
  <2> QED
    BY <2>1, <2>4
<1>6. n \in S
  <2>1. n \in 0 .. n
    BY <1>1
  <2> HIDE DEF S
  <2> QED
    BY <1>1, <1>4, <1>5, <2>1, CountingUp
<1>7. n # 0 /\ s + n = last
  BY <1>1 DEF n
<1>8. HonestState(d, w[n], s, s + n)
  BY <1>6, <1>7
<1> QED
  BY <1>2, <1>7, <1>8

LEMMA HonestWalk ==
  ASSUME NEW d, NEW s \in Nat, NEW last \in Nat, s <= last, Fits(d.anchor, s, last),
         Attested(d, last), Records(d) = Stretch(s, last), d.segments # <<>>
  PROVE  WalkProblems(d) = IF s < last /\ d.anchor.present /\ d.anchor.seq # s
                           THEN {"prune_incomplete"} ELSE {}
<1>1. WalkProblems(d) = Walked(d).problems \cup WatchProblems(Walked(d)) \cup UnseenProblems(d, Walked(d))
  BY DEF WalkProblems
<1>2. \A i \in DOMAIN d.cks : d.cks[i].seq \in Nat /\ d.cks[i].seq > 0
  BY DEF Attested, Attests
<1>3. CASE s < last
  <2>1. HonestState(d, Walked(d), s, last)
    BY <1>3, HonestEnd DEF Attested
  <2>2. /\ Walked(d).problems = {} /\ Walked(d).watch = WatchAt(d.anchor, s, last)
        /\ Walked(d).seen = {i \in DOMAIN d.cks : d.cks[i].seq \in s + 1 .. last}
    BY <2>1 DEF HonestState
  <2>3. UnseenProblems(d, Walked(d)) = {}
    <3>1. ASSUME NEW i \in DOMAIN d.cks \ Walked(d).seen
          PROVE  d.anchor.present /\ d.cks[i].seq <= d.anchor.seq
      <4>1. d.cks[i].seq \in Nat /\ d.cks[i].seq > 0 /\ d.cks[i].seq \notin s + 1 .. last
        BY <1>2, <2>2
      <4>2. CASE d.cks[i].seq <= last
        <5>1. d.cks[i].seq <= s /\ s # 0
          BY <4>1, <4>2
        <5> QED
          BY <4>1, <5>1 DEF Fits
      <4>3. CASE ~(d.cks[i].seq <= last)
        BY <4>3 DEF Attested
      <4> QED
        BY <4>2, <4>3
    <3> QED
      BY <3>1 DEF UnseenProblems
  <2>4. WatchProblems(Walked(d)) = IF d.anchor.present /\ d.anchor.seq # s THEN {"prune_incomplete"} ELSE {}
    <3>1. d.anchor.present => ~(last < d.anchor.seq)
      BY DEF Fits
    <3>2. Walked(d).watch = IF d.anchor.present /\ d.anchor.seq # s THEN "agrees" ELSE "off"
      BY <2>2, <3>1 DEF WatchAt
    <3> QED
      BY <3>2 DEF WatchProblems
  <2> QED
    BY <1>1, <1>3, <2>2, <2>3, <2>4
<1>4. CASE ~(s < last)
  <2>1. s = last /\ Len(Records(d)) = 0
    <3>1. s = last /\ last - s = 0
      BY <1>4
    <3>2. Len(Stretch(s, last)) = last - s
      BY StretchIsSeq
    <3> QED
      BY <3>1, <3>2
  <2>2. Walked(d) = WalkStart(d)
    <3>1. PICK w : Steps(d, w, 0) /\ Walked(d) = w[0]
      <4>1. Len(Records(d)) \in Nat
        BY <2>1
      <4>2. \E w : Steps(d, w, Len(Records(d))) /\ Walked(d) = w[Len(Records(d))]
        BY <4>1, WalkSteps
      <4> QED
        BY <2>1, <4>2
    <3>2. 0 \in 0 .. 0
      OBVIOUS
    <3> QED
      BY <3>1, <3>2 DEF Steps
  <2>3. Walked(d).problems = {} /\ Walked(d).watch = "off" /\ Walked(d).seen = {}
    BY <2>2, StartParts
  <2>4. UnseenProblems(d, Walked(d)) = {}
    <3>1. ASSUME NEW i \in DOMAIN d.cks PROVE d.anchor.present /\ d.cks[i].seq <= d.anchor.seq
      <4>1. d.cks[i].seq \in Nat /\ d.cks[i].seq > 0
        BY <1>2
      <4>2. CASE d.cks[i].seq <= last
        BY <2>1, <4>1, <4>2 DEF Fits
      <4>3. CASE ~(d.cks[i].seq <= last)
        BY <4>3 DEF Attested
      <4> QED
        BY <4>2, <4>3
    <3> QED
      BY <3>1 DEF UnseenProblems
  <2>5. WatchProblems(Walked(d)) = {}
    BY <2>3 DEF WatchProblems
  <2> QED
    BY <1>1, <1>4, <2>3, <2>4, <2>5
<1> QED
  BY <1>3, <1>4

-----------------------------------------------------------------------------
(* The checkpoints, the stamps and the anchor *)

ListOf(n) == Signed([seq |-> n, hash |-> Record(n).hash, key |-> "k1"])
Before(list, i) == IF i = 1 THEN <<>> ELSE CheckpointHash(ListOf(list[i - 1]))

LEMMA SignedParts ==
  ASSUME NEW n \in Nat
  PROVE  /\ ListOf(n).seq = n /\ ListOf(n).hash = Chain(n) /\ ListOf(n).key = "k1"
         /\ ListOf(n).signature = <<n, Chain(n), "k1">> /\ ~ListOf(n).chained
         /\ Genuine(ListOf(n))
<1>1. Record(n).hash = Chain(n)
  BY RecordParts
<1> QED
  BY <1>1 DEF ListOf, Signed, CheckpointPreimage, Genuine, Chained

LEMMA LinkedParts ==
  ASSUME NEW n \in Nat, NEW index, NEW prev
  PROVE  LET c == Linked(ListOf(n), index, prev)
         IN  /\ c.seq = n /\ c.hash = Chain(n) /\ c.key = "k1" /\ c.signature = <<n, Chain(n), "k1">>
             /\ c.chained /\ c.index = index /\ c.prev = prev
             /\ Genuine(c) /\ CheckpointHash(c) = CheckpointHash(ListOf(n))
<1> DEFINE b == ListOf(n)
           d == [b EXCEPT !.chained = TRUE, !.index = index, !.prev = prev]
           c == [d EXCEPT !.chainSignature = ChainPreimage(d)]
<1>1. DOMAIN b = {"seq", "hash", "key", "signature", "chained", "index", "prev", "chainSignature"}
  BY DEF ListOf, Signed
<1>2. b.seq = n /\ b.hash = Chain(n) /\ b.key = "k1" /\ b.signature = <<n, Chain(n), "k1">>
  BY SignedParts
<1>3. c = Linked(b, index, prev)
  BY DEF Linked
<1> HIDE DEF b
<1>4. /\ d.seq = n /\ d.hash = Chain(n) /\ d.key = "k1" /\ d.signature = <<n, Chain(n), "k1">>
      /\ d.index = index /\ d.prev = prev /\ d.chained /\ DOMAIN d = DOMAIN b
  BY <1>1, <1>2
<1> HIDE DEF d
<1>5. /\ c.seq = n /\ c.hash = Chain(n) /\ c.key = "k1" /\ c.signature = <<n, Chain(n), "k1">>
      /\ c.index = index /\ c.prev = prev /\ c.chained /\ c.chainSignature = ChainPreimage(d)
  BY <1>1, <1>4
<1> HIDE DEF c
<1>6. CheckpointHash(c) = CheckpointHash(d) /\ CheckpointHash(c) = CheckpointHash(b)
  BY <1>2, <1>4, <1>5 DEF CheckpointHash, CheckpointPreimage
<1>7. Genuine(c)
  <2>1. c.signature = CheckpointPreimage(c)
    BY <1>5 DEF CheckpointPreimage
  <2>2. c.chainSignature = ChainPreimage(c)
    BY <1>4, <1>5, <1>6 DEF ChainPreimage
  <2> QED
    BY <2>1, <2>2 DEF Genuine
<1> QED
  BY <1>3, <1>5, <1>6, <1>7 DEF b

\* The lines of an honest checkpoints.jsonl.
LEMMA ListParts ==
  ASSUME NEW list \in Seq(Nat), NEW i \in DOMAIN list
  PROVE  /\ DOMAIN CheckpointList(list) = DOMAIN list
         /\ CheckpointList(list)[i].seq = list[i] /\ CheckpointList(list)[i].hash = Chain(list[i])
         /\ CheckpointList(list)[i].key = "k1" /\ Genuine(CheckpointList(list)[i])
         /\ CheckpointHash(CheckpointList(list)[i]) = CheckpointHash(ListOf(list[i]))
         /\ Chained(CheckpointList(list)[i]) <=> i > Legacy
         /\ i > Legacy => /\ CheckpointList(list)[i].index = i - 1
                          /\ CheckpointList(list)[i].prev = Before(list, i)
<1>1. DOMAIN list = 1 .. Len(list) /\ Len(list) \in Nat /\ list[i] \in Nat /\ i \in Nat
  BY LenProperties, ElementOfSeq
<1>2. Legacy \in Nat
  BY RetentionAssumption
<1>3. CheckpointList(list) = [j \in DOMAIN list |-> IF j <= Legacy THEN ListOf(list[j])
                                ELSE Linked(ListOf(list[j]), j - 1, Before(list, j))]
  BY DEF CheckpointList, ListOf, Before
<1>4. CheckpointList(list)[i] = IF i <= Legacy THEN ListOf(list[i])
                                ELSE Linked(ListOf(list[i]), i - 1, Before(list, i))
  BY <1>3
<1>5. DOMAIN CheckpointList(list) = DOMAIN list
  BY <1>3
<1>6. CASE i <= Legacy
  <2>1. CheckpointList(list)[i] = ListOf(list[i]) /\ ~(i > Legacy)
    BY <1>1, <1>2, <1>4, <1>6
  <2> QED
    BY <1>1, <1>5, <2>1, SignedParts DEF Chained
<1>7. CASE ~(i <= Legacy)
  <2>1. CheckpointList(list)[i] = Linked(ListOf(list[i]), i - 1, Before(list, i)) /\ i > Legacy
    BY <1>1, <1>2, <1>4, <1>7
  <2> QED
    BY <1>1, <1>5, <2>1, LinkedParts DEF Chained
<1> QED
  BY <1>6, <1>7

LEMMA ListLinks ==
  ASSUME NEW list \in Seq(Nat), NEW i \in DOMAIN list
  PROVE  ~GapAt(CheckpointList(list), i)
<1> DEFINE c == CheckpointList(list)
<1>1. DOMAIN list = 1 .. Len(list) /\ Len(list) \in Nat /\ i \in Nat /\ i >= 1 /\ Legacy \in Nat
  BY LenProperties, RetentionAssumption
<1>2. Chained(c[i]) <=> i > Legacy
  BY ListParts
<1>3. i > Legacy => c[i].index = i - 1 /\ c[i].prev = Before(list, i)
  BY ListParts
<1>4. CASE ~Chained(c[i])
  BY <1>4 DEF GapAt
<1>5. CASE Chained(c[i]) /\ (i = 1 \/ ~Chained(c[i - 1]))
  <2>1. c[i].index = i - 1 /\ ~(i - 1 > i - 1)
    BY <1>1, <1>2, <1>3, <1>5
  <2> HIDE DEF c
  <2>2. ~GapAt(c, i)
    BY <1>5, <2>1 DEF GapAt
  <2> QED
    BY <2>2 DEF c
<1>6. CASE Chained(c[i]) /\ i # 1 /\ Chained(c[i - 1])
  <2>1. i - 1 \in DOMAIN list
    BY <1>1, <1>6
  <2>2. Chained(c[i - 1]) <=> i - 1 > Legacy
    BY <2>1, ListParts
  <2>3. i - 1 > Legacy => c[i - 1].index = (i - 1) - 1
    BY <2>1, ListParts
  <2>4. CheckpointHash(c[i - 1]) = CheckpointHash(ListOf(list[i - 1]))
    BY <2>1, ListParts
  <2>5. c[i].index = c[i - 1].index + 1 /\ c[i].prev = CheckpointHash(c[i - 1])
    BY <1>1, <1>2, <1>3, <1>6, <2>2, <2>3, <2>4 DEF Before
  <2> HIDE DEF c
  <2>6. ~GapAt(c, i)
    BY <1>6, <2>5 DEF GapAt
  <2> QED
    BY <2>6 DEF c
<1> QED
  BY <1>4, <1>5, <1>6

LEMMA HonestStamps ==
  ASSUME NEW d, NEW list \in Seq(Nat), d.cks = CheckpointList(list), d.stamps = Stamps(list)
  PROVE  StampProblems(d) = {}
<1>1. /\ DOMAIN list = 1 .. Len(list) /\ Len(list) \in Nat
      /\ \A i \in DOMAIN list : list[i] \in Nat
  BY LenProperties, ElementOfSeq
<1>2. /\ list # <<>> => DOMAIN d.cks = DOMAIN list
      /\ \A i \in DOMAIN list : i \in DOMAIN d.cks /\ d.cks[i].seq = list[i] /\ d.cks[i].hash = Chain(list[i])
  <2>1. DOMAIN CheckpointList(list) = DOMAIN list
    BY DEF CheckpointList
  <2> QED
    BY <2>1, ListParts
<1>3. DOMAIN d.cks = DOMAIN list
  BY DEF CheckpointList
<1>4. ASSUME NEW t \in d.stamps
      PROVE  /\ CheckpointsAt(d, t.seq) # {} => CheckpointAt(d, t.seq).hash = t.hash
             /\ t.imprint = t.hash
  <2>1. PICK n \in ToSet(list) : t = [seq |-> n, hash |-> Record(n).hash, imprint |-> Record(n).hash]
    BY DEF Stamps
  <2>2. PICK k \in DOMAIN list : n = list[k]
    BY DEF ToSet
  <2>3. n \in Nat /\ t.seq = n /\ t.hash = Chain(n) /\ t.imprint = t.hash
    BY <1>1, <2>1, <2>2, RecordParts
  <2> DEFINE S == CheckpointsAt(d, n)
  <2>4. S \in SUBSET (1 .. Len(list)) /\ \A i \in S : d.cks[i].hash = Chain(n)
    BY <1>1, <1>2, <1>3 DEF CheckpointsAt
  <2>5. CheckpointAt(d, n) = d.cks[CHOOSE i \in S : \A j \in S : i <= j]
    BY DEF CheckpointAt
  <2> HIDE DEF S
  <2>6. ASSUME S # {} PROVE CheckpointAt(d, n).hash = Chain(n)
    <3>1. \E i \in S : \A j \in S : i <= j
      BY <1>1, <2>4, <2>6, FirstPosition
    <3>2. (CHOOSE i \in S : \A j \in S : i <= j) \in S
      BY <3>1
    <3> QED
      BY <2>4, <2>5, <3>2
  <2> QED
    BY <2>3, <2>6 DEF S
<1> QED
  BY <1>4 DEF StampProblems

-----------------------------------------------------------------------------
(* All that verify finds in an honest directory *)

\* An anchor that was written by retention.
Sealing(a) ==
  /\ DOMAIN a = {"present", "seq", "hash", "segments", "records", "key", "signature"}
  /\ a.key = "k1" /\ a.signature = AnchorPreimage(a)
Honest(d, a, list, segs) ==
  d.anchor = a /\ d.cks = CheckpointList(list) /\ d.stamps = Stamps(list) /\ d.segments = segs
\* What checkpoints may be about: what is there, or what the anchor covers.
Covers(a, list, last) ==
  \A i \in DOMAIN list : list[i] > 0 /\ (list[i] <= last \/ (a.present /\ list[i] <= a.seq))

LEMMA HonestFiles ==
  ASSUME NEW d, NEW a, NEW list \in Seq(Nat), NEW segs, NEW s \in Nat, NEW last \in Nat,
         Honest(d, a, list, segs), s <= last, Fits(a, s, last), a.present => Sealing(a),
         Covers(a, list, last), segs # <<>>, FlattenSeq(segs) = Stretch(s, last)
  PROVE  /\ WalkProblems(d) = IF s < last /\ a.present /\ a.seq # s THEN {"prune_incomplete"} ELSE {}
         /\ Problems(d) \subseteq WalkProblems(d) \cup {"unknown_key"}
         /\ d.keys = {"k1"} => Problems(d) = WalkProblems(d)
<1>1. d.anchor = a /\ d.cks = CheckpointList(list) /\ d.stamps = Stamps(list) /\ d.segments = segs
  BY DEF Honest
<1>2. DOMAIN d.cks = DOMAIN list
  BY <1>1 DEF CheckpointList
<1>3. \A i \in DOMAIN list : list[i] \in Nat
  BY LenProperties, ElementOfSeq
<1>4. ASSUME NEW i \in DOMAIN d.cks
      PROVE  /\ d.cks[i].seq = list[i] /\ d.cks[i].hash = Chain(list[i])
             /\ d.cks[i].key = "k1" /\ Genuine(d.cks[i]) /\ ~GapAt(d.cks, i)
  <2>1. i \in DOMAIN list
    BY <1>2
  <2> QED
    BY <1>1, <2>1, ListParts, ListLinks
<1>5. Attested(d, last)
  <2>1. Attests(d.cks)
    BY <1>2, <1>3, <1>4 DEF Attests
  <2>2. \A i \in DOMAIN d.cks : list[i] > 0 /\ (list[i] <= last \/ (a.present /\ list[i] <= a.seq))
    BY <1>2 DEF Covers
  <2> QED
    BY <1>1, <1>4, <2>1, <2>2 DEF Attested
<1>6. WalkProblems(d) = IF s < last /\ a.present /\ a.seq # s THEN {"prune_incomplete"} ELSE {}
  <2>1. Records(d) = Stretch(s, last)
    BY <1>1 DEF Records
  <2>2. WalkProblems(d) = IF s < last /\ d.anchor.present /\ d.anchor.seq # s
                          THEN {"prune_incomplete"} ELSE {}
    BY <1>1, <1>5, <2>1, HonestWalk
  <2> QED
    BY <1>1, <2>2
<1>7. StampProblems(d) = {} /\ LinkageProblems(d) = {}
  <2>1. StampProblems(d) = {}
    BY <1>1, HonestStamps
  <2>2. LinkageProblems(d) = {}
    BY <1>4 DEF LinkageProblems
  <2> QED
    BY <2>1, <2>2
<1>8. SignatureProblems(d) \subseteq {"unknown_key"} /\ (d.keys = {"k1"} => SignatureProblems(d) = {})
  BY <1>4 DEF SignatureProblems
<1>9. AnchorProblems(d) \subseteq {"unknown_key"} /\ (d.keys = {"k1"} => AnchorProblems(d) = {})
  <2>1. ~AnchorUnusable(d)
    BY <1>1 DEF AnchorUnusable, Fits
  <2>2. d.anchor.present => d.anchor.key = "k1" /\ d.anchor.signature = AnchorPreimage(d.anchor)
    BY <1>1 DEF Sealing
  <2> QED
    BY <2>1, <2>2 DEF AnchorProblems, AnchorChecked
<1> QED
  BY <1>6, <1>7, <1>8, <1>9 DEF Problems

\* Of an honest directory verify finds at most an interrupted prune, and whichever
\* public keys it has, what it finds beyond that is not damage.
LEMMA HonestDirectory ==
  ASSUME NEW a, NEW list \in Seq(Nat), NEW segs, NEW s \in Nat, NEW last \in Nat,
         s <= last, Fits(a, s, last), a.present => Sealing(a), Covers(a, list, last), segs # <<>>,
         FlattenSeq(segs) = Stretch(s, last), NEW d, d = Directory(a, list, segs)
  PROVE  /\ Problems(d) \subseteq {"prune_incomplete"}
         /\ Problems(d) = {} => \A K : Intact(Problems([d EXCEPT !.keys = K]))
<1>1. /\ Honest(d, a, list, segs) /\ d.keys = {"k1"}
      /\ DOMAIN d = {"anchor", "keys", "cks", "stamps", "segments"}
  BY DEF Honest, Directory
<1>2. /\ Problems(d) = WalkProblems(d)
      /\ WalkProblems(d) = IF s < last /\ a.present /\ a.seq # s THEN {"prune_incomplete"} ELSE {}
  BY <1>1, HonestFiles
<1>3. ASSUME NEW K, Problems(d) = {} PROVE Intact(Problems([d EXCEPT !.keys = K]))
  <2> DEFINE e == [d EXCEPT !.keys = K]
  <2>1. Honest(e, a, list, segs)
    BY <1>1 DEF Honest
  <2> HIDE DEF e
  <2>2. /\ Problems(e) \subseteq WalkProblems(e) \cup {"unknown_key"}
        /\ WalkProblems(e) = IF s < last /\ a.present /\ a.seq # s THEN {"prune_incomplete"} ELSE {}
    BY <2>1, HonestFiles
  <2>3. Problems(e) \subseteq {"unknown_key"}
    BY <1>2, <1>3, <2>2
  <2>4. Intact(Problems(e))
    BY <2>3 DEF Intact, Uncheckable
  <2> QED
    BY <2>4 DEF e
<1> QED
  BY <1>2, <1>3

-----------------------------------------------------------------------------
(* What the commands that read have in hand *)

AnchorFits(a) ==
  IF a.present
  THEN Sealing(a) /\ a.hash = Chain(a.seq) /\ a.seq \in 1 .. ChainHead /\ \A i \in gone : ends[i] <= a.seq
  ELSE gone = {}
About(list) == list \in Seq(Nat) /\ \A i \in DOMAIN list : list[i] \in 1 .. ChainHead

FileInv == (anchor.present => Sealing(anchor) /\ anchor.hash = Chain(anchor.seq)) /\ About(attests)
\* The verify command: an anchor that fits what is left, unless a prune deleted meanwhile.
ViewInv ==
  view.pc # "idle" =>
    /\ DOMAIN view = {"pc", "anchor", "raced"} \cup IF view.pc = "segments" THEN {"attests"} ELSE {}
    /\ ~view.raced => AnchorFits(view.anchor)
    /\ view.pc = "segments" => About(view.attests)
\* The export command: segments in a row; the anchor, when there was one to name,
\* covers what is gone before them.
BundleOf(h, m) ==
  /\ h <= m /\ bundle.names.segments = h .. m
  /\ IF bundle.names.anchor THEN anchor.present /\ StartOf(h) <= anchor.seq ELSE h = 1
  /\ bundle.pc = "segments" => /\ DOMAIN bundle = {"pc", "names", "left", "verified"}
                               /\ \E l \in h .. m : bundle.left = l .. m
  /\ bundle.pc \in {"checkpoints", "anchor"} => bundle.copied \in StartOf(m) .. ends[m]
  /\ bundle.pc = "anchor" => About(bundle.attests)
BundleInv == bundle.pc # "idle" => \E h, m \in 1 .. Newest : BundleOf(h, m)
ReadInv == FileInv /\ ViewInv /\ BundleInv

LEMMA HereRow ==
  ASSUME IInv
  PROVE  /\ \E h \in 1 .. Newest : Here = h .. Newest /\ gone = 1 .. h - 1
         /\ gone \subseteq Sealed
<1>1. Newest \in Nat /\ Newest > 0
  BY Heads DEF IInv
<1>2. CASE gone = {}
  <2>1. 1 \in 1 .. Newest /\ Here = 1 .. Newest /\ gone = 1 .. 1 - 1
    BY <1>1, <1>2 DEF Here
  <2> QED
    BY <1>2, <2>1
<1>3. ASSUME NEW g \in Sealed, gone = 1 .. g
      PROVE  \E h \in 1 .. Newest : Here = h .. Newest /\ gone = 1 .. h - 1
  <2>1. g + 1 \in 1 .. Newest /\ Here = g + 1 .. Newest /\ (g + 1) - 1 = g
    BY <1>1, <1>3 DEF Here, Sealed
  <2> QED
    BY <1>3, <2>1
<1>4. gone = {} \/ \E g \in Sealed : gone = 1 .. g
  BY DEF IInv, PruneInv
<1>5. gone \subseteq Sealed
  BY <1>1, <1>4 DEF Sealed
<1> QED
  BY <1>2, <1>3, <1>4, <1>5

\* What the anchor in the directory covers, of runs that do not overlap.
LEMMA AnchorCovers ==
  ASSUME IInv, CountInv, FileInv
  PROVE  /\ AnchorFits(anchor) /\ (anchor.present => anchor.seq \in Nat)
         /\ \A h \in 1 .. Newest : gone = 1 .. h - 1 =>
              IF anchor.present THEN StartOf(h) <= anchor.seq ELSE h = 1
<1>1. /\ Newest \in Nat /\ \A i \in 1 .. Newest : ends[i] \in Nat /\ StartOf(i) \in Nat
      /\ Sealed \subseteq 1 .. Newest /\ ChainHead = ends[Newest] /\ Newest \in 1 .. Newest
      /\ \A i \in 1 .. Newest : i > 1 => StartOf(i) = ends[i - 1]
  <2>1. /\ Newest \in Nat /\ Newest > 0 /\ \A i \in 1 .. Newest : ends[i] \in Nat /\ StartOf(i) \in Nat
        /\ Sealed \subseteq 1 .. Newest /\ ChainHead = ends[Newest]
        /\ \A i \in 1 .. Newest : i > 1 => StartOf(i) = ends[i - 1]
    BY Heads DEF IInv
  <2> QED
    BY <2>1
<1>2. CASE ~anchor.present
  <2>1. gone = {}
    BY <1>2 DEF IInv, PruneInv
  <2>2. ASSUME NEW h \in 1 .. Newest, gone = 1 .. h - 1, h # 1 PROVE FALSE
    <3>1. 1 \in 1 .. h - 1
      BY <1>1, <2>2
    <3> QED
      BY <2>1, <2>2, <3>1
  <2> QED
    BY <1>2, <2>1, <2>2 DEF AnchorFits
<1>3. CASE anchor.present
  <2>1. PICK m \in Sealed : anchor.segments = 1 .. m /\ anchor.seq = ends[m]
    BY <1>3 DEF CountInv
  <2>2. \A i \in gone : i \in 1 .. m
    BY <1>3, <2>1 DEF IInv, PruneInv
  <2>3. m \in 1 .. Newest /\ m <= Newest /\ ends[m] \in Nat
    BY <1>1, <2>1
  <2>4. ends[m] \in 1 .. ChainHead
    <3>1. StartOf(m) < ends[m] /\ StartOf(m) \in Nat /\ ends[m] <= ends[Newest]
      BY <1>1, <2>1, <2>3 DEF IInv, LogInv
    <3> QED
      BY <1>1, <2>3, <3>1
  <2>5. \A i \in 1 .. m : ends[i] <= ends[m]
    <3>1. \A i \in 1 .. m : i \in 1 .. Newest /\ i <= m
      BY <1>1, <2>3
    <3> QED
      BY <2>3, <3>1 DEF IInv, LogInv
  <2>6. ASSUME NEW h \in 1 .. Newest, gone = 1 .. h - 1 PROVE StartOf(h) <= anchor.seq
    <3>1. CASE h = 1
      BY <2>1, <2>3, <3>1 DEF StartOf
    <3>2. CASE h # 1
      <4>1. h - 1 \in gone /\ h > 1
        BY <2>6, <3>2
      <4> QED
        BY <1>1, <2>1, <2>2, <2>5, <4>1
    <3> QED
      BY <3>1, <3>2
  <2> QED
    BY <1>3, <2>1, <2>2, <2>3, <2>4, <2>5, <2>6 DEF AnchorFits, FileInv
<1> QED
  BY <1>2, <1>3

\* The log only grows.
Grows ==
  /\ Newest' \in Nat /\ Newest <= Newest' /\ ChainHead' \in Nat /\ ChainHead <= ChainHead'
  /\ \A i \in 1 .. Newest : StartOf(i)' = StartOf(i) /\ ends'[i] \in Nat /\ ends[i] <= ends'[i]
  /\ \A i \in Sealed : ends'[i] = ends[i]

LEMMA LogGrows ==
  ASSUME IInv, [Next]_vars
  PROVE  Grows
<1>1. /\ Newest \in Nat /\ Newest > 0 /\ Newest = Len(ends) /\ DOMAIN ends = 1 .. Newest
      /\ \A i \in 1 .. Newest : ends[i] \in Nat
      /\ ChainHead = ends[Newest] /\ ChainHead \in Nat /\ Sealed = 1 .. Newest - 1
      /\ ends \in Seq(0 .. MaxSeq)
  BY Heads DEF IInv, Types, Sealed
<1>2. ASSUME \A i \in 1 .. Newest - 1 : ends'[i] = ends[i]
      PROVE  \A i \in 1 .. Newest : StartOf(i)' = StartOf(i)
  <2> TAKE i \in 1 .. Newest
  <2>1. CASE i = 1
    BY <2>1 DEF StartOf
  <2>2. CASE i # 1
    <3>1. i - 1 \in 1 .. Newest - 1
      BY <1>1, <2>2
    <3> QED
      BY <1>2, <2>2, <3>1 DEF StartOf
  <2> QED
    BY <2>1, <2>2
<1>3. CASE ends' = ends
  <2>1. Newest' = Newest /\ ChainHead' = ChainHead
    BY <1>3 DEF Newest, ChainHead
  <2>2. \A i \in 1 .. Newest : StartOf(i)' = StartOf(i)
    BY <1>3 DEF StartOf
  <2> QED
    BY <1>1, <1>3, <2>1, <2>2 DEF Grows
<1>4. CASE Write
  <2>1. ends' = [ends EXCEPT ![Newest] = ends[Newest] + 1]
    BY <1>4 DEF Write
  <2>2. Len(ends') = Len(ends)
    <3>1. ends[Newest] + 1 \in Nat /\ ends \in Seq(Nat)
      BY <1>1, ConstantFacts
    <3> QED
      BY <1>1, <2>1, <3>1, ExceptSeq
  <2>3. Newest' = Newest
    BY <1>1, <2>2 DEF Newest
  <2>4. Newest \in 1 .. Newest /\ \A i \in 1 .. Newest - 1 : i \in 1 .. Newest /\ i # Newest
    BY <1>1
  <2>5. ends'[Newest] = ChainHead + 1 /\ \A i \in 1 .. Newest - 1 : ends'[i] = ends[i]
    BY <1>1, <2>1, <2>4
  <2>6. ChainHead' = ChainHead + 1
    <3>1. ChainHead' = ends'[Newest']
      BY DEF ChainHead
    <3> QED
      BY <2>3, <2>5, <3>1
  <2>7. \A i \in 1 .. Newest : i = Newest \/ i \in 1 .. Newest - 1
    BY <1>1
  <2>8. \A i \in 1 .. Newest : ends'[i] \in Nat /\ ends[i] <= ends'[i]
    BY <1>1, <2>5, <2>7
  <2> QED
    BY <1>1, <1>2, <2>3, <2>5, <2>6, <2>8 DEF Grows
<1>5. CASE Rotate
  <2>1. ends' = Append(ends, ChainHead)
    BY <1>5 DEF Rotate
  <2>2. Newest' = Newest + 1 /\ ends'[Newest + 1] = ChainHead /\ \A i \in 1 .. Newest : ends'[i] = ends[i]
    BY <1>1, <2>1 DEF Newest
  <2>3. ChainHead' = ChainHead
    <3>1. ChainHead' = ends'[Newest']
      BY DEF ChainHead
    <3> QED
      BY <2>2, <3>1
  <2>4. \A i \in 1 .. Newest - 1 : i \in 1 .. Newest
    BY <1>1
  <2> QED
    BY <1>1, <1>2, <2>2, <2>3, <2>4, SMTT(30) DEF Grows
<1>6. ends' = ends \/ Write \/ Rotate
  BY DEF Next, Attest, Age, SetHold, Start, Scan, Check, WriteAnchor, Unlink, Kill,
    ReadAnchor, ReadCheckpoints, ReadSegments, Collect, VerifyForManifest, CopySegment,
    CopyCheckpoints, CopyAnchor, FileGrew, files, vars
<1> QED
  BY <1>3, <1>4, <1>5, <1>6

LEMMA StillAbout ==
  ASSUME IInv, Grows, NEW list, About(list), NEW l, l = list
  PROVE  l \in Seq(Nat) /\ \A i \in DOMAIN l : l[i] \in 1 .. ChainHead'
<1>1. ChainHead \in Nat
  BY Heads DEF IInv
<1> QED
  BY <1>1 DEF About, Grows

LEMMA FileStep ==
  ASSUME IInv, FileInv, [Next]_vars, Grows
  PROVE  FileInv'
<1>1. ChainHead \in Nat /\ ChainHead' \in Nat /\ ChainHead <= ChainHead'
  BY Heads DEF IInv, Grows
<1>2. About(attests)'
  <2>1. CASE attests' = attests
    <3>1. About(attests)
      BY DEF FileInv
    <3>2. attests' \in Seq(Nat) /\ \A i \in DOMAIN attests' : attests'[i] \in 1 .. ChainHead'
      BY <2>1, <3>1, StillAbout
    <3> QED
      BY <3>2 DEF About
  <2>2. CASE Attest
    <3>1. LastAttested < ChainHead /\ attests' = Append(attests, ChainHead) /\ ChainHead' = ChainHead
      BY <2>2 DEF Attest, ChainHead, Newest
    <3>2. ChainHead \in 1 .. ChainHead
      <4>1. LastAttested \in Nat
        BY LastIsNumber DEF IInv
      <4> QED
        BY <1>1, <3>1, <4>1
    <3>3. /\ attests \in Seq(Nat) /\ Len(attests) \in Nat /\ DOMAIN attests = 1 .. Len(attests)
          /\ \A i \in DOMAIN attests : attests[i] \in 1 .. ChainHead
      BY LenProperties DEF FileInv, About
    <3>4. /\ attests' \in Seq(Nat) /\ DOMAIN attests' = 1 .. Len(attests) + 1
          /\ \A i \in 1 .. Len(attests) : attests'[i] = attests[i]
          /\ attests'[Len(attests) + 1] = ChainHead
      <4>1. /\ Append(attests, ChainHead) \in Seq(Nat)
            /\ Len(Append(attests, ChainHead)) = Len(attests) + 1
            /\ \A i \in 1 .. Len(attests) : Append(attests, ChainHead)[i] = attests[i]
            /\ Append(attests, ChainHead)[Len(attests) + 1] = ChainHead
        BY <1>1, <3>3, AppendProperties
      <4> QED
        BY <3>1, <4>1, LenProperties
    <3>5. attests' \in Seq(Nat) /\ \A i \in DOMAIN attests' : attests'[i] \in 1 .. ChainHead
      <4>1. \A i \in 1 .. Len(attests) + 1 : i \in 1 .. Len(attests) \/ i = Len(attests) + 1
        BY <3>3
      <4> QED
        BY <3>2, <3>3, <3>4, <4>1
    <3> QED
      BY <3>1, <3>5 DEF About
  <2>3. attests' = attests \/ Attest
    BY DEF Next, Write, Rotate, Age, SetHold, Start, Scan, Check, WriteAnchor, Unlink, Kill,
      ReadAnchor, ReadCheckpoints, ReadSegments, Collect, VerifyForManifest, CopySegment,
      CopyCheckpoints, CopyAnchor, FileGrew, files, vars
  <2> QED
    BY <2>1, <2>2, <2>3
<1>3. anchor'.present => (Sealing(anchor) /\ anchor.hash = Chain(anchor.seq))'
  <2>1. CASE anchor' = anchor
    BY <2>1 DEF FileInv, Sealing, AnchorPreimage, Chain
  <2>2. ASSUME NEW e \in Enforcers, WriteAnchor(e)
        PROVE  (Sealing(anchor) /\ anchor.hash = Chain(anchor.seq))'
    <3> DEFINE plan == run[e].plan
               n == LastOf(plan)
               p == plan \cup IF anchor.present THEN anchor.segments ELSE {}
               r == CountRecords({i \in plan : ~Named(i)}) + IF anchor.present THEN anchor.records ELSE 0
               h == Record(n).hash
               a == [present |-> TRUE, seq |-> n, hash |-> h, segments |-> p, records |-> r,
                     key |-> "k1", signature |-> <<>>]
    <3>1. anchor' = [a EXCEPT !.signature = AnchorPreimage(a)]
      BY <2>2 DEF WriteAnchor, Built
    <3>2. n \in Nat
      <4>1. run[e].pc \in Planned
        BY <2>2 DEF WriteAnchor, Planned
      <4>2. PICK b \in Sealed, c \in Sealed : b <= c /\ run[e].plan = b .. c
        BY <4>1 DEF IInv, RunInv
      <4>3. LastOf(b .. c) = ends[c] /\ ends[c] \in Nat
        BY <4>2, LastOfRow, Heads DEF IInv
      <4> QED
        BY <4>2, <4>3
    <3>3. h = Chain(n)
      BY <3>2, RecordParts
    <3> HIDE DEF n, p, r, h, plan
    <3>4. /\ anchor'.key = "k1" /\ anchor'.hash = h /\ anchor'.seq = n
          /\ anchor'.signature = AnchorPreimage(anchor')
          /\ DOMAIN anchor' = {"present", "seq", "hash", "segments", "records", "key", "signature"}
      BY <3>1 DEF AnchorPreimage
    <3> HIDE DEF a
    <3>5. Sealing(anchor)'
      BY <3>4 DEF Sealing, AnchorPreimage
    <3>6. (anchor.hash = Chain(anchor.seq))'
      BY <3>3, <3>4 DEF Chain
    <3> QED
      BY <3>5, <3>6
  <2>3. anchor' = anchor \/ \E e \in Enforcers : WriteAnchor(e)
    BY DEF Next, Write, Rotate, Attest, Age, SetHold, Start, Scan, Check, Unlink, Kill,
      ReadAnchor, ReadCheckpoints, ReadSegments, Collect, VerifyForManifest, CopySegment,
      CopyCheckpoints, CopyAnchor, FileGrew, files, vars
  <2> QED
    BY <2>1, <2>2, <2>3
<1> QED
  BY <1>2, <1>3 DEF FileInv

\* What is gone does not come back, and the anchor stays ahead of it.
LEMMA AnchorForward ==
  ASSUME IInv, CountInv, FileInv, [Next]_vars, anchor.present
  PROVE  anchor'.present /\ anchor'.seq \in Nat /\ anchor.seq <= anchor'.seq
<1>1. anchor.seq \in Nat
  BY AnchorCovers
<1>2. CASE anchor' = anchor
  BY <1>1, <1>2
<1>3. ASSUME NEW e \in Enforcers, WriteAnchor(e)
      PROVE  anchor'.present /\ anchor'.seq \in Nat /\ anchor.seq <= anchor'.seq
  <2>1. ~Rewinds(run[e].plan) /\ run[e].pc = "anchor"
    BY <1>3 DEF WriteAnchor, CountInv
  <2>2. anchor'.seq = LastOf(run[e].plan) /\ anchor'.present
    BY <1>3, BuiltFields DEF WriteAnchor
  <2>3. LastOf(run[e].plan) \in Nat
    <3>1. PICK a \in Sealed, b \in Sealed : a <= b /\ run[e].plan = a .. b
      BY <2>1 DEF IInv, RunInv, Planned
    <3>2. LastOf(a .. b) = ends[b] /\ ends[b] \in Nat
      BY <3>1, LastOfRow, Heads DEF IInv
    <3> QED
      BY <3>1, <3>2
  <2> QED
    BY <1>1, <2>1, <2>2, <2>3 DEF Rewinds
<1>4. anchor' = anchor \/ \E e \in Enforcers : WriteAnchor(e)
  BY DEF Next, Write, Rotate, Attest, Age, SetHold, Start, Scan, Check, Unlink, Kill,
    ReadAnchor, ReadCheckpoints, ReadSegments, Collect, VerifyForManifest, CopySegment,
    CopyCheckpoints, CopyAnchor, FileGrew, files, vars
<1> QED
  BY <1>2, <1>3, <1>4

\* An anchor that was read goes on to fit until a prune deletes.
LEMMA StillFits ==
  ASSUME IInv, Grows, gone' = gone, NEW a, AnchorFits(a)
  PROVE  IF a.present
         THEN /\ Sealing(a) /\ a.hash = Chain(a.seq) /\ a.seq \in 1 .. ChainHead'
              /\ \A i \in gone' : ends'[i] <= a.seq
         ELSE gone' = {}
<1>1. gone \subseteq Sealed /\ ChainHead \in Nat
  BY HereRow, Heads DEF IInv
<1>2. \A i \in gone : ends'[i] = ends[i]
  BY <1>1 DEF Grows
<1>3. a.present => a.seq \in 1 .. ChainHead'
  BY <1>1 DEF AnchorFits, Grows
<1> QED
  BY <1>2, <1>3 DEF AnchorFits

LEMMA ViewStep ==
  ASSUME IInv, CountInv, FileInv, ViewInv, [Next]_vars, Grows
  PROVE  ViewInv'
<1>1. CASE ReadAnchor
  <2>1. view' = [pc |-> "checkpoints", anchor |-> anchor, raced |-> FALSE] /\ gone' = gone
    BY <1>1 DEF ReadAnchor, files
  <2>2. view'.pc = "checkpoints" /\ view'.anchor = anchor /\ DOMAIN view' = {"pc", "anchor", "raced"}
    BY <2>1
  <2>3. AnchorFits(view.anchor)'
    <3>1. AnchorFits(anchor)
      BY AnchorCovers
    <3> QED
      BY <2>1, <2>2, <3>1, StillFits DEF AnchorFits, Sealing, AnchorPreimage, Chain
  <2> QED
    BY <2>2, <2>3 DEF ViewInv
<1>2. CASE ReadCheckpoints
  <2>1. /\ view.pc = "checkpoints" /\ gone' = gone
        /\ view' = [pc |-> "segments", anchor |-> view.anchor, attests |-> attests, raced |-> view.raced]
    BY <1>2 DEF ReadCheckpoints, files
  <2>2. /\ view'.pc = "segments" /\ view'.anchor = view.anchor /\ view'.raced = view.raced
        /\ view'.attests = attests /\ DOMAIN view' = {"pc", "anchor", "raced", "attests"}
    BY <2>1
  <2>3. ~view'.raced => AnchorFits(view.anchor)'
    <3>1. ~view.raced => AnchorFits(view.anchor)
      BY <2>1 DEF ViewInv
    <3> QED
      BY <2>1, <2>2, <3>1, StillFits DEF AnchorFits, Sealing, AnchorPreimage, Chain
  <2>4. About(view.attests)'
    <3>1. About(attests)
      BY DEF FileInv
    <3> QED
      BY <2>2, <3>1, StillAbout DEF About
  <2>5. DOMAIN view' = {"pc", "anchor", "raced"} \cup {"attests"}
    BY <2>2
  <2> QED
    BY <2>2, <2>3, <2>4, <2>5 DEF ViewInv
<1>3. CASE ReadSegments
  BY <1>3 DEF ReadSegments, ViewInv, Idle
<1>4. ASSUME NEW e \in Enforcers, Unlink(e) PROVE ViewInv'
  <2>1. view' = IF view.pc = "idle" THEN view ELSE [view EXCEPT !.raced = TRUE]
    BY <1>4 DEF Unlink
  <2>2. CASE view.pc = "idle"
    BY <2>1, <2>2 DEF ViewInv
  <2>3. CASE view.pc # "idle"
    <3>1. /\ {"pc", "anchor", "raced"} \subseteq DOMAIN view
          /\ DOMAIN view = {"pc", "anchor", "raced"} \cup IF view.pc = "segments" THEN {"attests"} ELSE {}
      BY <2>3 DEF ViewInv
    <3>2. view' = [view EXCEPT !.raced = TRUE]
      BY <2>1, <2>3
    <3>3. view'.pc = view.pc /\ view'.raced /\ DOMAIN view' = DOMAIN view
      BY <3>1, <3>2
    <3>4. view'.pc = "segments" => About(view.attests)'
      <4>1. view.pc = "segments" => About(view.attests) /\ "attests" \in DOMAIN view
        BY <2>3, <3>1 DEF ViewInv
      <4>2. view.pc = "segments" => view'.attests = view.attests
        BY <3>2, <4>1
      <4> QED
        BY <3>3, <4>1, <4>2, StillAbout DEF About
    <3> QED
      BY <3>1, <3>3, <3>4 DEF ViewInv
  <2> QED
    BY <2>2, <2>3
<1>5. CASE view' = view /\ gone' = gone
  <2>1. view.pc # "idle" /\ ~view.raced => AnchorFits(view.anchor)'
    <3>1. view.pc # "idle" /\ ~view.raced => AnchorFits(view.anchor)
      BY DEF ViewInv
    <3> QED
      BY <1>5, <3>1, StillFits DEF AnchorFits, Sealing, AnchorPreimage, Chain
  <2>2. view.pc = "segments" => About(view.attests)'
    <3>1. view.pc = "segments" => About(view.attests)
      BY DEF ViewInv
    <3> QED
      BY <1>5, <3>1, StillAbout DEF About
  <2> QED
    BY <1>5, <2>1, <2>2 DEF ViewInv
<1>6. \/ ReadAnchor \/ ReadCheckpoints \/ ReadSegments \/ (\E e \in Enforcers : Unlink(e))
      \/ view' = view /\ gone' = gone
  BY DEF Next, Write, Rotate, Attest, Age, SetHold, Start, Scan, Check, WriteAnchor, Kill,
    Collect, VerifyForManifest, CopySegment, CopyCheckpoints, CopyAnchor, FileGrew, files, readers, vars
<1> QED
  BY <1>1, <1>2, <1>3, <1>4, <1>5, <1>6

LEMMA StartBeforeEnd ==
  ASSUME IInv, NEW m \in 1 .. Newest
  PROVE  StartOf(m) \in Nat /\ ends[m] \in Nat /\ StartOf(m) <= ends[m]
<1>1. /\ Newest \in Nat /\ StartOf(m) \in Nat /\ ends[m] \in Nat
      /\ m > 1 => m - 1 \in Sealed /\ StartOf(m) = ends[m - 1]
      /\ Sealed \subseteq 1 .. Newest
  BY Heads DEF IInv
<1>2. CASE m = 1
  BY <1>1, <1>2 DEF StartOf
<1>3. CASE m # 1
  <2>1. m - 1 \in 1 .. Newest /\ m - 1 <= m /\ StartOf(m) = ends[m - 1]
    BY <1>1, <1>3
  <2>2. ends[m - 1] <= ends[m]
    BY <2>1 DEF IInv, LogInv
  <2> QED
    BY <1>1, <2>1, <2>2
<1> QED
  BY <1>2, <1>3

\* What a bundle needs of the directory goes on to hold.
LEMMA RowKept ==
  ASSUME IInv, CountInv, FileInv, [Next]_vars, Grows, NEW h \in 1 .. Newest, NEW m \in 1 .. Newest,
         BundleOf(h, m), bundle'.names = bundle.names
  PROVE  /\ h \in 1 .. Newest' /\ m \in 1 .. Newest'
         /\ bundle'.names.segments = h .. m
         /\ IF bundle'.names.anchor THEN anchor'.present /\ StartOf(h)' <= anchor'.seq ELSE h = 1
<1>1. Newest \in Nat /\ Newest' \in Nat /\ Newest <= Newest' /\ StartOf(h) \in Nat /\ StartOf(h)' = StartOf(h)
  BY Heads DEF IInv, Grows
<1>2. CASE ~bundle.names.anchor
  BY <1>1, <1>2 DEF BundleOf
<1>3. CASE bundle.names.anchor
  <2>1. anchor.present /\ StartOf(h) <= anchor.seq /\ anchor.seq \in Nat
    BY <1>3, AnchorCovers DEF BundleOf
  <2>2. anchor'.present /\ anchor'.seq \in Nat /\ anchor.seq <= anchor'.seq
    BY <2>1, AnchorForward
  <2> QED
    BY <1>1, <1>3, <2>1, <2>2 DEF BundleOf
<1> QED
  BY <1>2, <1>3

LEMMA CopiedKept ==
  ASSUME IInv, Grows, NEW m \in 1 .. Newest, NEW n \in StartOf(m) .. ends[m]
  PROVE  n \in StartOf(m)' .. ends'[m]
<1>1. StartOf(m) \in Nat /\ ends[m] \in Nat
  BY StartBeforeEnd
<1>2. StartOf(m)' = StartOf(m) /\ ends'[m] \in Nat /\ ends[m] <= ends'[m]
  BY DEF Grows
<1> QED
  BY <1>1, <1>2

LEMMA BundleStep ==
  ASSUME IInv, CountInv, FileInv, BundleInv, [Next]_vars, Grows
  PROVE  BundleInv'
<1>1. CASE bundle'.pc = "idle"
  BY <1>1 DEF BundleInv
<1>2. CASE Collect
  <2>1. bundle' = [pc |-> "verify", names |-> [segments |-> Here, checkpoints |-> attests # <<>>, anchor |-> anchor.present]]
        /\ anchor' = anchor /\ ends' = ends
    BY <1>2 DEF Collect, Collected, files
  <2>2. bundle'.pc = "verify" /\ bundle'.names.segments = Here /\ bundle'.names.anchor = anchor.present
    BY <2>1
  <2>3. PICK h \in 1 .. Newest : Here = h .. Newest /\ gone = 1 .. h - 1
    BY HereRow
  <2>4. IF anchor.present THEN StartOf(h) <= anchor.seq ELSE h = 1
    BY <2>3, AnchorCovers
  <2>5. Newest' = Newest /\ StartOf(h)' = StartOf(h) /\ Newest \in 1 .. Newest /\ h <= Newest
    <3>1. Newest \in Nat /\ Newest > 0
      BY Heads DEF IInv
    <3> QED
      BY <2>1, <3>1 DEF Newest, StartOf
  <2>6. BundleOf(h, Newest)'
    BY <2>1, <2>2, <2>3, <2>4, <2>5 DEF BundleOf
  <2>7. \E i, j \in 1 .. Newest' : BundleOf(i, j)'
    BY <2>5, <2>6
  <2> QED
    BY <2>7 DEF BundleInv
<1>3. ASSUME bundle.pc # "idle", bundle'.pc # "idle", bundle'.names = bundle.names,
             \A h, m \in 1 .. Newest : BundleOf(h, m) =>
               /\ bundle'.pc = "segments" => /\ DOMAIN bundle' = {"pc", "names", "left", "verified"}
                                             /\ \E l \in h .. m : bundle'.left = l .. m
               /\ bundle'.pc \in {"checkpoints", "anchor"} => bundle'.copied \in StartOf(m)' .. ends'[m]
               /\ bundle'.pc = "anchor" => About(bundle.attests)'
      PROVE  BundleInv'
  <2>1. PICK h \in 1 .. Newest, m \in 1 .. Newest : BundleOf(h, m)
    BY <1>3 DEF BundleInv
  <2>2. /\ h \in 1 .. Newest' /\ m \in 1 .. Newest' /\ bundle'.names.segments = h .. m /\ h <= m
        /\ IF bundle'.names.anchor THEN anchor'.present /\ StartOf(h)' <= anchor'.seq ELSE h = 1
    BY <1>3, <2>1, RowKept DEF BundleOf
  <2>3. BundleOf(h, m)'
    BY <1>3, <2>1, <2>2 DEF BundleOf
  <2>4. \E i, j \in 1 .. Newest' : BundleOf(i, j)'
    BY <2>2, <2>3
  <2> QED
    BY <2>4 DEF BundleInv
<1>4. CASE VerifyForManifest
  <2> DEFINE v == Problems(Source) = {}
  <2>1. /\ bundle.pc = "verify"
        /\ bundle' = [pc |-> "segments", names |-> bundle.names, left |-> bundle.names.segments, verified |-> v]
    BY <1>4 DEF VerifyForManifest
  <2> HIDE DEF v
  <2>2. /\ bundle'.pc = "segments" /\ bundle'.names = bundle.names /\ bundle'.left = bundle.names.segments
        /\ DOMAIN bundle' = {"pc", "names", "left", "verified"}
    BY <2>1
  <2>3. ASSUME NEW h \in 1 .. Newest, NEW m \in 1 .. Newest, BundleOf(h, m)
        PROVE  \E l \in h .. m : bundle'.left = l .. m
    <3>1. h \in h .. m
      BY <2>3, Heads DEF BundleOf, IInv
    <3> QED
      BY <2>2, <2>3, <3>1 DEF BundleOf
  <2> QED
    BY <1>3, <2>1, <2>2, <2>3
<1>5. CASE CopySegment
  <2> DEFINE i == CHOOSE i \in bundle.left : \A j \in bundle.left : i <= j
             rest == bundle.left \ {i}
  <2>1. /\ bundle.pc = "segments" /\ ends' = ends
        /\ bundle' = IF i \in gone THEN Idle
                     ELSE IF rest # {} THEN [bundle EXCEPT !.left = rest]
                     ELSE [pc |-> "checkpoints", names |-> bundle.names,
                           copied |-> ends[i], verified |-> bundle.verified]
    BY <1>5 DEF CopySegment, files
  <2>2. PICK h \in 1 .. Newest, m \in 1 .. Newest : BundleOf(h, m)
    BY <2>1 DEF BundleInv
  <2>3. DOMAIN bundle = {"pc", "names", "left", "verified"}
    BY <2>1, <2>2 DEF BundleOf
  <2>4. ASSUME NEW g \in 1 .. Newest, NEW n \in 1 .. Newest, BundleOf(g, n)
        PROVE  \E l \in g .. n : i = l /\ bundle.left = l .. n /\ rest = l + 1 .. n
    <3>1. PICK l \in g .. n : bundle.left = l .. n
      BY <2>1, <2>4 DEF BundleOf
    <3>2. l \in Nat /\ n \in Nat /\ l <= n
      BY Heads DEF IInv
    <3>3. i = l
      BY <3>1, <3>2, RangeEnds
    <3> HIDE DEF i
    <3> QED
      BY <3>1, <3>2, <3>3
  <2> HIDE DEF i, rest
  <2>5. CASE i \in gone
    BY <1>1, <2>1, <2>5 DEF Idle
  <2>6. CASE i \notin gone /\ rest # {}
    <3>1. bundle' = [bundle EXCEPT !.left = rest]
      BY <2>1, <2>6
    <3>2. /\ bundle'.pc = "segments" /\ bundle'.names = bundle.names /\ bundle'.left = rest
          /\ DOMAIN bundle' = {"pc", "names", "left", "verified"}
      BY <2>1, <2>3, <3>1
    <3>3. ASSUME NEW g \in 1 .. Newest, NEW n \in 1 .. Newest, BundleOf(g, n)
          PROVE  \E l \in g .. n : rest = l .. n
      <4>1. PICK l \in g .. n : rest = l + 1 .. n
        BY <2>4, <3>3
      <4>2. l + 1 \in g .. n
        BY <2>6, <4>1, Heads DEF IInv
      <4> QED
        BY <4>1, <4>2
    <3> QED
      BY <1>3, <2>1, <3>2, <3>3
  <2>7. CASE i \notin gone /\ ~(rest # {})
    <3>1. bundle' = [pc |-> "checkpoints", names |-> bundle.names, copied |-> ends[i], verified |-> bundle.verified]
      BY <2>1, <2>7
    <3>2. bundle'.pc = "checkpoints" /\ bundle'.names = bundle.names /\ bundle'.copied = ends[i]
      BY <3>1
    <3>3. ASSUME NEW g \in 1 .. Newest, NEW n \in 1 .. Newest, BundleOf(g, n)
          PROVE  ends[i] \in StartOf(n)' .. ends'[n]
      <4>1. PICK l \in g .. n : i = l /\ rest = l + 1 .. n
        BY <2>4, <3>3
      <4>2. i = n
        <5>1. l \in Nat /\ n \in Nat /\ l <= n
          BY Heads DEF IInv
        <5>2. l + 1 \notin l + 1 .. n
          BY <2>7, <4>1
        <5> QED
          BY <4>1, <5>1, <5>2
      <4>3. ends[n] \in StartOf(n) .. ends[n]
        BY StartBeforeEnd
      <4> QED
        BY <4>2, <4>3, CopiedKept
    <3> QED
      BY <1>3, <2>1, <3>2, <3>3
  <2> QED
    BY <2>5, <2>6, <2>7
<1>6. CASE CopyCheckpoints
  <2> DEFINE list == IF bundle.names.checkpoints THEN attests ELSE <<>>
  <2>1. /\ bundle.pc = "checkpoints"
        /\ bundle' = [pc |-> "anchor", names |-> bundle.names, copied |-> bundle.copied,
                      attests |-> list, verified |-> bundle.verified]
    BY <1>6 DEF CopyCheckpoints
  <2>2. About(list)
    <3>1. About(attests) /\ About(<<>>)
      BY DEF FileInv, About
    <3> QED
      BY <3>1
  <2> HIDE DEF list
  <2>3. /\ bundle'.pc = "anchor" /\ bundle'.names = bundle.names /\ bundle'.copied = bundle.copied
        /\ bundle'.attests = list
    BY <2>1
  <2>4. About(bundle.attests)'
    BY <2>2, <2>3, StillAbout DEF About
  <2>5. ASSUME NEW h \in 1 .. Newest, NEW m \in 1 .. Newest, BundleOf(h, m)
        PROVE  bundle'.copied \in StartOf(m)' .. ends'[m]
    BY <2>1, <2>3, <2>5, CopiedKept DEF BundleOf
  <2> QED
    BY <1>3, <2>1, <2>3, <2>4, <2>5
<1>7. CASE bundle' = bundle
  <2>1. CASE bundle.pc = "idle"
    BY <1>1, <1>7, <2>1
  <2>2. CASE bundle.pc # "idle"
    <3>1. ASSUME NEW h \in 1 .. Newest, NEW m \in 1 .. Newest, BundleOf(h, m)
          PROVE  /\ bundle.pc \in {"checkpoints", "anchor"} => bundle.copied \in StartOf(m)' .. ends'[m]
                 /\ bundle.pc = "anchor" => About(bundle.attests)'
      <4>1. bundle.pc \in {"checkpoints", "anchor"} => bundle.copied \in StartOf(m)' .. ends'[m]
        BY <3>1, CopiedKept DEF BundleOf
      <4>2. bundle.pc = "anchor" => About(bundle.attests)
        BY <3>1 DEF BundleOf
      <4>3. bundle.pc = "anchor" => About(bundle.attests)'
        BY <1>7, <4>2, StillAbout DEF About
      <4> QED
        BY <4>1, <4>3
    <3>2. \A h, m \in 1 .. Newest : BundleOf(h, m) =>
            (bundle.pc = "segments" => /\ DOMAIN bundle = {"pc", "names", "left", "verified"}
                                       /\ \E l \in h .. m : bundle.left = l .. m)
      BY DEF BundleOf
    <3> QED
      BY <1>3, <1>7, <2>2, <3>1, <3>2
  <2> QED
    BY <2>1, <2>2
<1>8. CASE CopyAnchor \/ FileGrew
  BY <1>1, <1>8 DEF CopyAnchor, FileGrew, Idle
<1>9. \/ Collect \/ VerifyForManifest \/ CopySegment \/ CopyCheckpoints \/ CopyAnchor \/ FileGrew
      \/ bundle' = bundle
  BY DEF Next, Write, Rotate, Attest, Age, SetHold, Start, Scan, Check, WriteAnchor, Unlink, Kill,
    ReadAnchor, ReadCheckpoints, ReadSegments, files, readers, vars
<1> QED
  BY <1>2, <1>4, <1>5, <1>6, <1>7, <1>8, <1>9

-----------------------------------------------------------------------------
(* What verify and the recipient of a bundle find *)

LEMMA ReadInitially == Init => ReadInv
<1> SUFFICES ASSUME Init PROVE ReadInv
  OBVIOUS
<1>1. attests = <<>> /\ ~anchor.present /\ view.pc = "idle" /\ bundle.pc = "idle"
  BY DEF Init, NoAnchor, Idle
<1>2. About(attests)
  BY <1>1 DEF About
<1> QED
  BY <1>1, <1>2 DEF ReadInv, FileInv, ViewInv, BundleInv

LEMMA ReadStep ==
  ASSUME IInv, CountInv, ReadInv, [Next]_vars
  PROVE  ReadInv'
<1>1. Grows
  BY LogGrows
<1> QED
  BY <1>1, FileStep, ViewStep, BundleStep DEF ReadInv

\* What the reading commands have in hand fits the directory: an anchor that covers
\* what is gone and checkpoints of records that are there, whatever the server and a
\* retention run do between the files they open (verify.go, export.go).
THEOREM ReadersInvariant ==
  ASSUME Alone
  PROVE  Spec => [](IInv /\ CountInv /\ ReadInv)
<1>1. Init => IInv /\ CountInv /\ ReadInv
  BY Initially, ReadInitially
<1>2. IInv /\ CountInv /\ ReadInv /\ [Next]_vars => (IInv /\ CountInv /\ ReadInv)'
  BY Step, ReadStep
<1> QED
  BY <1>1, <1>2, PTL DEF Spec

LEMMA ViewIsHonest == IInv /\ CountInv /\ ReadInv => NoFalseAlarm
<1> SUFFICES ASSUME IInv, CountInv, ReadInv, view.pc = "segments", ~view.raced,
                    NEW d, d = Directory(view.anchor, view.attests, SegmentFiles(Here))
             PROVE  /\ Problems(d) \subseteq {"prune_incomplete"}
                    /\ Problems(d) = {} => \A K \in SUBSET {"k1", "k2"} : Intact(Problems([d EXCEPT !.keys = K]))
  BY DEF NoFalseAlarm
<1> DEFINE a == view.anchor
           list == view.attests
           segs == SegmentFiles(Here)
<1>1. AnchorFits(a) /\ About(list)
  BY DEF ReadInv, ViewInv
<1>2. PICK h \in 1 .. Newest : Here = h .. Newest /\ gone = 1 .. h - 1
  BY HereRow
<1>3. /\ segs # <<>> /\ StartOf(h) <= ChainHead /\ FlattenSeq(segs) = Stretch(StartOf(h), ChainHead)
  BY <1>2, LogHolds DEF IInv
<1>4. /\ StartOf(h) \in Nat /\ ChainHead \in Nat /\ Newest \in Nat
      /\ h > 1 => StartOf(h) = ends[h - 1]
  BY Heads DEF IInv
<1>5. Fits(a, StartOf(h), ChainHead)
  <2>1. CASE ~a.present
    <3>1. h = 1
      <4>1. h # 1 => 1 \in 1 .. h - 1
        BY <1>4
      <4>2. gone = {}
        BY <1>1, <2>1 DEF AnchorFits
      <4> QED
        BY <1>2, <4>1, <4>2
    <3> QED
      BY <2>1, <3>1 DEF Fits, StartOf
  <2>2. CASE a.present
    <3>1. a.hash = Chain(a.seq) /\ a.seq \in 1 .. ChainHead /\ \A i \in gone : ends[i] <= a.seq
      BY <1>1, <2>2 DEF AnchorFits
    <3>2. StartOf(h) <= a.seq
      <4>1. CASE h = 1
        BY <3>1, <4>1 DEF StartOf
      <4>2. CASE h # 1
        <5>1. h - 1 \in gone /\ h > 1
          BY <1>2, <1>4, <4>2
        <5> QED
          BY <1>4, <3>1, <5>1
      <4> QED
        BY <4>1, <4>2
    <3> QED
      BY <2>2, <3>1, <3>2 DEF Fits
  <2> QED
    BY <2>1, <2>2
<1>6. list \in Seq(Nat) /\ Covers(a, list, ChainHead)
  BY <1>1, <1>4 DEF About, Covers
<1>7. a.present => Sealing(a)
  BY <1>1 DEF AnchorFits
<1>8. d = Directory(a, list, segs)
  OBVIOUS
<1> HIDE DEF a, list, segs
<1>9. /\ Problems(d) \subseteq {"prune_incomplete"}
      /\ Problems(d) = {} => \A K : Intact(Problems([d EXCEPT !.keys = K]))
  BY <1>3, <1>4, <1>5, <1>6, <1>7, <1>8, HonestDirectory
<1> QED
  BY <1>9

\* Whatever was appended, rotated, attested and pruned between the files that verify
\* opens, and however often a prune was cut off, it reports at most an interrupted prune,
\* for any number of records, segments, checkpoints and legacy checkpoints (verify.go).
THEOREM VerifyRaisesNoFalseAlarm ==
  ASSUME Alone
  PROVE  Spec => []NoFalseAlarm
BY ReadersInvariant, ViewIsHonest, PTL

LEMMA BundleIsHonest == IInv /\ CountInv /\ ReadInv => BundleHoldsTogether
<1> SUFFICES ASSUME IInv, CountInv, ReadInv, bundle.pc = "anchor", AboutCopied(Bundle)
             PROVE  Problems(Bundle) \subseteq {"prune_incomplete"}
  BY DEF BundleHoldsTogether
<1>1. PICK h \in 1 .. Newest, m \in 1 .. Newest : BundleOf(h, m)
  BY DEF ReadInv, BundleInv
<1> DEFINE a == IF bundle.names.anchor THEN anchor ELSE NoAnchor
           list == bundle.attests
           last == bundle.copied
           segs == RowFiles(h, m, last)
<1>2. /\ h <= m /\ bundle.names.segments = h .. m /\ last \in StartOf(m) .. ends[m] /\ About(list)
      /\ IF bundle.names.anchor THEN anchor.present /\ StartOf(h) <= anchor.seq ELSE h = 1
  BY <1>1 DEF BundleOf
<1>3. /\ h \in Nat /\ m \in Nat /\ StartOf(h) \in Nat /\ StartOf(m) \in Nat /\ ends[m] \in Nat /\ last \in Nat
  <2>1. Newest \in Nat /\ StartOf(h) \in Nat /\ StartOf(m) \in Nat /\ ends[m] \in Nat
    BY Heads DEF IInv
  <2> QED
    BY <1>2, <2>1
<1>4. Bundle = Directory(a, list, segs)
  <2>1. LastCopied = m
    BY <1>2, <1>3, RangeEnds DEF LastCopied
  <2>2. bundle.names.segments \ {m} = h .. m - 1
    BY <1>2, <1>3
  <2> QED
    BY <2>1, <2>2 DEF Bundle, RowFiles
<1>5. segs # <<>> /\ StartOf(h) <= last /\ FlattenSeq(segs) = Stretch(StartOf(h), last)
  BY <1>2, RowHolds DEF IInv
<1>6. (a.present => a.seq <= last) /\ \A i \in DOMAIN list : list[i] <= last
  <2>1. Bundle.anchor = a /\ Bundle.cks = CheckpointList(list)
    BY <1>4 DEF Directory
  <2>2. \A i \in DOMAIN list : i \in DOMAIN Bundle.cks /\ Bundle.cks[i].seq = list[i]
    BY <1>2, <2>1, ListParts DEF About
  <2> HIDE DEF a, list, last
  <2> QED
    BY <2>1, <2>2 DEF AboutCopied, last
<1>7. Fits(a, StartOf(h), last) /\ (a.present => Sealing(a))
  <2>1. CASE bundle.names.anchor
    <3>1. a = anchor /\ anchor.present
      BY <1>2, <2>1
    <3>2. Sealing(a) /\ a.hash = Chain(a.seq) /\ a.seq \in 1 .. ChainHead
      BY <3>1, AnchorCovers DEF AnchorFits, ReadInv
    <3> QED
      BY <1>2, <1>3, <1>6, <2>1, <3>1, <3>2 DEF Fits
  <2>2. CASE ~bundle.names.anchor
    <3>1. ~a.present /\ h = 1
      BY <1>2, <2>2 DEF NoAnchor
    <3> QED
      BY <3>1 DEF Fits, StartOf
  <2> QED
    BY <2>1, <2>2
<1>8. list \in Seq(Nat) /\ Covers(a, list, last)
  <2>1. list \in Seq(Nat) /\ \A i \in DOMAIN list : list[i] \in 1 .. ChainHead
    BY <1>2 DEF About
  <2>2. \A i \in DOMAIN list : list[i] > 0
    BY <2>1, Heads DEF IInv
  <2> QED
    BY <1>6, <2>1, <2>2 DEF Covers
<1> HIDE DEF a, list, last, segs
<1> QED
  BY <1>3, <1>4, <1>5, <1>7, <1>8, HonestDirectory

\* A bundle that was copied file by file beside a running server and a retention run is
\* a log that the recipient's verify takes for undamaged, unless a checkpoint or the
\* anchor in it is about records written after the segments were copied (export.go Export).
THEOREM BundlesHoldTogether ==
  ASSUME Alone
  PROVE  Spec => []BundleHoldsTogether
BY ReadersInvariant, BundleIsHonest, PTL

-----------------------------------------------------------------------------
(* What a problem at one record makes of the whole verification *)

\* The walk w over the n records of d.
Walk(d, w, n) ==
  n \in Nat /\ n = Len(Records(d)) /\ Steps(d, w, n) /\ Walked(d) = w[n] /\ d.segments # <<>>

LEMMA WalkExists ==
  ASSUME NEW d, Len(Records(d)) \in Nat, d.segments # <<>>
  PROVE  \E w : Walk(d, w, Len(Records(d)))
BY WalkSteps DEF Walk

LEMMA OneFile ==
  ASSUME NEW r, NEW d, d.segments = <<r>>
  PROVE  Records(d) = r /\ d.segments # <<>>
<1> DEFINE f == [i \in 1 .. 1 |-> r]
<1>1. Len(<<r>>) = 1 /\ <<r>>[1] = r /\ <<r>> # <<>>
  OBVIOUS
<1>2. Joined(<<r>>, f)
  <2>1. 1 \in 1 .. 1 /\ \A i \in 2 .. Len(<<r>>) : FALSE
    BY <1>1
  <2> QED
    BY <1>1, <2>1 DEF Joined
<1>3. f[1] = r
  OBVIOUS
<1> HIDE DEF f
<1>4. ASSUME NEW segs, segs = <<r>> PROVE FlattenSeq(segs) = r
  <2>1. Len(segs) \in Nat \ {0} /\ Joined(segs, f) /\ f[Len(segs)] = r
    BY <1>1, <1>2, <1>3, <1>4
  <2> QED
    BY <2>1, FlattenSteps
<1> QED
  BY <1>1, <1>4 DEF Records

LEMMA ProblemStays ==
  ASSUME NEW d, NEW w, NEW n, Walk(d, w, n), NEW k \in 0 .. n, NEW p \in w[k].problems
  PROVE  p \in Problems(d)
<1>1. n \in Nat /\ Steps(d, w, n) /\ Walked(d) = w[n] /\ d.segments # <<>>
  BY DEF Walk
<1>2. n \in k .. n
  BY <1>1
<1>3. p \in w[n].problems
  BY <1>1, <1>2, WalkKeeps
<1>4. p \in WalkProblems(d)
  BY <1>1, <1>3 DEF WalkProblems
<1> QED
  BY <1>4 DEF Problems

\* One record, and what was known before it.
StepAt(d, w, k) ==
  /\ w[k] = WalkRecord(d, w[k - 1], Records(d)[k]) /\ IsWalk(w[k - 1])
  /\ IF k = 1 THEN w[k - 1] = WalkStart(d) ELSE ~w[k - 1].first

LEMMA EachStep ==
  ASSUME NEW d, NEW w, NEW n, Walk(d, w, n), NEW k \in 1 .. n
  PROVE  StepAt(d, w, k)
<1>1. n \in Nat /\ Steps(d, w, n)
  BY DEF Walk
<1>2. k \in 0 .. n /\ k - 1 \in 0 .. n /\ k # 0 /\ (k # 1 => k - 1 > 0) /\ 0 \in 0 .. n
  BY <1>1
<1>3. IsWalk(w[k - 1]) /\ (k - 1 > 0 => ~w[k - 1].first)
  BY <1>1, <1>2, WalkKeeps
<1>4. w[k] = WalkRecord(d, w[k - 1], Records(d)[k]) /\ w[0] = WalkStart(d)
  BY <1>1, <1>2 DEF Steps
<1>5. k = 1 => w[k - 1] = WalkStart(d)
  BY <1>4
<1> QED
  BY <1>2, <1>3, <1>4, <1>5 DEF StepAt

LEMMA ReadAt ==
  ASSUME NEW d, NEW w, NEW n, Walk(d, w, n), NEW k \in 1 .. n, NEW rec, rec = Records(d)[k],
         ~Unreadable(rec)
  PROVE  Read(d, w[k - 1], Started(d, w[k - 1], rec), rec, w[k])
<1>1. w[k] = WalkRecord(d, w[k - 1], rec) /\ IsWalk(w[k - 1])
  BY EachStep DEF StepAt
<1> QED
  BY <1>1, ReadParts

\* Of the record read at position k, what is found in it is reported.
LEMMA FoundInRecord ==
  ASSUME NEW d, NEW w, NEW n, Walk(d, w, n), NEW k \in 1 .. n, NEW rec, rec = Records(d)[k],
         ~Unreadable(rec), NEW p,
         p \in Started(d, w[k - 1], rec).problems \cup LinkProblems(Started(d, w[k - 1], rec), rec)
                 \cup MatchProblems(d, rec)
  PROVE  p \in Problems(d)
<1>1. Read(d, w[k - 1], Started(d, w[k - 1], rec), rec, w[k])
  BY ReadAt
<1>2. p \in w[k].problems
  BY <1>1 DEF Read
<1>3. k \in 0 .. n
  BY DEF Walk
<1> QED
  BY <1>2, <1>3, ProblemStays

LEMMA UnreadableFound ==
  ASSUME NEW d, NEW w, NEW n, Walk(d, w, n), NEW k \in 1 .. n, Unreadable(Records(d)[k])
  PROVE  "malformed_record" \in Problems(d)
<1>1. w[k] = WalkRecord(d, w[k - 1], Records(d)[k]) /\ IsWalk(w[k - 1])
  BY EachStep DEF StepAt
<1>2. "malformed_record" \in w[k].problems
  BY <1>1, UnreadableParts
<1>3. k \in 0 .. n
  BY DEF Walk
<1> QED
  BY <1>2, <1>3, ProblemStays

LEMMA MismatchFound ==
  ASSUME NEW d, NEW w, NEW n, Walk(d, w, n), NEW k \in 1 .. n, NEW rec, rec = Records(d)[k],
         ~Unreadable(rec), NEW i \in DOMAIN d.cks, d.cks[i].seq = rec.seq, d.cks[i].hash # rec.hash
  PROVE  "checkpoint_mismatch" \in Problems(d)
<1>1. "checkpoint_mismatch" \in MatchProblems(d, rec)
  BY DEF MatchProblems, CheckpointsAt
<1> QED
  BY <1>1, FoundInRecord

\* A checkpoint about a record that is not there, and that the anchor does not cover.
LEMMA UnseenFound ==
  ASSUME NEW d, NEW w, NEW n, Walk(d, w, n), NEW i \in DOMAIN d.cks,
         \A k \in 1 .. n : Records(d)[k].seq # d.cks[i].seq,
         ~(d.anchor.present /\ d.cks[i].seq <= d.anchor.seq)
  PROVE  "checkpoint_mismatch" \in Problems(d)
<1>1. n \in Nat /\ Steps(d, w, n) /\ Walked(d) = w[n] /\ d.segments # <<>>
  BY DEF Walk
<1> DEFINE S == {k \in 0 .. n : i \notin w[k].seen}
<1>2. 0 \in S
  <2>1. 0 \in 0 .. n
    BY <1>1
  <2>2. w[0] = WalkStart(d)
    BY <1>1, <2>1 DEF Steps
  <2> QED
    BY <2>1, <2>2, StartParts
<1>3. ASSUME NEW k \in 0 .. n - 1, k \in S PROVE k + 1 \in S
  <2>1. k + 1 \in 1 .. n /\ k + 1 \in 0 .. n /\ (k + 1) - 1 = k
    BY <1>1
  <2> DEFINE rec == Records(d)[k + 1]
  <2>2. w[k + 1] = WalkRecord(d, w[k], rec) /\ IsWalk(w[k])
    BY <2>1, EachStep DEF StepAt
  <2>3. rec.seq # d.cks[i].seq
    BY <2>1
  <2> HIDE DEF rec
  <2>4. i \notin w[k + 1].seen
    <3>0. i \notin w[k].seen
      BY <1>3
    <3>1. CASE Unreadable(rec)
      <4>1. WalkRecord(d, w[k], rec).seen = w[k].seen
        BY <2>2, <3>1, UnreadableParts
      <4> QED
        BY <2>2, <3>0, <4>1
    <3>2. CASE ~Unreadable(rec)
      <4>1. Read(d, w[k], Started(d, w[k], rec), rec, WalkRecord(d, w[k], rec))
        BY <2>2, <3>2, ReadParts
      <4>2. w[k + 1].seen = w[k].seen \cup CheckpointsAt(d, rec.seq)
        BY <2>2, <4>1 DEF Read
      <4> QED
        BY <2>3, <3>0, <4>2 DEF CheckpointsAt
    <3> QED
      BY <3>1, <3>2
  <2> QED
    BY <2>1, <2>4
<1>4. n \in S
  <2>1. n \in 0 .. n
    BY <1>1
  <2> HIDE DEF S
  <2> QED
    BY <1>1, <1>2, <1>3, <2>1, CountingUp
<1>5. "checkpoint_mismatch" \in UnseenProblems(d, w[n])
  BY <1>4 DEF UnseenProblems
<1>6. "checkpoint_mismatch" \in WalkProblems(d)
  BY <1>1, <1>5 DEF WalkProblems
<1> QED
  BY <1>6 DEF Problems

\* A record that does not follow the one before it.
LEMMA GapFound ==
  ASSUME NEW d, NEW w, NEW n, Walk(d, w, n), NEW k \in 2 .. n,
         ~Unreadable(Records(d)[k - 1]), ~Unreadable(Records(d)[k]),
         Records(d)[k - 1].seq # 0, Records(d)[k].seq # Records(d)[k - 1].seq + 1
  PROVE  "sequence_gap" \in Problems(d)
<1> DEFINE rec == Records(d)[k]
           v == Started(d, w[k - 1], rec)
<1>1. k \in 1 .. n /\ k - 1 \in 1 .. n /\ k # 1
  BY DEF Walk
<1>2. w[k - 1].prevSeq = Records(d)[k - 1].seq
  BY <1>1, ReadAt DEF Read
<1>3. IsWalk(w[k - 1]) /\ ~w[k - 1].first
  BY <1>1, EachStep DEF StepAt
<1>4. v = [w[k - 1] EXCEPT !.first = FALSE]
  BY <1>3 DEF Started
<1> HIDE DEF rec
<1>5. v.prevSeq = w[k - 1].prevSeq
  BY <1>3, <1>4 DEF IsWalk
<1> HIDE DEF v
<1>6. "sequence_gap" \in LinkProblems(v, rec)
  BY <1>2, <1>5 DEF LinkProblems, rec
<1> QED
  BY <1>1, <1>6, FoundInRecord DEF rec, v

\* A first record beyond what the anchor covers.
LEMMA StartGapFound ==
  ASSUME NEW d, NEW w, NEW n, Walk(d, w, n), n > 0, Pruned(d), d.anchor.seq \in Nat,
         NEW rec, rec = Records(d)[1], ~Unreadable(rec), rec.seq \in Nat, rec.seq > d.anchor.seq + 1
  PROVE  "sequence_gap" \in Problems(d)
<1> DEFINE v == Started(d, w[0], rec)
           x == [WalkStart(d) EXCEPT !.first = FALSE]
<1>1. 1 \in 1 .. n /\ 1 - 1 = 0
  BY DEF Walk
<1>2. w[0] = WalkStart(d) /\ IsWalk(WalkStart(d)) /\ WalkStart(d).first
  BY <1>1, EachStep, StartParts DEF StepAt
<1>3. v = PrunedStart(d, x, rec)
  BY <1>2 DEF Started
<1>4. IsWalk(x)
  BY <1>2 DEF IsWalk
<1> HIDE DEF x
<1>5. v = [x EXCEPT !.problems = @ \cup {"sequence_gap"}, !.prevHash = Unknown, !.prevSeq = rec.seq - 1]
  <2>1. ~(rec.seq = d.anchor.seq + 1) /\ ~(rec.seq <= d.anchor.seq)
    OBVIOUS
  <2> QED
    BY <1>3, <2>1 DEF PrunedStart
<1>6. "sequence_gap" \in v.problems
  BY <1>4, <1>5 DEF IsWalk
<1> HIDE DEF v
<1> QED
  BY <1>1, <1>6, FoundInRecord DEF v

\* A first record that is not the beginning of a log nothing was deleted from.
LEMMA StartLinkFound ==
  ASSUME NEW d, NEW w, NEW n, Walk(d, w, n), n > 0, ~Pruned(d),
         NEW rec, rec = Records(d)[1], ~Unreadable(rec), rec.prev # Genesis
  PROVE  "broken_link" \in Problems(d)
<1> DEFINE v == Started(d, w[0], rec)
<1>1. 1 \in 1 .. n /\ 1 - 1 = 0
  BY DEF Walk
<1>2. w[0] = WalkStart(d) /\ IsWalk(WalkStart(d)) /\ WalkStart(d).prevHash = Genesis
  BY <1>1, EachStep, StartParts DEF StepAt
<1>3. v = [WalkStart(d) EXCEPT !.first = FALSE]
  BY <1>2 DEF Started
<1>4. v.prevHash = Genesis
  BY <1>2, <1>3 DEF IsWalk
<1>5. Genesis # Unknown
  BY DEF Genesis, Unknown
<1> HIDE DEF v
<1>6. "broken_link" \in LinkProblems(v, rec)
  BY <1>4, <1>5 DEF LinkProblems
<1> QED
  BY <1>1, <1>6, FoundInRecord DEF v

-----------------------------------------------------------------------------
(* A log that verifies *)

\* Its directory d: every record after s, the last that was deleted, and an anchor there.
Clean(d, s) ==
  /\ DOMAIN d = {"anchor", "keys", "cks", "stamps", "segments"} /\ d.keys = {"k1"}
  /\ d.anchor = anchor /\ d.cks = CheckpointList(attests) /\ d.segments # <<>>
  /\ s \in Nat /\ s <= ChainHead /\ Records(d) = Stretch(s, ChainHead)
  /\ s < ChainHead => IF anchor.present THEN anchor.seq = s /\ s > 0 ELSE s = 0
  /\ WithRecords(Here) # {} => s < ChainHead

StretchOf(a, b) ==
  /\ DOMAIN Stretch(a, b) = 1 .. b - a /\ Len(Stretch(a, b)) = b - a /\ b - a \in Nat
  /\ \A k \in 1 .. b - a :
       /\ Stretch(a, b)[k] = Record(a + k) /\ Record(a + k).seq = a + k
       /\ ~Unreadable(Record(a + k)) /\ Record(a + k).hash = Chain(a + k)
       /\ Record(a + k).prev = Chain((a + k) - 1)
       /\ DOMAIN Record(a + k) = {"seq", "prev", "body", "hash"}

LEMMA StretchParts ==
  ASSUME NEW a \in Nat, NEW b \in Nat, a <= b
  PROVE  StretchOf(a, b)
<1>1. DOMAIN Stretch(a, b) = 1 .. b - a /\ b - a \in Nat /\ \A k \in 1 .. b - a : Stretch(a, b)[k] = Record(a + k)
  BY DEF Stretch
<1>2. Len(Stretch(a, b)) = b - a
  BY StretchIsSeq
<1>3. ASSUME NEW k \in 1 .. b - a
      PROVE  /\ Record(a + k).seq = a + k
             /\ ~Unreadable(Record(a + k)) /\ Record(a + k).hash = Chain(a + k)
             /\ Record(a + k).prev = Chain((a + k) - 1)
             /\ DOMAIN Record(a + k) = {"seq", "prev", "body", "hash"}
  <2>1. a + k \in Nat /\ a + k > 0
    OBVIOUS
  <2>2. DOMAIN Record(a + k) = {"seq", "prev", "body", "hash"}
    BY DEF Record
  <2> QED
    BY <2>1, <2>2, HonestHash
<1> QED
  BY <1>1, <1>2, <1>3 DEF StretchOf

LEMMA CleanSource ==
  ASSUME IInv, FileInv, Problems(Source) = {}
  PROVE  \E s : Clean(Source, s)
<1> DEFINE d == Source
           segs == SegmentFiles(Here)
<1>1. PICK h \in 1 .. Newest : Here = h .. Newest /\ gone = 1 .. h - 1
  BY HereRow
<1> DEFINE s == StartOf(h)
<1>2. /\ Newest \in Nat /\ s \in Nat /\ ChainHead \in Nat /\ ChainHead = ends[Newest] /\ Newest \in 1 .. Newest
      /\ Sealed \subseteq 1 .. Newest
      /\ \A i \in 1 .. Newest : ends[i] \in Nat /\ StartOf(i) \in Nat /\ (i > 1 => StartOf(i) = ends[i - 1])
  <2>1. /\ Newest \in Nat /\ Newest > 0 /\ s \in Nat /\ ChainHead \in Nat /\ ChainHead = ends[Newest]
        /\ Sealed \subseteq 1 .. Newest
        /\ \A i \in 1 .. Newest : ends[i] \in Nat /\ StartOf(i) \in Nat /\ (i > 1 => StartOf(i) = ends[i - 1])
    BY Heads DEF IInv
  <2> QED
    BY <2>1
<1>3. segs # <<>> /\ s <= ChainHead /\ FlattenSeq(segs) = Stretch(s, ChainHead)
  BY <1>1, LogHolds DEF IInv
<1>4. /\ DOMAIN d = {"anchor", "keys", "cks", "stamps", "segments"} /\ d.keys = {"k1"}
      /\ d.anchor = anchor /\ d.cks = CheckpointList(attests) /\ d.stamps = Stamps(attests) /\ d.segments = segs
  BY DEF Source, Directory
<1>5. Records(d) = Stretch(s, ChainHead)
  BY <1>3, <1>4 DEF Records
<1>6. anchor.present => anchor.seq \in 1 .. ChainHead /\ Sealing(anchor) /\ anchor.hash = Chain(anchor.seq)
  <2> SUFFICES ASSUME anchor.present PROVE anchor.seq \in 1 .. ChainHead
    BY DEF FileInv
  <2>1. PICK m \in Sealed : anchor.seq = ends[m]
    BY DEF IInv, PruneInv
  <2>2. m \in 1 .. Newest /\ m <= Newest
    BY <1>2, <2>1
  <2>3. StartOf(m) < ends[m] /\ ends[m] <= ends[Newest]
    BY <1>2, <2>1, <2>2 DEF IInv, LogInv
  <2> QED
    BY <1>2, <2>1, <2>2, <2>3
<1>7. ~anchor.present => s = 0
  <2> SUFFICES ASSUME ~anchor.present PROVE s = 0
    OBVIOUS
  <2>1. gone = {}
    BY DEF IInv, PruneInv
  <2>2. h # 1 => 1 \in 1 .. h - 1
    BY <1>2
  <2>3. h = 1
    BY <1>1, <2>1, <2>2
  <2> QED
    BY <2>3 DEF StartOf
<1>8. Covers(anchor, attests, ChainHead) /\ attests \in Seq(Nat)
  <2>1. attests \in Seq(Nat) /\ \A i \in DOMAIN attests : attests[i] \in 1 .. ChainHead
    BY DEF FileInv, About
  <2> QED
    BY <1>2, <2>1 DEF Covers
<1>9. ASSUME \E i \in h .. Newest : RecordsOf(i) # {} PROVE s < ChainHead
  <2>1. PICK i \in h .. Newest : RecordsOf(i) # {}
    BY <1>9
  <2>2. i \in 1 .. Newest /\ h <= i /\ i <= Newest /\ i \in Nat /\ h \in Nat
    BY <1>2
  <2>3. StartOf(i) < ends[i]
    BY <1>2, <2>1, <2>2 DEF RecordsOf
  <2>4. ends[i] <= ends[Newest]
    BY <1>2, <2>2 DEF IInv, LogInv
  <2>5. s <= StartOf(i)
    <3>1. CASE i = h
      BY <1>2, <3>1
    <3>2. CASE i # h
      <4>1. i - 1 \in 1 .. Newest /\ h <= i - 1 /\ i > 1
        BY <1>2, <2>2, <3>2
      <4>2. ends[h] <= ends[i - 1]
        BY <4>1 DEF IInv, LogInv
      <4>3. StartOf(h) <= ends[h]
        BY StartBeforeEnd
      <4> QED
        BY <1>2, <2>2, <4>1, <4>2, <4>3
    <3> QED
      BY <3>1, <3>2
  <2> QED
    BY <1>2, <2>2, <2>3, <2>4, <2>5
<1> HIDE DEF d, segs, s
<1>10. ASSUME s < ChainHead, anchor.present PROVE anchor.seq = s /\ s > 0
  <2>1. CASE s <= anchor.seq
    <3>1. Fits(anchor, s, ChainHead)
      BY <1>6, <1>10, <2>1 DEF Fits
    <3>2. Honest(d, anchor, attests, segs)
      BY <1>4 DEF Honest
    <3>3. WalkProblems(d) = IF s < ChainHead /\ anchor.present /\ anchor.seq # s THEN {"prune_incomplete"} ELSE {}
      BY <1>2, <1>3, <1>6, <1>8, <3>1, <3>2, HonestFiles
    <3>4. WalkProblems(d) = {}
      BY DEF Problems, d
    <3> QED
      BY <1>6, <1>10, <3>3, <3>4
  <2>2. CASE ~(s <= anchor.seq)
    <3>1. /\ Records(d)[1] = Record(s + 1) /\ Record(s + 1).seq = s + 1 /\ ~Unreadable(Record(s + 1))
          /\ Len(Records(d)) = ChainHead - s /\ ChainHead - s \in Nat /\ ChainHead - s > 0
      <4>1. 1 \in 1 .. ChainHead - s /\ ChainHead - s > 0
        BY <1>2, <1>10
      <4>2. /\ Len(Stretch(s, ChainHead)) = ChainHead - s /\ ChainHead - s \in Nat
            /\ Stretch(s, ChainHead)[1] = Record(s + 1) /\ Record(s + 1).seq = s + 1
            /\ ~Unreadable(Record(s + 1))
        <5>1. StretchOf(s, ChainHead)
          BY <1>2, <1>3, StretchParts
        <5> QED
          BY <4>1, <5>1 DEF StretchOf
      <4> QED
        BY <1>5, <4>1, <4>2
    <3>2. PICK w : Walk(d, w, ChainHead - s)
      <4>1. \E w : Walk(d, w, Len(Records(d)))
        BY <1>3, <1>4, <3>1, WalkExists
      <4> QED
        BY <3>1, <4>1
    <3>3. Pruned(d) /\ d.anchor.seq \in Nat /\ s + 1 > d.anchor.seq + 1 /\ s + 1 \in Nat
      BY <1>2, <1>4, <1>6, <1>10, <2>2 DEF Pruned
    <3>4. "sequence_gap" \in Problems(d)
      BY <3>1, <3>2, <3>3, StartGapFound
    <3> QED
      BY <3>4 DEF d
  <2> QED
    BY <2>1, <2>2
<1>11. WithRecords(Here) # {} => s < ChainHead
  BY <1>1, <1>9 DEF WithRecords
<1>12. Clean(d, s)
  BY <1>2, <1>3, <1>4, <1>5, <1>7, <1>10, <1>11 DEF Clean
<1> QED
  BY <1>12 DEF d

-----------------------------------------------------------------------------
(* A record that was changed *)

LEMMA Damage ==
  ASSUME NEW d, NEW p, p \in Problems(d), p \notin Uncheckable
  PROVE  ~Intact(Problems(d))
BY DEF Intact

\* The directory d with other records.
WithFile(c, d, r) == c.anchor = d.anchor /\ c.cks = d.cks /\ Records(c) = r /\ c.segments # <<>>

LEMMA FileChanged ==
  ASSUME NEW d, NEW s, Clean(d, s), NEW r, NEW c, c = [d EXCEPT !.segments = <<r>>]
  PROVE  WithFile(c, d, r)
<1>1. DOMAIN d = {"anchor", "keys", "cks", "stamps", "segments"}
  BY DEF Clean
<1>2. c.anchor = d.anchor /\ c.cks = d.cks /\ c.segments = <<r>>
  BY <1>1
<1>3. Records(c) = r /\ c.segments # <<>>
  BY <1>2, OneFile
<1> QED
  BY <1>2, <1>3 DEF WithFile

LEMMA FileWalk ==
  ASSUME NEW c, NEW d, NEW r, WithFile(c, d, r), NEW n \in Nat, Len(r) = n
  PROVE  \E w : Walk(c, w, n)
<1>1. Len(Records(c)) \in Nat /\ Len(Records(c)) = n /\ c.segments # <<>>
  BY DEF WithFile
<1>2. \E w : Walk(c, w, Len(Records(c)))
  BY <1>1, WalkExists
<1> QED
  BY <1>1, <1>2

ReplacedAt(r, s, last, i, b) ==
  /\ DOMAIN r = 1 .. last - s /\ Len(r) = last - s /\ last - s \in Nat
  /\ r[i].seq = s + i /\ r[i].body = b /\ r[i].prev = Chain((s + i) - 1) /\ r[i].hash = Chain(s + i)
  /\ DOMAIN r[i] = {"seq", "prev", "body", "hash"}
  /\ \A k \in 1 .. last - s : k # i => r[k] = Record(s + k)

LEMMA Replaced ==
  ASSUME NEW s \in Nat, NEW last \in Nat, s <= last, NEW i \in 1 .. last - s, NEW b,
         NEW r, r = [Stretch(s, last) EXCEPT ![i].body = b]
  PROVE  ReplacedAt(r, s, last, i, b)
<1> DEFINE recs == Stretch(s, last)
           x == [recs[i] EXCEPT !.body = b]
           R == AllRecords \cup {x}
<1>1. StretchOf(s, last)
  BY StretchParts
<1>2. /\ recs[i] = Record(s + i) /\ Record(s + i).seq = s + i /\ Record(s + i).hash = Chain(s + i)
      /\ Record(s + i).prev = Chain((s + i) - 1) /\ DOMAIN Record(s + i) = {"seq", "prev", "body", "hash"}
      /\ DOMAIN recs = 1 .. last - s /\ Len(recs) = last - s /\ last - s \in Nat
      /\ \A k \in 1 .. last - s : recs[k] = Record(s + k)
  BY <1>1 DEF StretchOf
<1>3. recs \in Seq(R) /\ x \in R
  <2>1. recs \in Seq(AllRecords)
    BY StretchIsSeq
  <2>2. recs \in [1 .. last - s -> R]
    <3>1. \A k \in 1 .. last - s : recs[k] \in AllRecords
      BY <1>2, <2>1, ElementOfSeq
    <3>2. recs = [k \in 1 .. last - s |-> recs[k]]
      BY DEF Stretch
    <3> HIDE DEF recs, x
    <3> QED
      BY <3>1, <3>2
  <2> HIDE DEF recs, R
  <2>3. recs \in Seq(R)
    BY <1>2, <2>2
  <2> QED
    BY <2>3 DEF R
<1>4. r = [recs EXCEPT ![i] = x]
  OBVIOUS
<1> HIDE DEF recs, R
<1>5. x.seq = s + i /\ x.body = b /\ x.prev = Chain((s + i) - 1) /\ x.hash = Chain(s + i)
      /\ DOMAIN x = {"seq", "prev", "body", "hash"}
  BY <1>2
<1> HIDE DEF x
<1>6. Len(r) = Len(recs) /\ DOMAIN r = 1 .. last - s /\ r[i] = x
      /\ \A k \in 1 .. last - s : k # i => r[k] = recs[k]
  <2>1. i \in 1 .. Len(recs)
    BY <1>2
  <2>2. Len(r) = Len(recs)
    BY <1>3, <1>4, <2>1, ExceptSeq
  <2> QED
    BY <1>2, <1>4, <2>2
<1> QED
  BY <1>2, <1>5, <1>6 DEF ReplacedAt

LEMMA OtherHash ==
  ASSUME NEW n \in Nat, n > 0
  PROVE  Append(Chain(n - 1), <<n, "changed">>) # Chain(n)
<1>1. n - 1 \in Nat /\ (n - 1) + 1 = n /\ n \in 1 .. n
  OBVIOUS
<1>2. Chain(n - 1) \in Seq(Entries) /\ Len(Chain(n - 1)) = n - 1
  BY <1>1, ChainGrows
<1>3. <<n, "changed">> \in Entries
  BY DEF Entries
<1>4. Append(Chain(n - 1), <<n, "changed">>)[(n - 1) + 1] = <<n, "changed">>
  BY <1>2, <1>3, AppendProperties
<1>5. Chain(n)[n] = <<n, "event">>
  BY <1>1 DEF Chain
<1>6. <<n, "changed">> # <<n, "event">>
  OBVIOUS
<1> QED
  BY <1>1, <1>4, <1>5, <1>6

LEMMA ChangedRecordFound ==
  ASSUME IInv, NEW d, NEW s, Clean(d, s), NEW i \in 1 .. ChainHead - s, NEW b \in {"changed", "unreadable"},
         NEW r, r = [Stretch(s, ChainHead) EXCEPT ![i].body = b],
         NEW c, c = [d EXCEPT !.segments = <<r>>]
  PROVE  ~Intact(Problems(c))
<1>1. s \in Nat /\ ChainHead \in Nat /\ s <= ChainHead
  BY Heads DEF Clean, IInv
<1>2. ReplacedAt(r, s, ChainHead, i, b)
  BY <1>1, Replaced
<1>3. WithFile(c, d, r)
  BY FileChanged
<1>4. PICK w : Walk(c, w, ChainHead - s)
  BY <1>2, <1>3, FileWalk DEF ReplacedAt
<1>5. Records(c)[i] = r[i]
  BY <1>3 DEF WithFile
<1>6. CASE b = "unreadable"
  <2>1. Unreadable(Records(c)[i])
    BY <1>2, <1>5, <1>6 DEF Unreadable, ReplacedAt
  <2>2. "malformed_record" \in Problems(c)
    BY <1>4, <2>1, UnreadableFound
  <2> QED
    BY <2>2, Damage DEF Uncheckable
<1>7. CASE b = "changed"
  <2>1. ~Unreadable(r[i])
    BY <1>2, <1>7 DEF Unreadable, ReplacedAt
  <2>2. s + i \in Nat /\ s + i > 0
    BY <1>1
  <2>3. Hash(r[i]) # r[i].hash
    BY <1>2, <1>7, <2>2, OtherHash DEF Hash, ReplacedAt
  <2>4. "hash_mismatch" \in LinkProblems(Started(c, w[i - 1], r[i]), r[i])
    BY <2>3 DEF LinkProblems
  <2>5. "hash_mismatch" \in Problems(c)
    BY <1>4, <1>5, <2>1, <2>4, FoundInRecord
  <2> QED
    BY <2>5, Damage DEF Uncheckable
<1> QED
  BY <1>6, <1>7

-----------------------------------------------------------------------------
(* An attested record that was removed, or cut off with what follows *)

\* The last checkpoint, when a record that is left is attested.
LastLine(d, s, j) ==
  /\ j \in DOMAIN d.cks /\ d.cks[j].seq = LastAttested /\ d.cks[j].hash = Chain(LastAttested)
  /\ LastAttested \in s + 1 .. ChainHead
  /\ ~(d.anchor.present /\ d.cks[j].seq <= d.anchor.seq)

LEMMA LastCheckpoint ==
  ASSUME IInv, FileInv, NEW d, NEW s, Clean(d, s), NEW i \in 1 .. ChainHead - s, s + i <= LastAttested
  PROVE  \E j : LastLine(d, s, j)
<1>1. s \in Nat /\ ChainHead \in Nat /\ s <= ChainHead /\ d.anchor = anchor /\ d.cks = CheckpointList(attests)
  BY Heads DEF Clean, IInv
<1>2. /\ attests \in Seq(Nat) /\ Len(attests) \in Nat /\ DOMAIN attests = 1 .. Len(attests)
      /\ \A j \in DOMAIN attests : attests[j] \in 1 .. ChainHead
  BY LenProperties DEF FileInv, About
<1>3. attests # <<>>
  BY <1>1 DEF LastAttested
<1> DEFINE j == Len(attests)
<1>4. j \in DOMAIN attests /\ LastAttested = attests[j]
  BY <1>2, <1>3, EmptySeq DEF LastAttested
<1>5. j \in DOMAIN d.cks /\ d.cks[j].seq = LastAttested /\ d.cks[j].hash = Chain(LastAttested)
  BY <1>1, <1>2, <1>4, ListParts
<1>6. LastAttested \in s + 1 .. ChainHead
  BY <1>1, <1>2, <1>4
<1>7. ~(d.anchor.present /\ d.cks[j].seq <= d.anchor.seq)
  BY <1>1, <1>5, <1>6 DEF Clean
<1>8. LastLine(d, s, j)
  BY <1>5, <1>6, <1>7 DEF LastLine
<1> QED
  BY <1>8

\* Once no record with the last attested number is left.
LEMMA MissingFound ==
  ASSUME NEW d, NEW s, NEW j, LastLine(d, s, j), NEW r, NEW c, WithFile(c, d, r), NEW n \in Nat, Len(r) = n,
         \A k \in 1 .. n : r[k].seq # LastAttested
  PROVE  ~Intact(Problems(c))
<1>1. PICK w : Walk(c, w, n)
  BY FileWalk
<1>2. /\ j \in DOMAIN c.cks /\ c.cks[j].seq = LastAttested
      /\ ~(c.anchor.present /\ c.cks[j].seq <= c.anchor.seq)
      /\ \A k \in 1 .. n : Records(c)[k].seq # c.cks[j].seq
  BY DEF LastLine, WithFile
<1>3. "checkpoint_mismatch" \in Problems(c)
  BY <1>1, <1>2, UnseenFound
<1> QED
  BY <1>3, Damage DEF Uncheckable

LEMMA CutFound ==
  ASSUME IInv, FileInv, NEW d, NEW s, Clean(d, s), NEW i \in 1 .. ChainHead - s, s + i <= LastAttested,
         NEW r, r = SubSeq(Stretch(s, ChainHead), 1, i - 1),
         NEW c, c = [d EXCEPT !.segments = <<r>>]
  PROVE  ~Intact(Problems(c))
<1>1. s \in Nat /\ ChainHead \in Nat /\ s <= ChainHead
  BY Heads DEF Clean, IInv
<1>2. PICK j : LastLine(d, s, j)
  BY LastCheckpoint
<1>3. WithFile(c, d, r)
  BY FileChanged
<1> DEFINE recs == Stretch(s, ChainHead)
<1>4. recs \in Seq(AllRecords) /\ StretchOf(s, ChainHead)
  BY <1>1, StretchIsSeq, StretchParts
<1>5. Len(r) = i - 1 /\ \A k \in 1 .. i - 1 : r[k] = Record(s + k) /\ Record(s + k).seq = s + k
  <2>1. Len(recs) = ChainHead - s /\ \A k \in 1 .. ChainHead - s : recs[k] = Record(s + k) /\ Record(s + k).seq = s + k
    BY <1>4 DEF StretchOf
  <2>2. 1 \in 1 .. Len(recs) + 1 /\ i - 1 \in 1 - 1 .. Len(recs) /\ (i - 1) - 1 + 1 = i - 1
    BY <1>1, <2>1
  <2> HIDE DEF recs
  <2>3. Len(r) = i - 1 /\ \A k \in 1 .. i - 1 : r[k] = recs[k]
    BY <1>4, <2>2, SubSeqProperties DEF recs
  <2>4. \A k \in 1 .. i - 1 : k \in 1 .. ChainHead - s
    BY <1>1
  <2> QED
    BY <2>1, <2>3, <2>4
<1>6. i - 1 \in Nat /\ \A k \in 1 .. i - 1 : r[k].seq # LastAttested
  <2>1. LastAttested \in Nat
    BY <1>1, <1>2 DEF LastLine
  <2>2. \A k \in 1 .. i - 1 : s + k # LastAttested
    BY <1>1, <2>1
  <2> QED
    BY <1>5, <2>2
<1> QED
  BY <1>2, <1>3, <1>5, <1>6, MissingFound

LEMMA Removed ==
  ASSUME NEW S, NEW q \in Seq(S), NEW i \in 1 .. Len(q)
  PROVE  /\ RemoveAt(q, i) \in Seq(S) /\ Len(RemoveAt(q, i)) = Len(q) - 1 /\ Len(q) - 1 \in Nat
         /\ \A k \in 1 .. Len(q) - 1 : RemoveAt(q, i)[k] = IF k < i THEN q[k] ELSE q[k + 1]
<1> DEFINE a == SubSeq(q, 1, i - 1)
           b == SubSeq(q, i + 1, Len(q))
           n == Len(q)
<1>1. n \in Nat /\ i \in 1 .. n /\ \A k \in 1 .. n : q[k] \in S
  BY LenProperties, ElementOfSeq
<1>2. a \in Seq(S) /\ Len(a) = i - 1 /\ \A k \in 1 .. i - 1 : a[k] = q[k]
  <2>1. \A k \in 1 .. i - 1 : q[k] \in S /\ 1 + k - 1 = k
    BY <1>1
  <2>2. /\ a \in Seq(S) /\ Len(a) = IF 1 <= i - 1 THEN (i - 1) - 1 + 1 ELSE 0
        /\ \A k \in 1 .. (i - 1) - 1 + 1 : a[k] = q[1 + k - 1]
    BY <1>1, <2>1, SubSeqProperties
  <2> HIDE DEF a, n
  <2> QED
    BY <1>1, <2>1, <2>2
<1>3. b \in Seq(S) /\ Len(b) = n - i /\ \A k \in 1 .. n - i : b[k] = q[i + k]
  <2>1. \A k \in i + 1 .. n : q[k] \in S
    BY <1>1
  <2>2. /\ b \in Seq(S) /\ Len(b) = IF i + 1 <= n THEN n - (i + 1) + 1 ELSE 0
        /\ \A k \in 1 .. n - (i + 1) + 1 : b[k] = q[(i + 1) + k - 1]
    BY <1>1, <2>1, SubSeqProperties
  <2>3. \A k \in 1 .. n - i : (i + 1) + k - 1 = i + k
    BY <1>1
  <2> HIDE DEF b, n
  <2> QED
    BY <1>1, <2>2, <2>3
<1>4. RemoveAt(q, i) = a \o b
  BY DEF RemoveAt
<1> HIDE DEF a, b
<1>5. /\ a \o b \in Seq(S) /\ Len(a \o b) = Len(a) + Len(b)
      /\ \A k \in 1 .. Len(a) + Len(b) : (a \o b)[k] = IF k <= Len(a) THEN a[k] ELSE b[k - Len(a)]
  BY <1>2, <1>3, ConcatProperties
<1> HIDE DEF n
<1>6. Len(a) + Len(b) = n - 1 /\ n - 1 \in Nat
  BY <1>1, <1>2, <1>3
<1>7. ASSUME NEW k \in 1 .. n - 1 PROVE (a \o b)[k] = IF k < i THEN q[k] ELSE q[k + 1]
  <2>1. CASE k < i
    <3>1. k \in 1 .. i - 1 /\ k <= Len(a) /\ k \in 1 .. Len(a) + Len(b)
      BY <1>1, <1>2, <1>6, <2>1
    <3> QED
      BY <1>2, <1>5, <2>1, <3>1
  <2>2. CASE ~(k < i)
    <3>1. /\ k - (i - 1) \in 1 .. n - i /\ ~(k <= Len(a)) /\ k \in 1 .. Len(a) + Len(b)
          /\ i + (k - (i - 1)) = k + 1
      BY <1>1, <1>2, <1>6, <2>2
    <3>2. (a \o b)[k] = b[k - (i - 1)]
      BY <1>2, <1>5, <3>1
    <3> QED
      BY <1>3, <2>2, <3>1, <3>2
  <2> QED
    BY <2>1, <2>2
<1> QED
  BY <1>4, <1>5, <1>6, <1>7 DEF n

LEMMA RemovedFound ==
  ASSUME IInv, FileInv, NEW d, NEW s, Clean(d, s), NEW i \in 1 .. ChainHead - s, s + i <= LastAttested,
         NEW r, r = RemoveAt(Stretch(s, ChainHead), i),
         NEW c, c = [d EXCEPT !.segments = <<r>>]
  PROVE  ~Intact(Problems(c))
<1> DEFINE n == ChainHead - s
           recs == Stretch(s, ChainHead)
<1>1. s \in Nat /\ ChainHead \in Nat /\ s <= ChainHead /\ n \in Nat /\ i \in 1 .. n
  BY Heads DEF Clean, IInv
<1>2. PICK j : LastLine(d, s, j)
  BY LastCheckpoint
<1>3. WithFile(c, d, r)
  BY FileChanged
<1>4. /\ Len(recs) = n
      /\ \A k \in 1 .. n : /\ recs[k] = Record(s + k) /\ Record(s + k).seq = s + k
                           /\ ~Unreadable(Record(s + k)) /\ Record(s + k).prev = Chain((s + k) - 1)
  BY <1>1, StretchParts DEF StretchOf
<1>5. Len(r) = n - 1 /\ n - 1 \in Nat /\ \A k \in 1 .. n - 1 : r[k] = IF k < i THEN recs[k] ELSE recs[k + 1]
  <2>1. recs \in Seq(AllRecords) /\ i \in 1 .. Len(recs)
    BY <1>1, <1>4, StretchIsSeq
  <2> HIDE DEF recs
  <2> QED
    BY <1>4, <2>1, Removed DEF recs
<1>6. \A k \in 1 .. n - 1 : r[k] = IF k < i THEN Record(s + k) ELSE Record(s + (k + 1))
  <2>1. \A k \in 1 .. n - 1 : k \in 1 .. n /\ k + 1 \in 1 .. n
    BY <1>1
  <2> HIDE DEF recs, n
  <2> QED
    BY <1>4, <1>5, <2>1
<1>7. \A k \in 1 .. n - 1 :
        /\ r[k].seq = (IF k < i THEN s + k ELSE s + (k + 1)) /\ ~Unreadable(r[k])
        /\ r[k].prev = Chain((IF k < i THEN s + k ELSE s + (k + 1)) - 1)
  <2>1. \A k \in 1 .. n - 1 : k \in 1 .. n /\ k + 1 \in 1 .. n
    BY <1>1
  <2> HIDE DEF recs, n
  <2> QED
    BY <1>4, <1>6, <2>1
<1>8. PICK w : Walk(c, w, n - 1)
  BY <1>3, <1>5, FileWalk
<1>9. Records(c) = r /\ c.anchor = anchor
  BY <1>3 DEF WithFile, Clean
<1>10. CASE LastAttested = s + i
  <2>1. ASSUME NEW k \in 1 .. n - 1 PROVE r[k].seq # LastAttested
    <3>1. r[k].seq = IF k < i THEN s + k ELSE s + (k + 1)
      BY <1>7
    <3> QED
      BY <1>1, <1>10, <3>1
  <2> QED
    BY <1>2, <1>3, <1>5, <2>1, MissingFound
<1>11. CASE LastAttested # s + i
  <2>1. i \in 1 .. n - 1
    <3>1. LastAttested \in s + 1 .. ChainHead
      BY <1>2 DEF LastLine
    <3> QED
      BY <1>1, <1>11, <3>1
  <2>2. r[i].seq = s + (i + 1) /\ ~Unreadable(r[i]) /\ r[i].prev = Chain((s + (i + 1)) - 1)
    <3>1. ~(i < i)
      BY <1>1
    <3> QED
      BY <1>7, <2>1, <3>1
  <2>3. CASE i = 1
    <3>1. s < ChainHead /\ n - 1 > 0 /\ s + (i + 1) \in Nat /\ (s + (i + 1)) - 1 = s + 1
      BY <1>1, <2>1, <2>3
    <3>2. CASE anchor.present
      <4>1. anchor.seq = s /\ s > 0
        BY <3>1, <3>2 DEF Clean
      <4>2. Pruned(c) /\ c.anchor.seq \in Nat /\ r[1].seq > c.anchor.seq + 1 /\ r[1].seq \in Nat
        BY <1>1, <1>9, <2>2, <2>3, <3>1, <3>2, <4>1 DEF Pruned
      <4>3. "sequence_gap" \in Problems(c)
        BY <1>8, <1>9, <2>2, <2>3, <3>1, <4>2, StartGapFound
      <4> QED
        BY <4>3, Damage DEF Uncheckable
    <3>3. CASE ~anchor.present
      <4>1. s = 0 /\ ~Pruned(c)
        BY <1>9, <3>1, <3>3 DEF Clean, Pruned
      <4>2. r[1].prev # Genesis
        <5>1. r[1].prev = Chain(1)
          BY <2>2, <2>3, <3>1, <4>1
        <5>2. Chain(1) \in Seq(Entries) /\ Len(Chain(1)) = 1
          BY ChainGrows
        <5> QED
          BY <5>1, <5>2, EmptySeq DEF Genesis
      <4>3. "broken_link" \in Problems(c)
        BY <1>8, <1>9, <2>2, <2>3, <3>1, <4>1, <4>2, StartLinkFound
      <4> QED
        BY <4>3, Damage DEF Uncheckable
    <3> QED
      BY <3>2, <3>3
  <2>4. CASE i # 1
    <3>1. i \in 2 .. n - 1 /\ i - 1 \in 1 .. n - 1 /\ i - 1 < i
      BY <1>1, <2>1, <2>4
    <3>2. r[i - 1].seq = s + (i - 1) /\ ~Unreadable(r[i - 1])
      BY <1>7, <3>1
    <3>3. s + (i - 1) # 0 /\ s + (i + 1) # (s + (i - 1)) + 1
      BY <1>1, <3>1
    <3>4. "sequence_gap" \in Problems(c)
      BY <1>8, <1>9, <2>2, <3>1, <3>2, <3>3, GapFound
    <3> QED
      BY <3>4, Damage DEF Uncheckable
  <2> QED
    BY <2>3, <2>4
<1> QED
  BY <1>10, <1>11

-----------------------------------------------------------------------------
(* An anchor that is another *)

\* No entry of a chain stands for an unknown hash.
LEMMA ChainIsKnown == \A n \in Nat : Chain(n) # Unknown
<1> SUFFICES ASSUME NEW n \in Nat, Chain(n) = Unknown PROVE FALSE
  OBVIOUS
<1>1. Len(Chain(n)) = n /\ Len(Unknown) = 1 /\ Unknown[1] = <<0, "unknown">>
  BY ChainGrows DEF Unknown
<1>2. n = 1 /\ 1 \in 1 .. 1
  BY <1>1
<1>3. Chain(n)[1] = <<1, "event">>
  BY <1>2 DEF Chain
<1> QED
  BY <1>1, <1>3

LEMMA ForgedAnchorFound ==
  ASSUME FileInv, NEW d, NEW s, Clean(d, s), anchor.present, anchor.seq \in Nat,
         NEW a \in {[anchor EXCEPT !.hash = Unknown], [anchor EXCEPT !.seq = @ - 1], [anchor EXCEPT !.seq = @ + 1]},
         NEW c, c = [d EXCEPT !.anchor = a]
  PROVE  ~Intact(Problems(c))
<1>1. /\ DOMAIN anchor = {"present", "seq", "hash", "segments", "records", "key", "signature"}
      /\ anchor.key = "k1" /\ anchor.hash = Chain(anchor.seq)
      /\ anchor.signature = <<anchor.seq, anchor.hash, anchor.segments, anchor.records, anchor.key>>
  BY DEF FileInv, Sealing, AnchorPreimage
<1>2. a.present /\ a.key = "k1" /\ a.signature = anchor.signature /\ (a.hash # anchor.hash \/ a.seq # anchor.seq)
  <2>1. CASE a = [anchor EXCEPT !.hash = Unknown]
    <3>1. Unknown # anchor.hash
      BY <1>1, ChainIsKnown
    <3> QED
      BY <1>1, <2>1, <3>1
  <2>2. CASE a = [anchor EXCEPT !.seq = @ - 1]
    BY <1>1, <2>2
  <2>3. CASE a = [anchor EXCEPT !.seq = @ + 1]
    BY <1>1, <2>3
  <2> QED
    BY <2>1, <2>2, <2>3
<1>3. a.signature # <<a.seq, a.hash, a.segments, a.records, a.key>> /\ a.signature # <<>>
  BY <1>1, <1>2
<1>4. c.anchor = a /\ c.keys = {"k1"}
  BY DEF Clean
<1>5. "bad_signature" \in AnchorProblems(c)
  BY <1>2, <1>3, <1>4 DEF AnchorProblems, AnchorChecked, AnchorPreimage
<1>6. "bad_signature" \in Problems(c)
  BY <1>5 DEF Problems
<1> QED
  BY <1>6, Damage DEF Uncheckable

LEMMA MissingAnchorFound ==
  ASSUME IInv, NEW d, NEW s, Clean(d, s), anchor.present, s < ChainHead,
         NEW c, c = [d EXCEPT !.anchor = NoAnchor]
  PROVE  ~Intact(Problems(c))
<1>1. /\ s \in Nat /\ ChainHead \in Nat /\ s <= ChainHead /\ s > 0
      /\ Records(d) = Stretch(s, ChainHead) /\ d.segments # <<>>
  BY Heads DEF Clean, IInv
<1>2. c.anchor = NoAnchor /\ c.segments = d.segments
  BY DEF Clean
<1>3. Records(c) = Stretch(s, ChainHead) /\ c.segments # <<>> /\ ~Pruned(c)
  BY <1>1, <1>2 DEF Records, Pruned, NoAnchor
<1> DEFINE n == ChainHead - s
<1>4. Len(Records(c)) = n /\ n \in Nat /\ n > 0 /\ 1 \in 1 .. n
  BY <1>1, <1>3, StretchParts DEF StretchOf
<1>5. PICK w : Walk(c, w, n)
  BY <1>3, <1>4, WalkExists
<1>6. /\ Records(c)[1] = Record(s + 1) /\ ~Unreadable(Record(s + 1))
      /\ Record(s + 1).prev = Chain((s + 1) - 1)
  <2>1. StretchOf(s, ChainHead)
    BY <1>1, StretchParts
  <2> QED
    BY <1>3, <1>4, <2>1 DEF StretchOf
<1>7. Record(s + 1).prev # Genesis
  <2>1. (s + 1) - 1 = s /\ Chain(s) \in Seq(Entries) /\ Len(Chain(s)) = s
    BY <1>1, ChainGrows
  <2> QED
    BY <1>1, <1>6, <2>1, EmptySeq DEF Genesis
<1> HIDE DEF n
<1>8. "broken_link" \in Problems(c)
  BY <1>3, <1>4, <1>5, <1>6, <1>7, StartLinkFound
<1> QED
  BY <1>8, Damage DEF Uncheckable

-----------------------------------------------------------------------------
(* A checkpoint that was changed or removed *)

Fields == {"seq", "hash", "key", "signature", "chained", "index", "prev", "chainSignature"}

LEMMA ListFields ==
  ASSUME NEW list \in Seq(Nat), NEW i \in DOMAIN list
  PROVE  DOMAIN CheckpointList(list)[i] = Fields
<1>1. CheckpointList(list)[i] = IF i <= Legacy THEN ListOf(list[i])
                                ELSE Linked(ListOf(list[i]), i - 1, Before(list, i))
  BY DEF CheckpointList, ListOf, Before
<1>2. DOMAIN ListOf(list[i]) = Fields
  BY DEF ListOf, Signed, Fields
<1>3. DOMAIN Linked(ListOf(list[i]), i - 1, Before(list, i)) = Fields
  BY <1>2 DEF Linked
<1> QED
  BY <1>1, <1>2, <1>3

LEMMA ForgedCheckpointFound ==
  ASSUME FileInv, NEW d, NEW s, Clean(d, s), NEW i \in DOMAIN CheckpointList(attests),
         NEW cks, cks = [CheckpointList(attests) EXCEPT ![i].hash = Unknown],
         NEW c, c = [d EXCEPT !.cks = cks]
  PROVE  ~Intact(Problems(c))
<1> DEFINE list == CheckpointList(attests)
           x == list[i]
<1>1. attests \in Seq(Nat) /\ DOMAIN list = DOMAIN attests /\ i \in DOMAIN attests
  BY DEF FileInv, About, CheckpointList
<1>2. attests[i] \in Nat
  BY <1>1, LenProperties, ElementOfSeq
<1>3. x.hash = Chain(attests[i]) /\ x.key = "k1" /\ x.signature = <<x.seq, x.hash, x.key>> /\ DOMAIN x = Fields
  BY <1>1, ListParts, ListFields DEF Genuine, CheckpointPreimage
<1>4. cks[i] = [x EXCEPT !.hash = Unknown] /\ i \in DOMAIN cks
  OBVIOUS
<1> HIDE DEF x
<1>5. cks[i].hash = Unknown /\ cks[i].key = "k1" /\ cks[i].signature = x.signature
  BY <1>3, <1>4 DEF Fields
<1>6. ~Genuine(cks[i])
  BY <1>2, <1>3, <1>5, ChainIsKnown DEF Genuine, CheckpointPreimage
<1>7. c.cks = cks /\ c.keys = {"k1"}
  BY DEF Clean
<1>8. "bad_signature" \in SignatureProblems(c)
  BY <1>4, <1>5, <1>6, <1>7 DEF SignatureProblems
<1>9. "bad_signature" \in Problems(c)
  BY <1>8 DEF Problems
<1> QED
  BY <1>9, Damage DEF Uncheckable

\* The lines as a sequence.
LEMMA ListIsSeq ==
  ASSUME NEW list \in Seq(Nat)
  PROVE  /\ \E S : CheckpointList(list) \in Seq(S)
         /\ Len(CheckpointList(list)) = Len(list) /\ DOMAIN CheckpointList(list) = 1 .. Len(list)
         /\ Len(list) \in Nat
<1> DEFINE e(k) == IF k <= Legacy THEN ListOf(list[k]) ELSE Linked(ListOf(list[k]), k - 1, Before(list, k))
           n == Len(list)
           S == {e(k) : k \in 1 .. n}
<1>1. n \in Nat /\ DOMAIN list = 1 .. n
  BY LenProperties
<1>2. CheckpointList(list) = [k \in 1 .. n |-> e(k)]
  BY <1>1 DEF CheckpointList, ListOf, Before
<1>3. \A k \in 1 .. n : e(k) \in S
  OBVIOUS
<1> HIDE DEF e, S, n
<1>4. [k \in 1 .. n |-> e(k)] \in Seq(S) /\ Len([k \in 1 .. n |-> e(k)]) = n
  BY <1>1, <1>3
<1> QED
  BY <1>1, <1>2, <1>4 DEF n

LEMMA RemovedCheckpointFound ==
  ASSUME FileInv, NEW d, NEW s, Clean(d, s), NEW n, n = Len(CheckpointList(attests)),
         Chained(CheckpointList(attests)[n]), NEW i \in 1 .. n - 1,
         NEW cks, cks = RemoveAt(CheckpointList(attests), i),
         NEW c, c = [d EXCEPT !.cks = cks]
  PROVE  ~Intact(Problems(c))
<1> DEFINE list == CheckpointList(attests)
<1>1. attests \in Seq(Nat) /\ n = Len(attests) /\ DOMAIN list = 1 .. n /\ n \in Nat /\ DOMAIN attests = 1 .. n
  <2>1. attests \in Seq(Nat)
    BY DEF FileInv, About
  <2> QED
    BY <2>1, ListIsSeq, LenProperties
<1>2. /\ Legacy \in Nat
      /\ \A k \in 1 .. n : /\ Chained(list[k]) <=> k > Legacy
                           /\ k > Legacy => list[k].index = k - 1
  BY <1>1, ListParts, RetentionAssumption
<1>3. i \in 1 .. n /\ n > 1 /\ n > Legacy
  BY <1>1, <1>2
<1>4. Len(cks) = n - 1 /\ \A k \in 1 .. n - 1 : cks[k] = IF k < i THEN list[k] ELSE list[k + 1]
  <2>1. PICK S : list \in Seq(S) /\ Len(list) = n
    BY <1>1, ListIsSeq
  <2> HIDE DEF list
  <2>2. RemoveAt(list, i) = cks
    BY DEF list
  <2> QED
    BY <1>3, <2>1, <2>2, Removed
<1>5. DOMAIN cks = 1 .. n - 1
  <2>1. PICK S : list \in Seq(S) /\ Len(list) = n
    BY <1>1, ListIsSeq
  <2>2. cks \in Seq(S)
    <3> HIDE DEF list
    <3>1. RemoveAt(list, i) = cks
      BY DEF list
    <3> QED
      BY <1>3, <2>1, <3>1, Removed
  <2> QED
    BY <1>4, <2>2, LenProperties
<1> DEFINE p == IF i > Legacy THEN i ELSE Legacy
<1>6. /\ p \in 1 .. n - 1 /\ i <= p /\ p + 1 \in 1 .. n /\ p + 1 > Legacy /\ p >= Legacy
      /\ i > Legacy => p = i
      /\ ~(i > Legacy) => p = Legacy
  <2>1. n \in Nat /\ Legacy \in Nat /\ i \in 1 .. n - 1 /\ n > Legacy
    BY <1>1, <1>2, <1>3
  <2>2. CASE i > Legacy
    <3>1. p = i
      BY <2>2
    <3> HIDE DEF p, list
    <3> QED
      BY <2>1, <2>2, <3>1
  <2>3. CASE ~(i > Legacy)
    <3>1. p = Legacy
      BY <2>3
    <3> HIDE DEF p, list
    <3> QED
      BY <2>1, <2>3, <3>1
  <2> QED
    BY <2>2, <2>3
<1> HIDE DEF list, p
<1>7. Chained(cks[p]) /\ cks[p].index = p
  <2>1. cks[p] = list[p + 1]
    BY <1>4, <1>6
  <2> QED
    BY <1>2, <1>6, <2>1
<1>8. GapAt(cks, p)
  <2>1. CASE p = 1 \/ ~Chained(cks[p - 1])
    <3>1. p > p - 1
      BY <1>6
    <3> QED
      BY <1>7, <2>1, <3>1 DEF GapAt
  <2>2. CASE p # 1 /\ Chained(cks[p - 1])
    <3>1. p - 1 \in 1 .. n - 1 /\ p - 1 \in 1 .. n /\ (p - 1) + 1 = p /\ p \in 1 .. n
      BY <1>1, <1>6, <2>2, SMTT(30)
    <3>2. cks[p - 1] = IF p - 1 < i THEN list[p - 1] ELSE list[p]
      BY <1>4, <3>1
    <3>3. i > Legacy
      <4>1. CASE ~(i > Legacy)
        <5>1. p = Legacy /\ ~(p - 1 > Legacy) /\ ~(p > Legacy)
          BY <1>2, <1>6, <4>1
        <5> QED
          BY <1>2, <2>2, <3>1, <3>2, <5>1
      <4> QED
        BY <4>1
    <3>4. p = i /\ p - 1 < i
      BY <1>6, <3>3
    <3>5. cks[p - 1] = list[p - 1] /\ p - 1 > Legacy
      BY <1>2, <2>2, <3>1, <3>2, <3>4
    <3>6. cks[p - 1].index = (p - 1) - 1
      BY <1>2, <3>1, <3>5
    <3>7. cks[p].index # cks[p - 1].index + 1
      BY <1>6, <1>7, <3>6
    <3> QED
      BY <1>7, <2>2, <3>7 DEF GapAt
  <2> QED
    BY <2>1, <2>2
<1>9. c.cks = cks
  BY DEF Clean
<1>10. "checkpoint_gap" \in LinkageProblems(c)
  BY <1>5, <1>6, <1>8, <1>9 DEF LinkageProblems
<1>11. "checkpoint_gap" \in Problems(c)
  BY <1>10 DEF Problems
<1> QED
  BY <1>11, Damage DEF Uncheckable

-----------------------------------------------------------------------------
(* An attested record that was rewritten, and every hash after it *)

\* The hashes of a log with another record j.
Forged(m, j) == [x \in 1 .. m |-> <<x, IF x = j THEN "changed" ELSE "event">>]

LEMMA ForgedGrows ==
  ASSUME NEW j \in Nat
  PROVE  /\ \A m \in Nat : m < j => Forged(m, j) = Chain(m)
         /\ \A m \in Nat : Forged(m + 1, j) = Append(Forged(m, j), <<m + 1, IF m + 1 = j THEN "changed" ELSE "event">>)
         /\ \A m \in Nat : j > 0 /\ j <= m => Forged(m, j) # Chain(m)
<1>1. ASSUME NEW m \in Nat, m < j PROVE Forged(m, j) = Chain(m)
  BY <1>1 DEF Forged, Chain
<1>2. ASSUME NEW m \in Nat PROVE Forged(m, j) \in Seq(Entries) /\ Len(Forged(m, j)) = m
  <2>1. \A x \in 1 .. m : <<x, IF x = j THEN "changed" ELSE "event">> \in Entries
    BY DEF Entries
  <2> QED
    BY <2>1 DEF Forged
<1>3. ASSUME NEW m \in Nat
      PROVE  Forged(m + 1, j) = Append(Forged(m, j), <<m + 1, IF m + 1 = j THEN "changed" ELSE "event">>)
  <2> DEFINE y == <<m + 1, IF m + 1 = j THEN "changed" ELSE "event">>
             a == Append(Forged(m, j), y)
  <2>1. y \in Entries
    BY DEF Entries
  <2>2. /\ a \in Seq(Entries) /\ Len(a) = m + 1 /\ a[m + 1] = y
        /\ \A x \in 1 .. m : a[x] = Forged(m, j)[x]
    BY <1>2, <2>1, AppendProperties, SMTT(30)
  <2>3. \A x \in 1 .. m + 1 : a[x] = Forged(m + 1, j)[x]
    <3>1. \A x \in 1 .. m : Forged(m, j)[x] = Forged(m + 1, j)[x]
      BY DEF Forged
    <3>2. Forged(m + 1, j)[m + 1] = y
      <4>1. m + 1 \in 1 .. m + 1
        OBVIOUS
      <4> QED
        BY <4>1 DEF Forged
    <3>3. \A x \in 1 .. m + 1 : x \in 1 .. m \/ x = m + 1
      OBVIOUS
    <3> HIDE DEF a, y
    <3> QED
      BY <2>2, <3>1, <3>2, <3>3
  <2>4. Forged(m + 1, j) \in Seq(Entries) /\ Len(Forged(m + 1, j)) = m + 1
    BY <1>2
  <2> HIDE DEF a, y
  <2>5. a = Forged(m + 1, j)
    BY <2>2, <2>3, <2>4, SeqEqual
  <2> QED
    BY <2>5 DEF a, y
<1>4. ASSUME NEW m \in Nat, j > 0, j <= m PROVE Forged(m, j) # Chain(m)
  <2>1. j \in 1 .. m
    BY <1>4
  <2>2. Forged(m, j)[j] = <<j, "changed">> /\ Chain(m)[j] = <<j, "event">>
    BY <2>1 DEF Forged, Chain
  <2>3. <<j, "changed">> # <<j, "event">>
    OBVIOUS
  <2> QED
    BY <2>2, <2>3
<1> QED
  BY <1>1, <1>3, <1>4

\* The forger's log: from record i on, every hash is recomputed.
ForgedFrom(r, s, last, i) ==
  /\ Len(r) = last - s
  /\ \A k \in 1 .. last - s : /\ r[k].seq = s + k /\ ~Unreadable(r[k])
                              /\ r[k].hash = Forged(s + k, s + i)

LEMMA RehashParts ==
  ASSUME NEW s \in Nat, NEW last \in Nat, s <= last, NEW i \in 1 .. last - s,
         NEW q, ReplacedAt(q, s, last, i, "changed")
  PROVE  ForgedFrom(Rehash(q), s, last, i)
<1> DEFINE n == last - s
           j == s + i
<1>1. n \in Nat /\ i \in 1 .. n /\ DOMAIN q = 1 .. n /\ Len(q) = n /\ j \in Nat /\ j > s /\ n > 0
  BY DEF ReplacedAt
<1>2. ASSUME NEW k \in 1 .. n
      PROVE  /\ q[k].seq = s + k /\ DOMAIN q[k] = {"seq", "prev", "body", "hash"}
             /\ q[k].body = IF s + k = j THEN "changed" ELSE "event"
  <2>1. CASE k = i
    BY <2>1 DEF ReplacedAt
  <2>2. CASE k # i
    <3>1. q[k] = Record(s + k) /\ s + k \in Nat /\ s + k > 0 /\ s + k # j
      BY <2>2 DEF ReplacedAt
    <3>2. DOMAIN Record(s + k) = {"seq", "prev", "body", "hash"}
      BY DEF Record
    <3> QED
      BY <3>1, <3>2, RecordParts
  <2> QED
    BY <2>1, <2>2
<1>3. q[1].prev = Chain(s)
  <2>1. CASE 1 = i
    BY <2>1 DEF ReplacedAt
  <2>2. CASE 1 # i
    <3>1. q[1] = Record(s + 1) /\ s + 1 \in Nat /\ s + 1 > 0 /\ (s + 1) - 1 = s
      BY <1>1, <2>2 DEF ReplacedAt
    <3> QED
      BY <3>1, RecordParts
  <2> QED
    BY <2>1, <2>2
<1> DEFINE hash == CHOOSE h : h = [k \in 0 .. n |-> IF k = 0 THEN q[1].prev
                                                ELSE Hash([q[k] EXCEPT !.prev = h[k - 1]])]
           C == [k \in 0 .. n |-> Forged(s + k, j)]
<1>4. Rehash(q) = [k \in 1 .. n |-> [q[k] EXCEPT !.prev = hash[k - 1], !.hash = hash[k]]]
  BY <1>1 DEF Rehash
<1> HIDE DEF n, j
<1>5. \A k \in 1 .. n : \A p : Hash([q[k] EXCEPT !.prev = p])
                                 = Append(p, <<s + k, IF s + k = j THEN "changed" ELSE "event">>)
  BY <1>2 DEF Hash
<1>6. \A k \in 1 .. n : Append(Forged(s + (k - 1), j), <<s + k, IF s + k = j THEN "changed" ELSE "event">>)
                          = Forged(s + k, j)
  <2> TAKE k \in 1 .. n
  <2> DEFINE m == s + (k - 1)
  <2>1. m \in Nat /\ m + 1 = s + k
    BY <1>1
  <2> HIDE DEF m
  <2>2. Forged(m + 1, j) = Append(Forged(m, j), <<m + 1, IF m + 1 = j THEN "changed" ELSE "event">>)
    BY <1>1, <2>1, ForgedGrows
  <2>3. Append(Forged(m, j), <<s + k, IF s + k = j THEN "changed" ELSE "event">>) = Forged(s + k, j)
    BY <2>1, <2>2
  <2> QED
    BY <2>3 DEF m
<1>7. C = [k \in 0 .. n |-> IF k = 0 THEN q[1].prev ELSE Hash([q[k] EXCEPT !.prev = C[k - 1]])]
  <2>1. ASSUME NEW k \in 0 .. n
        PROVE  Forged(s + k, j) = IF k = 0 THEN q[1].prev ELSE Hash([q[k] EXCEPT !.prev = C[k - 1]])
    <3>1. CASE k = 0
      <4>1. Forged(s, j) = Chain(s) /\ s + k = s
        BY <1>1, <3>1, ForgedGrows
      <4> QED
        BY <1>3, <3>1, <4>1
    <3>2. CASE k # 0
      <4>1. k \in 1 .. n /\ k - 1 \in 0 .. n
        BY <1>1, <3>2
      <4>2. C[k - 1] = Forged(s + (k - 1), j)
        BY <4>1
      <4> HIDE DEF C
      <4>3. Hash([q[k] EXCEPT !.prev = C[k - 1]]) = Forged(s + k, j)
        BY <1>5, <1>6, <4>1, <4>2
      <4> QED
        BY <3>2, <4>3
    <3> QED
      BY <3>1, <3>2
  <2> QED
    BY <2>1
<1>8. hash = [k \in 0 .. n |-> IF k = 0 THEN q[1].prev ELSE Hash([q[k] EXCEPT !.prev = hash[k - 1]])]
  <2> HIDE DEF C
  <2> QED
    BY <1>7
<1> HIDE DEF hash, C
<1> DEFINE S == {k \in 0 .. n : hash[k] = Forged(s + k, j)}
<1>9. 0 \in S
  <2>1. 0 \in 0 .. n /\ hash[0] = q[1].prev /\ s + 0 = s
    BY <1>1, <1>8
  <2>2. Forged(s, j) = Chain(s)
    BY <1>1, ForgedGrows
  <2> QED
    BY <1>3, <2>1, <2>2
<1>10. ASSUME NEW k \in 0 .. n - 1, k \in S PROVE k + 1 \in S
  <2>1. k + 1 \in 0 .. n /\ k + 1 \in 1 .. n /\ k + 1 # 0 /\ (k + 1) - 1 = k
    BY <1>1
  <2>2. hash[k + 1] = Hash([q[k + 1] EXCEPT !.prev = hash[k]])
    BY <1>8, <2>1
  <2>3. hash[k] = Forged(s + k, j)
    BY <1>10
  <2>4. hash[k + 1] = Forged(s + (k + 1), j)
    BY <1>5, <1>6, <2>1, <2>2, <2>3
  <2> QED
    BY <2>1, <2>4
<1>11. \A k \in 0 .. n : hash[k] = Forged(s + k, j)
  <2>1. \A k \in 0 .. n : k \in S
    <3> HIDE DEF S
    <3> QED
      BY <1>1, <1>9, <1>10, CountingUp
  <2> QED
    BY <2>1
<1> HIDE DEF S
<1>12. ASSUME NEW k \in 1 .. n
       PROVE  /\ Rehash(q)[k].seq = s + k /\ ~Unreadable(Rehash(q)[k])
              /\ Rehash(q)[k].hash = Forged(s + k, j)
  <2>1. Rehash(q)[k] = [q[k] EXCEPT !.prev = hash[k - 1], !.hash = hash[k]]
    BY <1>4
  <2>2. k \in 0 .. n
    BY <1>1
  <2>3. /\ Rehash(q)[k].seq = q[k].seq /\ Rehash(q)[k].body = q[k].body /\ Rehash(q)[k].hash = hash[k]
    BY <1>2, <2>1
  <2> QED
    BY <1>2, <1>11, <2>2, <2>3 DEF Unreadable
<1>13. Len(Rehash(q)) = n
  <2> DEFINE e(k) == [q[k] EXCEPT !.prev = hash[k - 1], !.hash = hash[k]]
             R == {e(k) : k \in 1 .. n}
  <2>1. Rehash(q) = [k \in 1 .. n |-> e(k)] /\ \A k \in 1 .. n : e(k) \in R
    BY <1>4
  <2> HIDE DEF e, R
  <2>2. Rehash(q) \in Seq(R) /\ Len(Rehash(q)) = n
    BY <1>1, <2>1
  <2> QED
    BY <2>2
<1> QED
  BY <1>12, <1>13 DEF n, j, ForgedFrom

LEMMA RewrittenFound ==
  ASSUME IInv, FileInv, NEW d, NEW s, Clean(d, s), NEW i \in 1 .. ChainHead - s, s + i <= LastAttested,
         NEW r, r = Rehash([Stretch(s, ChainHead) EXCEPT ![i].body = "changed"]),
         NEW c, c = [d EXCEPT !.segments = <<r>>]
  PROVE  ~Intact(Problems(c))
<1>1. s \in Nat /\ ChainHead \in Nat /\ s <= ChainHead /\ ChainHead - s \in Nat
  BY Heads DEF Clean, IInv
<1>2. PICK j : LastLine(d, s, j)
  BY LastCheckpoint
<1>3. WithFile(c, d, r)
  BY FileChanged
<1>4. /\ Len(r) = ChainHead - s
      /\ \A k \in 1 .. ChainHead - s : /\ r[k].seq = s + k /\ ~Unreadable(r[k])
                                       /\ r[k].hash = Forged(s + k, s + i)
  <2> DEFINE q == [Stretch(s, ChainHead) EXCEPT ![i].body = "changed"]
  <2>1. ReplacedAt(q, s, ChainHead, i, "changed")
    BY <1>1, Replaced
  <2>2. r = Rehash(q)
    OBVIOUS
  <2> HIDE DEF q
  <2>3. ForgedFrom(Rehash(q), s, ChainHead, i)
    BY <1>1, <2>1, RehashParts
  <2> QED
    BY <2>2, <2>3 DEF ForgedFrom
<1> DEFINE n == LastAttested - s
<1>5. n \in 1 .. ChainHead - s /\ s + n = LastAttested /\ s + i <= s + n /\ s + n \in Nat
  <2>1. LastAttested \in s + 1 .. ChainHead
    BY <1>2 DEF LastLine
  <2> QED
    BY <1>1, <2>1
<1>6. PICK w : Walk(c, w, ChainHead - s)
  BY <1>1, <1>3, <1>4, FileWalk
<1>7. r[n].seq = LastAttested /\ ~Unreadable(r[n]) /\ r[n].hash = Forged(s + n, s + i)
  BY <1>4, <1>5
<1>8. r[n].hash # Chain(LastAttested)
  <2>1. s + i \in Nat /\ s + i > 0
    BY <1>1
  <2> QED
    BY <1>5, <1>7, <2>1, ForgedGrows
<1>9. Records(c)[n] = r[n] /\ j \in DOMAIN c.cks /\ c.cks[j].seq = LastAttested
      /\ c.cks[j].hash = Chain(LastAttested)
  BY <1>2, <1>3 DEF LastLine, WithFile
<1> HIDE DEF n
<1>10. "checkpoint_mismatch" \in Problems(c)
  <2> DEFINE rec == Records(c)[n]
  <2>1. /\ ~Unreadable(rec) /\ j \in DOMAIN c.cks
        /\ c.cks[j].seq = rec.seq /\ c.cks[j].hash # rec.hash
    BY <1>7, <1>8, <1>9
  <2> HIDE DEF rec
  <2>2. n \in 1 .. ChainHead - s /\ rec = Records(c)[n]
    BY <1>5 DEF rec
  <2> QED
    BY <1>6, <2>1, <2>2, MismatchFound, ZenonT(30)
<1> QED
  BY <1>10, Damage DEF Uncheckable

LEMMA ChangedLogFound ==
  ASSUME IInv, FileInv, NEW d, NEW s, Clean(d, s), NEW r \in ChangedLogs(FlattenSeq(d.segments)),
         NEW c, c = [d EXCEPT !.segments = <<r>>]
  PROVE  ~Intact(Problems(c))
<1> DEFINE recs == Stretch(s, ChainHead)
           one(i) == [recs EXCEPT ![i].body = "changed"]
<1>1. FlattenSeq(d.segments) = recs /\ s \in Nat /\ ChainHead \in Nat /\ s <= ChainHead
  BY Heads DEF Clean, Records, IInv
<1>2. /\ DOMAIN recs = 1 .. ChainHead - s
      /\ \A i \in DOMAIN recs : recs[i].seq = s + i
  <2>1. StretchOf(s, ChainHead)
    BY <1>1, StretchParts
  <2>2. DOMAIN recs = 1 .. ChainHead - s
    BY <2>1 DEF StretchOf
  <2>3. ASSUME NEW i \in 1 .. ChainHead - s PROVE recs[i].seq = s + i
    <3>1. recs[i] = Record(s + i) /\ Record(s + i).seq = s + i
      BY <2>1 DEF StretchOf
    <3> QED
      BY <3>1
  <2> QED
    BY <2>2, <2>3
<1>3. \/ \E i \in DOMAIN recs : r = one(i)
      \/ \E i \in DOMAIN recs : r = [recs EXCEPT ![i].body = "unreadable"]
      \/ \E i \in DOMAIN recs : recs[i].seq <= LastAttested /\ r = Rehash(one(i))
      \/ \E i \in DOMAIN recs : recs[i].seq <= LastAttested /\ r = RemoveAt(recs, i)
      \/ \E i \in DOMAIN recs : recs[i].seq <= LastAttested /\ r = SubSeq(recs, 1, i - 1)
  BY <1>1 DEF ChangedLogs
<1>4. CASE \E i \in DOMAIN recs : r = one(i)
  <2>1. PICK i \in 1 .. ChainHead - s : r = [Stretch(s, ChainHead) EXCEPT ![i].body = "changed"]
    BY <1>2, <1>4
  <2> QED
    BY <2>1, ChangedRecordFound
<1>5. CASE \E i \in DOMAIN recs : r = [recs EXCEPT ![i].body = "unreadable"]
  <2>1. PICK i \in 1 .. ChainHead - s : r = [Stretch(s, ChainHead) EXCEPT ![i].body = "unreadable"]
    BY <1>2, <1>5
  <2> QED
    BY <2>1, ChangedRecordFound
<1>6. CASE \E i \in DOMAIN recs : recs[i].seq <= LastAttested /\ r = Rehash(one(i))
  <2>1. PICK i \in 1 .. ChainHead - s :
          /\ s + i <= LastAttested
          /\ r = Rehash([Stretch(s, ChainHead) EXCEPT ![i].body = "changed"])
    BY <1>2, <1>6
  <2> QED
    BY <2>1, RewrittenFound
<1>7. CASE \E i \in DOMAIN recs : recs[i].seq <= LastAttested /\ r = RemoveAt(recs, i)
  <2>1. PICK i \in 1 .. ChainHead - s : s + i <= LastAttested /\ r = RemoveAt(Stretch(s, ChainHead), i)
    BY <1>2, <1>7
  <2> QED
    BY <2>1, RemovedFound
<1>8. CASE \E i \in DOMAIN recs : recs[i].seq <= LastAttested /\ r = SubSeq(recs, 1, i - 1)
  <2>1. PICK i \in 1 .. ChainHead - s : s + i <= LastAttested /\ r = SubSeq(Stretch(s, ChainHead), 1, i - 1)
    BY <1>2, <1>8
  <2> QED
    BY <2>1, CutFound
<1> QED
  BY <1>3, <1>4, <1>5, <1>6, <1>7, <1>8

LEMMA ChangedCheckpointFound ==
  ASSUME FileInv, NEW d, NEW s, Clean(d, s), NEW cks \in ChangedCheckpoints(d.cks),
         NEW c, c = [d EXCEPT !.cks = cks]
  PROVE  ~Intact(Problems(c))
<1> DEFINE list == CheckpointList(attests)
           n == Len(list)
<1>1. d.cks = list
  BY DEF Clean
<1>2. \/ \E i \in 1 .. n - 1 : Chained(list[n]) /\ cks = RemoveAt(list, i)
      \/ \E i \in DOMAIN list : cks = [list EXCEPT ![i].hash = Unknown]
  BY <1>1 DEF ChangedCheckpoints
<1>3. CASE \E i \in 1 .. n - 1 : Chained(list[n]) /\ cks = RemoveAt(list, i)
  BY <1>3, RemovedCheckpointFound
<1>4. CASE \E i \in DOMAIN list : cks = [list EXCEPT ![i].hash = Unknown]
  BY <1>4, ForgedCheckpointFound
<1> QED
  BY <1>2, <1>3, <1>4

LEMMA ChangedAnchorFound ==
  ASSUME IInv, FileInv, NEW d, NEW s, Clean(d, s), NEW a \in ChangedAnchors,
         NEW c, c = [d EXCEPT !.anchor = a]
  PROVE  ~Intact(Problems(c))
<1>1. anchor.present /\ WithRecords(Here) # {}
  BY DEF ChangedAnchors
<1>2. s < ChainHead /\ s \in Nat /\ anchor.seq = s
  BY <1>1 DEF Clean
<1>3. \/ a = NoAnchor
      \/ a \in {[anchor EXCEPT !.hash = Unknown], [anchor EXCEPT !.seq = @ - 1], [anchor EXCEPT !.seq = @ + 1]}
  BY <1>1 DEF ChangedAnchors
<1>4. CASE a = NoAnchor
  BY <1>1, <1>2, <1>4, MissingAnchorFound
<1>5. CASE a \in {[anchor EXCEPT !.hash = Unknown], [anchor EXCEPT !.seq = @ - 1], [anchor EXCEPT !.seq = @ + 1]}
  BY <1>1, <1>2, <1>5, ForgedAnchorFound
<1> QED
  BY <1>3, <1>4, <1>5

LEMMA EveryChangeFound == IInv /\ FileInv => ChangeReported
<1> SUFFICES ASSUME IInv, FileInv, Problems(Source) = {}, NEW c \in Changed(Source)
             PROVE  ~Intact(Problems(c))
  BY DEF ChangeReported
<1>1. PICK s : Clean(Source, s)
  BY CleanSource
<1> DEFINE d == Source
<1>2. \/ \E r \in ChangedLogs(FlattenSeq(d.segments)) : c = [d EXCEPT !.segments = <<r>>]
      \/ \E cks \in ChangedCheckpoints(d.cks) : c = [d EXCEPT !.cks = cks]
      \/ \E a \in ChangedAnchors : c = [d EXCEPT !.anchor = a]
  BY DEF Changed
<1> HIDE DEF d
<1>3. Clean(d, s)
  BY <1>1 DEF d
<1> QED
  BY <1>2, <1>3, ChangedLogFound, ChangedCheckpointFound, ChangedAnchorFound

\* Of a log that verifies, every change is reported: a record changed or unreadable, an
\* attested one rewritten with all the hashes after it, removed or cut off, a checkpoint
\* changed or removed from before a chained one, another anchor or none (verify.go).
\* Overlapping retention runs make no difference.
THEOREM ChangesAreReported == Spec => []ChangeReported
<1>1. Init => IInv /\ FileInv
  BY Initially, ReadInitially DEF ReadInv
<1>2. ASSUME IInv, FileInv, [Next]_vars PROVE (IInv /\ FileInv)'
  <2>1. Grows
    BY <1>2, LogGrows
  <2> QED
    BY <1>2, <2>1, Step, FileStep
<1>3. IInv /\ FileInv => ChangeReported
  BY EveryChangeFound
<1> QED
  BY <1>1, <1>2, <1>3, PTL DEF Spec

=============================================================================
