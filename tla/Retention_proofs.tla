-------------------------- MODULE Retention_proofs --------------------------
(***************************************************************************)
(* Proofs about Retention, for any number of records, segments,            *)
(* checkpoints and enforcement runs, which may overlap and be killed       *)
(* anywhere: what is deleted is beyond the retention period and named by   *)
(* pruned.json, and an interrupted prune can be finished.  That the count  *)
(* of records in pruned.json is exact, and that an anchor is never moved   *)
(* back, needs that one run is over before the next starts: the check and  *)
(* the write of the anchor are two steps (Alone).                          *)
(***************************************************************************)
EXTENDS Retention, FiniteSetTheorems, TLAPS

-----------------------------------------------------------------------------
(* Types *)

Sealed == 1 .. Newest - 1
Planned == {"check", "anchor", "unlink"}
Runs == [pc : {"idle"}] \cup [pc : {"scan"}, held : BOOLEAN]
          \cup [pc : Planned, plan : SUBSET Nat, survivors : SUBSET Nat]

Types ==
  /\ ends \in Seq(0 .. MaxSeq) /\ Newest \in 1 .. MaxSegs
  /\ young \subseteq 1 .. ChainHead /\ attests \in Seq(1 .. MaxSeq) /\ hold \in BOOLEAN
  /\ run \in [Enforcers -> Runs]
  /\ "pc" \in DOMAIN view /\ view.pc \in {"idle", "checkpoints", "segments"}
  /\ "pc" \in DOMAIN bundle
  /\ bundle.pc \in {"idle", "verify", "segments", "checkpoints", "anchor"}

-----------------------------------------------------------------------------
(* The inductive invariant *)

\* The chain: segments follow each other, and a sealed one holds a record.
LogInv ==
  /\ \A i, j \in 1 .. Newest : i <= j => ends[i] <= ends[j]
  /\ \A i \in Sealed : StartOf(i) < ends[i]

\* What is gone, and what pruned.json names, are sealed segments from the front
\* that are beyond the retention period; the anchor is at the end of one of them.
PruneInv ==
  /\ gone = {} \/ \E g \in Sealed : gone = 1 .. g
  /\ gone # {} => anchor.present /\ gone \subseteq anchor.segments
  /\ anchor.present =>
       /\ \E s, m \in Sealed : s <= m /\ anchor.segments = 1 .. m /\ anchor.seq = ends[s]
       /\ \A i \in anchor.segments : RecordsOf(i) \cap young = {}

\* A run with a plan: sealed segments in a row, no gap before them, beyond the
\* retention period; it deletes only what the anchor names.
RunInv(e) ==
  run[e].pc \in Planned =>
    /\ \E a, b \in Sealed : a <= b /\ run[e].plan = a .. b /\ (a = 1 \/ a - 1 \in gone)
    /\ \A i \in run[e].plan : RecordsOf(i) \cap young = {}
    /\ run[e].pc = "unlink" => anchor.present /\ run[e].plan \subseteq anchor.segments

IInv == Types /\ LogInv /\ PruneInv /\ \A e \in Enforcers : RunInv(e)

\* Enforcement runs that do not overlap.
Alone == \A e, f \in Enforcers : e = f
\* Of such runs the anchor is at the last segment it names and counts every record.
CountInv ==
  /\ anchor.present =>
       \E m \in Sealed : anchor.segments = 1 .. m /\ anchor.seq = ends[m] /\ anchor.records = ends[m]
  /\ \A e \in Enforcers : run[e].pc = "anchor" => ~Rewinds(run[e].plan)

-----------------------------------------------------------------------------
(* Numbers and segments *)

\* A set of positions has a first one: the position with the fewest up to it.
LEMMA FirstPosition ==
  ASSUME NEW n \in Nat, NEW S \in SUBSET (1 .. n), S # {}
  PROVE  \E i \in S : \A j \in S : i <= j
<1> DEFINE UpTo(i) == 1 .. i
           T == {UpTo(i) : i \in S}
<1>1. T \subseteq FiniteSubsetsOf(1 .. n) /\ T # {}
  <2>1. IsFiniteSet(1 .. n) /\ \A i \in S : i \in 1 .. n /\ UpTo(i) \in SUBSET (1 .. n)
    BY FS_Interval
  <2>2. T \subseteq SUBSET (1 .. n) /\ T # {}
    BY <2>1
  <2> HIDE DEF T
  <2> QED
    BY <2>1, <2>2, FS_FiniteSubsetsOfFinite
<1>2. PICK x \in T : \A y \in T : <<y, x>> \notin StrictSubsetOrdering(1 .. n)
  <2> HIDE DEF T
  <2> QED
    BY <1>1, FS_StrictSubsetOrderingWellFounded, WFMin
<1>3. PICK i \in S : x = UpTo(i)
  OBVIOUS
<1>4. ASSUME NEW j \in S, j < i PROVE FALSE
  <2>1. UpTo(j) \subseteq UpTo(i) /\ UpTo(i) \subseteq 1 .. n
    BY <1>4
  <2>2. i \in UpTo(i) /\ i \notin UpTo(j)
    BY <1>4
  <2>3. UpTo(j) \in T
    OBVIOUS
  <2> HIDE DEF T, UpTo
  <2>4. <<UpTo(j), x>> \notin StrictSubsetOrdering(1 .. n)
    BY <1>2, <2>3
  <2> QED
    BY <1>3, <2>1, <2>2, <2>4 DEF StrictSubsetOrdering
<1> QED
  BY <1>4

\* The ends of a range, as they are chosen.
LEMMA RangeEnds ==
  ASSUME NEW a \in Nat, NEW b \in Nat, a <= b
  PROVE  /\ (CHOOSE i \in a .. b : \A j \in a .. b : i <= j) = a
         /\ (CHOOSE i \in a .. b : \A j \in a .. b : j <= i) = b
<1>1. a \in a .. b /\ b \in a .. b
  OBVIOUS
<1>2. \A i \in a .. b : (\A j \in a .. b : i <= j) <=> i = a
  BY <1>1
<1>3. \A i \in a .. b : (\A j \in a .. b : j <= i) <=> i = b
  BY <1>1
<1> QED
  BY <1>1, <1>2, <1>3

LEMMA ConstantFacts ==
  MaxSeq \in Nat \ {0} /\ MaxSegs \in Nat \ {0} /\ MaxCks \in Nat \ {0}
BY RetentionAssumption

LEMMA Heads ==
  ASSUME Types
  PROVE  /\ Newest \in Nat /\ Newest > 0 /\ DOMAIN ends = 1 .. Newest /\ Newest = Len(ends)
         /\ \A i \in 1 .. Newest : ends[i] \in 0 .. MaxSeq /\ ends[i] \in Nat
         /\ ChainHead = ends[Newest] /\ ChainHead \in 0 .. MaxSeq /\ ChainHead \in Nat
         /\ Sealed \subseteq 1 .. Newest /\ Newest \notin Sealed
         /\ \A i \in 1 .. Newest : /\ StartOf(i) \in Nat
                                   /\ i > 1 => i - 1 \in Sealed /\ StartOf(i) = ends[i - 1]
<1>1. Newest \in Nat /\ Newest > 0 /\ DOMAIN ends = 1 .. Newest /\ Newest = Len(ends)
  BY ConstantFacts DEF Types, Newest
<1>2. \A i \in 1 .. Newest : ends[i] \in 0 .. MaxSeq /\ ends[i] \in Nat
  BY <1>1, ConstantFacts DEF Types
<1>3. ChainHead = ends[Newest] /\ Newest \in 1 .. Newest
  BY <1>1 DEF ChainHead
<1>4. Sealed \subseteq 1 .. Newest /\ Newest \notin Sealed
  BY <1>1 DEF Sealed
<1>5. ASSUME NEW i \in 1 .. Newest
      PROVE  StartOf(i) \in Nat /\ (i > 1 => i - 1 \in Sealed /\ StartOf(i) = ends[i - 1])
  <2>1. CASE i = 1
    BY <2>1 DEF StartOf
  <2>2. CASE i # 1
    <3>1. i - 1 \in 1 .. Newest /\ i - 1 \in Sealed
      BY <1>1, <2>2 DEF Sealed
    <3>2. StartOf(i) = ends[i - 1]
      BY <2>2 DEF StartOf
    <3> QED
      BY <1>2, <3>1, <3>2
  <2> QED
    BY <2>1, <2>2
<1> QED
  BY <1>1, <1>2, <1>3, <1>4, <1>5

\* The ends of sealed segments rise, and each is a record of its segment.
LEMMA EndsRise ==
  ASSUME Types, LogInv
  PROVE  /\ \A i \in 1 .. Newest, j \in Sealed : i < j => ends[i] < ends[j]
         /\ \A i \in Sealed : ends[i] \in RecordsOf(i) /\ ends[i] >= 1 /\ ends[i] <= ChainHead
<1>1. ASSUME NEW i \in 1 .. Newest, NEW j \in Sealed, i < j PROVE ends[i] < ends[j]
  <2>1. j \in 1 .. Newest /\ j > 1 /\ j - 1 \in 1 .. Newest /\ i <= j - 1
    BY <1>1, Heads, SMTT(30)
  <2>2. StartOf(j) = ends[j - 1] /\ StartOf(j) < ends[j] /\ ends[i] <= ends[j - 1]
    BY <2>1, Heads DEF LogInv
  <2>3. ends[i] \in Nat /\ ends[j - 1] \in Nat /\ ends[j] \in Nat
    BY <2>1, Heads
  <2> QED
    BY <2>2, <2>3
<1>2. ASSUME NEW i \in Sealed
      PROVE  ends[i] \in RecordsOf(i) /\ ends[i] >= 1 /\ ends[i] <= ChainHead
  <2>1. /\ i \in 1 .. Newest /\ Newest \in 1 .. Newest /\ i <= Newest
        /\ StartOf(i) \in Nat /\ ends[i] \in Nat /\ ChainHead = ends[Newest]
    BY Heads
  <2>2. StartOf(i) < ends[i] /\ ends[i] <= ends[Newest]
    BY <2>1 DEF LogInv
  <2> QED
    BY <2>1, <2>2 DEF RecordsOf
<1> QED
  BY <1>1, <1>2

\* The last record of sealed segments in a row.
LEMMA LastOfRow ==
  ASSUME Types, LogInv, NEW a \in Sealed, NEW b \in Sealed, a <= b
  PROVE  WithRecords(a .. b) = a .. b /\ LastOf(a .. b) = ends[b]
<1>1. a .. b \subseteq Sealed /\ a \in Nat /\ b \in Nat
  <2>1. Newest \in Nat
    BY Heads
  <2> QED
    BY <2>1 DEF Sealed
<1>2. WithRecords(a .. b) = a .. b
  BY <1>1, EndsRise DEF WithRecords
<1>3. LastWithRecords(a .. b) = b
  BY <1>1, <1>2, RangeEnds DEF LastWithRecords
<1> QED
  BY <1>2, <1>3 DEF LastOf

\* The records of segments in a row are those between its ends.
LEMMA RowCounts ==
  ASSUME Types, LogInv, NEW c \in Sealed, NEW d \in Sealed, c <= d
  PROVE  CountRecords(c .. d) = ends[d] - StartOf(c)
<1>1. Newest \in Nat /\ \A i \in 1 .. Newest : ends[i] \in Nat /\ StartOf(i) \in Nat
  BY Heads
<1>2. c \in 1 .. Newest /\ d \in 1 .. Newest /\ c .. d \subseteq 1 .. Newest
  BY <1>1 DEF Sealed
<1>3. ASSUME NEW i \in c .. d PROVE RecordsOf(i) \subseteq StartOf(c) + 1 .. ends[d]
  <2>1. i \in 1 .. Newest /\ ends[i] <= ends[d]
    BY <1>1, <1>2 DEF LogInv
  <2>2. StartOf(c) <= StartOf(i)
    <3>1. CASE i = c
      BY <1>1, <1>2, <3>1
    <3>2. CASE i # c
      <4>1. i > 1 /\ c <= i - 1 /\ i - 1 \in 1 .. Newest
        BY <1>1, <1>2, <2>1, <3>2
      <4>2. StartOf(i) = ends[i - 1] /\ ends[c] <= ends[i - 1]
        BY <1>2, <2>1, <4>1, Heads DEF LogInv
      <4>3. StartOf(c) < ends[c]
        BY DEF LogInv
      <4> QED
        BY <1>1, <1>2, <4>1, <4>2, <4>3
    <3> QED
      BY <3>1, <3>2
  <2> QED
    BY <1>1, <1>2, <2>1, <2>2 DEF RecordsOf
<1>4. ASSUME NEW n \in StartOf(c) + 1 .. ends[d] PROVE \E i \in c .. d : n \in RecordsOf(i)
  <2> DEFINE S == {i \in c .. d : n <= ends[i]}
  <2>1. S \in SUBSET (1 .. Newest) /\ d \in S
    BY <1>1, <1>2
  <2> HIDE DEF S
  <2>2. PICK i \in S : \A j \in S : i <= j
    BY <1>1, <2>1, FirstPosition
  <2>3. i \in c .. d /\ n <= ends[i] /\ \A j \in c .. d : n <= ends[j] => i <= j
    BY <2>2 DEF S
  <2>4. StartOf(i) < n
    <3>1. CASE i = c
      BY <1>1, <1>2, <3>1
    <3>2. CASE i # c
      <4>1. i > 1 /\ i - 1 \in c .. d /\ i \in 1 .. Newest
        BY <1>1, <1>2, <2>3, <3>2
      <4>2. StartOf(i) = ends[i - 1] /\ ~(n <= ends[i - 1])
        BY <1>2, <2>3, <4>1, Heads
      <4> QED
        BY <1>1, <1>2, <4>1, <4>2
    <3> QED
      BY <3>1, <3>2
  <2>5. n \in RecordsOf(i)
    BY <1>1, <1>2, <2>3, <2>4 DEF RecordsOf
  <2> QED
    BY <2>3, <2>5
<1>5. UNION {RecordsOf(i) : i \in c .. d} = StartOf(c) + 1 .. ends[d]
  BY <1>3, <1>4
<1>6. StartOf(c) <= ends[d] /\ StartOf(c) \in Nat /\ ends[d] \in Nat
  <2>1. StartOf(c) < ends[c] /\ ends[c] <= ends[d]
    BY <1>2 DEF LogInv
  <2> QED
    BY <1>1, <1>2, <2>1
<1>7. Cardinality(StartOf(c) + 1 .. ends[d]) = ends[d] - StartOf(c)
  <2>1. ASSUME NEW x \in Nat, NEW y \in Nat, x <= y PROVE Cardinality(x + 1 .. y) = y - x
    <3>1. x + 1 \in Int /\ y \in Int
      BY <2>1
    <3>2. Cardinality(x + 1 .. y) = IF x + 1 > y THEN 0 ELSE y - (x + 1) + 1
      BY <3>1, FS_Interval
    <3> QED
      BY <2>1, <3>2
  <2> QED
    BY <1>6, <2>1
<1> QED
  BY <1>5, <1>7 DEF CountRecords

\* What is eligible now: the segments from the first that is left up to one that is
\* not eligible.
LEMMA PlanRange ==
  ASSUME Types, PruneInv
  PROVE  \E g \in Nat, c \in 1 .. Newest :
           /\ g < c /\ gone = 1 .. g /\ Here = g + 1 .. Newest
           /\ Plan = g + 1 .. c - 1 /\ ~Eligible(c)
           /\ \A i \in Plan : RecordsOf(i) \cap young = {}
<1>1. Newest \in Nat /\ Newest > 0
  BY Heads
<1>2. PICK g \in Nat : g < Newest /\ gone = 1 .. g
  <2>1. CASE gone = {}
    BY <1>1, <2>1
  <2>2. CASE gone # {}
    <3>1. PICK g \in Sealed : gone = 1 .. g
      BY <2>2 DEF PruneInv
    <3> QED
      BY <1>1, <3>1 DEF Sealed
  <2> QED
    BY <2>1, <2>2
<1>3. Here = g + 1 .. Newest
  BY <1>1, <1>2 DEF Here
<1> DEFINE S == {i \in Here : ~Eligible(i)}
<1>4. S \in SUBSET (1 .. Newest) /\ Newest \in S
  BY <1>1, <1>2, <1>3 DEF Eligible
<1>5. PICK c \in S : \A j \in S : c <= j
  <2> HIDE DEF S
  <2> QED
    BY <1>1, <1>4, FirstPosition
<1>6. c \in 1 .. Newest /\ g < c /\ ~Eligible(c) /\ c \in Here
  BY <1>1, <1>2, <1>3, <1>5
<1>7. Plan = g + 1 .. c - 1
  <2>1. ASSUME NEW i \in Plan PROVE i \in g + 1 .. c - 1
    <3>1. i \in g + 1 .. Newest /\ \A j \in Here : j <= i => Eligible(j)
      BY <1>3 DEF Plan
    <3>2. ~(c <= i)
      BY <1>6, <3>1
    <3> QED
      BY <1>1, <1>2, <1>6, <3>1, <3>2
  <2>2. ASSUME NEW i \in g + 1 .. c - 1 PROVE i \in Plan
    <3>1. i \in Here
      BY <1>1, <1>2, <1>3, <1>6
    <3>2. ASSUME NEW j \in Here, j <= i PROVE Eligible(j)
      <4>1. ~(c <= j) /\ j \in 1 .. Newest
        BY <1>1, <1>2, <1>3, <1>6, <3>2
      <4> QED
        BY <1>5, <4>1
    <3> QED
      BY <3>1, <3>2 DEF Plan
  <2> QED
    BY <2>1, <2>2
<1>8. \A i \in Plan : RecordsOf(i) \cap young = {}
  <2>1. \A i \in Plan : i <= i /\ i \in Here
    BY <1>1, <1>2, <1>3 DEF Plan
  <2> QED
    BY <2>1 DEF Plan, Eligible, BeyondRetention
<1> QED
  BY <1>2, <1>3, <1>6, <1>7, <1>8

-----------------------------------------------------------------------------
(* The server, and everything that leaves retention alone *)

Untouched == UNCHANGED <<gone, anchor, run>>
\* Sealed segments stay, and of old records none gets young.
Follows ==
  /\ Newest' \in Nat /\ Newest <= Newest'
  /\ \A i \in Sealed : ends'[i] = ends[i]
  /\ young' \subseteq young \cup {ChainHead + 1}

\* What retention holds of the sealed segments goes on to hold.
LEMMA RecordsStay ==
  ASSUME Types, LogInv, Follows
  PROVE  /\ Sealed \subseteq Sealed'
         /\ \A i \in Sealed : /\ RecordsOf(i)' = RecordsOf(i)
                              /\ RecordsOf(i) \cap young = {} => RecordsOf(i)' \cap young' = {}
<1>1. Newest \in Nat /\ Sealed \subseteq Sealed' /\ Sealed \subseteq 1 .. Newest /\ ChainHead \in Nat
  BY Heads DEF Sealed, Follows
<1>2. ASSUME NEW i \in Sealed
      PROVE  /\ RecordsOf(i)' = RecordsOf(i)
             /\ RecordsOf(i) \cap young = {} => RecordsOf(i)' \cap young' = {}
  <2>1. StartOf(i)' = StartOf(i)
    <3>1. CASE i = 1
      BY <3>1 DEF StartOf
    <3>2. CASE i # 1
      <4>1. i - 1 \in Sealed
        BY <1>1, <3>2 DEF Sealed
      <4>2. ends'[i - 1] = ends[i - 1]
        BY <4>1 DEF Follows
      <4> QED
        BY <3>2, <4>2 DEF StartOf
    <3> QED
      BY <3>1, <3>2
  <2>2. RecordsOf(i)' = RecordsOf(i)
    <3>1. ends'[i] = ends[i]
      BY DEF Follows
    <3> QED
      BY <2>1, <3>1 DEF RecordsOf
  <2>3. ChainHead + 1 \notin RecordsOf(i)
    <3>1. ends[i] <= ChainHead /\ ends[i] \in Nat /\ StartOf(i) \in Nat
      BY <1>1, EndsRise, Heads
    <3> QED
      BY <1>1, <3>1 DEF RecordsOf
  <2>4. young' \subseteq young \cup {ChainHead + 1}
    BY DEF Follows
  <2> QED
    BY <2>2, <2>3, <2>4
<1> QED
  BY <1>1, <1>2

LEMMA PlansStay ==
  ASSUME Types, LogInv, PruneInv, \A e \in Enforcers : RunInv(e), Follows, Untouched
  PROVE  PruneInv' /\ (\A e \in Enforcers : RunInv(e)') /\ (CountInv => CountInv')
<1>1. /\ Sealed \subseteq Sealed' /\ \A i \in Sealed : ends'[i] = ends[i]
      /\ \A i \in Sealed : RecordsOf(i) \cap young = {} => RecordsOf(i)' \cap young' = {}
      /\ Newest \in Nat
  BY RecordsStay, Heads DEF Follows
<1>2. gone' = gone /\ anchor' = anchor /\ run' = run
  BY DEF Untouched
<1>3. PruneInv'
  <2>1. gone' = {} \/ \E g \in Sealed' : gone' = 1 .. g
    BY <1>1, <1>2 DEF PruneInv
  <2>2. gone' # {} => anchor'.present /\ gone' \subseteq anchor'.segments
    BY <1>2 DEF PruneInv
  <2>3. ASSUME anchor'.present
        PROVE  /\ \E s, m \in Sealed' : /\ s <= m /\ anchor'.segments = 1 .. m
                                        /\ anchor'.seq = ends'[s]
               /\ \A i \in anchor'.segments : RecordsOf(i)' \cap young' = {}
    <3>1. PICK s \in Sealed, m \in Sealed : s <= m /\ anchor.segments = 1 .. m /\ anchor.seq = ends[s]
      BY <1>2, <2>3 DEF PruneInv
    <3>2. anchor'.segments \subseteq Sealed
      BY <1>1, <1>2, <3>1 DEF Sealed
    <3>3. \A i \in anchor'.segments : RecordsOf(i) \cap young = {}
      BY <1>2, <2>3 DEF PruneInv
    <3> QED
      BY <1>1, <1>2, <3>1, <3>2, <3>3
  <2> QED
    BY <2>1, <2>2, <2>3 DEF PruneInv
<1>4. ASSUME NEW e \in Enforcers PROVE RunInv(e)'
  <2> SUFFICES ASSUME run'[e].pc \in Planned
               PROVE  /\ \E a, b \in Sealed' : /\ a <= b /\ run'[e].plan = a .. b
                                               /\ (a = 1 \/ a - 1 \in gone')
                      /\ \A i \in run'[e].plan : RecordsOf(i)' \cap young' = {}
                      /\ run'[e].pc = "unlink" =>
                           anchor'.present /\ run'[e].plan \subseteq anchor'.segments
    BY DEF RunInv
  <2>1. PICK a \in Sealed, b \in Sealed : a <= b /\ run[e].plan = a .. b /\ (a = 1 \/ a - 1 \in gone)
    BY <1>2 DEF RunInv
  <2>2. run'[e].plan \subseteq Sealed
    BY <1>1, <1>2, <2>1 DEF Sealed
  <2>3. /\ \A i \in run'[e].plan : RecordsOf(i) \cap young = {}
        /\ run'[e].pc = "unlink" => anchor'.present /\ run'[e].plan \subseteq anchor'.segments
    BY <1>2 DEF RunInv
  <2> QED
    BY <1>1, <1>2, <2>1, <2>2, <2>3
<1>5. ASSUME CountInv PROVE CountInv'
  <2>1. anchor'.present => \E m \in Sealed' : /\ anchor'.segments = 1 .. m /\ anchor'.seq = ends'[m]
                                              /\ anchor'.records = ends'[m]
    BY <1>1, <1>2, <1>5 DEF CountInv
  <2>2. ASSUME NEW e \in Enforcers, run'[e].pc = "anchor" PROVE ~Rewinds(run[e].plan)'
    <3>1. run[e].pc = "anchor" /\ run[e].pc \in Planned /\ ~Rewinds(run[e].plan)
      BY <1>2, <1>5, <2>2 DEF CountInv, Planned
    <3>2. PICK a \in Sealed, b \in Sealed : a <= b /\ run[e].plan = a .. b
      BY <3>1 DEF RunInv
    <3>3. LastOf(run[e].plan)' = LastOf(run[e].plan)
      <4>1. \A i \in a .. b : RecordsOf(i)' = RecordsOf(i)
        <5>1. a .. b \subseteq Sealed
          BY <1>1, <3>2 DEF Sealed
        <5> QED
          BY <5>1, RecordsStay
      <4>2. \A S : S = a .. b => WithRecords(S)' = WithRecords(S) /\ LastWithRecords(S)' = LastWithRecords(S)
        <5> SUFFICES ASSUME NEW S, S = a .. b
                     PROVE  WithRecords(S)' = WithRecords(S) /\ LastWithRecords(S)' = LastWithRecords(S)
          OBVIOUS
        <5>1. \A i \in S : (RecordsOf(i) # {})' <=> RecordsOf(i) # {}
          BY <4>1
        <5>2. WithRecords(S)' = WithRecords(S)
          BY <5>1 DEF WithRecords
        <5> QED
          BY <5>2 DEF LastWithRecords
      <4>3. LastOf(a .. b) = ends[b] /\ LastWithRecords(a .. b) = b
        <5>1. WithRecords(a .. b) = a .. b /\ LastOf(a .. b) = ends[b] /\ a \in Nat /\ b \in Nat
          BY <1>1, <3>2, LastOfRow DEF Sealed
        <5> QED
          BY <3>2, <5>1, RangeEnds DEF LastWithRecords
      <4>4. ASSUME NEW S, S = a .. b, S = run[e].plan, S = run'[e].plan
            PROVE  LastOf(run[e].plan)' = ends[b]
        <5>1. LastWithRecords(S)' = b
          BY <4>2, <4>3, <4>4
        <5>2. LastOf(S)' = ends'[b]
          BY <5>1 DEF LastOf
        <5> QED
          BY <1>1, <4>4, <5>2 DEF LastOf, LastWithRecords, WithRecords
      <4> QED
        BY <1>2, <3>2, <4>3, <4>4
    <3> QED
      BY <1>2, <3>1, <3>3 DEF Rewinds
  <2> QED
    BY <2>1, <2>2 DEF CountInv
<1> QED
  BY <1>3, <1>4, <1>5

LEMMA SameLog ==
  ASSUME Types, LogInv, ends' = ends
  PROVE  /\ Newest' = Newest /\ ChainHead' = ChainHead /\ Sealed' = Sealed
         /\ \A i : StartOf(i)' = StartOf(i) /\ RecordsOf(i)' = RecordsOf(i)
         /\ LogInv'
<1>1. Newest' = Newest /\ ChainHead' = ChainHead /\ Sealed' = Sealed
  BY DEF Newest, ChainHead, Sealed
<1>2. \A i : StartOf(i)' = StartOf(i)
  BY DEF StartOf
<1>3. \A i : RecordsOf(i)' = RecordsOf(i)
  BY <1>2 DEF RecordsOf
<1>4. LogInv'
  BY <1>1, <1>2 DEF LogInv
<1> QED
  BY <1>1, <1>2, <1>3, <1>4

LEMMA WriteStep ==
  ASSUME Types, LogInv, Write
  PROVE  Types' /\ LogInv' /\ Follows /\ Untouched
<1>1. /\ ChainHead < MaxSeq /\ ends' = [ends EXCEPT ![Newest] = @ + 1]
      /\ young' = young \cup {ChainHead + 1}
      /\ UNCHANGED <<gone, attests, anchor, hold, run, view, bundle>>
  BY DEF Write, readers
<1>2. /\ Newest \in Nat /\ Newest > 0 /\ Newest = Len(ends) /\ DOMAIN ends = 1 .. Newest
      /\ ChainHead = ends[Newest] /\ ChainHead \in 0 .. MaxSeq /\ ChainHead \in Nat
      /\ \A i \in 1 .. Newest : ends[i] \in Nat
  BY Heads
<1>3. /\ Newest' = Newest /\ ends' \in Seq(0 .. MaxSeq)
      /\ ends'[Newest] = ChainHead + 1 /\ \A i \in 1 .. Newest - 1 : ends'[i] = ends[i]
  <2>1. ChainHead + 1 \in 0 .. MaxSeq
    BY <1>1, <1>2, ConstantFacts
  <2>2. ends' = [ends EXCEPT ![Newest] = ChainHead + 1] /\ ends \in Seq(0 .. MaxSeq)
    BY <1>1, <1>2 DEF Types
  <2>3. ends' \in Seq(0 .. MaxSeq) /\ Len(ends') = Len(ends)
    BY <1>2, <2>1, <2>2
  <2>4. \A i \in 1 .. Newest : ends'[i] = IF i = Newest THEN ChainHead + 1 ELSE ends[i]
    BY <1>2, <2>2
  <2>5. Newest' = Newest
    BY <1>2, <2>3 DEF Newest
  <2>6. Newest \in 1 .. Newest /\ \A i \in 1 .. Newest - 1 : i \in 1 .. Newest /\ i # Newest
    BY <1>2
  <2> QED
    BY <2>3, <2>4, <2>5, <2>6
<1>4. ChainHead' = ChainHead + 1 /\ Sealed' = Sealed
  <2>1. Newest' = Newest
    BY <1>3
  <2>2. ChainHead' = ends'[Newest']
    BY DEF ChainHead
  <2> QED
    BY <1>3, <2>1, <2>2 DEF Sealed
<1>5. Types'
  <2>1. young' \subseteq 1 .. ChainHead'
    <3>1. young \subseteq 1 .. ChainHead
      BY DEF Types
    <3>2. ASSUME NEW n \in young' PROVE n \in 1 .. ChainHead + 1
      <4>1. n \in 1 .. ChainHead \/ n = ChainHead + 1
        BY <1>1, <3>1, <3>2
      <4> QED
        BY <1>2, <4>1
    <3> QED
      BY <1>4, <3>2
  <2>2. Newest' \in 1 .. MaxSegs
    BY <1>3 DEF Types
  <2> QED
    BY <1>1, <1>3, <2>1, <2>2 DEF Types
<1>6. \A i \in 1 .. Newest : ends[i] <= ends'[i] /\ ends[i] <= ends[Newest]
  <2>1. ASSUME NEW i \in 1 .. Newest PROVE ends[i] <= ends'[i] /\ ends[i] <= ends[Newest]
    <3>1. ends[i] <= ends[Newest]
      BY <1>2 DEF LogInv
    <3>2. i = Newest \/ i \in 1 .. Newest - 1
      BY <1>2
    <3> QED
      BY <1>2, <1>3, <3>1, <3>2
  <2> QED
    BY <2>1
<1>7. LogInv'
  <2>1. ASSUME NEW i \in 1 .. Newest, NEW j \in 1 .. Newest, i <= j PROVE ends'[i] <= ends'[j]
    <3>1. CASE j = Newest
      <4>1. i = Newest \/ i \in 1 .. Newest - 1
        BY <1>2
      <4> QED
        BY <1>2, <1>3, <1>6, <3>1, <4>1
    <3>2. CASE j # Newest
      <4>1. i \in 1 .. Newest - 1 /\ j \in 1 .. Newest - 1 /\ ends[i] <= ends[j]
        BY <1>2, <2>1, <3>2 DEF LogInv
      <4> QED
        BY <1>3, <4>1
    <3> QED
      BY <3>1, <3>2
  <2>2. ASSUME NEW i \in Sealed PROVE StartOf(i)' < ends'[i]
    <3>1. i \in 1 .. Newest - 1 /\ (i # 1 => i - 1 \in 1 .. Newest - 1)
      BY <1>2 DEF Sealed
    <3>2. StartOf(i)' = StartOf(i)
      BY <1>3, <3>1 DEF StartOf
    <3> QED
      BY <1>3, <3>1, <3>2 DEF LogInv
  <2> QED
    BY <1>3, <1>4, <2>1, <2>2 DEF LogInv
<1>8. Follows
  BY <1>1, <1>2, <1>3 DEF Follows, Sealed
<1> QED
  BY <1>1, <1>5, <1>7, <1>8 DEF Untouched

LEMMA RotateStep ==
  ASSUME Types, LogInv, Rotate
  PROVE  Types' /\ LogInv' /\ Follows /\ Untouched
<1>1. /\ Newest < MaxSegs /\ RecordsOf(Newest) # {} /\ ends' = Append(ends, ChainHead)
      /\ UNCHANGED <<gone, young, attests, anchor, hold, run, view, bundle>>
  BY DEF Rotate, readers
<1>2. /\ Newest \in Nat /\ Newest > 0 /\ Newest = Len(ends) /\ DOMAIN ends = 1 .. Newest
      /\ ChainHead = ends[Newest] /\ ChainHead \in 0 .. MaxSeq /\ ChainHead \in Nat
      /\ \A i \in 1 .. Newest : ends[i] \in Nat
  BY Heads
<1>3. /\ Newest' = Newest + 1 /\ ends' \in Seq(0 .. MaxSeq)
      /\ ends'[Newest + 1] = ChainHead /\ \A i \in 1 .. Newest : ends'[i] = ends[i]
  BY <1>1, <1>2 DEF Types, Newest
<1>4. ChainHead' = ChainHead /\ Sealed' = 1 .. Newest
  <2>1. ChainHead' = ends'[Newest'] /\ Sealed' = 1 .. Newest' - 1
    BY DEF ChainHead, Sealed
  <2> QED
    BY <1>2, <1>3, <2>1
<1>5. Types'
  <2>1. Newest' \in 1 .. MaxSegs
    BY <1>1, <1>2, <1>3, ConstantFacts
  <2> QED
    BY <1>1, <1>3, <1>4, <2>1 DEF Types
<1>6. LogInv'
  <2>1. ASSUME NEW i \in 1 .. Newest + 1, NEW j \in 1 .. Newest + 1, i <= j
        PROVE  ends'[i] <= ends'[j]
    <3>1. CASE j = Newest + 1
      <4>1. CASE i = Newest + 1
        BY <1>2, <1>3, <3>1, <4>1
      <4>2. CASE i # Newest + 1
        <5>1. i \in 1 .. Newest /\ Newest \in 1 .. Newest /\ i <= Newest
          BY <1>2, <4>2
        <5>2. ends[i] <= ends[Newest]
          BY <5>1 DEF LogInv
        <5> QED
          BY <1>2, <1>3, <3>1, <5>1, <5>2
      <4> QED
        BY <4>1, <4>2
    <3>2. CASE j # Newest + 1
      <4>1. i \in 1 .. Newest /\ j \in 1 .. Newest
        BY <1>2, <2>1, <3>2
      <4>2. ends[i] <= ends[j]
        BY <2>1, <4>1 DEF LogInv
      <4> QED
        BY <1>3, <4>1, <4>2
    <3> QED
      BY <3>1, <3>2
  <2>2. ASSUME NEW i \in 1 .. Newest PROVE StartOf(i)' < ends'[i]
    <3>1. StartOf(i)' = StartOf(i)
      <4>1. i # 1 => i - 1 \in 1 .. Newest
        BY <1>2
      <4> QED
        BY <1>3, <4>1 DEF StartOf
    <3>2. StartOf(i) < ends[i]
      <4>1. CASE i = Newest
        <5>1. StartOf(i) \in Nat /\ ends[i] \in Nat
          BY <1>2, Heads
        <5> QED
          BY <1>1, <4>1, <5>1 DEF RecordsOf
      <4>2. CASE i # Newest
        <5>1. i \in Sealed
          BY <1>2, <4>2 DEF Sealed
        <5> QED
          BY <5>1 DEF LogInv
      <4> QED
        BY <4>1, <4>2
    <3> QED
      BY <1>3, <3>1, <3>2
  <2> QED
    BY <1>3, <1>4, <2>1, <2>2 DEF LogInv
<1>7. Follows
  <2>1. Newest <= Newest + 1
    BY <1>2
  <2> QED
    BY <1>1, <1>2, <1>3, <2>1, Heads DEF Follows
<1> QED
  BY <1>1, <1>5, <1>6, <1>7 DEF Untouched

LEMMA LastIsNumber ==
  ASSUME Types
  PROVE  LastAttested \in Nat
<1>1. attests \in Seq(1 .. MaxSeq)
  BY DEF Types
<1>2. CASE attests = <<>>
  BY <1>2 DEF LastAttested
<1>3. CASE attests # <<>>
  <2>1. Len(attests) \in 1 .. Len(attests)
    BY <1>1, <1>3
  <2>2. attests[Len(attests)] \in 1 .. MaxSeq
    <3>1. \A S : \A s \in Seq(S) : \A i \in 1 .. Len(s) : s[i] \in S
      OBVIOUS
    <3> QED
      BY <1>1, <2>1, <3>1, Zenon
  <2> QED
    BY <1>3, <2>2, ConstantFacts DEF LastAttested
<1> QED
  BY <1>2, <1>3

\* Everything else but an enforcement run: the operator, the passage of time, the
\* checkpoints, and the commands that read.
LEMMA OtherStep ==
  ASSUME Types, LogInv,
         \/ Attest \/ Age \/ SetHold
         \/ ReadAnchor \/ ReadCheckpoints \/ ReadSegments
         \/ Collect \/ VerifyForManifest \/ CopySegment \/ CopyCheckpoints \/ CopyAnchor \/ FileGrew
         \/ UNCHANGED vars
  PROVE  Types' /\ LogInv' /\ Follows /\ Untouched
<1>1. ends' = ends /\ gone' = gone /\ anchor' = anchor /\ run' = run /\ young' \subseteq young
  BY DEF Attest, Age, SetHold, ReadAnchor, ReadCheckpoints, ReadSegments, Collect,
         VerifyForManifest, CopySegment, CopyCheckpoints, CopyAnchor, FileGrew, vars, files
<1>2. /\ Newest' = Newest /\ ChainHead' = ChainHead /\ LogInv'
  BY <1>1, SameLog
<1>3. attests' \in Seq(1 .. MaxSeq) /\ hold' \in BOOLEAN
  <2>1. CASE Attest
    <3>1. attests' = Append(attests, ChainHead) /\ LastAttested < ChainHead /\ hold' = hold
      BY <2>1 DEF Attest
    <3>2. ChainHead \in 1 .. MaxSeq
      <4>1. LastAttested \in Nat
        BY LastIsNumber
      <4> QED
        BY <3>1, <4>1, Heads, ConstantFacts
    <3> QED
      BY <3>1, <3>2 DEF Types
  <2>2. CASE SetHold
    BY <2>2 DEF SetHold, Types
  <2>3. CASE UNCHANGED <<attests, hold>>
    BY <2>3 DEF Types
  <2>4. Attest \/ SetHold \/ UNCHANGED <<attests, hold>>
    BY DEF Age, ReadAnchor, ReadCheckpoints, ReadSegments, Collect,
           VerifyForManifest, CopySegment, CopyCheckpoints, CopyAnchor, FileGrew, vars, files
  <2> QED
    BY <2>1, <2>2, <2>3, <2>4
<1>4. "pc" \in DOMAIN view' /\ view'.pc \in {"idle", "checkpoints", "segments"}
  <2>1. view' = view \/ ReadAnchor \/ ReadCheckpoints \/ ReadSegments
    BY DEF Attest, Age, SetHold, Collect, VerifyForManifest, CopySegment, CopyCheckpoints,
           CopyAnchor, FileGrew, vars, readers
  <2>2. CASE view' = view
    BY <2>2 DEF Types
  <2>3. CASE ReadAnchor
    BY <2>3 DEF ReadAnchor
  <2>4. CASE ReadCheckpoints
    BY <2>4 DEF ReadCheckpoints
  <2>5. CASE ReadSegments
    BY <2>5 DEF ReadSegments, Idle
  <2> QED
    BY <2>1, <2>2, <2>3, <2>4, <2>5
<1>5. /\ "pc" \in DOMAIN bundle'
      /\ bundle'.pc \in {"idle", "verify", "segments", "checkpoints", "anchor"}
  <2>1. CASE bundle' = bundle
    BY <2>1 DEF Types
  <2>2. CASE Collect
    BY <2>2 DEF Collect
  <2>3. CASE VerifyForManifest
    BY <2>3 DEF VerifyForManifest
  <2>4. CASE CopySegment
    <3> DEFINE i == CHOOSE i \in bundle.left : \A j \in bundle.left : i <= j
               rest == bundle.left \ {i}
    <3>1. bundle' = IF i \in gone THEN Idle
                    ELSE IF rest # {} THEN [bundle EXCEPT !.left = rest]
                    ELSE [pc |-> "checkpoints", names |-> bundle.names,
                          copied |-> ends[i], verified |-> bundle.verified]
      BY <2>4 DEF CopySegment
    <3> HIDE DEF i, rest
    <3>2. \/ bundle' = Idle \/ bundle' = [bundle EXCEPT !.left = rest]
          \/ bundle' = [pc |-> "checkpoints", names |-> bundle.names,
                        copied |-> ends[i], verified |-> bundle.verified]
      BY <3>1
    <3>3. CASE bundle' = [bundle EXCEPT !.left = rest]
      BY <3>3 DEF Types
    <3> QED
      BY <3>2, <3>3 DEF Idle
  <2>5. CASE CopyCheckpoints
    BY <2>5 DEF CopyCheckpoints
  <2>6. CASE CopyAnchor \/ FileGrew
    BY <2>6 DEF CopyAnchor, FileGrew, Idle
  <2>7. \/ bundle' = bundle \/ Collect \/ VerifyForManifest \/ CopySegment \/ CopyCheckpoints
        \/ CopyAnchor \/ FileGrew
    BY DEF Attest, Age, SetHold, ReadAnchor, ReadCheckpoints, ReadSegments, vars, readers
  <2> QED
    BY <2>1, <2>2, <2>3, <2>4, <2>5, <2>6, <2>7
<1>6. Types'
  <2>1. young' \subseteq 1 .. ChainHead'
    BY <1>1, <1>2 DEF Types
  <2> QED
    BY <1>1, <1>2, <1>3, <1>4, <1>5, <2>1 DEF Types
<1>7. Follows
  <2>1. Newest \in Nat /\ Newest <= Newest
    BY Heads
  <2> QED
    BY <1>1, <1>2, <2>1 DEF Follows
<1> QED
  BY <1>1, <1>2, <1>6, <1>7 DEF Untouched

-----------------------------------------------------------------------------
(* An enforcement run *)

\* A step of one run: the log stays, and so do the plans and the records of the others.
RunStep(e) ==
  /\ ends' = ends /\ young' = young /\ attests' = attests /\ hold' = hold
  /\ bundle' = bundle /\ "pc" \in DOMAIN view' /\ view'.pc = view.pc
  /\ \E x : run' = [run EXCEPT ![e] = x]
  /\ gone \subseteq gone'
  /\ anchor.present => anchor'.present /\ anchor.segments \subseteq anchor'.segments

LEMMA OthersKept ==
  ASSUME Types, LogInv, PruneInv, \A f \in Enforcers : RunInv(f), NEW e \in Enforcers,
         RunStep(e), run'[e] \in Runs, RunInv(e)'
  PROVE  Types' /\ LogInv' /\ \A f \in Enforcers : RunInv(f)'
<1>1. /\ ends' = ends /\ young' = young /\ attests' = attests /\ hold' = hold
      /\ bundle' = bundle /\ "pc" \in DOMAIN view' /\ view'.pc = view.pc
      /\ run' = [f \in Enforcers |-> run'[f]] /\ \A f \in Enforcers : f # e => run'[f] = run[f]
  <2>1. PICK x : run' = [run EXCEPT ![e] = x]
    BY DEF RunStep
  <2>2. run' = [f \in Enforcers |-> run'[f]] /\ \A f \in Enforcers : f # e => run'[f] = run[f]
    BY <2>1 DEF Types
  <2> QED
    BY <2>2 DEF RunStep
<1>2. /\ Newest' = Newest /\ ChainHead' = ChainHead /\ Sealed' = Sealed /\ LogInv'
      /\ \A i : RecordsOf(i)' = RecordsOf(i)
  BY <1>1, SameLog
<1>3. ASSUME NEW f \in Enforcers, f # e PROVE RunInv(f)'
  <2>1. run'[f] = run[f]
    BY <1>1, <1>3
  <2> SUFFICES ASSUME run[f].pc \in Planned
               PROVE  /\ \E a, b \in Sealed : /\ a <= b /\ run[f].plan = a .. b
                                              /\ (a = 1 \/ a - 1 \in gone')
                      /\ \A i \in run[f].plan : RecordsOf(i) \cap young = {}
                      /\ run[f].pc = "unlink" =>
                           anchor'.present /\ run[f].plan \subseteq anchor'.segments
    BY <1>1, <1>2, <2>1 DEF RunInv
  <2>2. gone \subseteq gone'
        /\ (anchor.present => anchor'.present /\ anchor.segments \subseteq anchor'.segments)
    BY DEF RunStep
  <2> QED
    BY <2>2 DEF RunInv
<1>4. run' \in [Enforcers -> Runs]
  <2>1. \A f \in Enforcers : run'[f] \in Runs
    BY <1>1 DEF Types
  <2> QED
    BY <1>1, <2>1
<1> QED
  BY <1>1, <1>2, <1>3, <1>4 DEF Types

\* What pruned.json and the directory hold stays.
LEMMA PruneStays ==
  ASSUME Types, LogInv, PruneInv, ends' = ends, young' = young, gone' = gone, anchor' = anchor
  PROVE  PruneInv'
<1>1. Sealed' = Sealed /\ \A i : RecordsOf(i)' = RecordsOf(i)
  BY SameLog
<1> QED
  BY <1>1 DEF PruneInv

\* Sealed segments in a row, no gap before them, beyond the retention period.
InRow(plan) ==
  /\ \E a, b \in Sealed : a <= b /\ plan = a .. b /\ (a = 1 \/ a - 1 \in gone)
  /\ \A i \in plan : RecordsOf(i) \cap young = {}

LEMMA RunForms ==
  ASSUME Types, NEW e \in Enforcers
  PROVE  /\ run[e] \in Runs /\ DOMAIN run = Enforcers
         /\ run[e].pc \in {"idle", "scan", "check", "anchor", "unlink"}
         /\ run[e].pc \in Planned =>
              run[e] \in [pc : Planned, plan : SUBSET Nat, survivors : SUBSET Nat]
         /\ Idle \in Runs /\ Idle.pc = "idle"
<1>1. run[e] \in Runs /\ DOMAIN run = Enforcers
  BY DEF Types
<1>2. Idle \in Runs /\ Idle.pc = "idle"
  BY DEF Idle, Runs
<1> QED
  BY <1>1, <1>2 DEF Runs, Planned

\* A step of a run before it writes, or the end of one.
LEMMA QuietSteps ==
  ASSUME Types, LogInv, PruneInv, \A f \in Enforcers : RunInv(f), NEW e \in Enforcers,
         UNCHANGED <<files, readers>>, NEW x \in Runs, run' = [run EXCEPT ![e] = x],
         x.pc \in Planned => InRow(x.plan) /\ x.pc # "unlink",
         x.pc = "anchor" => ~Rewinds(x.plan)
  PROVE  IInv' /\ (CountInv => CountInv')
<1>1. /\ ends' = ends /\ young' = young /\ attests' = attests /\ hold' = hold /\ view' = view
      /\ bundle' = bundle /\ gone' = gone /\ anchor' = anchor
  BY DEF files, readers
<1>2. /\ run'[e] = x /\ DOMAIN run' = Enforcers
      /\ \A f \in Enforcers : f # e => run'[f] = run[f]
  BY RunForms
<1>3. RunStep(e)
  BY <1>1, <1>2 DEF RunStep, Types
<1>4. RunInv(e)'
  <2>1. Sealed' = Sealed /\ \A i : RecordsOf(i)' = RecordsOf(i)
    BY <1>1, SameLog
  <2> QED
    BY <1>1, <1>2, <2>1 DEF RunInv, InRow
<1>5. Types' /\ LogInv' /\ \A f \in Enforcers : RunInv(f)'
  BY <1>2, <1>3, <1>4, OthersKept
<1>6. PruneInv'
  BY <1>1, PruneStays
<1>7. CountInv => CountInv'
  <2>1. Sealed' = Sealed
    BY <1>1, SameLog
  <2>2. \A S : Rewinds(S)' <=> Rewinds(S)
    <3>1. \A i : RecordsOf(i)' = RecordsOf(i)
      BY <1>1, SameLog
    <3>2. \A S : WithRecords(S)' = WithRecords(S)
      BY <3>1 DEF WithRecords
    <3>3. \A S : LastOf(S)' = LastOf(S)
      BY <1>1, <3>2 DEF LastWithRecords, LastOf
    <3> QED
      BY <1>1, <3>3 DEF Rewinds
  <2>3. ASSUME CountInv, NEW f \in Enforcers, run'[f].pc = "anchor" PROVE ~Rewinds(run'[f].plan)
    BY <1>2, <2>3 DEF CountInv
  <2>4. ASSUME CountInv, NEW f \in Enforcers, run'[f].pc = "anchor" PROVE ~Rewinds(run[f].plan)'
    <3>1. ~Rewinds(run'[f].plan)
      BY <2>3, <2>4
    <3>2. ASSUME NEW S, S = run'[f].plan PROVE ~Rewinds(run[f].plan)'
      <4>1. ~Rewinds(S)'
        BY <2>2, <3>1, <3>2
      <4> QED
        BY <3>2, <4>1 DEF Rewinds, LastOf, LastWithRecords, WithRecords
    <3> QED
      BY <3>1, <3>2
  <2> QED
    BY <1>1, <2>1, <2>4 DEF CountInv
<1> QED
  BY <1>5, <1>6, <1>7 DEF IInv

LEMMA StartStep ==
  ASSUME IInv, NEW e \in Enforcers, Start(e) \/ Kill(e)
  PROVE  IInv' /\ (CountInv => CountInv')
<1>1. UNCHANGED <<files, readers>>
  BY DEF Start, Kill
<1>2. CASE Start(e)
  <2> DEFINE x == [pc |-> "scan", held |-> hold]
  <2>1. run' = [run EXCEPT ![e] = x]
    BY <1>2 DEF Start
  <2>2. x \in Runs /\ x.pc = "scan" /\ x.pc \notin Planned
    BY DEF Runs, Planned, IInv, Types
  <2> HIDE DEF x
  <2> QED
    BY <1>1, <2>1, <2>2, QuietSteps DEF IInv
<1>3. CASE Kill(e)
  <2>1. run' = [run EXCEPT ![e] = Idle]
    BY <1>3 DEF Kill
  <2>2. Idle \in Runs /\ Idle.pc = "idle" /\ Idle.pc \notin Planned
    BY RunForms DEF IInv, Planned
  <2> QED
    BY <1>1, <2>1, <2>2, QuietSteps DEF IInv
<1> QED
  BY <1>2, <1>3

\* What is eligible is a plan.
LEMMA PlanInRow ==
  ASSUME Types, LogInv, PruneInv, Plan # {}
  PROVE  InRow(Plan) /\ Plan \in SUBSET Nat /\ WithRecords(Plan) = Plan
<1>1. PICK g \in Nat, c \in 1 .. Newest :
        /\ g < c /\ gone = 1 .. g /\ Plan = g + 1 .. c - 1
        /\ \A i \in Plan : RecordsOf(i) \cap young = {}
  BY PlanRange
<1>2. Newest \in Nat
  BY Heads
<1>3. g + 1 \in Sealed /\ c - 1 \in Sealed /\ g + 1 <= c - 1 /\ (g + 1 = 1 \/ (g + 1) - 1 \in gone)
  BY <1>1, <1>2 DEF Sealed
<1>4. WithRecords(Plan) = Plan
  BY <1>1, <1>3, LastOfRow
<1> QED
  BY <1>1, <1>3, <1>4 DEF InRow

LEMMA ScanStep ==
  ASSUME IInv, NEW e \in Enforcers, Scan(e)
  PROVE  IInv' /\ (CountInv => CountInv')
<1>1. /\ UNCHANGED <<files, readers>> /\ run[e].pc = "scan"
      /\ run' = [run EXCEPT ![e] =
           IF run[e].held \/ Plan = {} THEN Idle
           ELSE [pc |-> IF WithRecords(Plan) = {} THEN "unlink" ELSE "check",
                 plan |-> Plan, survivors |-> WithRecords(Here \ Plan)]]
  BY DEF Scan
<1>2. CASE run[e].held \/ Plan = {}
  <2>1. run' = [run EXCEPT ![e] = Idle]
    BY <1>1, <1>2
  <2>2. Idle \in Runs /\ Idle.pc = "idle" /\ Idle.pc \notin Planned
    BY RunForms DEF IInv, Planned
  <2> QED
    BY <1>1, <2>1, <2>2, QuietSteps DEF IInv
<1>3. CASE ~(run[e].held \/ Plan = {})
  <2> DEFINE x == [pc |-> "check", plan |-> Plan, survivors |-> WithRecords(Here \ Plan)]
  <2>1. InRow(Plan) /\ Plan \in SUBSET Nat /\ WithRecords(Plan) = Plan /\ Plan # {}
    BY <1>3, PlanInRow DEF IInv
  <2>2. run' = [run EXCEPT ![e] = x]
    BY <1>1, <1>3, <2>1
  <2>3. WithRecords(Here \ Plan) \in SUBSET Nat
    BY Heads DEF IInv, WithRecords, Here
  <2>4. x \in Runs /\ x.pc = "check" /\ x.plan = Plan
    BY <2>1, <2>3 DEF Runs, Planned
  <2> HIDE DEF x
  <2>5. x.pc # "unlink" /\ x.pc # "anchor" /\ InRow(x.plan)
    BY <2>1, <2>4
  <2> QED
    BY <1>1, <2>2, <2>4, <2>5, QuietSteps DEF IInv
<1> QED
  BY <1>2, <1>3

LEMMA CheckStep ==
  ASSUME IInv, NEW e \in Enforcers, Check(e)
  PROVE  IInv' /\ (CountInv => CountInv')
<1>1. /\ UNCHANGED <<files, readers>> /\ run[e].pc = "check"
      /\ run' = [run EXCEPT ![e] =
           IF Rewinds(run[e].plan) \/ ~SurvivorLinks(run[e]) THEN Idle
           ELSE [run[e] EXCEPT !.pc = "anchor"]]
  BY DEF Check
<1>2. CASE Rewinds(run[e].plan) \/ ~SurvivorLinks(run[e])
  <2>1. run' = [run EXCEPT ![e] = Idle]
    BY <1>1, <1>2
  <2>2. Idle \in Runs /\ Idle.pc = "idle" /\ Idle.pc \notin Planned
    BY RunForms DEF IInv, Planned
  <2> QED
    BY <1>1, <2>1, <2>2, QuietSteps DEF IInv
<1>3. CASE ~(Rewinds(run[e].plan) \/ ~SurvivorLinks(run[e]))
  <2> DEFINE x == [run[e] EXCEPT !.pc = "anchor"]
  <2>1. run' = [run EXCEPT ![e] = x]
    BY <1>1, <1>3
  <2>2. run[e] \in [pc : Planned, plan : SUBSET Nat, survivors : SUBSET Nat]
    BY <1>1, RunForms DEF IInv, Planned
  <2>3. x \in Runs /\ x.pc = "anchor" /\ x.plan = run[e].plan
    BY <2>2 DEF Runs, Planned
  <2>4. InRow(run[e].plan)
    BY <1>1 DEF IInv, RunInv, InRow, Planned
  <2> HIDE DEF x
  <2>5. x.pc # "unlink" /\ InRow(x.plan) /\ ~Rewinds(x.plan)
    BY <1>3, <2>3, <2>4
  <2> QED
    BY <1>1, <2>1, <2>3, <2>5, QuietSteps DEF IInv
<1> QED
  BY <1>2, <1>3

\* What is written to pruned.json.
LEMMA BuiltFields ==
  ASSUME NEW plan
  PROVE  /\ Built(plan).present /\ Built(plan).seq = LastOf(plan)
         /\ Built(plan).segments = plan \cup IF anchor.present THEN anchor.segments ELSE {}
         /\ Built(plan).records = CountRecords({i \in plan : ~Named(i)})
                                    + IF anchor.present THEN anchor.records ELSE 0
BY DEF Built

\* A plan that is carried out covers, with what pruned.json names, all from the front.
LEMMA Covered ==
  ASSUME Types, LogInv, PruneInv, NEW a \in Sealed, NEW b \in Sealed, a <= b, a = 1 \/ a - 1 \in gone
  PROVE  \E m \in Sealed :
           /\ b <= m
           /\ (a .. b \cup IF anchor.present THEN anchor.segments ELSE {}) = 1 .. m
           /\ anchor.present => m = b \/ anchor.segments = 1 .. m
<1>1. Newest \in Nat /\ a \in Nat /\ b \in Nat /\ 1 <= a
  BY Heads DEF Sealed
<1>2. CASE ~anchor.present
  <2>1. a = 1
    BY <1>2 DEF PruneInv
  <2> QED
    BY <1>1, <1>2, <2>1
<1>3. CASE anchor.present
  <2>1. PICK n \in Sealed : anchor.segments = 1 .. n
    BY <1>3 DEF PruneInv
  <2>2. a <= n + 1 /\ n \in Nat
    <3>1. CASE a = 1
      BY <1>1, <2>1, <3>1 DEF Sealed
    <3>2. CASE a - 1 \in gone
      <4>1. a - 1 \in 1 .. n
        BY <2>1, <3>2 DEF PruneInv
      <4> QED
        BY <1>1, <2>1, <4>1 DEF Sealed
    <3> QED
      BY <3>1, <3>2
  <2>3. CASE b <= n
    <3>1. a .. b \cup 1 .. n = 1 .. n
      BY <1>1, <2>2, <2>3
    <3> QED
      BY <1>3, <2>1, <2>3, <3>1
  <2>4. CASE n < b
    <3>1. a .. b \cup 1 .. n = 1 .. b
      BY <1>1, <2>2, <2>4
    <3> QED
      BY <1>1, <1>3, <2>1, <3>1
  <2> QED
    BY <1>1, <2>2, <2>3, <2>4
<1> QED
  BY <1>2, <1>3

\* The records a plan adds to those counted: those after the anchor.
LEMMA CountsOn ==
  ASSUME Types, LogInv, PruneInv, CountInv, NEW a \in Sealed, NEW b \in Sealed, a <= b,
         a = 1 \/ a - 1 \in gone, ~Rewinds(a .. b)
  PROVE  /\ Built(a .. b).records = ends[b]
         /\ Built(a .. b).segments = 1 .. b
<1>1. /\ Newest \in Nat /\ a \in Nat /\ b \in Nat /\ 1 <= a /\ b \in 1 .. Newest /\ a \in 1 .. Newest
      /\ \A i \in 1 .. Newest : ends[i] \in Nat
  BY Heads DEF Sealed
<1>2. LastOf(a .. b) = ends[b]
  BY LastOfRow
<1>3. CASE ~anchor.present
  <2>1. a = 1
    BY <1>3 DEF PruneInv
  <2>2. {i \in a .. b : ~Named(i)} = a .. b
    BY <1>3 DEF Named
  <2>3. CountRecords(a .. b) = ends[b] - StartOf(a) /\ StartOf(a) = 0
    BY <2>1, RowCounts DEF StartOf
  <2>4. Built(a .. b).records = ends[b]
    BY <1>1, <1>3, <2>2, <2>3, BuiltFields
  <2>5. Built(a .. b).segments = a .. b
    BY <1>3, BuiltFields
  <2> QED
    BY <2>1, <2>4, <2>5
<1>4. CASE anchor.present
  <2>1. PICK m \in Sealed : /\ anchor.segments = 1 .. m /\ anchor.seq = ends[m]
                            /\ anchor.records = ends[m]
    BY <1>4 DEF CountInv
  <2>2. m \in Nat /\ 1 <= m /\ m \in 1 .. Newest
    BY <1>1, <2>1 DEF Sealed
  <2>3. m <= b
    <3>1. ~(ends[b] < ends[m])
      BY <1>2, <1>4, <2>1 DEF Rewinds
    <3>2. b < m => ends[b] < ends[m]
      BY <1>1, <2>1, EndsRise
    <3> QED
      BY <1>1, <2>2, <3>1, <3>2
  <2>4. a <= m + 1
    <3>1. CASE a = 1
      BY <2>2, <3>1
    <3>2. CASE a - 1 \in gone
      <4>1. a - 1 \in 1 .. m
        BY <2>1, <3>2 DEF PruneInv
      <4> QED
        BY <1>1, <2>2, <4>1
    <3> QED
      BY <3>1, <3>2
  <2>5. {i \in a .. b : ~Named(i)} = m + 1 .. b
    BY <1>1, <1>4, <2>1, <2>2, <2>3, <2>4 DEF Named
  <2>6. CountRecords(m + 1 .. b) = ends[b] - ends[m]
    <3>1. CASE m = b
      <4>1. m + 1 .. b = {}
        BY <1>1, <3>1
      <4>2. CountRecords({}) = 0
        <5>1. UNION {RecordsOf(i) : i \in {}} = {}
          OBVIOUS
        <5> QED
          BY <5>1, FS_EmptySet DEF CountRecords
      <4> QED
        BY <1>1, <3>1, <4>1, <4>2
    <3>2. CASE m # b
      <4>1. m + 1 \in Sealed /\ m + 1 <= b /\ m + 1 \in 1 .. Newest /\ m + 1 > 1
        BY <1>1, <2>2, <2>3, <3>2 DEF Sealed
      <4>2. StartOf(m + 1) = ends[m]
        BY <2>2, <4>1 DEF StartOf
      <4> QED
        BY <4>1, <4>2, RowCounts
    <3> QED
      BY <3>1, <3>2
  <2>7. Built(a .. b).records = ends[b]
    <3>1. Built(a .. b).records = CountRecords(m + 1 .. b) + ends[m]
      BY <1>4, <2>1, <2>5, BuiltFields
    <3>2. ends[b] \in Nat /\ ends[m] \in Nat
      BY <1>1, <2>2
    <3> QED
      BY <2>6, <3>1, <3>2
  <2>8. Built(a .. b).segments = 1 .. b
    <3>1. Built(a .. b).segments = a .. b \cup 1 .. m
      BY <1>4, <2>1, BuiltFields
    <3>2. ASSUME NEW x \in Nat, NEW y \in Nat, NEW z \in Nat, 1 <= x, x <= z + 1, z <= y
          PROVE  x .. y \cup 1 .. z = 1 .. y
      BY <3>2
    <3> QED
      BY <1>1, <2>2, <2>3, <2>4, <3>1, <3>2
  <2> QED
    BY <2>7, <2>8
<1> QED
  BY <1>3, <1>4

LEMMA WriteAnchorStep ==
  ASSUME IInv, NEW e \in Enforcers, WriteAnchor(e)
  PROVE  IInv' /\ (Alone /\ CountInv => CountInv')
<1>1. /\ run[e].pc = "anchor" /\ anchor' = Built(run[e].plan)
      /\ run' = [run EXCEPT ![e].pc = "unlink"]
      /\ ends' = ends /\ gone' = gone /\ young' = young /\ attests' = attests /\ hold' = hold
      /\ view' = view /\ bundle' = bundle
  BY DEF WriteAnchor, readers
<1>2. run[e].pc \in Planned /\ run[e] \in [pc : Planned, plan : SUBSET Nat, survivors : SUBSET Nat]
  BY <1>1, RunForms DEF IInv, Planned
<1>3. PICK a \in Sealed, b \in Sealed : a <= b /\ run[e].plan = a .. b /\ (a = 1 \/ a - 1 \in gone)
  BY <1>2 DEF IInv, RunInv
<1>4. \A i \in a .. b : RecordsOf(i) \cap young = {}
  BY <1>2, <1>3 DEF IInv, RunInv
<1>5. /\ anchor'.present /\ anchor'.seq = ends[b]
      /\ anchor'.segments = a .. b \cup IF anchor.present THEN anchor.segments ELSE {}
  BY <1>1, <1>3, BuiltFields, LastOfRow, ZenonT(60) DEF IInv
<1>6. Sealed' = Sealed /\ (\A i : RecordsOf(i)' = RecordsOf(i)) /\ Newest \in Nat
  BY <1>1, SameLog, Heads DEF IInv
<1>7. PruneInv'
  <2>1. gone' = {} \/ \E g \in Sealed' : gone' = 1 .. g
    BY <1>1, <1>6 DEF IInv, PruneInv
  <2>2. gone' \subseteq anchor'.segments
    BY <1>1, <1>5 DEF IInv, PruneInv
  <2>3. \E s, m \in Sealed' : s <= m /\ anchor'.segments = 1 .. m /\ anchor'.seq = ends'[s]
    <3>1. PICK m \in Sealed : b <= m /\ anchor'.segments = 1 .. m
      BY <1>3, <1>5, Covered DEF IInv
    <3> QED
      BY <1>1, <1>5, <1>6, <3>1
  <2>4. \A i \in anchor'.segments : RecordsOf(i)' \cap young' = {}
    BY <1>1, <1>4, <1>5, <1>6 DEF IInv, PruneInv
  <2> QED
    BY <1>5, <2>1, <2>2, <2>3, <2>4 DEF PruneInv
<1>8. run'[e].pc = "unlink" /\ run'[e].plan = a .. b /\ run'[e] \in Runs
  BY <1>1, <1>2, <1>3, RunForms DEF IInv, Runs, Planned
<1>9. RunInv(e)'
  <2>1. a .. b \subseteq anchor'.segments
    BY <1>5
  <2> QED
    BY <1>1, <1>3, <1>4, <1>5, <1>6, <1>8, <2>1 DEF RunInv
<1>10. RunStep(e)
  <2>1. \E x : run' = [run EXCEPT ![e] = x]
    BY <1>1
  <2> QED
    BY <1>1, <1>5, <2>1 DEF RunStep, IInv, Types
<1>11. Alone /\ CountInv => CountInv'
  <2> SUFFICES ASSUME Alone, CountInv PROVE CountInv'
    OBVIOUS
  <2>1. ~Rewinds(a .. b)
    BY <1>1, <1>3 DEF CountInv
  <2>2. anchor'.records = ends[b] /\ anchor'.segments = 1 .. b
    BY <1>1, <1>3, <2>1, CountsOn DEF IInv
  <2>3. \A f \in Enforcers : run'[f].pc # "anchor"
    BY <1>8 DEF Alone
  <2> QED
    BY <1>1, <1>5, <1>6, <2>2, <2>3 DEF CountInv
<1> QED
  BY <1>7, <1>8, <1>9, <1>10, <1>11, OthersKept DEF IInv

LEMMA UnlinkStep ==
  ASSUME IInv, NEW e \in Enforcers, Unlink(e)
  PROVE  IInv' /\ (Alone /\ CountInv => CountInv')
<1> DEFINE i == CHOOSE i \in run[e].plan : \A j \in run[e].plan : i <= j
           rest == run[e].plan \ {i}
<1>1. /\ run[e].pc = "unlink" /\ gone' = gone \cup {i}
      /\ run' = [run EXCEPT ![e] =
           IF i \in gone \/ rest = {} THEN Idle ELSE [run[e] EXCEPT !.plan = rest]]
      /\ view' = IF view.pc = "idle" THEN view ELSE [view EXCEPT !.raced = TRUE]
      /\ ends' = ends /\ young' = young /\ attests' = attests /\ hold' = hold
      /\ anchor' = anchor /\ bundle' = bundle
  BY DEF Unlink
<1>2. run[e].pc \in Planned /\ run[e] \in [pc : Planned, plan : SUBSET Nat, survivors : SUBSET Nat]
  BY <1>1, RunForms DEF IInv, Planned
<1>3. PICK a \in Sealed, b \in Sealed : a <= b /\ run[e].plan = a .. b /\ (a = 1 \/ a - 1 \in gone)
  BY <1>2 DEF IInv, RunInv
<1>4. /\ \A j \in a .. b : RecordsOf(j) \cap young = {}
      /\ anchor.present /\ a .. b \subseteq anchor.segments
  BY <1>1, <1>2, <1>3 DEF IInv, RunInv
<1>5. Sealed' = Sealed /\ (\A j : RecordsOf(j)' = RecordsOf(j)) /\ Newest \in Nat
  BY <1>1, SameLog, Heads DEF IInv
<1>6. a \in Nat /\ b \in Nat /\ 1 <= a
  BY <1>5 DEF Sealed
<1>7. i = a /\ rest = a + 1 .. b
  <2>1. i = a
    BY <1>3, <1>6, RangeEnds
  <2> HIDE DEF i
  <2> QED
    BY <1>3, <1>6, <2>1
<1> HIDE DEF i, rest
<1>8. gone' = {} \/ \E g \in Sealed : gone' = 1 .. g
  <2>1. gone' = gone \cup {a}
    BY <1>1, <1>7
  <2>2. CASE a \in gone
    <3>1. gone' = gone
      BY <2>1, <2>2
    <3> QED
      BY <3>1 DEF IInv, PruneInv
  <2>3. CASE a \notin gone
    <3>1. CASE gone = {}
      <4>1. a = 1 /\ gone' = {a}
        BY <1>3, <2>1, <3>1
      <4> QED
        BY <4>1
    <3>2. CASE gone # {}
      <4>1. PICK g \in Sealed : gone = 1 .. g
        BY <3>2 DEF IInv, PruneInv
      <4>2. a = g + 1
        BY <1>3, <1>5, <1>6, <2>3, <4>1 DEF Sealed
      <4>3. gone' = 1 .. a
        BY <1>5, <2>1, <4>1, <4>2 DEF Sealed
      <4> QED
        BY <4>3
    <3> QED
      BY <3>1, <3>2
  <2> QED
    BY <2>2, <2>3
<1>9. PruneInv'
  <2>1. gone' \subseteq anchor'.segments /\ anchor'.present
    <3>1. a \in a .. b
      BY <1>3, <1>6
    <3> QED
      BY <1>1, <1>4, <1>7, <3>1 DEF IInv, PruneInv
  <2> QED
    BY <1>1, <1>4, <1>5, <1>8, <2>1 DEF IInv, PruneInv
<1>10. run'[e] \in Runs /\ RunInv(e)' /\ run'[e].pc # "anchor"
  <2>1. CASE i \in gone \/ rest = {}
    <3>1. run'[e] = Idle
      BY <1>1, <2>1, RunForms DEF IInv
    <3> QED
      BY <3>1, RunForms DEF IInv, RunInv, Planned
  <2>2. CASE ~(i \in gone \/ rest = {})
    <3>1. run'[e] = [run[e] EXCEPT !.plan = rest]
      BY <1>1, <2>2, RunForms DEF IInv
    <3>2. run'[e].pc = "unlink" /\ run'[e].plan = a + 1 .. b
      BY <1>1, <1>2, <1>7, <3>1
    <3>3. run'[e] \in Runs
      <4>1. a + 1 .. b \in SUBSET Nat
        BY <1>6
      <4> QED
        BY <1>2, <1>7, <3>1, <4>1 DEF Runs, Planned
    <3>4. a + 1 \in Sealed /\ a + 1 <= b /\ (a + 1) - 1 \in gone'
      <4>1. a + 1 .. b # {}
        BY <1>7, <2>2
      <4>2. a + 1 <= b
        BY <1>6, <4>1
      <4> QED
        BY <1>1, <1>5, <1>6, <1>7, <4>2 DEF Sealed
    <3>5. a + 1 .. b \subseteq a .. b
      BY <1>6
    <3> QED
      BY <1>1, <1>4, <1>5, <3>2, <3>3, <3>4, <3>5 DEF RunInv
  <2> QED
    BY <2>1, <2>2
<1>11. RunStep(e)
  <2>1. \E x : run' = [run EXCEPT ![e] = x]
    BY <1>1
  <2>2. "pc" \in DOMAIN view' /\ view'.pc = view.pc
    BY <1>1 DEF IInv, Types
  <2> QED
    BY <1>1, <2>1, <2>2 DEF RunStep
<1>12. Alone /\ CountInv => CountInv'
  <2> SUFFICES ASSUME Alone, CountInv PROVE CountInv'
    OBVIOUS
  <2>1. \A f \in Enforcers : run'[f].pc # "anchor"
    BY <1>10 DEF Alone
  <2> QED
    BY <1>1, <1>5, <2>1 DEF CountInv
<1> QED
  BY <1>9, <1>10, <1>11, <1>12, OthersKept DEF IInv

-----------------------------------------------------------------------------
(* The invariants *)

LEMMA Initially == Init => IInv /\ CountInv
<1> SUFFICES ASSUME Init PROVE IInv /\ CountInv
  OBVIOUS
<1>1. /\ ends = <<0>> /\ gone = {} /\ young = {} /\ attests = <<>>
      /\ anchor = NoAnchor /\ hold = FALSE
      /\ run = [e \in Enforcers |-> Idle] /\ view = Idle /\ bundle = Idle
  BY DEF Init
<1>2. Newest = 1 /\ ChainHead = 0 /\ Sealed = {} /\ ends \in Seq(0 .. MaxSeq)
  BY <1>1, ConstantFacts DEF Newest, ChainHead, Sealed
<1>3. ~anchor.present
  BY <1>1 DEF NoAnchor
<1>4. \A e \in Enforcers : run[e] = Idle /\ run[e].pc = "idle" /\ run[e] \in Runs
  BY <1>1 DEF Idle, Runs
<1>5. Types
  <2>1. Newest \in 1 .. MaxSegs
    BY <1>2, ConstantFacts
  <2>2. run \in [Enforcers -> Runs]
    BY <1>1, <1>4
  <2>3. attests \in Seq(1 .. MaxSeq)
    BY <1>1
  <2>4. "pc" \in DOMAIN Idle /\ Idle.pc = "idle"
    BY DEF Idle
  <2> QED
    BY <1>1, <1>2, <2>1, <2>2, <2>3, <2>4 DEF Types
<1>6. LogInv
  <2>1. \A i, j \in 1 .. 1 : ends[i] <= ends[j]
    BY <1>1
  <2> QED
    BY <1>2, <2>1 DEF LogInv
<1>7. PruneInv /\ (\A e \in Enforcers : RunInv(e)) /\ CountInv
  BY <1>1, <1>3, <1>4 DEF PruneInv, RunInv, CountInv, Planned
<1> QED
  BY <1>5, <1>6, <1>7 DEF IInv

LEMMA Step ==
  ASSUME IInv, [Next]_vars
  PROVE  IInv' /\ (Alone /\ CountInv => CountInv')
<1>1. CASE Types' /\ LogInv' /\ Follows /\ Untouched
  BY <1>1, PlansStay DEF IInv
<1>2. CASE Write
  BY <1>1, <1>2, WriteStep DEF IInv
<1>3. CASE Rotate
  BY <1>1, <1>3, RotateStep DEF IInv
<1>4. CASE \/ Attest \/ Age \/ SetHold
           \/ ReadAnchor \/ ReadCheckpoints \/ ReadSegments
           \/ Collect \/ VerifyForManifest \/ CopySegment \/ CopyCheckpoints \/ CopyAnchor \/ FileGrew
           \/ UNCHANGED vars
  BY <1>1, <1>4, OtherStep DEF IInv
<1>5. ASSUME NEW e \in Enforcers,
             Start(e) \/ Scan(e) \/ Check(e) \/ WriteAnchor(e) \/ Unlink(e) \/ Kill(e)
      PROVE  IInv' /\ (Alone /\ CountInv => CountInv')
  BY <1>5, StartStep, ScanStep, CheckStep, WriteAnchorStep, UnlinkStep
<1> QED
  BY <1>2, <1>3, <1>4, <1>5 DEF Next

\* Sealed segments follow each other without an overlap, what is gone and what pruned.json
\* names are segments from the front beyond the retention period, and a run that has
\* a plan has one of segments in a row (retention.go Enforce, anchor.go).
THEOREM RetentionInvariant == Spec => []IInv
<1>1. Init => IInv
  BY Initially
<1>2. IInv /\ [Next]_vars => IInv'
  BY Step
<1> QED
  BY <1>1, <1>2, PTL DEF Spec

LEMMA TypesSuffice == IInv => TypeOK
<1> SUFFICES ASSUME IInv PROVE TypeOK
  OBVIOUS
<1>1. Newest \in Nat /\ Newest > 0 /\ Sealed = 1 .. Newest - 1 /\ ChainHead \in Nat
  BY Heads DEF IInv, Sealed
<1>2. gone \subseteq 1 .. Newest - 1
  <2>1. \A g \in Sealed : 1 .. g \subseteq 1 .. Newest - 1
    BY <1>1
  <2> QED
    BY <2>1 DEF IInv, PruneInv
<1>3. anchor.present => anchor.seq \in 1 .. ChainHead /\ anchor.segments \subseteq 1 .. Newest - 1
  <2> SUFFICES ASSUME anchor.present
               PROVE  anchor.seq \in 1 .. ChainHead /\ anchor.segments \subseteq 1 .. Newest - 1
    OBVIOUS
  <2>1. PICK s \in Sealed, m \in Sealed : anchor.segments = 1 .. m /\ anchor.seq = ends[s]
    BY DEF IInv, PruneInv
  <2>2. ends[s] >= 1 /\ ends[s] <= ChainHead /\ ends[s] \in Nat
    BY EndsRise, Heads DEF IInv
  <2> QED
    BY <1>1, <2>1, <2>2
<1>4. ASSUME NEW e \in Enforcers
      PROVE  /\ run[e].pc \in {"idle", "scan", "check", "anchor", "unlink"}
             /\ run[e].pc \in Planned => run[e].plan \subseteq 1 .. Newest - 1
  <2>1. ASSUME run[e].pc \in Planned PROVE run[e].plan \subseteq 1 .. Newest - 1
    <3>1. PICK a \in Sealed, b \in Sealed : run[e].plan = a .. b
      BY <2>1 DEF IInv, RunInv
    <3> QED
      BY <1>1, <3>1
  <2> QED
    BY <2>1, RunForms DEF IInv
<1> QED
  BY <1>2, <1>3, <1>4 DEF IInv, Types, TypeOK, Planned

\* Every variable keeps values of its kind; no run, whatever overlaps it, ever plans, names
\* or deletes the segment that is being written (retention.go classify).
THEOREM TypeCorrect == Spec => []TypeOK
BY RetentionInvariant, TypesSuffice, PTL

\* What an interrupted prune left can be finished: the segments that pruned.json names and
\* that are still there are eligible, the anchor does not move back, and the first
\* survivor follows what goes.
LEMMA PruneCanResume == IInv => PruneResumes
<1> SUFFICES ASSUME IInv, Unfinished # {}
             PROVE  /\ Unfinished \subseteq Plan
                    /\ ~Rewinds(Plan)
                    /\ SurvivorLinks([plan |-> Plan, survivors |-> WithRecords(Here \ Plan)])
  BY DEF PruneResumes
<1>1. anchor.present /\ Unfinished = anchor.segments \ gone
  BY DEF Unfinished
<1>2. PICK s \in Sealed, m \in Sealed : s <= m /\ anchor.segments = 1 .. m /\ anchor.seq = ends[s]
  BY <1>1 DEF IInv, PruneInv
<1>3. \A i \in 1 .. m : RecordsOf(i) \cap young = {}
  BY <1>1, <1>2 DEF IInv, PruneInv
<1>4. PICK g \in Nat, c \in 1 .. Newest :
        /\ g < c /\ gone = 1 .. g /\ Here = g + 1 .. Newest
        /\ Plan = g + 1 .. c - 1 /\ ~Eligible(c)
  BY PlanRange DEF IInv
<1>5. /\ Newest \in Nat /\ m \in Nat /\ s \in Nat /\ 1 <= s /\ m < Newest
      /\ s \in 1 .. Newest /\ m \in 1 .. Newest
      /\ \A i \in 1 .. Newest : ends[i] \in Nat
  BY Heads DEF IInv, Sealed
<1>6. m < c
  <2>1. \A i \in 1 .. m : Eligible(i)
    BY <1>3, <1>5 DEF Eligible, BeyondRetention
  <2> QED
    BY <1>4, <1>5, <2>1
<1>7. Unfinished \subseteq Plan
  BY <1>1, <1>2, <1>4, <1>5, <1>6
<1>8. g < m
  <2>1. PICK i \in Unfinished : i \in 1 .. m /\ i \notin 1 .. g
    BY <1>1, <1>2, <1>4
  <2> QED
    BY <1>4, <1>5, <2>1
<1>9. g + 1 \in Sealed /\ c - 1 \in Sealed /\ g + 1 <= c - 1
  BY <1>4, <1>5, <1>6, <1>8 DEF Sealed
<1>10. LastOf(Plan) = ends[c - 1]
  BY <1>4, <1>9, LastOfRow DEF IInv
<1>11. ~Rewinds(Plan)
  <2>1. ends[s] <= ends[c - 1] /\ c - 1 \in 1 .. Newest
    BY <1>2, <1>4, <1>5, <1>6 DEF IInv, LogInv
  <2> QED
    BY <1>2, <1>5, <1>10, <2>1 DEF Rewinds
<1>12. SurvivorLinks([plan |-> Plan, survivors |-> WithRecords(Here \ Plan)])
  <2> DEFINE left == WithRecords(Here \ Plan)
  <2>1. Here \ Plan = c .. Newest
    BY <1>4, <1>5
  <2>2. left = {i \in c .. Newest : RecordsOf(i) # {}}
    BY <2>1 DEF WithRecords
  <2> HIDE DEF left
  <2> DEFINE first == CHOOSE i \in left : \A j \in left : i <= j
  <2>3. ASSUME left # {} PROVE StartOf(first) = ends[c - 1]
    <3>1. RecordsOf(c) # {}
      <4>1. CASE c = Newest
        <5>1. PICK i \in left : i \in c .. Newest /\ RecordsOf(i) # {}
          BY <2>2, <2>3
        <5>2. c .. Newest = {c}
          BY <1>4, <1>5, <4>1
        <5> QED
          BY <5>1, <5>2
      <4>2. CASE c # Newest
        <5>1. c \in Sealed
          BY <1>4, <1>5, <4>2 DEF Sealed
        <5> QED
          BY <5>1, EndsRise DEF IInv
      <4> QED
        BY <4>1, <4>2
    <3>2. c \in left /\ \A j \in left : c <= j
      <4>1. c \in c .. Newest /\ \A j \in c .. Newest : c <= j
        BY <1>4, <1>5
      <4> QED
        BY <2>2, <3>1, <4>1
    <3>3. \A i \in left : (\A j \in left : i <= j) <=> i = c
      <4>1. c .. Newest \subseteq Nat
        BY <1>4, <1>5
      <4>2. left \subseteq Nat
        BY <2>2, <4>1
      <4> QED
        BY <3>2, <4>2
    <3>4. first = c
      BY <3>2, <3>3
    <3>5. c > 1
      BY <1>4, <1>6, <1>5
    <3> QED
      BY <1>4, <3>4, <3>5, Heads DEF IInv
  <2> HIDE DEF first
  <2>4. left # {} => StartOf(first) = LastOf(Plan)
    BY <1>10, <2>3
  <2> QED
    BY <2>4 DEF SurvivorLinks, left, first
<1> QED
  BY <1>7, <1>11, <1>12

\* A prune that was interrupted at any point can be finished by another run, whatever was
\* written since and whatever other runs did (retention.go Enforce, checkAnchorNeverRewinds,
\* checkSurvivorLinks).
THEOREM InterruptedPruneResumes == Spec => []PruneResumes
BY RetentionInvariant, PruneCanResume, PTL

\* Whatever overlaps, only what is beyond the retention period is deleted, and
\* pruned.json names it by then.
DeletedIsNamed ==
  /\ \A i \in gone : RecordsOf(i) \cap young = {}
  /\ gone # {} => anchor.present
  /\ anchor.present => gone \subseteq anchor.segments
LEMMA DeletionsNamed == IInv => DeletedIsNamed
BY DEF IInv, PruneInv, DeletedIsNamed

\* Even of runs that overlap and are killed anywhere: no record inside the retention
\* period is deleted, and no file goes before pruned.json names it (retention.go Enforce
\* writes the anchor before the first os.Remove).
THEOREM DeletionsAreNamed == Spec => []DeletedIsNamed
BY RetentionInvariant, DeletionsNamed, PTL

\* Runs that do not overlap also count right: the anchor is the last record of what
\* pruned.json names, and its count is of every record up to there, once, over
\* any number of interrupted and repeated prunes (retention.go buildAnchor).
THEOREM PrunesAreAccounted ==
  ASSUME Alone
  PROVE  Spec => []PruneAccounted
<1>1. Init => CountInv
  BY Initially
<1>2. IInv /\ CountInv /\ [Next]_vars => CountInv'
  BY Step
<1>3. IInv /\ CountInv => PruneAccounted
  <2> SUFFICES ASSUME IInv, CountInv PROVE PruneAccounted
    OBVIOUS
  <2>1. DeletedIsNamed
    BY DeletionsNamed
  <2>2. anchor.present => anchor.records = anchor.seq
    BY DEF CountInv
  <2> QED
    BY <2>1, <2>2 DEF PruneAccounted, DeletedIsNamed
<1> QED
  BY RetentionInvariant, <1>1, <1>2, <1>3, PTL DEF Spec


\* Nor do they ever move the anchor back: what one checked still holds when it writes
\* (retention.go checkAnchorNeverRewinds).
THEOREM AnchorStaysForward ==
  ASSUME Alone
  PROVE  Spec => AnchorNeverRewinds
<1>1. ASSUME IInv, CountInv, Next, anchor.present
      PROVE  anchor'.seq >= anchor.seq
  <2>1. anchor.seq \in Nat
    BY <1>1, TypesSuffice, Heads DEF TypeOK, IInv
  <2>2. CASE anchor' = anchor
    BY <2>1, <2>2
  <2>3. ASSUME NEW e \in Enforcers, WriteAnchor(e)
        PROVE  anchor'.seq >= anchor.seq
    <3>1. ~Rewinds(run[e].plan) /\ run[e].pc = "anchor"
      BY <1>1, <2>3 DEF WriteAnchor, CountInv
    <3>2. anchor'.seq = LastOf(run[e].plan)
      BY <2>3, BuiltFields DEF WriteAnchor
    <3>3. LastOf(run[e].plan) \in Nat
      <4>1. PICK a \in Sealed, b \in Sealed : a <= b /\ run[e].plan = a .. b
        BY <1>1, <3>1 DEF IInv, RunInv, Planned
      <4> QED
        BY <1>1, <4>1, LastOfRow, Heads, EndsRise DEF IInv, Sealed
    <3> QED
      BY <1>1, <2>1, <3>1, <3>2, <3>3 DEF Rewinds
  <2>4. anchor' = anchor \/ \E e \in Enforcers : WriteAnchor(e)
    BY <1>1 DEF Next, Write, Rotate, Attest, Age, SetHold, Start, Scan, Check, Unlink, Kill,
      ReadAnchor, ReadCheckpoints, ReadSegments, Collect, VerifyForManifest, CopySegment,
      CopyCheckpoints, CopyAnchor, FileGrew, files
  <2> QED
    BY <2>2, <2>3, <2>4
<1>2. IInv /\ CountInv /\ [Next]_vars => [anchor.present => anchor'.seq >= anchor.seq]_vars
  BY <1>1
<1>3. Init => CountInv
  BY Initially
<1>4. IInv /\ CountInv /\ [Next]_vars => CountInv'
  BY Step
<1> QED
  BY RetentionInvariant, <1>2, <1>3, <1>4, PTL DEF Spec, AnchorNeverRewinds

=============================================================================
