------------------------ MODULE ArchiveVerify_proofs ------------------------
(***************************************************************************)
(* Proofs about ArchiveUpload and ArchiveVerify: for any number of         *)
(* records, segments, keys, starts and failing requests, any queue and any *)
(* limits, what is in the archive is what its key says, what a run without *)
(* a failure leaves out is nothing, and archive-verify tells the two from  *)
(* damage.                                                                 *)
(***************************************************************************)
EXTENDS ArchiveVerify, TLAPS

-----------------------------------------------------------------------------
(* Types *)

Pcs == {"down", "up", "rotating", "broken", "stopping timestamps", "stopping archive"}
ObjectKeys ==
  {<<"public">>} \cup ({"segment", "checkpoints", "timestamps", "retired"} \X Nat)
    \cup ({"open"} \X Nat \X Nat)
CheckpointLines == [seq : 1 .. MaxSeq, segment : 1 .. MaxSegs, key : 1 .. MaxKeys]
Jobs == [key : ObjectKeys, phase : {"exists", "put"}, attempt : 1 .. MaxAttempts, body : Nat]

Types ==
  /\ ends \in Seq(0 .. MaxSeq) /\ Newest <= MaxSegs /\ pruned \in Nat
  /\ cks \in Seq(CheckpointLines) /\ stamps \in Nat /\ pub \in 1 .. MaxKeys
  /\ pc \in Pcs /\ ckSeq \in 0 .. MaxSeq
  /\ queue \in Seq(ObjectKeys) /\ Len(queue) <= QueueDepth
  /\ job \in Jobs \cup {NoJob} /\ sent \subseteq ObjectKeys /\ tsq \in Nat
  /\ Stored \subseteq ObjectKeys
  /\ trouble \in BOOLEAN /\ clean \in BOOLEAN /\ starts \in Nat
  /\ failures \in 0 .. MaxFailures

-----------------------------------------------------------------------------
(* The inductive invariant *)

\* How far the store takes the chain as attested; a start takes all of it.
Mark == IF pc = "down" THEN ChainHead ELSE ckSeq

\* The directory: checkpoints follow each other along the chain, the newest
\* segment is never pruned, and a process that is down has nothing under way.
DiskInv ==
  /\ Mark <= ChainHead
  /\ \A i, j \in DOMAIN cks : i < j => cks[i].seq < cks[j].seq
  /\ \A i \in DOMAIN cks : cks[i].seq <= Mark
  /\ pruned <= Newest /\ (Newest > 0 => pruned < Newest)
  /\ stamps + tsq <= MaxStamps
  /\ pc = "down" => queue = <<>> /\ job = NoJob /\ tsq = 0
  /\ pc # "down" => Newest > 0 /\ ~clean
  /\ pc = "broken" => trouble
  /\ pc = "rotating" => Newest < MaxSegs
  /\ pc = "stopping archive" => tsq = 0

\* The numbers of a key name something the directory has, or had.
Named(k) ==
  /\ k[1] \in {"segment", "open"} => k[2] \in 1 .. Newest
  /\ k[1] = "open" => k[3] \in 1 .. ends[k[2]]
  /\ k[1] = "checkpoints" => k[2] \in 1 .. Mark
  /\ k[1] = "timestamps" => k[2] \in 1 .. stamps
  /\ k[1] = "retired" => k[2] \in Retired

\* What an object of content c under the key k may be: never more than the file,
\* and at least what the key says it covers.
Holds(k, c) ==
  /\ c \in Nat \ {0}
  /\ k[1] \in {"segment", "open"} => c <= ends[k[2]]
  /\ k[1] = "open" => k[3] <= c
  /\ k[1] = "checkpoints" =>
       c <= Len(cks) /\ \A j \in DOMAIN cks : cks[j].seq <= k[2] => j <= c
  /\ k[1] = "timestamps" => c \in k[2] .. stamps
  /\ k[1] = "public" => c \in 1 .. pub
  /\ k[1] = "retired" => c = k[2]

Elements(s) == {s[i] : i \in DOMAIN s}
Sending == job # NoJob /\ job.phase = "put"

\* What is offered, under way and in the archive has a name and is what it says;
\* an upload under way is no shorter than what it replaces.
ObjectInv ==
  /\ \A k \in Elements(queue) \cup Stored : Named(k)
  /\ job # NoJob => Named(job.key)
  /\ \A k \in Stored : Holds(k, arch[k])
  /\ Sending => Holds(job.key, job.body) /\ (job.key \in Stored => arch[job.key] <= job.body)
  /\ sent \subseteq Stored

\* Without a rotation that dies, what is offered as a sealed segment is one.
SealedKey(k) == k[1] = "segment" => k[2] < Newest \/ pc = "rotating"
ExactInv ==
  /\ pc # "broken"
  /\ \A k \in Elements(queue) \cup Stored : SealedKey(k)
  /\ job # NoJob => SealedKey(job.key)
  /\ \A k \in Stored : k[1] = "segment" => arch[k] = ends[k[2]]
  /\ Sending => (job.key[1] = "segment" => job.body = ends[job.key[2]])

\* Under way to the archive, or there.
Pending(k) == k \in Stored \/ (job # NoJob /\ job.key = k) \/ k \in Elements(queue)

Stopping == {"stopping timestamps", "stopping archive"}

\* What a run that met no failure still owes the archive is under way.
DueInv ==
  pc # "down" /\ ~trouble =>
    /\ Pending(<<"public">>) /\ \A n \in Retired : Pending(<<"retired", n>>)
    /\ \A i \in Here : i < Newest \/ pc = "rotating" => Pending(<<"segment", i>>)
    /\ pc \in Stopping =>
         /\ ckSeq = ChainHead
         /\ ChainHead > StartOf(Newest) => Pending(<<"open", Newest, ChainHead>>)
         /\ ChainHead > 0 => Pending(<<"checkpoints", ChainHead>>)
    /\ pc = "stopping archive" /\ stamps > 0 => Pending(<<"timestamps", stamps>>)

\* What such a run leaves behind is in the archive.
CleanInv ==
  clean =>
    /\ Newest > 0
    /\ <<"public">> \in Stored /\ \A n \in Retired : <<"retired", n>> \in Stored
    /\ \A i \in Sealed : <<"segment", i>> \in Stored
    /\ ChainHead > StartOf(Newest) => <<"open", Newest, ChainHead>> \in Stored
    /\ ChainHead > 0 => <<"checkpoints", ChainHead>> \in Stored
    /\ stamps > 0 => <<"timestamps", stamps>> \in Stored

IInv == Types /\ DiskInv /\ ObjectInv

-----------------------------------------------------------------------------
(* Keys and queues *)

LEMMA ConstantFacts ==
  /\ MaxSeq \in Nat /\ MaxStarts \in Nat /\ MaxStamps \in Nat /\ MaxFailures \in Nat
  /\ MaxSegs \in Nat \ {0} /\ MaxKeys \in Nat \ {0} /\ QueueDepth \in Nat \ {0}
  /\ MaxAttempts \in Nat \ {0} /\ BufferLimit \in Nat \ {0}
BY ArchiveUploadAssumption

\* The keys of each kind, and what their parts are.
LEMMA KeyForms ==
  /\ <<"public">> \in ObjectKeys /\ <<"public">>[1] = "public"
  /\ \A t \in {"segment", "checkpoints", "timestamps", "retired"}, n \in Nat :
       <<t, n>> \in ObjectKeys /\ <<t, n>>[1] = t /\ <<t, n>>[2] = n
  /\ \A n, m \in Nat :
       /\ <<"open", n, m>> \in ObjectKeys /\ <<"open", n, m>>[1] = "open"
       /\ <<"open", n, m>>[2] = n /\ <<"open", n, m>>[3] = m
BY DEF ObjectKeys

LEMMA KeyKinds ==
  ASSUME NEW k \in ObjectKeys
  PROVE  \/ k = <<"public">>
         \/ \E t \in {"segment", "checkpoints", "timestamps", "retired"}, n \in Nat : k = <<t, n>>
         \/ \E n, m \in Nat : k = <<"open", n, m>>
BY DEF ObjectKeys

LEMMA JobForms ==
  /\ NoJob \notin Jobs
  /\ \A j \in Jobs : /\ j.key \in ObjectKeys /\ j.phase \in {"exists", "put"}
                     /\ j.attempt \in 1 .. MaxAttempts /\ j.body \in Nat
<1>1. \A j \in Jobs : DOMAIN j = {"key", "phase", "attempt", "body"}
  BY DEF Jobs
<1>2. DOMAIN NoJob = {"key"}
  BY DEF NoJob
<1>3. NoJob \notin Jobs
  BY <1>1, <1>2
<1> QED
  BY <1>3 DEF Jobs

\* A list of keys behind a queue holds the elements of both.
LEMMA JoinedElements ==
  ASSUME NEW S, NEW q \in Seq(S), NEW keys \in Seq(S)
  PROVE  /\ q \o keys \in Seq(S) /\ Len(q \o keys) = Len(q) + Len(keys)
         /\ Elements(q \o keys) = Elements(q) \cup Elements(keys)
<1>1. /\ q \o keys \in Seq(S) /\ Len(q \o keys) = Len(q) + Len(keys)
  OBVIOUS
<1>2. ASSUME NEW i \in DOMAIN q PROVE i \in DOMAIN (q \o keys) /\ (q \o keys)[i] = q[i]
  OBVIOUS
<1>3. ASSUME NEW i \in DOMAIN keys
      PROVE  Len(q) + i \in DOMAIN (q \o keys) /\ (q \o keys)[Len(q) + i] = keys[i]
  OBVIOUS
<1>4. ASSUME NEW i \in DOMAIN (q \o keys)
      PROVE  \/ i \in DOMAIN q /\ (q \o keys)[i] = q[i]
             \/ i - Len(q) \in DOMAIN keys /\ (q \o keys)[i] = keys[i - Len(q)]
  OBVIOUS
<1>5. Elements(q \o keys) \subseteq Elements(q) \cup Elements(keys)
  BY <1>4 DEF Elements
<1>6. Elements(q) \subseteq Elements(q \o keys)
  BY <1>2 DEF Elements
<1>7. Elements(keys) \subseteq Elements(q \o keys)
  BY <1>3 DEF Elements
<1> QED
  BY <1>1, <1>5, <1>6, <1>7

\* What an offer leaves in the queue: nothing but what was in it or was offered,
\* and all of that unless something was counted as dropped.
LEMMA Offered ==
  ASSUME NEW q \in Seq(ObjectKeys), NEW keys \in Seq(ObjectKeys), NEW failed \in BOOLEAN,
         Len(q) <= QueueDepth, Offer(keys, q, failed)
  PROVE  /\ queue' \in Seq(ObjectKeys) /\ Len(queue') <= QueueDepth /\ trouble' \in BOOLEAN
         /\ Elements(queue)' \subseteq Elements(q) \cup Elements(keys)
         /\ ~trouble' => ~failed /\ Elements(queue)' = Elements(q) \cup Elements(keys)
<1> DEFINE all == q \o keys
           n == IF Overflow(keys, q) THEN QueueDepth ELSE Len(all)
<1>1. all \in Seq(ObjectKeys) /\ Len(all) = Len(q) + Len(keys)
      /\ Elements(all) = Elements(q) \cup Elements(keys)
  BY JoinedElements
<1>2. queue' = SubSeq(all, 1, n) /\ trouble' = (failed \/ Overflow(keys, q))
  BY DEF Offer
<1>3. n \in Nat /\ n <= Len(all) /\ n <= QueueDepth /\ (~trouble' => n = Len(all))
  <2>1. Len(q) \in Nat /\ Len(keys) \in Nat
    OBVIOUS
  <2>2. CASE Overflow(keys, q)
    <3>1. trouble' /\ n = QueueDepth
      BY <1>2, <2>2
    <3>2. Len(q) + Len(keys) > QueueDepth
      BY <2>2 DEF Overflow
    <3> QED
      BY <3>1, <3>2, <2>1, <1>1, ConstantFacts
  <2>3. CASE ~Overflow(keys, q)
    <3>1. n = Len(all)
      BY <2>3
    <3>2. ~(Len(q) + Len(keys) > QueueDepth)
      BY <2>3 DEF Overflow
    <3> QED
      BY <3>1, <3>2, <2>1, <1>1, ConstantFacts
  <2> QED
    BY <2>2, <2>3
<1>4. trouble' \in BOOLEAN /\ (~trouble' => ~failed)
  BY <1>2 DEF Overflow
<1> HIDE DEF all, n
<1>5. queue' \in Seq(ObjectKeys) /\ Len(queue') = n /\ DOMAIN queue' = 1 .. n
      /\ \A i \in 1 .. n : queue'[i] = all[i]
  BY <1>1, <1>2, <1>3
<1>6. Elements(queue)' = {queue'[i] : i \in DOMAIN queue'}
  BY DEF Elements
<1>7. Elements(queue)' \subseteq Elements(all)
  BY <1>1, <1>3, <1>5, <1>6 DEF Elements
<1>8. n = Len(all) => Elements(all) \subseteq Elements(queue)'
  BY <1>1, <1>5, <1>6 DEF Elements
<1> QED
  BY <1>1, <1>3, <1>4, <1>5, <1>7, <1>8

\* A short list holds what it is written with.
LEMMA ShortLists ==
  /\ <<>> \in Seq(ObjectKeys) /\ Elements(<<>>) = {}
  /\ \A k \in ObjectKeys : <<k>> \in Seq(ObjectKeys) /\ Elements(<<k>>) = {k}
<1>1. \A k : DOMAIN <<k>> = {1} /\ <<k>>[1] = k
  OBVIOUS
<1>2. \A k : Elements(<<k>>) = {k}
  BY <1>1 DEF Elements
<1>3. DOMAIN <<>> = {}
  OBVIOUS
<1>4. Elements(<<>>) = {}
  BY <1>3 DEF Elements
<1> QED
  BY <1>2, <1>4

\* What the lists that are offered hold.
LEMMA AnchorKeys ==
  ASSUME Types
  PROVE  /\ archiveTimestamps \in Seq(ObjectKeys)
         /\ Elements(archiveTimestamps) = IF stamps > 0 THEN {<<"timestamps", stamps>>} ELSE {}
<1>1. stamps \in Nat
  BY DEF Types
<1>2. <<"timestamps", stamps>> \in ObjectKeys
  BY <1>1, KeyForms
<1> QED
  BY <1>2, ShortLists DEF archiveTimestamps

LEMMA CheckpointKeys ==
  ASSUME Types, NEW head \in Nat
  PROVE  /\ archiveCheckpoints(head) \in Seq(ObjectKeys)
         /\ Elements(archiveCheckpoints(head)) =
              (IF head > 0 THEN {<<"checkpoints", head>>} ELSE {})
                \cup (IF stamps > 0 THEN {<<"timestamps", stamps>>} ELSE {})
<1> DEFINE first == IF head > 0 THEN <<<<"checkpoints", head>>>> ELSE <<>>
<1>1. <<"checkpoints", head>> \in ObjectKeys
  BY KeyForms
<1>2. first \in Seq(ObjectKeys)
      /\ Elements(first) = IF head > 0 THEN {<<"checkpoints", head>>} ELSE {}
  BY <1>1, ShortLists
<1>3. archiveCheckpoints(head) = first \o archiveTimestamps
  BY DEF archiveCheckpoints
<1> HIDE DEF first
<1> QED
  BY <1>2, <1>3, AnchorKeys, JoinedElements

LEMMA PublicKeys ==
  ASSUME Types
  PROVE  /\ VerificationKeys \in Seq(ObjectKeys)
         /\ Elements(VerificationKeys) = {<<"public">>} \cup {<<"retired", k>> : k \in Retired}
<1> DEFINE old == [k \in Retired |-> <<"retired", k>>]
           new == <<<<"public">>>>
<1>1. pub - 1 \in Nat /\ Retired = 1 .. pub - 1 /\ Retired \subseteq Nat
  BY ConstantFacts DEF Types, Retired
<1>2. \A k \in Retired : <<"retired", k>> \in ObjectKeys
  BY <1>1, KeyForms
<1>3. old \in Seq(ObjectKeys) /\ DOMAIN old = Retired /\ \A k \in Retired : old[k] = <<"retired", k>>
  BY <1>1, <1>2
<1>4. Elements(old) = {<<"retired", k>> : k \in Retired}
  BY <1>3 DEF Elements
<1>5. new \in Seq(ObjectKeys) /\ Elements(new) = {<<"public">>}
  BY KeyForms, ShortLists
<1>6. VerificationKeys = new \o old
  BY DEF VerificationKeys
<1> HIDE DEF old, new
<1>7. /\ VerificationKeys \in Seq(ObjectKeys)
      /\ Elements(VerificationKeys) = Elements(new) \cup Elements(old)
  BY <1>3, <1>5, <1>6, JoinedElements
<1> QED
  BY <1>4, <1>5, <1>7, Zenon

LEMMA DirectoryFacts ==
  ASSUME DiskInv
  PROVE  /\ Mark <= ChainHead /\ pruned <= Newest /\ (Newest > 0 => pruned < Newest)
         /\ stamps + tsq <= MaxStamps
         /\ \A i \in DOMAIN cks : cks[i].seq <= Mark
         /\ pc # "down" => Newest > 0 /\ ~clean
BY DEF DiskInv

LEMMA SealedKeys ==
  ASSUME Types, DiskInv, NEW head \in Nat
  PROVE  /\ CatchUp(head) \in Seq(ObjectKeys)
         /\ Elements(CatchUp(head)) =
              IF Here = {} THEN {}
              ELSE {<<"segment", i>> : i \in Sealed} \cup Elements(archiveCheckpoints(head))
<1>1. CASE Here = {}
  BY <1>1, ShortLists DEF CatchUp
<1>2. CASE Here # {}
  <2> DEFINE part == SubSeq(SegmentKeys, pruned + 1, Newest - 1)
  <2>1. Newest \in Nat /\ pruned \in Nat /\ Here = {i \in 1 .. Newest : i > pruned}
    BY DEF Types, Newest, Here
  <2>2. Newest > 0 /\ pruned < Newest
    BY <1>2, <2>1, DirectoryFacts
  <2>3. SegmentKeys \in Seq(ObjectKeys) /\ Len(SegmentKeys) = Newest
        /\ \A i \in 1 .. Newest : SegmentKeys[i] = <<"segment", i>>
    BY <2>1, KeyForms DEF SegmentKeys
  <2>4. /\ part \in Seq(ObjectKeys) /\ Len(part) = Newest - 1 - pruned
        /\ \A i \in 1 .. Newest - 1 - pruned : part[i] = SegmentKeys[pruned + i]
    BY <2>1, <2>2, <2>3
  <2>5. \A i \in 1 .. Newest - 1 - pruned : part[i] = <<"segment", pruned + i>>
    BY <2>1, <2>2, <2>3, <2>4
  <2>6. Sealed = pruned + 1 .. Newest - 1
    BY <2>1, <2>2 DEF Sealed
  <2>7. DOMAIN part = 1 .. Newest - 1 - pruned
    BY <2>4, <2>2, <2>1
  <2> HIDE DEF part
  <2>8. Elements(part) = {<<"segment", i>> : i \in Sealed}
    <3>1. ASSUME NEW i \in DOMAIN part PROVE part[i] \in {<<"segment", j>> : j \in Sealed}
      <4>1. pruned + i \in Sealed
        BY <2>1, <2>2, <2>6, <2>7
      <4> QED
        BY <4>1, <2>5, <2>7
    <3>2. ASSUME NEW j \in Sealed PROVE <<"segment", j>> \in Elements(part)
      <4>1. j - pruned \in DOMAIN part /\ pruned + (j - pruned) = j
        BY <2>1, <2>2, <2>6, <2>7
      <4>2. part[j - pruned] = <<"segment", j>>
        BY <4>1, <2>5, <2>7
      <4> QED
        BY <4>1, <4>2 DEF Elements
    <3> QED
      BY <3>1, <3>2 DEF Elements
  <2>9. CatchUp(head) = part \o archiveCheckpoints(head)
    BY <1>2 DEF CatchUp, part
  <2>10. archiveCheckpoints(head) \in Seq(ObjectKeys)
    BY CheckpointKeys
  <2>11. /\ CatchUp(head) \in Seq(ObjectKeys)
         /\ Elements(CatchUp(head)) = Elements(part) \cup Elements(archiveCheckpoints(head))
    BY <2>4, <2>9, <2>10, JoinedElements
  <2> QED
    BY <1>2, <2>8, <2>11, Zenon
<1> QED
  BY <1>1, <1>2

-----------------------------------------------------------------------------
(* The directory *)

LEMMA Heads ==
  ASSUME Types
  PROVE  /\ Newest \in Nat /\ Newest = Len(ends) /\ DOMAIN ends = 1 .. Newest
         /\ ChainHead \in 0 .. MaxSeq /\ (Newest > 0 => ChainHead = ends[Newest])
         /\ Mark \in 0 .. MaxSeq
         /\ Here = {i \in 1 .. Newest : i > pruned} /\ Sealed = Here \ {Newest}
         /\ Here \subseteq 1 .. Newest /\ Here \subseteq Nat
         /\ Retired = 1 .. pub - 1 /\ Retired \subseteq Nat /\ pub \in Nat
<1>1. Newest \in Nat /\ Newest = Len(ends) /\ DOMAIN ends = 1 .. Newest
  BY DEF Types, Newest
<1>2. ChainHead \in 0 .. MaxSeq /\ (Newest > 0 => ChainHead = ends[Newest])
  BY <1>1, ConstantFacts DEF Types, ChainHead
<1>3. Mark \in 0 .. MaxSeq
  BY <1>2 DEF Types, Mark
<1>4. pub \in Nat /\ Retired = 1 .. pub - 1 /\ Retired \subseteq Nat
  BY ConstantFacts DEF Types, Retired
<1> QED
  BY <1>1, <1>2, <1>3, <1>4 DEF Here, Sealed

LEMMA EndsAreNumbers ==
  ASSUME Types
  PROVE  \A i \in 1 .. Newest : ends[i] \in Nat
<1>1. ends \in Seq(0 .. MaxSeq)
  BY DEF Types
<1>2. \A S : \A s \in Seq(S) : \A i \in 1 .. Len(s) : s[i] \in S
  OBVIOUS
<1>3. \A i \in 1 .. Len(ends) : ends[i] \in 0 .. MaxSeq
  BY ONLY <1>1, <1>2, Zenon
<1> QED
  BY <1>3, ConstantFacts DEF Newest

\* With the process up the newest segment is there, and it alone is not sealed.
LEMMA NewestIsHere ==
  ASSUME Types, DiskInv, Newest > 0
  PROVE  Newest \in Here /\ Newest <= MaxSegs
<1>1. Newest \in Nat /\ pruned \in Nat /\ pruned < Newest /\ Here = {i \in 1 .. Newest : i > pruned}
  BY Heads DEF Types, DiskInv
<1>2. Newest <= MaxSegs
  BY DEF Types
<1> QED
  BY <1>1, <1>2

\* A new line continues the order of the checkpoints.
LEMMA LinesFollow ==
  ASSUME NEW lines \in Seq(CheckpointLines), NEW m \in 0 .. MaxSeq, NEW c \in CheckpointLines,
         \A i, j \in DOMAIN lines : i < j => lines[i].seq < lines[j].seq,
         \A i \in DOMAIN lines : lines[i].seq <= m,
         m < c.seq
  PROVE  LET more == Append(lines, c)
         IN  /\ more \in Seq(CheckpointLines)
             /\ \A i, j \in DOMAIN more : i < j => more[i].seq < more[j].seq
             /\ \A i \in DOMAIN more : more[i].seq <= c.seq
<1> DEFINE more == Append(lines, c)
<1>1. /\ more \in Seq(CheckpointLines) /\ DOMAIN lines = 1 .. Len(lines)
      /\ DOMAIN more = 1 .. Len(lines) + 1 /\ Len(lines) \in Nat
      /\ \A i \in 1 .. Len(lines) : more[i] = lines[i]
      /\ more[Len(lines) + 1] = c
  OBVIOUS
<1>2. c.seq \in 1 .. MaxSeq /\ \A i \in DOMAIN lines : lines[i].seq \in 1 .. MaxSeq
  <2>1. \A d \in CheckpointLines : d.seq \in 1 .. MaxSeq
    BY DEF CheckpointLines
  <2>2. \A i \in DOMAIN lines : lines[i] \in CheckpointLines
    OBVIOUS
  <2> QED
    BY <2>1, <2>2
<1> HIDE DEF more
<1>3. \A i, j \in DOMAIN more : i < j => more[i].seq < more[j].seq
  <2> SUFFICES ASSUME NEW i \in DOMAIN more, NEW j \in DOMAIN more, i < j
               PROVE  more[i].seq < more[j].seq
    OBVIOUS
  <2>1. i \in 1 .. Len(lines) /\ more[i] = lines[i]
    BY <1>1
  <2>2. CASE j = Len(lines) + 1
    BY <1>1, <1>2, <2>1, <2>2, ConstantFacts
  <2>3. CASE j # Len(lines) + 1
    BY <1>1, <2>1, <2>3
  <2> QED
    BY <2>2, <2>3
<1>4. \A i \in DOMAIN more : more[i].seq <= c.seq
  <2> SUFFICES ASSUME NEW i \in DOMAIN more PROVE more[i].seq <= c.seq
    OBVIOUS
  <2>1. CASE i = Len(lines) + 1
    BY <1>1, <1>2, <2>1, ConstantFacts
  <2>2. CASE i # Len(lines) + 1
    BY <1>1, <1>2, <2>2, ConstantFacts
  <2> QED
    BY <2>1, <2>2
<1> QED
  BY <1>1, <1>3, <1>4 DEF more

\* What signing the head, or failing to, does to the checkpoint file.
LEMMA Attests ==
  ASSUME Types, DiskInv, pc # "down", NEW ok \in BOOLEAN, Attest(ok)
  PROVE  /\ cks' \in Seq(CheckpointLines) /\ ckSeq' \in 0 .. MaxSeq /\ tsq' \in Nat
         /\ stamps + tsq' <= MaxStamps /\ ckSeq <= ckSeq' /\ ckSeq' <= ChainHead
         /\ ok => ckSeq' = ChainHead
         /\ \A i, j \in DOMAIN cks' : i < j => cks'[i].seq < cks'[j].seq
         /\ \A i \in DOMAIN cks' : cks'[i].seq <= ckSeq'
         /\ cks' = cks \/ \E c \in CheckpointLines : cks' = Append(cks, c) /\ Mark < c.seq
<1>1. Mark = ckSeq /\ ckSeq <= ChainHead /\ ckSeq \in 0 .. MaxSeq /\ ChainHead \in 0 .. MaxSeq
      /\ stamps \in Nat /\ tsq \in Nat /\ stamps + tsq <= MaxStamps
  BY Heads DEF DiskInv, Mark, Types
<1>2. CASE ok /\ ckSeq < ChainHead
  <2> DEFINE c == [seq |-> ChainHead, segment |-> Newest, key |-> pub]
  <2>1. Newest \in 1 .. MaxSegs
    <3>1. Newest > 0
      BY DEF DiskInv
    <3> QED
      BY <3>1, NewestIsHere, Heads
  <2>2. c \in CheckpointLines /\ c.seq = ChainHead
    BY <1>1, <1>2, <2>1 DEF CheckpointLines, Types
  <2>3. cks' = Append(cks, c) /\ ckSeq' = ChainHead /\ maybeTimestamp
    BY <1>2 DEF Attest
  <2>4. tsq' \in Nat /\ stamps + tsq' <= MaxStamps
    <3>1. \/ tsq' = tsq
          \/ stamps + tsq < MaxStamps /\ tsq' = tsq + 1
      BY <2>3 DEF maybeTimestamp
    <3> QED
      BY <3>1, <1>1, ConstantFacts
  <2> HIDE DEF c
  <2>5. /\ cks' \in Seq(CheckpointLines)
        /\ \A i, j \in DOMAIN cks' : i < j => cks'[i].seq < cks'[j].seq
        /\ \A i \in DOMAIN cks' : cks'[i].seq <= ckSeq'
    <3>1. cks \in Seq(CheckpointLines) /\ ckSeq \in 0 .. MaxSeq /\ ckSeq < c.seq
      BY <1>1, <1>2, <2>2 DEF Types
    <3>2. /\ \A i, j \in DOMAIN cks : i < j => cks[i].seq < cks[j].seq
          /\ \A i \in DOMAIN cks : cks[i].seq <= ckSeq
      BY <1>1 DEF DiskInv
    <3> QED
      BY <2>2, <2>3, <3>1, <3>2, LinesFollow
  <2> QED
    BY <1>1, <1>2, <2>2, <2>3, <2>4, <2>5, SMTT(30)
<1>3. CASE ~(ok /\ ckSeq < ChainHead)
  <2>1. cks' = cks /\ ckSeq' = ckSeq /\ tsq' = tsq
    BY <1>3 DEF Attest
  <2>2. /\ \A i, j \in DOMAIN cks : i < j => cks[i].seq < cks[j].seq
        /\ \A i \in DOMAIN cks : cks[i].seq <= ckSeq
    BY <1>1 DEF DiskInv
  <2>3. cks \in Seq(CheckpointLines)
    BY DEF Types
  <2>4. ok => ckSeq = ChainHead
    BY <1>1, <1>3
  <2> QED
    BY <1>1, <2>1, <2>2, <2>3, <2>4
<1> QED
  BY <1>2, <1>3

-----------------------------------------------------------------------------
(* Files only grow *)

LineAdded ==
  cks' = cks \/ \E c \in CheckpointLines : cks' = Append(cks, c) /\ Mark < c.seq
Grows ==
  /\ Newest <= Newest' /\ \A i \in 1 .. Newest : ends[i] <= ends'[i]
  /\ Mark <= Mark' /\ stamps <= stamps' /\ pub <= pub'
  /\ LineAdded

\* A file read as it stands is what its key says, and no shorter than any object
\* that is.
LEMMA FileHolds ==
  ASSUME Types, DiskInv, NEW k \in ObjectKeys, Named(k), FileOf(k) # 0
  PROVE  /\ Holds(k, FileOf(k))
         /\ \A c : Holds(k, c) => c <= FileOf(k)
<1>1. /\ Len(cks) \in Nat /\ DOMAIN cks = 1 .. Len(cks) /\ stamps \in Nat
      /\ Newest \in Nat /\ pub \in Nat \ {0} /\ ends \in Seq(0 .. MaxSeq)
  BY Heads, ConstantFacts DEF Types
<1>2. CASE k = <<"public">>
  <2>1. k[1] = "public"
    BY <1>2, KeyForms
  <2>2. FileOf(k) = pub
    BY <2>1 DEF FileOf
  <2> QED
    BY <1>1, <2>1, <2>2 DEF Holds
<1>3. ASSUME NEW n \in Nat, k = <<"segment", n>>
      PROVE  Holds(k, FileOf(k)) /\ \A c : Holds(k, c) => c <= FileOf(k)
  <2>1. k[1] = "segment" /\ k[2] = n
    BY <1>3, KeyForms
  <2>2. n \in Here /\ FileOf(k) = ends[n]
    BY <1>3, <2>1 DEF FileOf
  <2>3. ends[n] \in Nat /\ ends[n] # 0
    BY <1>1, <1>3, <2>2, Heads, ConstantFacts
  <2> QED
    BY <2>1, <2>2, <2>3 DEF Holds
<1>4. ASSUME NEW n \in Nat, NEW m \in Nat, k = <<"open", n, m>>
      PROVE  Holds(k, FileOf(k)) /\ \A c : Holds(k, c) => c <= FileOf(k)
  <2>1. k[1] = "open" /\ k[2] = n /\ k[3] = m
    BY <1>4, KeyForms
  <2>2. n \in Here /\ FileOf(k) = ends[n]
    BY <1>4, <2>1 DEF FileOf
  <2>3. ends[n] \in Nat /\ ends[n] # 0
    BY <1>1, <1>4, <2>2, Heads, ConstantFacts
  <2>4. m <= ends[n]
    BY <2>1 DEF Named
  <2> QED
    BY <2>1, <2>2, <2>3, <2>4 DEF Holds
<1>5. ASSUME NEW n \in Nat, k = <<"checkpoints", n>>
      PROVE  Holds(k, FileOf(k)) /\ \A c : Holds(k, c) => c <= FileOf(k)
  <2>1. k[1] = "checkpoints" /\ k[2] = n
    BY <1>5, KeyForms
  <2>2. FileOf(k) = Len(cks)
    BY <2>1 DEF FileOf
  <2> QED
    BY <1>1, <2>1, <2>2 DEF Holds
<1>6. ASSUME NEW n \in Nat, k = <<"timestamps", n>>
      PROVE  Holds(k, FileOf(k)) /\ \A c : Holds(k, c) => c <= FileOf(k)
  <2>1. k[1] = "timestamps" /\ k[2] = n
    BY <1>6, KeyForms
  <2>2. FileOf(k) = stamps /\ n <= stamps
    BY <2>1, <1>1 DEF FileOf, Named
  <2> QED
    BY <1>1, <2>1, <2>2 DEF Holds
<1>7. ASSUME NEW n \in Nat, k = <<"retired", n>>
      PROVE  Holds(k, FileOf(k)) /\ \A c : Holds(k, c) => c <= FileOf(k)
  <2>1. k[1] = "retired" /\ k[2] = n
    BY <1>7, KeyForms
  <2>2. FileOf(k) = n
    BY <2>1 DEF FileOf
  <2> QED
    BY <2>1, <2>2 DEF Holds
<1> QED
  BY <1>2, <1>3, <1>4, <1>5, <1>6, <1>7, KeyKinds

LEMMA NoLonger ==
  \A n \in Nat : n <= n
OBVIOUS

LEMMA LongerRange ==
  \A a, b \in Nat : a <= b => 1 .. a - 1 \subseteq 1 .. b - 1
OBVIOUS

\* A name stays a name, and an object what its key says, while files grow.
LEMMA GrowthKeeps ==
  ASSUME Types, Types', DiskInv, Grows, NEW k \in ObjectKeys, Named(k)
  PROVE  /\ Named(k)'
         /\ \A c : Holds(k, c) => Holds(k, c)'
<1>1. /\ Newest \in Nat /\ Newest' \in Nat /\ ends \in Seq(0 .. MaxSeq) /\ ends' \in Seq(0 .. MaxSeq)
      /\ Mark \in Nat /\ Mark' \in Nat /\ stamps \in Nat /\ stamps' \in Nat
      /\ pub \in Nat /\ pub' \in Nat /\ Newest = Len(ends) /\ Newest' = Len(ends')
  <2>1. Newest \in Nat /\ ends \in Seq(0 .. MaxSeq) /\ Mark \in Nat /\ stamps \in Nat /\ pub \in Nat
        /\ Newest = Len(ends)
    <3>1. ends \in Seq(0 .. MaxSeq) /\ stamps \in Nat
      BY DEF Types
    <3>2. Mark \in Nat
      BY Heads, ConstantFacts
    <3> QED
      BY <3>1, <3>2, Heads
  <2>2. Newest' = Len(ends') /\ ends' \in Seq(0 .. MaxSeq) /\ stamps' \in Nat /\ pub' \in Nat
    BY ConstantFacts DEF Types, Newest
  <2>3. ChainHead' \in 0 .. MaxSeq
    <3>1. ChainHead' = IF ends' = <<>> THEN 0 ELSE ends'[Len(ends')]
      BY DEF ChainHead, Newest
    <3> QED
      BY <3>1, <2>2, ConstantFacts
  <2>4. Mark' \in 0 .. MaxSeq
    BY <2>3 DEF Mark, Types
  <2> QED
    BY <2>1, <2>2, <2>4, ConstantFacts
<1>2. /\ Newest <= Newest' /\ \A i \in 1 .. Newest : ends[i] <= ends'[i]
      /\ \A i \in 1 .. Newest : ends[i] \in Nat
      /\ \A i \in 1 .. Newest' : ends'[i] \in Nat
      /\ Mark <= Mark' /\ stamps <= stamps' /\ pub <= pub'
  <2>1. \A i \in 1 .. Newest : ends[i] \in Nat
    BY <1>1, ConstantFacts
  <2>2. \A i \in 1 .. Newest' : ends'[i] \in Nat
    BY <1>1, ConstantFacts
  <2> QED
    BY <2>1, <2>2 DEF Grows
<1>3. CASE k = <<"public">>
  <2>1. k[1] = "public"
    BY <1>3, KeyForms
  <2> QED
    BY <1>1, <1>2, <2>1 DEF Named, Holds
<1>4. ASSUME NEW n \in Nat, k = <<"segment", n>>
      PROVE  Named(k)' /\ \A c : Holds(k, c) => Holds(k, c)'
  <2>1. k[1] = "segment" /\ k[2] = n
    BY <1>4, KeyForms
  <2>2. n \in 1 .. Newest
    BY <2>1 DEF Named
  <2> QED
    BY <1>1, <1>2, <2>1, <2>2 DEF Named, Holds
<1>5. ASSUME NEW n \in Nat, NEW m \in Nat, k = <<"open", n, m>>
      PROVE  Named(k)' /\ \A c : Holds(k, c) => Holds(k, c)'
  <2>1. k[1] = "open" /\ k[2] = n /\ k[3] = m
    BY <1>5, KeyForms
  <2>2. n \in 1 .. Newest /\ m \in 1 .. ends[n]
    BY <2>1 DEF Named
  <2> QED
    BY <1>1, <1>2, <2>1, <2>2, SMTT(30) DEF Named, Holds
<1>6. ASSUME NEW n \in Nat, k = <<"checkpoints", n>>
      PROVE  Named(k)' /\ \A c : Holds(k, c) => Holds(k, c)'
  <2>1. k[1] = "checkpoints" /\ k[2] = n
    BY <1>6, KeyForms
  <2>2. n \in 1 .. Mark
    BY <2>1 DEF Named
  <2>3. Named(k)'
    BY <1>1, <1>2, <2>1, <2>2 DEF Named
  <2>4. /\ cks \in Seq(CheckpointLines) /\ Len(cks) \in Nat /\ DOMAIN cks = 1 .. Len(cks)
        /\ \A i \in DOMAIN cks : cks[i].seq \in 1 .. MaxSeq
    <3>1. cks \in Seq(CheckpointLines)
      BY DEF Types
    <3>2. \A d \in CheckpointLines : d.seq \in 1 .. MaxSeq
      BY DEF CheckpointLines
    <3> QED
      BY <3>1, <3>2
  <2>5. ASSUME NEW c, Holds(k, c) PROVE Holds(k, c)'
    <3>1. c \in Nat \ {0} /\ c <= Len(cks) /\ \A j \in DOMAIN cks : cks[j].seq <= n => j <= c
      BY <2>1, <2>5 DEF Holds
    <3>2. c <= Len(cks') /\ \A j \in DOMAIN cks' : cks'[j].seq <= n => j <= c
      <4>1. CASE cks' = cks
        BY <4>1, <3>1
      <4>2. ASSUME NEW d \in CheckpointLines, cks' = Append(cks, d), Mark < d.seq
            PROVE  c <= Len(cks') /\ \A j \in DOMAIN cks' : cks'[j].seq <= n => j <= c
        <5>1. /\ Len(cks') = Len(cks) + 1 /\ DOMAIN cks' = 1 .. Len(cks) + 1
              /\ \A j \in DOMAIN cks : cks'[j] = cks[j]
              /\ cks'[Len(cks) + 1] = d
          BY <2>4, <4>2
        <5>2. d.seq \in Nat /\ n < d.seq
          BY <1>1, <2>2, <4>2, ConstantFacts, SMTT(30) DEF CheckpointLines
        <5>3. ASSUME NEW j \in DOMAIN cks', cks'[j].seq <= n PROVE j <= c
          <6>1. j # Len(cks) + 1
            BY <5>1, <5>2, <5>3
          <6>2. j \in DOMAIN cks
            BY <5>1, <6>1, <2>4
          <6> QED
            BY <3>1, <5>1, <5>3, <6>2
        <5> QED
          BY <5>1, <5>3, <3>1, <2>4
      <4> QED
        BY <4>1, <4>2 DEF Grows, LineAdded
    <3> QED
      BY <2>1, <3>1, <3>2 DEF Holds
  <2> QED
    BY <2>3, <2>5
<1>7. ASSUME NEW n \in Nat, k = <<"timestamps", n>>
      PROVE  Named(k)' /\ \A c : Holds(k, c) => Holds(k, c)'
  <2>1. k[1] = "timestamps" /\ k[2] = n
    BY <1>7, KeyForms
  <2> QED
    BY <1>1, <1>2, <2>1 DEF Named, Holds
<1>8. ASSUME NEW n \in Nat, k = <<"retired", n>>
      PROVE  Named(k)' /\ \A c : Holds(k, c) => Holds(k, c)'
  <2>1. k[1] = "retired" /\ k[2] = n
    BY <1>8, KeyForms
  <2>2. n \in 1 .. pub - 1
    BY <2>1 DEF Named, Retired
  <2>3. n \in 1 .. pub' - 1
    <3>1. pub \in Nat /\ pub' \in Nat /\ pub <= pub'
      BY <1>1, <1>2
    <3> QED
      BY <3>1, <2>2, LongerRange
  <2>4. Named(k)'
    BY <2>1, <2>3 DEF Named, Retired
  <2>5. \A c : Holds(k, c) => Holds(k, c)'
    BY <2>1 DEF Holds
  <2> QED
    BY <2>4, <2>5
<1> QED
  BY <1>3, <1>4, <1>5, <1>6, <1>7, <1>8, KeyKinds

-----------------------------------------------------------------------------
(* The steps: types, the directory, and that files only grow *)

LEMMA SameSegments ==
  ASSUME Types, ends' = ends
  PROVE  /\ ends' \in Seq(0 .. MaxSeq) /\ Newest' = Newest /\ ChainHead' = ChainHead
         /\ Newest' <= MaxSegs
         /\ Newest <= Newest' /\ \A i \in 1 .. Newest : ends[i] <= ends'[i]
<1>1. /\ ends' \in Seq(0 .. MaxSeq) /\ Newest' = Newest /\ ChainHead' = ChainHead
      /\ Newest' <= MaxSegs
  BY DEF Types, Newest, ChainHead
<1>2. \A i \in 1 .. Newest : ends[i] \in Nat
  BY EndsAreNumbers
<1> QED
  BY <1>1, <1>2, Heads

LEMMA SegmentAdded ==
  ASSUME Types, Newest < MaxSegs, ends' = Append(ends, ChainHead)
  PROVE  /\ ends' \in Seq(0 .. MaxSeq) /\ Newest' = Newest + 1 /\ ChainHead' = ChainHead
         /\ Newest' <= MaxSegs
         /\ Newest <= Newest' /\ \A i \in 1 .. Newest : ends[i] = ends'[i] /\ ends[i] <= ends'[i]
<1>1. /\ ends \in Seq(0 .. MaxSeq) /\ Newest = Len(ends) /\ Newest \in Nat
      /\ ChainHead \in 0 .. MaxSeq
  BY Heads DEF Types
<1>2. ends' \in Seq(0 .. MaxSeq) /\ Len(ends') = Newest + 1
      /\ ends'[Newest + 1] = ChainHead /\ \A i \in 1 .. Newest : ends[i] = ends'[i]
  BY <1>1
<1>3. Newest' = Newest + 1
  BY <1>2 DEF Newest
<1>4. ChainHead' = IF ends' = <<>> THEN 0 ELSE ends'[Newest']
  BY DEF ChainHead
<1>5. ends' # <<>>
  BY <1>1, <1>2
<1>6. \A i \in 1 .. Newest : ends[i] \in Nat
  BY <1>1, ConstantFacts
<1> QED
  BY <1>1, <1>2, <1>3, <1>4, <1>5, <1>6, ConstantFacts

LEMMA RecordAdded ==
  ASSUME Types, Newest > 0, ChainHead < MaxSeq, ends' = [ends EXCEPT ![Newest] = @ + 1]
  PROVE  /\ ends' \in Seq(0 .. MaxSeq) /\ Newest' = Newest /\ ChainHead' = ChainHead + 1
         /\ Newest' <= MaxSegs
         /\ Newest <= Newest' /\ \A i \in 1 .. Newest : ends[i] <= ends'[i]
         /\ \A i \in 1 .. Newest : i # Newest => ends[i] = ends'[i]
<1>1. /\ ends \in Seq(0 .. MaxSeq) /\ Newest = Len(ends) /\ Newest \in Nat /\ Newest <= MaxSegs
      /\ ChainHead \in 0 .. MaxSeq /\ ChainHead = ends[Newest]
  BY Heads DEF Types
<1>2. ends' \in Seq(0 .. MaxSeq) /\ Len(ends') = Newest
      /\ ends'[Newest] = ChainHead + 1 /\ \A i \in 1 .. Newest : i # Newest => ends[i] = ends'[i]
  BY <1>1, ConstantFacts
<1>3. Newest' = Newest
  BY <1>2 DEF Newest
<1>4. ChainHead' = IF ends' = <<>> THEN 0 ELSE ends'[Newest']
  BY DEF ChainHead
<1>5. ends' # <<>>
  BY <1>1, <1>2
<1>6. \A i \in 1 .. Newest : ends[i] \in Nat
  BY <1>1, ConstantFacts
<1> QED
  BY <1>1, <1>2, <1>3, <1>4, <1>5, <1>6, ConstantFacts

\* Nothing but the steps that sign disturbs what the checkpoints say of the chain,
\* as long as what is taken for attested does not fall.
LEMMA LinesStay ==
  ASSUME Types, DiskInv, cks' = cks, Mark' \in Nat, Mark <= Mark'
  PROVE  /\ cks' \in Seq(CheckpointLines) /\ LineAdded
         /\ \A i, j \in DOMAIN cks' : i < j => cks'[i].seq < cks'[j].seq
         /\ \A i \in DOMAIN cks' : cks'[i].seq <= Mark'
<1>1. cks \in Seq(CheckpointLines) /\ Mark \in Nat
  BY Heads, ConstantFacts DEF Types
<1>2. \A i \in DOMAIN cks : cks[i].seq \in Nat
  <2>1. \A d \in CheckpointLines : d.seq \in Nat
    BY ConstantFacts DEF CheckpointLines
  <2> QED
    BY <1>1, <2>1
<1>3. \A i \in DOMAIN cks : cks[i].seq <= Mark'
  BY <1>1, <1>2, DirectoryFacts
<1>4. \A i, j \in DOMAIN cks : i < j => cks[i].seq < cks[j].seq
  BY DEF DiskInv
<1> QED
  BY <1>1, <1>3, <1>4 DEF LineAdded

LEMMA OpenStep ==
  ASSUME Types, DiskInv, Open
  PROVE  Types' /\ DiskInv' /\ Grows
<1>1. pc = "down" /\ pc' = "up" /\ ckSeq' = ChainHead /\ starts < MaxStarts /\ starts' = starts + 1
      /\ ends' = (IF Here = {} THEN Append(ends, ChainHead) ELSE ends)
      /\ job' = NoJob /\ sent' = {} /\ tsq' = 0 /\ clean' = FALSE
      /\ pruned' = pruned /\ cks' = cks /\ stamps' = stamps /\ pub' = pub /\ arch' = arch
      /\ failures' = failures
      /\ Offer(VerificationKeys \o CatchUp(ChainHead), <<>>, FALSE)
  BY DEF Open
<1>2. /\ ends' \in Seq(0 .. MaxSeq) /\ Newest' <= MaxSegs /\ ChainHead' = ChainHead
      /\ Newest <= Newest' /\ \A i \in 1 .. Newest : ends[i] <= ends'[i]
      /\ Newest' \in Nat /\ Newest' > 0 /\ pruned < Newest'
  <2>1. CASE Here = {}
    <3>1. Newest = 0 /\ pruned = 0
      <4>1. pruned \in Nat
        BY DEF Types
      <4> QED
        BY <4>1, <2>1, NewestIsHere, Heads, DirectoryFacts
    <3> QED
      BY <3>1, <2>1, <1>1, SegmentAdded, ConstantFacts
  <2>2. CASE Here # {}
    <3>1. Newest \in Nat /\ Newest > 0 /\ pruned < Newest
      BY <2>2, Heads, DirectoryFacts
    <3> QED
      BY <3>1, <2>2, <1>1, SameSegments
  <2> QED
    BY <2>1, <2>2
<1>3. Mark = ChainHead /\ Mark' = ChainHead /\ ChainHead \in 0 .. MaxSeq /\ ChainHead \in Nat
  BY <1>1, Heads, ConstantFacts DEF Mark
<1>4. /\ cks' \in Seq(CheckpointLines) /\ LineAdded
      /\ \A i, j \in DOMAIN cks' : i < j => cks'[i].seq < cks'[j].seq
      /\ \A i \in DOMAIN cks' : cks'[i].seq <= Mark'
  BY <1>1, <1>3, LinesStay
<1>5. queue' \in Seq(ObjectKeys) /\ Len(queue') <= QueueDepth /\ trouble' \in BOOLEAN
  <2> DEFINE keys == VerificationKeys \o CatchUp(ChainHead)
  <2>1. VerificationKeys \in Seq(ObjectKeys) /\ CatchUp(ChainHead) \in Seq(ObjectKeys)
    BY PublicKeys, SealedKeys, <1>3
  <2>2. keys \in Seq(ObjectKeys)
    BY <2>1, JoinedElements
  <2>3. Offer(keys, <<>>, FALSE)
    BY <1>1
  <2>4. <<>> \in Seq(ObjectKeys) /\ Len(<<>>) <= QueueDepth
    BY ShortLists, ConstantFacts
  <2> HIDE DEF keys
  <2> QED
    BY <2>2, <2>3, <2>4, Offered
<1>6. Types'
  <2>1. /\ pruned' \in Nat /\ stamps' \in Nat /\ pub' \in 1 .. MaxKeys /\ starts' \in Nat
        /\ Stored' \subseteq ObjectKeys /\ failures' \in 0 .. MaxFailures
    BY <1>1 DEF Types, Stored
  <2>2. /\ pc' \in Pcs /\ ckSeq' \in 0 .. MaxSeq /\ job' \in Jobs \cup {NoJob}
        /\ sent' \subseteq ObjectKeys /\ tsq' \in Nat /\ clean' \in BOOLEAN
    BY <1>1, <1>3 DEF Pcs
  <2> QED
    BY <1>2, <1>4, <1>5, <2>1, <2>2 DEF Types
<1>7. DiskInv'
  <2>1. stamps \in Nat /\ stamps + tsq <= MaxStamps /\ tsq \in Nat /\ pruned \in Nat
    BY DEF Types, DiskInv
  <2>2. Mark' <= ChainHead'
    BY <1>1, <1>2, <1>3
  <2>3. stamps' + tsq' <= MaxStamps
    BY <1>1, <2>1, ConstantFacts
  <2>4. pruned' <= Newest' /\ pruned' < Newest'
    BY <1>1, <1>2, <2>1
  <2> QED
    BY <1>1, <1>2, <1>4, <2>2, <2>3, <2>4 DEF DiskInv
<1>8. Grows
  <2>1. stamps <= stamps' /\ pub <= pub' /\ Mark <= Mark'
    BY <1>1, <1>3, Heads DEF Types
  <2> QED
    BY <1>2, <1>4, <2>1 DEF Grows
<1> QED
  BY <1>6, <1>7, <1>8

LEMMA WriteStep ==
  ASSUME Types, DiskInv, Write
  PROVE  Types' /\ DiskInv' /\ Grows
<1>1. /\ pc = "up" /\ ChainHead < MaxSeq /\ ends' = [ends EXCEPT ![Newest] = @ + 1]
      /\ pruned' = pruned /\ cks' = cks /\ stamps' = stamps /\ pub' = pub /\ pc' = pc
      /\ ckSeq' = ckSeq /\ queue' = queue /\ job' = job /\ sent' = sent /\ tsq' = tsq
      /\ arch' = arch /\ trouble' = trouble /\ clean' = clean /\ starts' = starts
      /\ failures' = failures
  BY DEF Write, worker
<1>2. Newest > 0 /\ ~clean
  BY <1>1 DEF DiskInv
<1>3. /\ ends' \in Seq(0 .. MaxSeq) /\ Newest' = Newest /\ ChainHead' = ChainHead + 1
      /\ Newest' <= MaxSegs
      /\ Newest <= Newest' /\ \A i \in 1 .. Newest : ends[i] <= ends'[i]
  BY <1>1, <1>2, RecordAdded
<1>4. Mark = ckSeq /\ Mark' = ckSeq /\ ckSeq \in 0 .. MaxSeq /\ ckSeq \in Nat /\ ChainHead \in Nat
  BY <1>1, Heads, ConstantFacts DEF Mark, Types
<1>5. /\ cks' \in Seq(CheckpointLines) /\ LineAdded
      /\ \A i, j \in DOMAIN cks' : i < j => cks'[i].seq < cks'[j].seq
      /\ \A i \in DOMAIN cks' : cks'[i].seq <= Mark'
  BY <1>1, <1>4, LinesStay
<1>6. Types'
  BY <1>1, <1>3, <1>5 DEF Types, Stored
<1>7. DiskInv'
  <2>1. Mark' <= ChainHead'
    BY <1>3, <1>4, DirectoryFacts
  <2>2. /\ pruned' <= Newest' /\ (Newest' > 0 => pruned' < Newest') /\ Newest' > 0
        /\ stamps' + tsq' <= MaxStamps /\ ~clean'
    BY <1>1, <1>2, <1>3 DEF DiskInv
  <2> QED
    BY <1>1, <1>5, <2>1, <2>2 DEF DiskInv
<1>8. Grows
  <2>1. stamps <= stamps' /\ pub <= pub' /\ Mark <= Mark'
    BY <1>1, <1>4, Heads DEF Types
  <2> QED
    BY <1>3, <1>5, <2>1 DEF Grows
<1> QED
  BY <1>6, <1>7, <1>8

\* The steps that sign: what they leave is the directory's, whatever they offer.
LEMMA SigningStep ==
  ASSUME Types, DiskInv, pc # "down", pc' # "down", pc' \in Pcs, NEW ok \in BOOLEAN, Attest(ok),
         ends' = ends, pruned' = pruned, stamps' = stamps, pub' = pub, job' = job, sent' = sent,
         arch' = arch, clean' = clean, starts' = starts, failures' = failures,
         queue' \in Seq(ObjectKeys), Len(queue') <= QueueDepth, trouble' \in BOOLEAN,
         pc' = "broken" => trouble', pc' = "rotating" => Newest < MaxSegs,
         pc' # "stopping archive"
  PROVE  Types' /\ DiskInv' /\ Grows
<1>1. Mark = ckSeq /\ Mark' = ckSeq' /\ Newest > 0 /\ ~clean
  BY DEF Mark, DiskInv
<1>2. /\ ends' \in Seq(0 .. MaxSeq) /\ Newest' = Newest /\ ChainHead' = ChainHead
      /\ Newest' <= MaxSegs
      /\ Newest <= Newest' /\ \A i \in 1 .. Newest : ends[i] <= ends'[i]
  BY SameSegments
<1>3. /\ cks' \in Seq(CheckpointLines) /\ ckSeq' \in 0 .. MaxSeq /\ tsq' \in Nat
      /\ stamps + tsq' <= MaxStamps /\ ckSeq <= ckSeq' /\ ckSeq' <= ChainHead
      /\ \A i, j \in DOMAIN cks' : i < j => cks'[i].seq < cks'[j].seq
      /\ \A i \in DOMAIN cks' : cks'[i].seq <= ckSeq'
      /\ LineAdded
  BY Attests DEF LineAdded
<1>4. Types'
  <2>1. /\ pruned' \in Nat /\ stamps' \in Nat /\ pub' \in 1 .. MaxKeys /\ starts' \in Nat
        /\ Stored' \subseteq ObjectKeys /\ failures' \in 0 .. MaxFailures
        /\ job' \in Jobs \cup {NoJob} /\ sent' \subseteq ObjectKeys /\ clean' \in BOOLEAN
    BY DEF Types, Stored
  <2> QED
    BY <1>2, <1>3, <2>1 DEF Types
<1>5. DiskInv'
  <2>1. /\ pruned' <= Newest' /\ (Newest' > 0 => pruned' < Newest') /\ Newest' > 0 /\ ~clean'
    BY <1>1, <1>2 DEF DiskInv
  <2> QED
    BY <1>1, <1>2, <1>3, <2>1 DEF DiskInv
<1>6. Grows
  <2>1. stamps \in Nat /\ pub \in Nat
    BY Heads DEF Types
  <2>2. Mark <= Mark'
    BY <1>1, <1>3
  <2>3. stamps <= stamps' /\ pub <= pub'
    <3>1. stamps <= stamps /\ pub <= pub
      BY <2>1, NoLonger, Zenon
    <3> QED
      BY <3>1, Zenon
  <2> QED
    BY <1>2, <1>3, <2>2, <2>3 DEF Grows
<1> QED
  BY <1>4, <1>5, <1>6

\* What a sealed segment offers, and what the store offers when it stops.
SealOffer(head) == <<<<"segment", Newest>>>> \o archiveCheckpoints(head)
StopOffer(head) ==
  (IF ChainHead > StartOf(Newest) THEN <<<<"open", Newest, ChainHead>>>> ELSE <<>>)
    \o archiveCheckpoints(head) \o VerificationKeys

LEMMA SealOffers ==
  ASSUME Types, NEW head \in Nat
  PROVE  /\ SealOffer(head) \in Seq(ObjectKeys)
         /\ Elements(SealOffer(head)) =
              {<<"segment", Newest>>} \cup Elements(archiveCheckpoints(head))
<1> DEFINE new == <<<<"segment", Newest>>>>
<1>1. new \in Seq(ObjectKeys) /\ Elements(new) = {<<"segment", Newest>>}
  BY Heads, KeyForms, ShortLists
<1>2. archiveCheckpoints(head) \in Seq(ObjectKeys)
  BY CheckpointKeys
<1>3. SealOffer(head) = new \o archiveCheckpoints(head)
  BY DEF SealOffer
<1> HIDE DEF new
<1>4. /\ SealOffer(head) \in Seq(ObjectKeys)
      /\ Elements(SealOffer(head)) = Elements(new) \cup Elements(archiveCheckpoints(head))
  BY <1>1, <1>2, <1>3, JoinedElements
<1> QED
  BY <1>1, <1>4, Zenon

LEMMA StopOffers ==
  ASSUME Types, NEW head \in Nat
  PROVE  /\ StopOffer(head) \in Seq(ObjectKeys)
         /\ Elements(StopOffer(head)) =
              (IF ChainHead > StartOf(Newest) THEN {<<"open", Newest, ChainHead>>} ELSE {})
                \cup Elements(archiveCheckpoints(head)) \cup Elements(VerificationKeys)
<1> DEFINE new == IF ChainHead > StartOf(Newest) THEN <<<<"open", Newest, ChainHead>>>> ELSE <<>>
           more == new \o archiveCheckpoints(head)
<1>1. <<"open", Newest, ChainHead>> \in ObjectKeys
  BY Heads, KeyForms, ConstantFacts
<1>2. /\ new \in Seq(ObjectKeys)
      /\ Elements(new) = IF ChainHead > StartOf(Newest) THEN {<<"open", Newest, ChainHead>>} ELSE {}
  BY <1>1, ShortLists
<1>3. archiveCheckpoints(head) \in Seq(ObjectKeys) /\ VerificationKeys \in Seq(ObjectKeys)
  BY CheckpointKeys, PublicKeys
<1>4. StopOffer(head) = more \o VerificationKeys
  BY DEF StopOffer
<1> HIDE DEF new
<1>5. /\ more \in Seq(ObjectKeys)
      /\ Elements(more) = Elements(new) \cup Elements(archiveCheckpoints(head))
  BY <1>2, <1>3, JoinedElements
<1> HIDE DEF more
<1>6. /\ StopOffer(head) \in Seq(ObjectKeys)
      /\ Elements(StopOffer(head)) = Elements(more) \cup Elements(VerificationKeys)
  BY <1>3, <1>4, <1>5, JoinedElements
<1> QED
  BY <1>2, <1>5, <1>6, Zenon

LEMMA SealStep ==
  ASSUME Types, DiskInv, Seal
  PROVE  Types' /\ DiskInv' /\ Grows
<1>1. PICK ok \in BOOLEAN : Attest(ok) /\ Offer(SealOffer(ckSeq'), queue, trouble \/ ~ok)
  BY DEF Seal, SealOffer
<1>2. /\ pc = "up" /\ pc' = "rotating" /\ ends' = ends /\ pruned' = pruned /\ stamps' = stamps
      /\ pub' = pub /\ job' = job /\ sent' = sent /\ arch' = arch /\ clean' = clean
      /\ starts' = starts /\ failures' = failures /\ Newest < MaxSegs
  BY DEF Seal
<1>3. ckSeq' \in Nat
  BY <1>1, <1>2, Attests, ConstantFacts
<1>4. /\ queue' \in Seq(ObjectKeys) /\ Len(queue') <= QueueDepth /\ trouble' \in BOOLEAN
  <2>1. queue \in Seq(ObjectKeys) /\ Len(queue) <= QueueDepth /\ (trouble \/ ~ok) \in BOOLEAN
    BY DEF Types
  <2>2. SealOffer(ckSeq') \in Seq(ObjectKeys)
    BY <1>3, SealOffers
  <2> QED
    BY <1>1, <2>1, <2>2, Offered
<1> QED
  BY <1>1, <1>2, <1>4, SigningStep DEF Pcs

LEMMA TickStep ==
  ASSUME Types, DiskInv, Tick
  PROVE  Types' /\ DiskInv' /\ Grows
<1>1. PICK ok \in BOOLEAN : Attest(ok) /\ trouble' = (trouble \/ ~ok)
  BY DEF Tick
<1>2. /\ pc = "up" /\ pc' = "up" /\ ends' = ends /\ pruned' = pruned /\ stamps' = stamps
      /\ pub' = pub /\ job' = job /\ sent' = sent /\ arch' = arch /\ clean' = clean
      /\ starts' = starts /\ failures' = failures /\ queue' = queue
  BY DEF Tick, worker
<1>3. trouble' \in BOOLEAN
  BY <1>1 DEF Types
<1>4. queue' \in Seq(ObjectKeys) /\ Len(queue') <= QueueDepth
  BY <1>2 DEF Types
<1> QED
  BY <1>1, <1>2, <1>3, <1>4, SigningStep DEF Pcs

LEMMA ShutdownStep ==
  ASSUME Types, DiskInv, Shutdown
  PROVE  Types' /\ DiskInv' /\ Grows
<1>1. /\ pc # "down" /\ pc' = "stopping timestamps" /\ ends' = ends /\ pruned' = pruned
      /\ stamps' = stamps /\ pub' = pub /\ job' = job /\ sent' = sent /\ arch' = arch
      /\ clean' = clean /\ starts' = starts /\ failures' = failures
  BY DEF Shutdown
<1>2. \E ok \in BOOLEAN :
        \/ cks' = cks /\ ckSeq' = ckSeq /\ tsq' = tsq /\ queue' = queue /\ trouble' = trouble
        \/ Attest(ok) /\ Offer(StopOffer(ckSeq'), queue, trouble \/ ~ok)
  BY DEF Shutdown, StopOffer
<1>3. CASE cks' = cks /\ ckSeq' = ckSeq /\ tsq' = tsq /\ queue' = queue /\ trouble' = trouble
  <2>1. Mark = ckSeq /\ Mark' = ckSeq /\ Newest > 0 /\ ~clean /\ ckSeq \in Nat
    <3>1. ckSeq \in Nat
      BY ConstantFacts DEF Types
    <3> QED
      BY <1>1, <1>3, <3>1 DEF Mark, DiskInv
  <2>2. /\ ends' \in Seq(0 .. MaxSeq) /\ Newest' = Newest /\ ChainHead' = ChainHead
        /\ Newest' <= MaxSegs
        /\ Newest <= Newest' /\ \A i \in 1 .. Newest : ends[i] <= ends'[i]
    BY <1>1, SameSegments
  <2>3. /\ cks' \in Seq(CheckpointLines) /\ LineAdded
        /\ \A i, j \in DOMAIN cks' : i < j => cks'[i].seq < cks'[j].seq
        /\ \A i \in DOMAIN cks' : cks'[i].seq <= Mark'
    BY <1>3, <2>1, LinesStay
  <2>4. Types'
    BY <1>1, <1>3, <2>2, <2>3 DEF Types, Stored, Pcs
  <2>5. DiskInv'
    <3>1. /\ pruned' <= Newest' /\ (Newest' > 0 => pruned' < Newest') /\ Newest' > 0 /\ ~clean'
          /\ Mark' <= ChainHead' /\ stamps' + tsq' <= MaxStamps
      BY <1>1, <1>3, <2>1, <2>2 DEF DiskInv
    <3> QED
      BY <1>1, <2>3, <3>1 DEF DiskInv
  <2>6. Grows
    <3>1. stamps \in Nat /\ pub \in Nat
      BY Heads DEF Types
    <3>2. stamps <= stamps' /\ pub <= pub'
      <4>1. stamps' = stamps /\ pub' = pub
        BY <1>1
      <4> QED
        BY <3>1, <4>1
    <3>3. Mark <= Mark'
      BY <2>1
    <3> QED
      BY <2>2, <2>3, <3>2, <3>3 DEF Grows
  <2> QED
    BY <2>4, <2>5, <2>6
<1>4. ASSUME NEW ok \in BOOLEAN, Attest(ok), Offer(StopOffer(ckSeq'), queue, trouble \/ ~ok)
      PROVE  Types' /\ DiskInv' /\ Grows
  <2>1. ckSeq' \in Nat
    <3>1. ckSeq' \in 0 .. MaxSeq
      BY <1>1, <1>4, Attests
    <3> QED
      BY <3>1, ConstantFacts
  <2>2. queue \in Seq(ObjectKeys) /\ Len(queue) <= QueueDepth /\ (trouble \/ ~ok) \in BOOLEAN
    BY DEF Types
  <2>3. StopOffer(ckSeq') \in Seq(ObjectKeys)
    BY <2>1, StopOffers
  <2>4. /\ queue' \in Seq(ObjectKeys) /\ Len(queue') <= QueueDepth /\ trouble' \in BOOLEAN
    BY <1>4, <2>2, <2>3, Offered
  <2> QED
    BY <1>1, <1>4, <2>4, SigningStep DEF Pcs
<1> QED
  BY <1>2, <1>3, <1>4

LEMMA RotateStep ==
  ASSUME Types, DiskInv, Rotate
  PROVE  Types' /\ DiskInv' /\ Grows
<1>1. PICK created \in BOOLEAN :
        /\ ends' = (IF created THEN Append(ends, ChainHead) ELSE ends)
        /\ pc' = (IF created THEN "up" ELSE "broken")
        /\ trouble' = (trouble \/ ~created)
  BY DEF Rotate
<1>2. /\ pc = "rotating" /\ pruned' = pruned /\ cks' = cks /\ stamps' = stamps /\ pub' = pub
      /\ ckSeq' = ckSeq /\ queue' = queue /\ job' = job /\ sent' = sent /\ tsq' = tsq
      /\ arch' = arch /\ clean' = clean /\ starts' = starts /\ failures' = failures
  BY DEF Rotate, worker
<1>3. trouble' \in BOOLEAN /\ pc' \in {"up", "broken"} /\ (pc' = "broken" => trouble')
  BY <1>1 DEF Types
<1>4. Newest > 0 /\ ~clean /\ pruned < Newest /\ Newest < MaxSegs /\ ckSeq <= ChainHead
  BY <1>2 DEF DiskInv, Mark
<1>5. Mark = ckSeq /\ Mark' = ckSeq
  BY <1>2, <1>3 DEF Mark
<1>6. /\ ends' \in Seq(0 .. MaxSeq) /\ ChainHead' = ChainHead /\ Newest' <= MaxSegs
      /\ Newest <= Newest' /\ \A i \in 1 .. Newest : ends[i] <= ends'[i]
  BY <1>1, <1>4, SegmentAdded, SameSegments
<1>7. Newest \in Nat /\ Newest' \in Nat /\ pruned \in Nat /\ ckSeq \in Nat /\ stamps \in Nat
      /\ pub \in Nat
  <2>1. Newest' \in Nat
    BY <1>6 DEF Newest
  <2>2. ckSeq \in 0 .. MaxSeq /\ pruned \in Nat /\ stamps \in Nat
    BY DEF Types
  <2> QED
    BY <2>1, <2>2, Heads, ConstantFacts
<1>8. /\ cks' \in Seq(CheckpointLines) /\ LineAdded
      /\ \A i, j \in DOMAIN cks' : i < j => cks'[i].seq < cks'[j].seq
      /\ \A i \in DOMAIN cks' : cks'[i].seq <= Mark'
  BY <1>2, <1>5, <1>7, LinesStay
<1>9. Types'
  <2>1. pc' \in Pcs
    BY <1>3 DEF Pcs
  <2> QED
    BY <1>2, <1>3, <1>6, <1>8, <2>1 DEF Types, Stored
<1>10. DiskInv'
  <2>1. Newest' > 0 /\ pruned < Newest'
    BY <1>4, <1>6, <1>7
  <2>2. stamps' + tsq' <= MaxStamps
    BY <1>2 DEF DiskInv
  <2>3. pc' # "down" /\ pc' # "rotating" /\ ~clean' /\ pruned' < Newest' /\ pruned' <= Newest'
    BY <1>2, <1>3, <1>4, <1>7, <2>1
  <2>4. Mark' <= ChainHead'
    BY <1>4, <1>5, <1>6
  <2> QED
    BY <1>3, <1>8, <2>1, <2>2, <2>3, <2>4 DEF DiskInv
<1>11. Grows
  <2>1. stamps <= stamps' /\ pub <= pub'
    <3>1. stamps' = stamps /\ pub' = pub
      BY <1>2
    <3> QED
      BY <3>1, <1>7
  <2>2. Mark <= Mark'
    BY <1>5, <1>7
  <2> QED
    BY <1>6, <1>8, <2>1, <2>2 DEF Grows
<1> QED
  BY <1>9, <1>10, <1>11

\* A step that leaves the directory alone.
LEMMA SameDirectory ==
  ASSUME Types, DiskInv, UNCHANGED disk, Mark' = Mark
  PROVE  /\ ends' \in Seq(0 .. MaxSeq) /\ Newest' = Newest /\ ChainHead' = ChainHead
         /\ Newest' <= MaxSegs /\ pruned' \in Nat
         /\ cks' \in Seq(CheckpointLines) /\ stamps' \in Nat /\ pub' \in 1 .. MaxKeys
         /\ \A i, j \in DOMAIN cks' : i < j => cks'[i].seq < cks'[j].seq
         /\ \A i \in DOMAIN cks' : cks'[i].seq <= Mark'
         /\ Mark' <= ChainHead' /\ pruned' <= Newest' /\ (Newest' > 0 => pruned' < Newest')
         /\ Grows
<1>1. ends' = ends /\ pruned' = pruned /\ cks' = cks /\ stamps' = stamps /\ pub' = pub
  BY DEF disk
<1>2. /\ ends' \in Seq(0 .. MaxSeq) /\ Newest' = Newest /\ ChainHead' = ChainHead
      /\ Newest' <= MaxSegs
      /\ Newest <= Newest' /\ \A i \in 1 .. Newest : ends[i] <= ends'[i]
  BY <1>1, SameSegments
<1>3. Mark \in Nat /\ stamps \in Nat /\ pub \in Nat
  BY Heads, ConstantFacts DEF Types
<1>4. /\ cks' \in Seq(CheckpointLines) /\ LineAdded
      /\ \A i, j \in DOMAIN cks' : i < j => cks'[i].seq < cks'[j].seq
      /\ \A i \in DOMAIN cks' : cks'[i].seq <= Mark'
  BY <1>1, <1>3, LinesStay
<1>5. pruned' \in Nat /\ stamps' \in Nat /\ pub' \in 1 .. MaxKeys
  BY <1>1 DEF Types
<1>6. Mark' <= ChainHead' /\ pruned' <= Newest' /\ (Newest' > 0 => pruned' < Newest')
  BY <1>1, <1>2 DEF DiskInv
<1>7. Mark <= Mark'
  BY <1>3
<1>8. stamps <= stamps' /\ pub <= pub'
  BY <1>1, <1>3
<1>9. Grows
  BY <1>2, <1>4, <1>7, <1>8 DEF Grows
<1> QED
  BY <1>2, <1>4, <1>5, <1>6, <1>9

LEMMA KillStep ==
  ASSUME Types, DiskInv, Kill
  PROVE  Types' /\ DiskInv' /\ Grows
<1>1. /\ pc' = "down" /\ ckSeq' = 0 /\ queue' = <<>> /\ job' = NoJob /\ sent' = {} /\ tsq' = 0
      /\ trouble' = FALSE /\ UNCHANGED disk /\ arch' = arch /\ clean' = clean
      /\ starts' = starts /\ failures' = failures
  BY DEF Kill
<1>2. Mark <= Mark' /\ Mark' = ChainHead /\ ChainHead \in Nat /\ ChainHead' = ChainHead
  <2>1. ends' = ends
    BY <1>1 DEF disk
  <2>2. ChainHead' = ChainHead
    BY <2>1, SameSegments
  <2>3. Mark' = ChainHead
    BY <1>1, <2>2 DEF Mark
  <2>4. Mark <= ChainHead /\ ChainHead \in Nat
    BY Heads, ConstantFacts, DirectoryFacts
  <2> QED
    BY <2>2, <2>3, <2>4
<1>3. /\ ends' = ends /\ pruned' = pruned /\ cks' = cks /\ stamps' = stamps /\ pub' = pub
  BY <1>1 DEF disk
<1>4. /\ ends' \in Seq(0 .. MaxSeq) /\ Newest' = Newest
      /\ Newest' <= MaxSegs
      /\ Newest <= Newest' /\ \A i \in 1 .. Newest : ends[i] <= ends'[i]
  BY <1>3, SameSegments
<1>5. /\ cks' \in Seq(CheckpointLines) /\ LineAdded
      /\ \A i, j \in DOMAIN cks' : i < j => cks'[i].seq < cks'[j].seq
      /\ \A i \in DOMAIN cks' : cks'[i].seq <= Mark'
  BY <1>2, <1>3, LinesStay
<1>6. Types'
  <2>1. /\ pruned' \in Nat /\ stamps' \in Nat /\ pub' \in 1 .. MaxKeys /\ starts' \in Nat
        /\ Stored' \subseteq ObjectKeys /\ failures' \in 0 .. MaxFailures
        /\ clean' \in BOOLEAN
    BY <1>1, <1>3 DEF Types, Stored
  <2>2. /\ pc' \in Pcs /\ ckSeq' \in 0 .. MaxSeq /\ job' \in Jobs \cup {NoJob}
        /\ sent' \subseteq ObjectKeys /\ tsq' \in Nat /\ trouble' \in BOOLEAN
    <3>1. ckSeq' = 0 /\ tsq' = 0
      BY <1>1
    <3>2. ckSeq' \in 0 .. MaxSeq /\ tsq' \in Nat
      BY <3>1, ConstantFacts
    <3> QED
      BY <1>1, <3>2 DEF Pcs
  <2>3. queue' \in Seq(ObjectKeys) /\ Len(queue') <= QueueDepth
    BY <1>1, ConstantFacts
  <2> QED
    BY <1>4, <1>5, <2>1, <2>2, <2>3 DEF Types
<1>7. DiskInv'
  <2>1. pruned' <= Newest' /\ (Newest' > 0 => pruned' < Newest')
    BY <1>3, <1>4, DirectoryFacts
  <2>2. stamps' + tsq' <= MaxStamps
    <3>1. stamps' = stamps /\ tsq' = 0
      BY <1>1, <1>3
    <3>2. stamps \in Nat /\ tsq \in Nat /\ stamps + tsq <= MaxStamps
      BY DEF Types, DiskInv
    <3> QED
      BY <3>1, <3>2, ConstantFacts
  <2>3. Mark' <= ChainHead'
    BY <1>2
  <2> QED
    BY <1>1, <1>5, <2>1, <2>2, <2>3 DEF DiskInv
<1>8. Grows
  <2>1. stamps' = stamps /\ pub' = pub /\ stamps \in Nat /\ pub \in Nat
    BY <1>3, Heads DEF Types
  <2> QED
    BY <1>2, <1>4, <1>5, <2>1 DEF Grows
<1> QED
  BY <1>6, <1>7, <1>8

LEMMA StopTimestampsStep ==
  ASSUME Types, DiskInv, StopTimestamps
  PROVE  Types' /\ DiskInv' /\ Grows
<1>1. /\ pc = "stopping timestamps" /\ pc' = "stopping archive" /\ tsq' = 0
      /\ UNCHANGED disk /\ ckSeq' = ckSeq /\ job' = job /\ sent' = sent /\ arch' = arch
      /\ clean' = clean /\ starts' = starts /\ failures' = failures
      /\ Offer(archiveTimestamps, queue, trouble \/ tsq > 0)
  BY DEF StopTimestamps, LastOffer
<1>2. Mark' = Mark
  BY <1>1 DEF Mark
<1>3. queue' \in Seq(ObjectKeys) /\ Len(queue') <= QueueDepth /\ trouble' \in BOOLEAN
  <2>1. queue \in Seq(ObjectKeys) /\ Len(queue) <= QueueDepth
    BY DEF Types
  <2>2. (trouble \/ tsq > 0) \in BOOLEAN
    BY DEF Types
  <2>3. archiveTimestamps \in Seq(ObjectKeys)
    BY AnchorKeys
  <2> QED
    BY <1>1, <2>1, <2>2, <2>3, Offered
<1>4. Types'
  <2>1. pc' \in Pcs /\ tsq' \in Nat
    BY <1>1 DEF Pcs
  <2>2. /\ ckSeq' \in 0 .. MaxSeq /\ job' \in Jobs \cup {NoJob} /\ sent' \subseteq ObjectKeys
        /\ Stored' \subseteq ObjectKeys /\ clean' \in BOOLEAN /\ starts' \in Nat
        /\ failures' \in 0 .. MaxFailures
    BY <1>1 DEF Types, Stored
  <2> QED
    BY <1>1, <1>2, <1>3, <2>1, <2>2, SameDirectory DEF Types
<1>5. DiskInv'
  <2>1. stamps' + tsq' <= MaxStamps
    <3>1. stamps' = stamps /\ tsq' = 0
      BY <1>1 DEF disk
    <3>2. stamps \in Nat /\ tsq \in Nat /\ stamps + tsq <= MaxStamps
      BY DEF Types, DiskInv
    <3> QED
      BY <3>1, <3>2, ConstantFacts
  <2>2. Newest > 0 /\ ~clean
    BY <1>1 DEF DiskInv
  <2>3. Newest' > 0 /\ ~clean'
    BY <1>1, <1>2, <2>2, SameDirectory
  <2> QED
    BY <1>1, <1>2, <2>1, <2>3, SameDirectory DEF DiskInv
<1> QED
  BY <1>1, <1>2, <1>4, <1>5, SameDirectory

LEMMA StopArchiveStep ==
  ASSUME Types, DiskInv, StopArchive
  PROVE  Types' /\ DiskInv' /\ Grows
<1>1. /\ pc = "stopping archive" /\ pc' = "down" /\ ckSeq' = 0 /\ queue' = <<>> /\ job' = NoJob
      /\ sent' = {} /\ trouble' = FALSE /\ UNCHANGED disk /\ tsq' = tsq /\ arch' = arch
      /\ starts' = starts /\ failures' = failures
      /\ clean' = (queue = <<>> /\ job = NoJob /\ ~trouble)
  BY DEF StopArchive
<1>2. tsq = 0 /\ Newest > 0
  BY <1>1 DEF DiskInv
<1>3. /\ ends' = ends /\ pruned' = pruned /\ cks' = cks /\ stamps' = stamps /\ pub' = pub
  BY <1>1 DEF disk
<1>4. /\ ends' \in Seq(0 .. MaxSeq) /\ Newest' = Newest /\ ChainHead' = ChainHead
      /\ Newest' <= MaxSegs
      /\ Newest <= Newest' /\ \A i \in 1 .. Newest : ends[i] <= ends'[i]
  BY <1>3, SameSegments
<1>5. Mark <= Mark' /\ Mark' = ChainHead /\ ChainHead \in Nat
  <2>1. Mark' = ChainHead
    BY <1>1, <1>4 DEF Mark
  <2>2. Mark <= ChainHead /\ ChainHead \in Nat
    BY Heads, ConstantFacts, DirectoryFacts
  <2> QED
    BY <2>1, <2>2
<1>6. /\ cks' \in Seq(CheckpointLines) /\ LineAdded
      /\ \A i, j \in DOMAIN cks' : i < j => cks'[i].seq < cks'[j].seq
      /\ \A i \in DOMAIN cks' : cks'[i].seq <= Mark'
  BY <1>3, <1>5, LinesStay
<1>7. Types'
  <2>1. /\ pruned' \in Nat /\ stamps' \in Nat /\ pub' \in 1 .. MaxKeys /\ starts' \in Nat
        /\ Stored' \subseteq ObjectKeys /\ failures' \in 0 .. MaxFailures
    BY <1>1, <1>3 DEF Types, Stored
  <2>2. /\ pc' \in Pcs /\ job' \in Jobs \cup {NoJob}
        /\ sent' \subseteq ObjectKeys /\ trouble' \in BOOLEAN /\ clean' \in BOOLEAN
    BY <1>1 DEF Pcs
  <2>3. queue' \in Seq(ObjectKeys) /\ Len(queue') <= QueueDepth
    <3>1. queue' = <<>>
      BY <1>1
    <3> QED
      BY <3>1, ConstantFacts
  <2>4. ckSeq' \in 0 .. MaxSeq /\ tsq' \in Nat
    <3>1. ckSeq' = 0 /\ tsq' = 0
      BY <1>1, <1>2
    <3> QED
      BY <3>1, ConstantFacts
  <2> QED
    BY <1>4, <1>6, <2>1, <2>2, <2>3, <2>4 DEF Types
<1>8. DiskInv'
  <2>1. pruned' <= Newest' /\ (Newest' > 0 => pruned' < Newest')
    BY <1>3, <1>4, DirectoryFacts
  <2>2. stamps' + tsq' <= MaxStamps
    BY <1>1, <1>3 DEF DiskInv
  <2>3. Mark' <= ChainHead'
    BY <1>4, <1>5
  <2> QED
    BY <1>1, <1>2, <1>6, <2>1, <2>2, <2>3 DEF DiskInv
<1>9. Grows
  <2>1. stamps' = stamps /\ pub' = pub /\ stamps \in Nat /\ pub \in Nat
    BY <1>3, Heads DEF Types
  <2> QED
    BY <1>4, <1>5, <1>6, <2>1 DEF Grows
<1> QED
  BY <1>7, <1>8, <1>9

LEMMA AnchorStep ==
  ASSUME Types, DiskInv, Anchor
  PROVE  Types' /\ DiskInv' /\ Grows
<1>1. /\ tsq > 0 /\ pc # "down" /\ tsq' = tsq - 1
      /\ ends' = ends /\ pruned' = pruned /\ cks' = cks /\ pub' = pub /\ pc' = pc
      /\ ckSeq' = ckSeq /\ queue' = queue /\ job' = job /\ sent' = sent /\ arch' = arch
      /\ clean' = clean /\ starts' = starts
  BY DEF Anchor, worker
<1>2. \/ stamps' = stamps + 1 /\ trouble' = trouble /\ failures' = failures
      \/ /\ stamps' \in {stamps, stamps + 1}
         /\ trouble' = TRUE /\ failures < MaxFailures /\ failures' = failures + 1
  BY DEF Anchor, AnchorFails, Counted, Fails, AppendTimestamp
<1>3. /\ stamps \in Nat /\ tsq \in Nat /\ stamps + tsq <= MaxStamps /\ failures \in 0 .. MaxFailures
      /\ trouble \in BOOLEAN
  BY DEF Types, DiskInv
<1>4. /\ stamps' \in Nat /\ tsq' \in Nat /\ stamps' + tsq' <= MaxStamps /\ stamps <= stamps'
  <2>1. stamps' = stamps \/ stamps' = stamps + 1
    BY <1>2
  <2>2. tsq > 0 /\ tsq' = tsq - 1
    BY <1>1
  <2> QED
    BY <1>3, <2>1, <2>2, ConstantFacts
<1>5. failures' \in 0 .. MaxFailures
  <2>1. failures' = failures \/ (failures < MaxFailures /\ failures' = failures + 1)
    BY <1>2
  <2> QED
    BY <1>3, <2>1, ConstantFacts
<1>6. trouble' \in BOOLEAN /\ (trouble => trouble')
  BY <1>2, <1>3
<1>7. /\ ends' \in Seq(0 .. MaxSeq) /\ Newest' = Newest /\ ChainHead' = ChainHead
      /\ Newest' <= MaxSegs
      /\ Newest <= Newest' /\ \A i \in 1 .. Newest : ends[i] <= ends'[i]
  BY <1>1, SameSegments
<1>8. Mark' = Mark /\ Mark \in Nat /\ pub' = pub /\ pub \in Nat
  BY <1>1, <1>7, Heads, ConstantFacts DEF Mark
<1>9. /\ cks' \in Seq(CheckpointLines) /\ LineAdded
      /\ \A i, j \in DOMAIN cks' : i < j => cks'[i].seq < cks'[j].seq
      /\ \A i \in DOMAIN cks' : cks'[i].seq <= Mark'
  BY <1>1, <1>8, LinesStay
<1>10. Types'
  <2>1. /\ pruned' \in Nat /\ pub' \in 1 .. MaxKeys /\ starts' \in Nat
        /\ Stored' \subseteq ObjectKeys /\ pc' \in Pcs /\ ckSeq' \in 0 .. MaxSeq
        /\ queue' \in Seq(ObjectKeys) /\ Len(queue') <= QueueDepth
        /\ job' \in Jobs \cup {NoJob} /\ sent' \subseteq ObjectKeys /\ clean' \in BOOLEAN
    BY <1>1 DEF Types, Stored
  <2> QED
    BY <1>4, <1>5, <1>6, <1>7, <1>9, <2>1 DEF Types
<1>11. DiskInv'
  <2>1. pruned' <= Newest' /\ (Newest' > 0 => pruned' < Newest') /\ Newest' > 0 /\ ~clean'
    BY <1>1, <1>7 DEF DiskInv
  <2>2. Mark' <= ChainHead'
    BY <1>7, <1>8 DEF DiskInv
  <2>3. pc' = "broken" => trouble'
    BY <1>1, <1>6 DEF DiskInv
  <2>4. pc' = "rotating" => Newest' < MaxSegs
    BY <1>1, <1>7 DEF DiskInv
  <2>5. pc' # "down" /\ pc' # "stopping archive"
    <3>1. tsq # 0
      BY <1>1, <1>3
    <3> QED
      BY <1>1, <3>1 DEF DiskInv
  <2> QED
    BY <1>4, <1>9, <2>1, <2>2, <2>3, <2>4, <2>5 DEF DiskInv
<1>12. Grows
  <2>1. Mark <= Mark' /\ pub <= pub'
    BY <1>8
  <2> QED
    BY <1>4, <1>7, <1>9, <2>1 DEF Grows
<1> QED
  BY <1>10, <1>11, <1>12

LEMMA RotateKeyStep ==
  ASSUME Types, DiskInv, RotateKey
  PROVE  Types' /\ DiskInv' /\ Grows
<1> DEFINE c == [seq |-> ChainHead + 1, segment |-> Newest, key |-> pub + 1]
<1>1. /\ pc = "down" /\ pub < MaxKeys /\ Here # {} /\ ChainHead < MaxSeq
      /\ pub' = pub + 1 /\ ends' = [ends EXCEPT ![Newest] = @ + 1]
      /\ cks' = Append(cks, c)
      /\ clean' = FALSE /\ pruned' = pruned /\ stamps' = stamps /\ pc' = pc /\ ckSeq' = ckSeq
      /\ queue' = queue /\ job' = job /\ sent' = sent /\ tsq' = tsq /\ arch' = arch
      /\ trouble' = trouble /\ starts' = starts /\ failures' = failures
  BY DEF RotateKey, worker
<1>2. Newest > 0 /\ Newest \in 1 .. MaxSegs
  <2>1. Newest > 0
    BY <1>1, Heads
  <2> QED
    BY <2>1, Heads, NewestIsHere
<1>3. /\ ends' \in Seq(0 .. MaxSeq) /\ Newest' = Newest /\ ChainHead' = ChainHead + 1
      /\ Newest' <= MaxSegs
      /\ Newest <= Newest' /\ \A i \in 1 .. Newest : ends[i] <= ends'[i]
  BY <1>1, <1>2, RecordAdded
<1>4. /\ Mark = ChainHead /\ Mark' = ChainHead + 1 /\ ChainHead \in 0 .. MaxSeq
      /\ ChainHead \in Nat /\ ChainHead < MaxSeq
  BY <1>1, <1>3, Heads, ConstantFacts DEF Mark
<1>5. pub \in 1 .. MaxKeys /\ pub < MaxKeys /\ pub' = pub + 1 /\ stamps \in Nat /\ stamps' = stamps
  BY <1>1 DEF Types
<1>6. pub' \in 1 .. MaxKeys /\ pub <= pub' /\ stamps <= stamps'
  BY <1>5, ConstantFacts
<1>7. c \in CheckpointLines /\ c.seq = ChainHead + 1
  <2>1. ChainHead + 1 \in 1 .. MaxSeq
    BY <1>4, ConstantFacts
  <2>2. pub + 1 \in 1 .. MaxKeys
    BY <1>5, ConstantFacts
  <2> QED
    BY <2>1, <2>2, <1>2 DEF CheckpointLines
<1> HIDE DEF c
<1>8. /\ cks' \in Seq(CheckpointLines) /\ LineAdded
      /\ \A i, j \in DOMAIN cks' : i < j => cks'[i].seq < cks'[j].seq
      /\ \A i \in DOMAIN cks' : cks'[i].seq <= Mark'
  <2>1. cks \in Seq(CheckpointLines) /\ Mark \in 0 .. MaxSeq /\ Mark < c.seq
    BY <1>4, <1>7 DEF Types
  <2>2. /\ \A i, j \in DOMAIN cks : i < j => cks[i].seq < cks[j].seq
        /\ \A i \in DOMAIN cks : cks[i].seq <= Mark
    BY DEF DiskInv
  <2>3. cks' = Append(cks, c)
    BY <1>1
  <2>4. /\ cks' \in Seq(CheckpointLines)
        /\ \A i, j \in DOMAIN cks' : i < j => cks'[i].seq < cks'[j].seq
        /\ \A i \in DOMAIN cks' : cks'[i].seq <= c.seq
    BY <1>7, <2>1, <2>2, <2>3, LinesFollow
  <2>5. LineAdded
    BY <1>7, <2>1, <2>3 DEF LineAdded
  <2> QED
    BY <1>4, <1>7, <2>4, <2>5
<1>9. Types'
  <2>1. /\ pruned' \in Nat /\ starts' \in Nat /\ stamps' \in Nat
        /\ Stored' \subseteq ObjectKeys /\ pc' \in Pcs /\ ckSeq' \in 0 .. MaxSeq
        /\ queue' \in Seq(ObjectKeys) /\ Len(queue') <= QueueDepth /\ tsq' \in Nat
        /\ job' \in Jobs \cup {NoJob} /\ sent' \subseteq ObjectKeys /\ clean' \in BOOLEAN
        /\ trouble' \in BOOLEAN /\ failures' \in 0 .. MaxFailures
    BY <1>1 DEF Types, Stored
  <2> QED
    BY <1>3, <1>6, <1>8, <2>1 DEF Types
<1>10. DiskInv'
  <2>1. pruned' <= Newest' /\ (Newest' > 0 => pruned' < Newest') /\ Newest' > 0
        /\ stamps' + tsq' <= MaxStamps
    BY <1>1, <1>2, <1>3, DirectoryFacts
  <2>2. Mark' <= ChainHead'
    BY <1>3, <1>4
  <2> QED
    BY <1>1, <1>8, <2>1, <2>2 DEF DiskInv
<1>11. Grows
  <2>1. Mark <= Mark'
    BY <1>4
  <2> QED
    BY <1>3, <1>6, <1>8, <2>1 DEF Grows
<1> QED
  BY <1>9, <1>10, <1>11

LEMMA PruneStep ==
  ASSUME Types, DiskInv, Prune
  PROVE  Types' /\ DiskInv' /\ Grows
<1>1. /\ Sealed # {} /\ pruned' = pruned + 1
      /\ ends' = ends /\ cks' = cks /\ stamps' = stamps /\ pub' = pub /\ pc' = pc
      /\ ckSeq' = ckSeq /\ queue' = queue /\ job' = job /\ sent' = sent /\ tsq' = tsq
      /\ arch' = arch /\ trouble' = trouble /\ clean' = clean /\ starts' = starts
      /\ failures' = failures
  BY DEF Prune, worker
<1>2. pruned \in Nat /\ Newest \in Nat /\ pruned + 1 < Newest
  <2>1. PICK i \in Sealed : TRUE
    BY <1>1
  <2>2. i \in 1 .. Newest /\ i > pruned /\ i # Newest
    BY <2>1, Heads
  <2>3. pruned \in Nat /\ Newest \in Nat
    BY Heads DEF Types
  <2> QED
    BY <2>2, <2>3
<1>3. /\ ends' \in Seq(0 .. MaxSeq) /\ Newest' = Newest /\ ChainHead' = ChainHead
      /\ Newest' <= MaxSegs
      /\ Newest <= Newest' /\ \A i \in 1 .. Newest : ends[i] <= ends'[i]
  BY <1>1, SameSegments
<1>4. Mark' = Mark /\ Mark \in Nat
  BY <1>1, <1>3, Heads, ConstantFacts DEF Mark
<1>5. /\ cks' \in Seq(CheckpointLines) /\ LineAdded
      /\ \A i, j \in DOMAIN cks' : i < j => cks'[i].seq < cks'[j].seq
      /\ \A i \in DOMAIN cks' : cks'[i].seq <= Mark'
  BY <1>1, <1>4, LinesStay
<1>6. Types'
  <2>1. pruned' \in Nat
    BY <1>1, <1>2
  <2>2. /\ starts' \in Nat /\ stamps' \in Nat /\ pub' \in 1 .. MaxKeys
        /\ Stored' \subseteq ObjectKeys /\ pc' \in Pcs /\ ckSeq' \in 0 .. MaxSeq
        /\ queue' \in Seq(ObjectKeys) /\ Len(queue') <= QueueDepth /\ tsq' \in Nat
        /\ job' \in Jobs \cup {NoJob} /\ sent' \subseteq ObjectKeys /\ clean' \in BOOLEAN
        /\ trouble' \in BOOLEAN /\ failures' \in 0 .. MaxFailures
    BY <1>1 DEF Types, Stored
  <2> QED
    BY <1>3, <1>5, <2>1, <2>2 DEF Types
<1>7. DiskInv'
  <2>1. pruned' <= Newest' /\ pruned' < Newest'
    BY <1>1, <1>2, <1>3
  <2>2. Mark' <= ChainHead' /\ stamps' + tsq' <= MaxStamps
    BY <1>1, <1>3, <1>4, DirectoryFacts
  <2>3. pc # "down" => Newest > 0 /\ ~clean
    BY DirectoryFacts
  <2> QED
    BY <1>1, <1>3, <1>5, <2>1, <2>2, <2>3 DEF DiskInv
<1>8. Grows
  <2>1. stamps' = stamps /\ pub' = pub /\ stamps \in Nat /\ pub \in Nat
    BY <1>1, Heads DEF Types
  <2>2. Mark <= Mark'
    BY <1>4
  <2> QED
    BY <1>3, <1>5, <2>1, <2>2 DEF Grows
<1> QED
  BY <1>6, <1>7, <1>8

-----------------------------------------------------------------------------
(* The upload goroutine *)

\* What is read is a number, whatever is asked for.
LEMMA FilesAreNumbers ==
  ASSUME Types, NEW k \in ObjectKeys
  PROVE  FileOf(k) \in Nat
<1>1. /\ Len(cks) \in Nat /\ stamps \in Nat /\ pub \in Nat
      /\ \A i \in 1 .. Newest : ends[i] \in Nat
  BY Heads, EndsAreNumbers, ConstantFacts DEF Types
<1>2. CASE k = <<"public">>
  <2>1. k[1] = "public"
    BY <1>2, KeyForms
  <2> QED
    BY <1>1, <2>1 DEF FileOf
<1>3. ASSUME NEW n \in Nat, NEW m \in Nat, k = <<"open", n, m>> PROVE FileOf(k) \in Nat
  <2>1. k[1] = "open" /\ k[2] = n
    BY <1>3, KeyForms
  <2>2. FileOf(k) = IF n \in Here THEN ends[n] ELSE 0
    BY <2>1 DEF FileOf
  <2> QED
    BY <1>1, <2>2, Heads
<1>4. ASSUME NEW t \in {"segment", "checkpoints", "timestamps", "retired"}, NEW n \in Nat, k = <<t, n>>
      PROVE  FileOf(k) \in Nat
  <2>1. k[1] = t /\ k[2] = n
    BY <1>4, KeyForms
  <2>2. CASE t = "segment"
    <3>1. FileOf(k) = IF n \in Here THEN ends[n] ELSE 0
      BY <2>1, <2>2 DEF FileOf
    <3> QED
      BY <1>1, <3>1, Heads
  <2>3. CASE t # "segment"
    BY <1>1, <2>1, <2>3 DEF FileOf
  <2> QED
    BY <2>2, <2>3
<1> QED
  BY <1>2, <1>3, <1>4, KeyKinds

\* Only an object that is there is said to be present: neither a failure nor an
\* absence reads as a presence.
LEMMA NoFalsePresence ==
  \A answer \in WhenAbsent \cup WhenFailing : answer # "present"
<1>1. \A a \in NotFound \cup Busy \cup Decided : ~Succeeds(a)
  <2>1. \A a \in NotFound \cup Busy \cup Decided :
          a.status \in {0, 400, 403, 404, 429, 500, 501, 503}
    <3>1. \A a \in NotFound : a.status = 404
      <4>1. NotFound = {Answer(404, "NoSuchKey"), Answer(404, "NotFound"), Answer(404, "")}
        BY DEF NotFound
      <4>2. /\ Answer(404, "NoSuchKey").status = 404 /\ Answer(404, "NotFound").status = 404
            /\ Answer(404, "").status = 404
        BY DEF Answer
      <4> QED
        BY <4>1, <4>2, ZenonT(60)
    <3>2. \A a \in Busy : a.status \in {0, 429, 500, 503}
      <4> SUFFICES ASSUME NEW a \in Busy PROVE a.status \in {0, 429, 500, 503}
        OBVIOUS
      <4>1. \/ a = Answer(503, "SlowDown") \/ a = Answer(429, "")
            \/ a = Answer(500, "") \/ a = NoAnswer("reset")
        BY DEF Busy
      <4>2. CASE a = Answer(503, "SlowDown")
        BY <4>2 DEF Answer
      <4>3. CASE a = Answer(429, "")
        BY <4>3 DEF Answer
      <4>4. CASE a = Answer(500, "")
        BY <4>4 DEF Answer
      <4>5. CASE a = NoAnswer("reset")
        BY <4>5 DEF NoAnswer
      <4> QED
        BY <4>1, <4>2, <4>3, <4>4, <4>5, ZenonT(60)
    <3>3. \A a \in Decided : a.status \in {0, 400, 403, 404, 501}
      <4>1. Decided =
              {Answer(403, "AccessDenied"), Answer(400, "RequestTimeTooSkewed"),
               Answer(404, "NoSuchBucket"), Answer(501, "NotImplemented"),
               NoAnswer("certificate"), NoAnswer("deadline")}
        BY DEF Decided
      <4>2. /\ Answer(403, "AccessDenied").status = 403
            /\ Answer(400, "RequestTimeTooSkewed").status = 400
            /\ Answer(404, "NoSuchBucket").status = 404
            /\ Answer(501, "NotImplemented").status = 501
            /\ NoAnswer("certificate").status = 0 /\ NoAnswer("deadline").status = 0
        BY DEF Answer, NoAnswer
      <4> QED
        BY <4>1, <4>2
    <3> QED
      BY <3>1, <3>2, <3>3
  <2>2. \A n \in {0, 400, 403, 404, 429, 500, 501, 503} : n \notin 200 .. 299
    OBVIOUS
  <2> QED
    BY <2>1, <2>2 DEF Succeeds
<1>2. \A a, bucket : ~Succeeds(a) => Exists(a, bucket) # "present"
  BY DEF Exists
<1> QED
  BY <1>1, <1>2 DEF WhenAbsent, WhenFailing, Question

\* What the question for an object comes to: another attempt, an object that is
\* there, a job given up, or a file that is sent as it stands.
Again == job.attempt < MaxAttempts /\ NextAttempt /\ sent' = sent /\ trouble' = trouble
Begins ==
  /\ FileOf(job.key) # 0
  /\ job' = [job EXCEPT !.phase = "put", !.attempt = 1, !.body = FileOf(job.key)]
  /\ sent' = sent /\ trouble' = trouble
Failures == failures' = failures \/ (failures < MaxFailures /\ failures' = failures + 1)
Asked ==
  \/ Again
  \/ job.key \in Stored /\ Done
  \/ GiveUp
  \/ Begins
PutAway == arch' = arch \/ arch' = Store(job.key, job.body)

LEMMA AskOutcome ==
  ASSUME AskExists
  PROVE  job # NoJob /\ job.phase = "exists" /\ arch' = arch /\ Failures /\ Asked
<1>1. PICK failing \in BOOLEAN :
        /\ failing => Fails
        /\ failures' = IF failing THEN failures + 1 ELSE failures
        /\ \E answer \in IF failing THEN WhenFailing ELSE IF job.key \in Stored THEN WhenStored ELSE WhenAbsent :
             CASE answer = "again" /\ Retries -> NextAttempt /\ UNCHANGED <<sent, trouble>>
               [] answer = "present" -> Done
               [] answer = "absent" -> StartPut
               [] OTHER -> Unanswered
  BY DEF AskExists
<1>2. Failures
  BY <1>1 DEF Failures, Fails
<1>3. PICK answer \in IF failing THEN WhenFailing ELSE IF job.key \in Stored THEN WhenStored ELSE WhenAbsent :
        CASE answer = "again" /\ Retries -> NextAttempt /\ UNCHANGED <<sent, trouble>>
          [] answer = "present" -> Done
          [] answer = "absent" -> StartPut
          [] OTHER -> Unanswered
  BY <1>1
<1>4. StartPut => GiveUp \/ Begins
  BY DEF StartPut, Begins
<1>5. Asked
  <2>1. CASE answer = "again" /\ Retries
    <3>1. NextAttempt /\ UNCHANGED <<sent, trouble>>
      BY <1>3, <2>1
    <3> QED
      BY <2>1, <3>1 DEF Asked, Again, Retries
  <2>2. CASE answer = "present"
    <3>1. Done
      BY <1>3, <2>2
    <3>2. job.key \in Stored
      BY <1>3, <2>2, NoFalsePresence
    <3> QED
      BY <3>1, <3>2 DEF Asked
  <2>3. CASE ~(answer = "again" /\ Retries) /\ answer # "present"
    <3>1. StartPut
      BY <1>3, <2>3 DEF Unanswered
    <3> QED
      BY <3>1, <1>4 DEF Asked
  <2> QED
    BY <2>1, <2>2, <2>3
<1> QED
  BY <1>2, <1>5 DEF AskExists

LEMMA PutOutcome ==
  ASSUME Put
  PROVE  /\ job # NoJob /\ job.phase = "put" /\ Failures /\ PutAway
         /\ \/ Again
            \/ arch' = Store(job.key, job.body) /\ Done
            \/ GiveUp
<1>1. job # NoJob /\ job.phase = "put"
  BY DEF Put
<1>2. CASE arch' = Store(job.key, job.body) /\ Done /\ UNCHANGED failures
  BY <1>1, <1>2 DEF Failures, PutAway
<1>3. ASSUME NEW f \in PutFailures, Fails /\ failures' = failures + 1,
             arch' \in {arch} \cup IF f.stored THEN {Store(job.key, job.body)} ELSE {},
             IF f.again /\ Retries THEN NextAttempt /\ UNCHANGED <<sent, trouble>> ELSE GiveUp
      PROVE  Failures /\ PutAway /\ (Again \/ GiveUp)
  <2>1. Failures
    BY <1>3 DEF Failures, Fails
  <2>2. PutAway
    BY <1>3 DEF PutAway
  <2>3. Again \/ GiveUp
    BY <1>3 DEF Again, Retries
  <2> QED
    BY <2>1, <2>2, <2>3
<1> QED
  BY <1>1, <1>2, <1>3 DEF Put

\* The worker: its jobs, and the archive, keep their types; the directory and the
\* place of the writer stay.
LEMMA WorkerSteps ==
  ASSUME Types, DiskInv,
         UNCHANGED <<disk, pc, ckSeq, tsq, clean, starts>>,
         queue' \in Seq(ObjectKeys), Len(queue') <= QueueDepth,
         job' \in Jobs \cup {NoJob}, sent' \subseteq ObjectKeys, Stored' \subseteq ObjectKeys,
         trouble' \in BOOLEAN, trouble => trouble', Failures,
         queue # <<>> \/ job # NoJob
  PROVE  Types' /\ DiskInv' /\ Grows
<1>1. /\ UNCHANGED disk /\ pc' = pc /\ ckSeq' = ckSeq /\ tsq' = tsq /\ clean' = clean
      /\ starts' = starts
  OBVIOUS
<1>2. pc # "down"
  BY DEF DiskInv
<1>3. Mark' = Mark
  BY <1>1, <1>2 DEF Mark
<1>4. failures' \in 0 .. MaxFailures
  <2>1. failures \in 0 .. MaxFailures
    BY DEF Types
  <2>2. failures' = failures \/ (failures < MaxFailures /\ failures' = failures + 1)
    BY DEF Failures
  <2> QED
    BY <2>1, <2>2, ConstantFacts
<1>5. Types'
  <2>1. /\ pc' \in Pcs /\ ckSeq' \in 0 .. MaxSeq /\ tsq' \in Nat /\ clean' \in BOOLEAN
        /\ starts' \in Nat
    BY <1>1 DEF Types
  <2> QED
    BY <1>1, <1>3, <1>4, <2>1, SameDirectory DEF Types
<1>6. DiskInv'
  <2>1. stamps' + tsq' <= MaxStamps /\ Newest' > 0 /\ ~clean' /\ Newest' = Newest
    <3>1. Newest' = Newest
      BY <1>1, <1>3, SameDirectory
    <3>2. stamps' = stamps
      BY <1>1 DEF disk
    <3> QED
      BY <1>1, <1>2, <3>1, <3>2, DirectoryFacts
  <2>2. /\ pc' = "broken" => trouble'
        /\ pc' = "rotating" => Newest' < MaxSegs
        /\ pc' = "stopping archive" => tsq' = 0
    BY <1>1, <2>1 DEF DiskInv
  <2> QED
    BY <1>1, <1>2, <1>3, <2>1, <2>2, SameDirectory DEF DiskInv
<1> QED
  BY <1>1, <1>3, <1>5, <1>6, SameDirectory

\* The job of a step of the worker, and the archive after it.
LEMMA JobSteps ==
  ASSUME Types, job # NoJob
  PROVE  /\ job \in Jobs /\ job.key \in ObjectKeys
         /\ NextAttempt /\ job.attempt < MaxAttempts =>
              /\ job' \in Jobs /\ job'.key = job.key /\ job'.phase = job.phase
              /\ job'.body = job.body
         /\ Begins => /\ job' \in Jobs /\ job'.key = job.key /\ job'.phase = "put"
                      /\ job'.body = FileOf(job.key)
         /\ PutAway => Stored' \subseteq ObjectKeys
<1>1. job \in Jobs /\ job.key \in ObjectKeys /\ job.attempt \in 1 .. MaxAttempts
      /\ Stored \subseteq ObjectKeys
  BY JobForms DEF Types
<1>2. ASSUME NextAttempt, job.attempt < MaxAttempts
      PROVE  /\ job' \in Jobs /\ job'.key = job.key /\ job'.phase = job.phase
             /\ job'.body = job.body
  <2>1. job.attempt + 1 \in 1 .. MaxAttempts
    BY <1>1, <1>2, ConstantFacts
  <2>2. job' = [job EXCEPT !.attempt = job.attempt + 1]
    BY <1>2 DEF NextAttempt
  <2>3. ASSUME NEW n \in 1 .. MaxAttempts, NEW j, j = [job EXCEPT !.attempt = n]
        PROVE  j \in Jobs /\ j.key = job.key /\ j.phase = job.phase /\ j.body = job.body
    BY <1>1, <2>3 DEF Jobs
  <2> QED
    BY <2>1, <2>2, <2>3
<1>3. ASSUME Begins
      PROVE  /\ job' \in Jobs /\ job'.key = job.key /\ job'.phase = "put"
             /\ job'.body = FileOf(job.key)
  <2>1. FileOf(job.key) \in Nat /\ 1 \in 1 .. MaxAttempts
    BY <1>1, FilesAreNumbers, ConstantFacts
  <2>2. job' = [job EXCEPT !.phase = "put", !.attempt = 1, !.body = FileOf(job.key)]
    BY <1>3 DEF Begins
  <2> DEFINE b == FileOf(job.key)
             n == 1
  <2>3. b \in Nat /\ n \in 1 .. MaxAttempts
    BY <2>1
  <2>4. job' = [job EXCEPT !.phase = "put", !.attempt = n, !.body = b]
    BY <2>2
  <2> HIDE DEF b, n
  <2>5. job' \in Jobs /\ job'.key = job.key /\ job'.phase = "put" /\ job'.body = b
    BY <1>1, <2>3, <2>4 DEF Jobs
  <2> QED
    BY <2>5 DEF b
<1>4. PutAway => Stored' \subseteq ObjectKeys
  BY <1>1 DEF PutAway, Store, Stored
<1> QED
  BY <1>1, <1>2, <1>3, <1>4

LEMMA TakeStep ==
  ASSUME Types, DiskInv, Take
  PROVE  Types' /\ DiskInv' /\ Grows
<1>1. /\ queue # <<>> /\ job = NoJob /\ queue' = Tail(queue)
      /\ job' = IF Head(queue) \in sent THEN NoJob
                ELSE [key |-> Head(queue), phase |-> "exists", attempt |-> 1, body |-> 0]
      /\ UNCHANGED <<disk, pc, ckSeq, tsq, clean, starts>>
      /\ sent' = sent /\ arch' = arch /\ trouble' = trouble /\ failures' = failures
  BY DEF Take
<1>2. queue \in Seq(ObjectKeys) /\ Len(queue) <= QueueDepth
  BY DEF Types
<1>3. queue' \in Seq(ObjectKeys) /\ Len(queue') <= QueueDepth /\ Head(queue) \in ObjectKeys
  BY <1>1, <1>2, ConstantFacts
<1>4. job' \in Jobs \cup {NoJob}
  <2>1. 1 \in 1 .. MaxAttempts /\ 0 \in Nat
    BY ConstantFacts
  <2>2. [key |-> Head(queue), phase |-> "exists", attempt |-> 1, body |-> 0] \in Jobs
    BY <1>3, <2>1 DEF Jobs
  <2> QED
    BY <1>1, <2>2
<1>5. sent' \subseteq ObjectKeys /\ Stored' \subseteq ObjectKeys /\ trouble' \in BOOLEAN
  BY <1>1 DEF Types, Stored
<1>6. Failures
  BY <1>1 DEF Failures
<1> QED
  BY <1>1, <1>3, <1>4, <1>5, <1>6, WorkerSteps

LEMMA AskStep ==
  ASSUME Types, DiskInv, AskExists
  PROVE  Types' /\ DiskInv' /\ Grows
<1>1. job # NoJob /\ arch' = arch /\ Failures /\ Asked
  BY AskOutcome
<1>2. UNCHANGED <<disk, pc, ckSeq, tsq, clean, starts>> /\ queue' = queue
  BY DEF AskExists
<1>3. /\ queue' \in Seq(ObjectKeys) /\ Len(queue') <= QueueDepth
      /\ Stored' \subseteq ObjectKeys
  BY <1>1, <1>2 DEF Types, Stored
<1>4. /\ job' \in Jobs \cup {NoJob} /\ sent' \subseteq ObjectKeys /\ trouble' \in BOOLEAN
      /\ trouble => trouble'
  <2>1. sent \subseteq ObjectKeys /\ trouble \in BOOLEAN
    BY DEF Types
  <2>2. CASE Again
    BY <1>1, <2>1, <2>2, JobSteps DEF Again
  <2>3. CASE Done
    BY <1>1, <2>1, <2>3, JobSteps DEF Done
  <2>4. CASE GiveUp
    BY <2>1, <2>4 DEF GiveUp
  <2>5. CASE Begins
    BY <1>1, <2>1, <2>5, JobSteps DEF Begins
  <2> QED
    BY <1>1, <2>2, <2>3, <2>4, <2>5 DEF Asked
<1> QED
  BY <1>1, <1>2, <1>3, <1>4, WorkerSteps

LEMMA PutStep ==
  ASSUME Types, DiskInv, Put
  PROVE  Types' /\ DiskInv' /\ Grows
<1>1. job # NoJob /\ Failures /\ PutAway /\ (Again \/ Done \/ GiveUp)
  BY PutOutcome
<1>2. UNCHANGED <<disk, pc, ckSeq, tsq, clean, starts>> /\ queue' = queue
  BY DEF Put
<1>3. queue' \in Seq(ObjectKeys) /\ Len(queue') <= QueueDepth
  BY <1>2 DEF Types
<1>4. Stored' \subseteq ObjectKeys
  BY <1>1, JobSteps
<1>5. /\ job' \in Jobs \cup {NoJob} /\ sent' \subseteq ObjectKeys /\ trouble' \in BOOLEAN
      /\ trouble => trouble'
  <2>1. sent \subseteq ObjectKeys /\ trouble \in BOOLEAN
    BY DEF Types
  <2>2. CASE Again
    BY <1>1, <2>1, <2>2, JobSteps DEF Again
  <2>3. CASE Done
    BY <1>1, <2>1, <2>3, JobSteps DEF Done
  <2>4. CASE GiveUp
    BY <2>1, <2>4 DEF GiveUp
  <2> QED
    BY <1>1, <2>2, <2>3, <2>4
<1> QED
  BY <1>1, <1>2, <1>3, <1>4, <1>5, WorkerSteps

-----------------------------------------------------------------------------
(* The steps: what is offered, under way and in the archive *)

LEMMA NamesOf ==
  ASSUME Types, DiskInv
  PROVE  /\ \A k \in Elements(VerificationKeys) : Named(k)
         /\ \A i \in 1 .. Newest : Named(<<"segment", i>>)
         /\ \A h \in 1 .. Mark : Named(<<"checkpoints", h>>)
         /\ stamps > 0 => Named(<<"timestamps", stamps>>)
         /\ Newest > 0 /\ ChainHead > 0 => Named(<<"open", Newest, ChainHead>>)
<1>1. /\ Newest \in Nat /\ Mark \in Nat /\ ChainHead \in Nat /\ stamps \in Nat
      /\ Retired \subseteq Nat
  BY Heads, ConstantFacts DEF Types
<1>2. \A i \in 1 .. Newest : Named(<<"segment", i>>)
  <2> SUFFICES ASSUME NEW i \in 1 .. Newest PROVE Named(<<"segment", i>>)
    OBVIOUS
  <2> DEFINE k == <<"segment", i>>
  <2>1. k[1] = "segment" /\ k[2] = i
    BY <1>1, KeyForms
  <2> HIDE DEF k
  <2>2. Named(k)
    BY <2>1 DEF Named
  <2> QED
    BY <2>2 DEF k
<1>3. \A h \in 1 .. Mark : Named(<<"checkpoints", h>>)
  <2> SUFFICES ASSUME NEW h \in 1 .. Mark PROVE Named(<<"checkpoints", h>>)
    OBVIOUS
  <2> DEFINE k == <<"checkpoints", h>>
  <2>1. k[1] = "checkpoints" /\ k[2] = h
    BY <1>1, KeyForms
  <2> HIDE DEF k
  <2>2. Named(k)
    BY <2>1 DEF Named
  <2> QED
    BY <2>2 DEF k
<1>4. stamps > 0 => Named(<<"timestamps", stamps>>)
  <2> SUFFICES ASSUME stamps > 0 PROVE Named(<<"timestamps", stamps>>)
    OBVIOUS
  <2> DEFINE k == <<"timestamps", stamps>>
  <2>1. k[1] = "timestamps" /\ k[2] = stamps
    BY <1>1, KeyForms
  <2>2. stamps \in 1 .. stamps
    BY <1>1
  <2> HIDE DEF k
  <2>3. Named(k)
    BY <2>1, <2>2 DEF Named
  <2> QED
    BY <2>3 DEF k
<1>5. Newest > 0 /\ ChainHead > 0 => Named(<<"open", Newest, ChainHead>>)
  <2> SUFFICES ASSUME Newest > 0, ChainHead > 0 PROVE Named(<<"open", Newest, ChainHead>>)
    OBVIOUS
  <2> DEFINE k == <<"open", Newest, ChainHead>>
  <2>1. k[1] = "open" /\ k[2] = Newest /\ k[3] = ChainHead
    BY <1>1, KeyForms
  <2>2. ChainHead = ends[Newest] /\ Newest \in 1 .. Newest /\ ChainHead \in 1 .. ChainHead
    BY <1>1, Heads
  <2> HIDE DEF k
  <2>3. Named(k)
    BY <2>1, <2>2 DEF Named
  <2> QED
    BY <2>3 DEF k
<1>6. \A k \in Elements(VerificationKeys) : Named(k)
  <2>1. Named(<<"public">>)
    <3> DEFINE k == <<"public">>
    <3>1. k[1] = "public"
      BY KeyForms
    <3> HIDE DEF k
    <3>2. Named(k)
      BY <3>1 DEF Named
    <3> QED
      BY <3>2 DEF k
  <2>2. ASSUME NEW n \in Retired PROVE Named(<<"retired", n>>)
    <3> DEFINE k == <<"retired", n>>
    <3>1. k[1] = "retired" /\ k[2] = n
      BY <1>1, KeyForms
    <3> HIDE DEF k
    <3>2. Named(k)
      BY <3>1 DEF Named
    <3> QED
      BY <3>2 DEF k
  <2> QED
    BY <2>1, <2>2, PublicKeys
<1> QED
  BY <1>2, <1>3, <1>4, <1>5, <1>6

\* The same of a checkpoint that a step has signed.
LEMMA SignedName ==
  ASSUME Types', NEW h \in Nat, h > 0, h <= Mark'
  PROVE  Named(<<"checkpoints", h>>)'
<1> DEFINE k == <<"checkpoints", h>>
<1>1. k[1] = "checkpoints" /\ k[2] = h
  BY KeyForms
<1>2. h \in 1 .. Mark'
  <2>1. ends' \in Seq(0 .. MaxSeq) /\ ckSeq' \in 0 .. MaxSeq
    BY DEF Types
  <2>2. ChainHead' \in 0 .. MaxSeq
    <3>1. ChainHead' = IF ends' = <<>> THEN 0 ELSE ends'[Len(ends')]
      BY DEF ChainHead, Newest
    <3> QED
      BY <3>1, <2>1, ConstantFacts
  <2>3. Mark' \in 0 .. MaxSeq
    BY <2>1, <2>2 DEF Mark
  <2> QED
    BY <2>3, ConstantFacts
<1> HIDE DEF k
<1>3. Named(k)'
  BY <1>1, <1>2 DEF Named
<1> QED
  BY <1>3 DEF k

\* A step of the writer: what it offers has a name, and the archive is left alone.
LEMMA WriterObjects ==
  ASSUME Types, Types', DiskInv, ObjectInv, Grows, arch' = arch,
         job' = job \/ job' = NoJob, sent' = sent \/ sent' = {},
         \A k \in Elements(queue)' : k \in Elements(queue) \/ Named(k)'
  PROVE  ObjectInv'
<1>1. /\ Elements(queue) \subseteq ObjectKeys /\ Stored \subseteq ObjectKeys /\ Stored' = Stored
      /\ job # NoJob => job.key \in ObjectKeys
  <2>1. queue \in Seq(ObjectKeys) /\ Stored \subseteq ObjectKeys /\ job \in Jobs \cup {NoJob}
    BY DEF Types
  <2>2. Elements(queue) \subseteq ObjectKeys
    BY <2>1 DEF Elements
  <2> QED
    BY <2>1, <2>2, JobForms DEF Stored
<1>2. \A k \in Elements(queue) \cup Stored : Named(k)'
  BY <1>1, GrowthKeeps DEF ObjectInv
<1>3. job' # NoJob => job' = job /\ Named(job.key)
  BY DEF ObjectInv
<1>4. job' # NoJob => Named(job.key)'
  <2> SUFFICES ASSUME job' # NoJob PROVE Named(job.key)'
    OBVIOUS
  <2>1. ASSUME NEW k, k = job.key, k = job'.key PROVE Named(job.key)'
    <3>1. k \in ObjectKeys /\ Named(k)
      BY <1>1, <1>3, <2>1
    <3>2. Named(k)'
      BY <3>1, GrowthKeeps
    <3> QED
      BY <2>1, <3>2 DEF Named
  <2> QED
    BY <1>3, <2>1
<1>5. \A k \in Stored : Holds(k, arch[k])'
  <2> SUFFICES ASSUME NEW k \in Stored PROVE Holds(k, arch[k])'
    OBVIOUS
  <2>1. Named(k) /\ Holds(k, arch[k]) /\ k \in ObjectKeys
    BY <1>1 DEF ObjectInv
  <2>2. ASSUME NEW c, c = arch[k], c = arch'[k] PROVE Holds(k, arch[k])'
    <3>1. Holds(k, c)
      BY <2>1, <2>2 DEF Holds
    <3>2. Holds(k, c)'
      BY <2>1, <3>1, GrowthKeeps
    <3> QED
      BY <2>2, <3>2 DEF Holds
  <2> QED
    BY <2>2
<1>6. sent' \subseteq Stored'
  BY <1>1 DEF ObjectInv
<1>7. Sending' => /\ Holds(job.key, job.body)'
                 /\ (job.key \in Stored => arch[job.key] <= job.body)'
  <2> SUFFICES ASSUME Sending'
               PROVE  /\ Holds(job.key, job.body)'
                      /\ (job.key \in Stored => arch[job.key] <= job.body)'
    OBVIOUS
  <2>1. job' = job /\ job # NoJob /\ Sending
    BY <1>3 DEF Sending
  <2>2. /\ Holds(job.key, job.body) /\ Named(job.key) /\ job.key \in ObjectKeys
        /\ job.key \in Stored => arch[job.key] <= job.body
    BY <1>1, <2>1 DEF ObjectInv
  <2>3. ASSUME NEW k, NEW c, k = job.key, c = job.body, k = job'.key, c = job'.body
        PROVE  Holds(job.key, job.body)'
    <3>1. Holds(k, c) /\ Named(k) /\ k \in ObjectKeys
      BY <2>2, <2>3
    <3>2. Holds(k, c)'
      BY <3>1, GrowthKeeps
    <3> QED
      BY <2>3, <3>2 DEF Holds
  <2>4. Holds(job.key, job.body)'
    BY <2>1, <2>3
  <2>5. job'.key \in Stored' => arch'[job'.key] <= job'.body
    BY <1>1, <2>1, <2>2
  <2> QED
    BY <2>4, <2>5
<1>8. Elements(queue)' = Elements(queue')
  BY DEF Elements
<1>9. \A k \in Elements(queue)' \cup Stored' : Named(k)'
  BY <1>1, <1>2
<1> QED
  BY <1>1, <1>4, <1>5, <1>6, <1>7, <1>9 DEF ObjectInv

LEMMA OpenObjects ==
  ASSUME Types, DiskInv, ObjectInv, Open
  PROVE  ObjectInv'
<1>1. Types' /\ DiskInv' /\ Grows
  BY OpenStep
<1>2. /\ pc = "down" /\ job' = NoJob /\ sent' = {} /\ arch' = arch
      /\ Offer(VerificationKeys \o CatchUp(ChainHead), <<>>, FALSE)
  BY DEF Open
<1>3. Mark = ChainHead /\ ChainHead \in Nat
  BY <1>2, Heads, ConstantFacts DEF Mark
<1>4. /\ VerificationKeys \in Seq(ObjectKeys) /\ CatchUp(ChainHead) \in Seq(ObjectKeys)
      /\ Elements(CatchUp(ChainHead)) \subseteq
           {<<"segment", i>> : i \in Sealed} \cup Elements(archiveCheckpoints(ChainHead))
      /\ Elements(archiveCheckpoints(ChainHead)) \subseteq
           (IF ChainHead > 0 THEN {<<"checkpoints", ChainHead>>} ELSE {})
             \cup (IF stamps > 0 THEN {<<"timestamps", stamps>>} ELSE {})
  BY <1>3, PublicKeys, SealedKeys, CheckpointKeys
<1>5. Elements(queue)' \subseteq Elements(VerificationKeys) \cup Elements(CatchUp(ChainHead))
  <2> DEFINE keys == VerificationKeys \o CatchUp(ChainHead)
  <2>1. keys \in Seq(ObjectKeys)
        /\ Elements(keys) = Elements(VerificationKeys) \cup Elements(CatchUp(ChainHead))
    BY <1>4, JoinedElements
  <2>2. Offer(keys, <<>>, FALSE)
    BY <1>2
  <2>3. <<>> \in Seq(ObjectKeys) /\ Len(<<>>) <= QueueDepth /\ Elements(<<>>) = {}
    BY ShortLists, ConstantFacts
  <2> HIDE DEF keys
  <2>4. Elements(queue)' \subseteq Elements(<<>>) \cup Elements(keys)
    BY <2>1, <2>2, <2>3, Offered
  <2> QED
    BY <2>1, <2>3, <2>4
<1>6. \A k \in Elements(queue)' : Named(k) /\ k \in ObjectKeys
  <2>1. \A k \in Elements(VerificationKeys) : Named(k) /\ k \in ObjectKeys
    BY <1>4, NamesOf DEF Elements
  <2>2. \A k \in Elements(CatchUp(ChainHead)) : Named(k)
    <3>1. \A i \in Sealed : Named(<<"segment", i>>)
      BY NamesOf, Heads
    <3>2. ChainHead > 0 => Named(<<"checkpoints", ChainHead>>)
      <4>1. ChainHead > 0 => ChainHead \in 1 .. Mark
        BY <1>3
      <4> QED
        BY <4>1, NamesOf
    <3>3. stamps > 0 => Named(<<"timestamps", stamps>>)
      BY NamesOf
    <3> QED
      BY <1>4, <3>1, <3>2, <3>3
  <2>3. \A k \in Elements(CatchUp(ChainHead)) : k \in ObjectKeys
    BY <1>4 DEF Elements
  <2> QED
    BY <1>5, <2>1, <2>2, <2>3
<1>7. \A k \in Elements(queue)' : Named(k)'
  BY <1>1, <1>6, GrowthKeeps
<1> QED
  BY <1>1, <1>2, <1>7, WriterObjects

\* What is offered with a checkpoint that was just signed, or not.
LEMMA SignedObjects ==
  ASSUME Types, Types', DiskInv, Grows, pc' # "down", ckSeq' \in Nat,
         NEW k \in Elements(archiveCheckpoints(ckSeq'))
  PROVE  Named(k)'
<1>1. \/ ckSeq' > 0 /\ k = <<"checkpoints", ckSeq'>>
      \/ stamps > 0 /\ k = <<"timestamps", stamps>>
  BY CheckpointKeys
<1>2. CASE ckSeq' > 0 /\ k = <<"checkpoints", ckSeq'>>
  <2>1. Mark' = ckSeq'
    BY DEF Mark
  <2>2. ASSUME NEW h, h = ckSeq' PROVE Named(<<"checkpoints", h>>)'
    BY <1>2, <2>1, <2>2, SignedName
  <2>3. ASSUME NEW h, h = ckSeq' PROVE Named(k)'
    <3>1. k = <<"checkpoints", h>>
      BY <1>2, <2>3
    <3>2. Named(<<"checkpoints", h>>)'
      BY <2>2, <2>3
    <3> QED
      BY <3>1, <3>2
  <2> QED
    BY <2>3
<1>3. CASE stamps > 0 /\ k = <<"timestamps", stamps>>
  <2>1. Named(k) /\ k \in ObjectKeys
    BY <1>3, NamesOf, KeyForms DEF Types
  <2> QED
    BY <2>1, GrowthKeeps
<1> QED
  BY <1>1, <1>2, <1>3

LEMMA SealObjects ==
  ASSUME Types, DiskInv, ObjectInv, Seal
  PROVE  ObjectInv'
<1>1. Types' /\ DiskInv' /\ Grows
  BY SealStep
<1>2. PICK ok \in BOOLEAN : Attest(ok) /\ Offer(SealOffer(ckSeq'), queue, trouble \/ ~ok)
  BY DEF Seal, SealOffer
<1>3. pc = "up" /\ pc' = "rotating" /\ job' = job /\ sent' = sent /\ arch' = arch
  BY DEF Seal
<1>4. ckSeq' \in Nat
  <2>1. ckSeq' \in 0 .. MaxSeq
    BY <1>1 DEF Types
  <2> QED
    BY <2>1, ConstantFacts
<1>5. Elements(queue)' \subseteq Elements(queue) \cup Elements(SealOffer(ckSeq'))
  <2>1. queue \in Seq(ObjectKeys) /\ Len(queue) <= QueueDepth /\ (trouble \/ ~ok) \in BOOLEAN
    BY DEF Types
  <2>2. SealOffer(ckSeq') \in Seq(ObjectKeys)
    BY <1>4, SealOffers
  <2> QED
    BY <1>2, <2>1, <2>2, Offered
<1>6. ASSUME NEW k \in Elements(SealOffer(ckSeq')) PROVE Named(k)'
  <2>1. k = <<"segment", Newest>> \/ k \in Elements(archiveCheckpoints(ckSeq'))
    BY <1>4, SealOffers
  <2>2. CASE k = <<"segment", Newest>>
    <3>1. Newest \in 1 .. Newest
      BY <1>3, Heads, DirectoryFacts
    <3>2. Named(k) /\ k \in ObjectKeys
      BY <2>2, <3>1, Heads, NamesOf, KeyForms
    <3> QED
      BY <1>1, <3>2, GrowthKeeps
  <2>3. CASE k \in Elements(archiveCheckpoints(ckSeq'))
    BY <1>1, <1>3, <1>4, <2>3, SignedObjects
  <2> QED
    BY <2>1, <2>2, <2>3
<1> QED
  BY <1>1, <1>3, <1>5, <1>6, WriterObjects

LEMMA ShutdownObjects ==
  ASSUME Types, DiskInv, ObjectInv, Shutdown
  PROVE  ObjectInv'
<1>1. Types' /\ DiskInv' /\ Grows
  BY ShutdownStep
<1>2. \E ok \in BOOLEAN :
        \/ queue' = queue
        \/ Attest(ok) /\ Offer(StopOffer(ckSeq'), queue, trouble \/ ~ok)
  BY DEF Shutdown, StopOffer
<1>3. pc # "down" /\ pc' # "down" /\ job' = job /\ sent' = sent /\ arch' = arch
  BY DEF Shutdown
<1>4. ckSeq' \in Nat
  <2>1. ckSeq' \in 0 .. MaxSeq
    BY <1>1 DEF Types
  <2> QED
    BY <2>1, ConstantFacts
<1>5. Elements(queue)' \subseteq Elements(queue) \cup Elements(StopOffer(ckSeq'))
  <2>1. CASE queue' = queue
    BY <2>1 DEF Elements
  <2>2. ASSUME NEW ok \in BOOLEAN, Offer(StopOffer(ckSeq'), queue, trouble \/ ~ok)
        PROVE  Elements(queue)' \subseteq Elements(queue) \cup Elements(StopOffer(ckSeq'))
    <3>1. queue \in Seq(ObjectKeys) /\ Len(queue) <= QueueDepth /\ (trouble \/ ~ok) \in BOOLEAN
      BY DEF Types
    <3>2. StopOffer(ckSeq') \in Seq(ObjectKeys)
      BY <1>4, StopOffers
    <3> QED
      BY <2>2, <3>1, <3>2, Offered
  <2> QED
    BY <1>2, <2>1, <2>2
<1>6. ASSUME NEW k \in Elements(StopOffer(ckSeq')) PROVE Named(k)'
  <2>1. \/ ChainHead > StartOf(Newest) /\ k = <<"open", Newest, ChainHead>>
        \/ k \in Elements(archiveCheckpoints(ckSeq'))
        \/ k \in Elements(VerificationKeys)
    BY <1>4, StopOffers
  <2>2. CASE ChainHead > StartOf(Newest) /\ k = <<"open", Newest, ChainHead>>
    <3>1. Newest > 0 /\ Newest \in Nat /\ ChainHead \in Nat
      BY <1>3, Heads, DirectoryFacts, ConstantFacts
    <3>2. StartOf(Newest) \in Nat
      <4>1. ends \in Seq(0 .. MaxSeq) /\ Newest = Len(ends)
        BY Heads DEF Types
      <4> QED
        BY <3>1, <4>1, ConstantFacts DEF StartOf
    <3>3. ChainHead > 0
      BY <2>2, <3>1, <3>2
    <3>4. Named(k) /\ k \in ObjectKeys
      BY <2>2, <3>1, <3>3, NamesOf, KeyForms
    <3> QED
      BY <1>1, <3>4, GrowthKeeps
  <2>3. CASE k \in Elements(archiveCheckpoints(ckSeq'))
    BY <1>1, <1>3, <1>4, <2>3, SignedObjects
  <2>4. CASE k \in Elements(VerificationKeys)
    <3>1. Named(k) /\ k \in ObjectKeys
      BY <2>4, NamesOf, PublicKeys DEF Elements
    <3> QED
      BY <1>1, <3>1, GrowthKeeps
  <2> QED
    BY <2>1, <2>2, <2>3, <2>4
<1> QED
  BY <1>1, <1>3, <1>5, <1>6, WriterObjects

LEMMA StopTimestampsObjects ==
  ASSUME Types, DiskInv, ObjectInv, StopTimestamps
  PROVE  ObjectInv'
<1>1. Types' /\ DiskInv' /\ Grows
  BY StopTimestampsStep
<1>2. /\ job' = job /\ sent' = sent /\ arch' = arch
      /\ Offer(archiveTimestamps, queue, trouble \/ tsq > 0)
  BY DEF StopTimestamps, LastOffer
<1>3. Elements(queue)' \subseteq Elements(queue) \cup Elements(archiveTimestamps)
  <2>1. queue \in Seq(ObjectKeys) /\ Len(queue) <= QueueDepth
    BY DEF Types
  <2>2. (trouble \/ tsq > 0) \in BOOLEAN
    BY DEF Types
  <2>3. archiveTimestamps \in Seq(ObjectKeys)
    BY AnchorKeys
  <2> QED
    BY <1>2, <2>1, <2>2, <2>3, Offered
<1>4. ASSUME NEW k \in Elements(archiveTimestamps) PROVE Named(k)'
  <2>1. stamps > 0 /\ k = <<"timestamps", stamps>> /\ k \in ObjectKeys
    BY AnchorKeys, KeyForms DEF Types
  <2>2. Named(k)
    BY <2>1, NamesOf
  <2> QED
    BY <1>1, <2>1, <2>2, GrowthKeeps
<1> QED
  BY <1>1, <1>2, <1>3, <1>4, WriterObjects

\* The steps that offer nothing.
LEMMA QuietObjects ==
  ASSUME Types, DiskInv, ObjectInv,
         Write \/ Rotate \/ Tick \/ Kill \/ StopArchive \/ Anchor \/ RotateKey \/ Prune
  PROVE  ObjectInv'
<1>1. Types' /\ Grows
  BY WriteStep, RotateStep, TickStep, KillStep, StopArchiveStep, AnchorStep, RotateKeyStep, PruneStep
<1>2. /\ arch' = arch /\ (job' = job \/ job' = NoJob) /\ (sent' = sent \/ sent' = {})
      /\ queue' = queue \/ queue' = <<>>
  BY DEF Write, Rotate, Tick, Kill, StopArchive, Anchor, RotateKey, Prune, worker
<1>3. \A k \in Elements(queue)' : k \in Elements(queue)
  <2>1. CASE queue' = queue
    BY <2>1 DEF Elements
  <2>2. CASE queue' = <<>>
    <3>1. Elements(queue)' = Elements(<<>>)
      BY <2>2 DEF Elements
    <3> QED
      BY <3>1, ShortLists
  <2> QED
    BY <1>2, <2>1, <2>2
<1> QED
  BY <1>1, <1>2, <1>3, WriterObjects

\* A step of the worker leaves names and contents what they are.
LEMMA WorkerKeeps ==
  ASSUME UNCHANGED <<disk, pc, ckSeq>>
  PROVE  \A k, c : (Named(k) => Named(k)') /\ (Holds(k, c) => Holds(k, c)')
<1>1. ends' = ends /\ cks' = cks /\ stamps' = stamps /\ pub' = pub /\ pc' = pc /\ ckSeq' = ckSeq
  BY DEF disk
<1>2. Newest' = Newest /\ Mark' = Mark /\ Retired' = Retired
  BY <1>1 DEF Newest, Mark, Retired, ChainHead
<1>3. ASSUME NEW k, NEW c PROVE Named(k) => Named(k)'
  BY <1>1, <1>2 DEF Named
<1>4. ASSUME NEW k, NEW c PROVE Holds(k, c) => Holds(k, c)'
  BY <1>1 DEF Holds
<1> QED
  BY <1>3, <1>4

LEMMA TakeObjects ==
  ASSUME Types, DiskInv, ObjectInv, Take
  PROVE  ObjectInv'
<1>1. /\ queue # <<>> /\ job = NoJob /\ queue' = Tail(queue)
      /\ job' = IF Head(queue) \in sent THEN NoJob
                ELSE [key |-> Head(queue), phase |-> "exists", attempt |-> 1, body |-> 0]
      /\ UNCHANGED <<disk, pc, ckSeq>>
      /\ sent' = sent /\ arch' = arch
  BY DEF Take
<1>2. queue \in Seq(ObjectKeys) /\ Elements(queue) = {queue[i] : i \in DOMAIN queue}
  BY DEF Types, Elements
<1>3. Head(queue) \in Elements(queue)
  BY <1>1, <1>2
<1>4. Elements(queue)' \subseteq Elements(queue)
  <2>1. Elements(queue)' = {queue'[i] : i \in DOMAIN queue'}
    BY DEF Elements
  <2>2. \A i \in DOMAIN queue' : i + 1 \in DOMAIN queue /\ queue'[i] = queue[i + 1]
    BY <1>1, <1>2
  <2> QED
    BY <1>2, <2>1, <2>2
<1>5. \A k \in Elements(queue)' \cup Stored' : Named(k)'
  <2>1. Stored' = Stored
    BY <1>1 DEF Stored
  <2> QED
    BY <1>1, <1>4, <2>1, WorkerKeeps DEF ObjectInv
<1>6. job' # NoJob => job'.key = Head(queue) /\ job'.phase = "exists"
  BY <1>1
<1>7. job' # NoJob => Named(job.key)'
  <2> SUFFICES ASSUME job' # NoJob PROVE Named(job.key)'
    OBVIOUS
  <2>1. ASSUME NEW k, k = Head(queue), k = job'.key PROVE Named(job.key)'
    <3>1. Named(k)
      BY <1>3, <2>1 DEF ObjectInv
    <3>2. Named(k)'
      BY <1>1, <3>1, WorkerKeeps
    <3> QED
      BY <2>1, <3>2 DEF Named
  <2> QED
    BY <1>6, <2>1
<1>8. ~Sending'
  BY <1>6 DEF Sending
<1>9. \A k \in Stored' : Holds(k, arch[k])'
  <2> SUFFICES ASSUME NEW k \in Stored' PROVE Holds(k, arch[k])'
    OBVIOUS
  <2>1. ASSUME NEW c, c = arch[k], c = arch'[k] PROVE Holds(k, arch[k])'
    <3>1. Holds(k, c)
      BY <1>1, <2>1 DEF ObjectInv, Stored, Holds
    <3>2. Holds(k, c)'
      BY <1>1, <3>1, WorkerKeeps
    <3> QED
      BY <2>1, <3>2 DEF Holds
  <2> QED
    BY <1>1, <2>1
<1>10. sent' \subseteq Stored'
  BY <1>1 DEF ObjectInv, Stored
<1> QED
  BY <1>5, <1>7, <1>8, <1>9, <1>10 DEF ObjectInv

\* The archive after a step of the worker: what was there is there, no shorter, and
\* every object is what its key says.
LEMMA StoreKeeps ==
  ASSUME Types, ObjectInv, UNCHANGED <<disk, pc, ckSeq>>, job # NoJob,
         arch' = arch \/ (arch' = Store(job.key, job.body) /\ job.phase = "put")
  PROVE  /\ Stored \subseteq Stored' /\ Stored' \subseteq Stored \cup {job.key}
         /\ \A k \in Stored : arch[k] <= arch'[k]
         /\ \A k \in Stored' : Named(k)' /\ Holds(k, arch[k])'
         /\ arch' # arch => job.key \in Stored' /\ arch'[job.key] = job.body
<1>1. \A k \in Stored : Named(k) /\ Holds(k, arch[k]) /\ arch[k] \in Nat
  BY DEF ObjectInv, Holds
<1>2. CASE arch' = arch
  <2>1. Stored' = Stored
    BY <1>2 DEF Stored
  <2>2. ASSUME NEW k \in Stored', NEW c, c = arch[k], c = arch'[k] PROVE Holds(k, arch[k])'
    <3>1. Holds(k, c)
      BY <1>1, <2>1, <2>2 DEF Holds
    <3>2. Holds(k, c)'
      BY <3>1, WorkerKeeps
    <3> QED
      BY <2>2, <3>2 DEF Holds
  <2>3. \A k \in Stored' : Holds(k, arch[k])'
    BY <1>2, <2>2
  <2> QED
    BY <1>1, <1>2, <2>1, <2>3, WorkerKeeps
<1>3. CASE arch' = Store(job.key, job.body) /\ job.phase = "put"
  <2>1. Sending
    BY <1>3 DEF Sending
  <2>2. /\ Named(job.key) /\ Holds(job.key, job.body)
        /\ job.key \in Stored => arch[job.key] <= job.body
    BY <2>1 DEF ObjectInv
  <2>3. /\ Stored' = Stored \cup {job.key}
        /\ \A k \in Stored' : arch'[k] = IF k = job.key THEN job.body ELSE arch[k]
    BY <1>3 DEF Store, Stored
  <2>4. \A k \in Stored : arch[k] <= arch'[k]
    BY <1>1, <2>2, <2>3
  <2>5. ASSUME NEW k \in Stored', NEW c, c = arch'[k] PROVE Named(k)' /\ Holds(k, arch[k])'
    <3>1. Named(k) /\ Holds(k, c)
      <4>1. CASE k = job.key
        BY <2>2, <2>3, <2>5, <4>1
      <4>2. CASE k # job.key
        BY <1>1, <2>3, <2>5, <4>2
      <4> QED
        BY <4>1, <4>2
    <3>2. Named(k)' /\ Holds(k, c)'
      BY <3>1, WorkerKeeps
    <3> QED
      BY <2>5, <3>2 DEF Holds
  <2> QED
    BY <2>3, <2>4, <2>5
<1> QED
  BY <1>2, <1>3

LEMMA AskObjects ==
  ASSUME Types, DiskInv, ObjectInv, AskExists
  PROVE  ObjectInv'
<1>1. job # NoJob /\ job.phase = "exists" /\ arch' = arch /\ Asked
  BY AskOutcome
<1>2. UNCHANGED <<disk, pc, ckSeq>> /\ queue' = queue
  BY DEF AskExists
<1>3. /\ Stored' = Stored /\ \A k \in Stored' : Named(k)' /\ Holds(k, arch[k])'
  BY <1>1, <1>2, StoreKeeps DEF Stored
<1>4. \A k \in Elements(queue)' : Named(k)'
  BY <1>2, WorkerKeeps DEF ObjectInv, Elements
<1>5. ASSUME job' # NoJob
      PROVE  /\ job'.key = job.key /\ sent' = sent
             /\ job'.phase = "put" => Begins /\ job'.body = FileOf(job.key)
  <2>1. Again \/ Begins
    BY <1>1, <1>5 DEF Asked, Done, GiveUp
  <2> QED
    BY <1>1, <2>1, JobSteps DEF Again, Begins
<1>6. Named(job.key) /\ job.key \in ObjectKeys
  BY <1>1, JobSteps DEF ObjectInv
<1>7. job' # NoJob => Named(job.key)'
  <2>1. ASSUME job' # NoJob, NEW k, k = job.key, k = job'.key PROVE Named(job.key)'
    <3>1. Named(k)'
      BY <1>2, <1>6, <2>1, WorkerKeeps
    <3> QED
      BY <2>1, <3>1 DEF Named
  <2> QED
    BY <1>5, <2>1
<1>8. sent' \subseteq Stored'
  <2>1. CASE Again
    BY <1>3, <2>1 DEF ObjectInv, Again
  <2>2. CASE job.key \in Stored /\ Done
    BY <1>3, <2>2 DEF ObjectInv, Done
  <2>3. CASE GiveUp
    BY <1>3, <2>3 DEF ObjectInv, GiveUp
  <2>4. CASE Begins
    BY <1>3, <2>4 DEF ObjectInv, Begins
  <2> QED
    BY <1>1, <2>1, <2>2, <2>3, <2>4 DEF Asked
<1>9. Sending' => /\ Holds(job.key, job.body)'
                 /\ (job.key \in Stored => arch[job.key] <= job.body)'
  <2> SUFFICES ASSUME Sending'
               PROVE  /\ Holds(job.key, job.body)'
                      /\ (job.key \in Stored => arch[job.key] <= job.body)'
    OBVIOUS
  <2>1. job' # NoJob /\ job'.phase = "put"
    BY DEF Sending
  <2>2. Begins /\ job'.body = FileOf(job.key) /\ job'.key = job.key /\ FileOf(job.key) # 0
    BY <1>5, <2>1 DEF Begins
  <2>3. Holds(job.key, FileOf(job.key)) /\ \A c : Holds(job.key, c) => c <= FileOf(job.key)
    BY <1>6, <2>2, FileHolds
  <2>4. ASSUME NEW k, NEW c, k = job.key, c = FileOf(job.key), k = job'.key, c = job'.body
        PROVE  Holds(job.key, job.body)'
    <3>1. Holds(k, c)
      BY <2>3, <2>4
    <3>2. Holds(k, c)'
      BY <1>2, <3>1, WorkerKeeps
    <3> QED
      BY <2>4, <3>2 DEF Holds
  <2>5. Holds(job.key, job.body)'
    BY <2>2, <2>4
  <2>6. job.key \in Stored => arch[job.key] <= FileOf(job.key)
    BY <2>3 DEF ObjectInv
  <2>7. job'.key \in Stored' => arch'[job'.key] <= job'.body
    BY <1>1, <1>3, <2>2, <2>6
  <2> QED
    BY <2>5, <2>7
<1> QED
  BY <1>3, <1>4, <1>7, <1>8, <1>9 DEF ObjectInv

LEMMA PutObjects ==
  ASSUME Types, DiskInv, ObjectInv, Put
  PROVE  ObjectInv'
<1>1. /\ job # NoJob /\ job.phase = "put" /\ PutAway
      /\ \/ Again
         \/ arch' = Store(job.key, job.body) /\ Done
         \/ GiveUp
  BY PutOutcome
<1>2. UNCHANGED <<disk, pc, ckSeq>> /\ queue' = queue
  BY DEF Put
<1>3. /\ Stored \subseteq Stored' /\ \A k \in Stored' : Named(k)' /\ Holds(k, arch[k])'
      /\ arch' # arch => job.key \in Stored' /\ arch'[job.key] = job.body
  BY <1>1, <1>2, StoreKeeps DEF PutAway
<1>4. \A k \in Elements(queue)' : Named(k)'
  BY <1>2, WorkerKeeps DEF ObjectInv, Elements
<1>5. ASSUME job' # NoJob
      PROVE  job'.key = job.key /\ job'.body = job.body
  <2>1. Again
    BY <1>1, <1>5 DEF Done, GiveUp
  <2> QED
    BY <1>1, <2>1, JobSteps DEF Again
<1>6. Sending
  BY <1>1 DEF Sending
<1>7. /\ Named(job.key) /\ Holds(job.key, job.body)
      /\ job.key \in Stored => arch[job.key] <= job.body
  BY <1>1, <1>6 DEF ObjectInv
<1>8. job' # NoJob => Named(job.key)'
  <2>1. ASSUME job' # NoJob, NEW k, k = job.key, k = job'.key PROVE Named(job.key)'
    <3>1. Named(k)'
      BY <1>2, <1>7, <2>1, WorkerKeeps
    <3> QED
      BY <2>1, <3>1 DEF Named
  <2> QED
    BY <1>5, <2>1
<1>9. sent' \subseteq Stored'
  <2>1. CASE Again
    BY <1>3, <2>1 DEF ObjectInv, Again
  <2>2. CASE arch' = Store(job.key, job.body) /\ Done
    <3>1. job.key \in Stored'
      BY <2>2 DEF Store, Stored
    <3> QED
      BY <1>3, <2>2, <3>1 DEF ObjectInv, Done
  <2>3. CASE GiveUp
    BY <1>3, <2>3 DEF ObjectInv, GiveUp
  <2> QED
    BY <1>1, <2>1, <2>2, <2>3
<1>10. Sending' => /\ Holds(job.key, job.body)'
                  /\ (job.key \in Stored => arch[job.key] <= job.body)'
  <2> SUFFICES ASSUME Sending'
               PROVE  /\ Holds(job.key, job.body)'
                      /\ (job.key \in Stored => arch[job.key] <= job.body)'
    OBVIOUS
  <2>1. job'.key = job.key /\ job'.body = job.body
    BY <1>5 DEF Sending
  <2>2. ASSUME NEW k, NEW c, k = job.key, c = job.body, k = job'.key, c = job'.body
        PROVE  Holds(job.key, job.body)'
    <3>1. Holds(k, c)
      BY <1>7, <2>2
    <3>2. Holds(k, c)'
      BY <1>2, <3>1, WorkerKeeps
    <3> QED
      BY <2>2, <3>2 DEF Holds
  <2>3. Holds(job.key, job.body)'
    BY <2>1, <2>2
  <2>4. job'.key \in Stored' => arch'[job'.key] <= job'.body
    <3>1. CASE arch' = arch
      BY <1>7, <2>1, <3>1 DEF Stored
    <3>2. CASE arch' # arch
      <4>1. arch'[job.key] = job.body /\ job.body \in Nat
        BY <1>3, <1>7, <3>2 DEF Holds
      <4> QED
        BY <2>1, <4>1
    <3> QED
      BY <3>1, <3>2
  <2> QED
    BY <2>3, <2>4
<1> QED
  BY <1>3, <1>4, <1>8, <1>9, <1>10 DEF ObjectInv

-----------------------------------------------------------------------------
(* Type correctness, and that nothing shrinks *)

LEMMA Initially == Init => IInv
<1> SUFFICES ASSUME Init PROVE IInv
  OBVIOUS
<1>1. /\ ends = <<>> /\ pruned = 0 /\ cks = <<>> /\ stamps = 0 /\ pub = 1
      /\ pc = "down" /\ ckSeq = 0
      /\ queue = <<>> /\ job = NoJob /\ sent = {} /\ tsq = 0
      /\ arch = <<>>
      /\ trouble = FALSE /\ clean = FALSE /\ starts = 0 /\ failures = 0
  BY DEF Init
<1>2. Newest = 0 /\ ChainHead = 0 /\ Mark = 0
  BY <1>1 DEF Newest, ChainHead, Mark
<1>3. Stored = {} /\ Elements(queue) = {} /\ DOMAIN cks = {}
  BY <1>1, ShortLists DEF Stored
<1>4. Types
  <2>1. ends \in Seq(0 .. MaxSeq) /\ cks \in Seq(CheckpointLines) /\ queue \in Seq(ObjectKeys)
    BY <1>1
  <2>2. Newest <= MaxSegs /\ pub \in 1 .. MaxKeys /\ ckSeq \in 0 .. MaxSeq
        /\ failures \in 0 .. MaxFailures
    BY <1>1, <1>2, ConstantFacts
  <2>3. Len(queue) <= QueueDepth
    BY <1>1, ConstantFacts
  <2> QED
    BY <1>1, <1>3, <2>1, <2>2, <2>3 DEF Types, Pcs
<1>5. DiskInv
  <2>1. Mark <= ChainHead /\ pruned <= Newest /\ ~(Newest > 0) /\ stamps + tsq <= MaxStamps
    BY <1>1, <1>2, ConstantFacts
  <2> QED
    BY <1>1, <1>3, <2>1 DEF DiskInv
<1>6. ObjectInv
  BY <1>1, <1>3 DEF ObjectInv, Sending
<1> QED
  BY <1>4, <1>5, <1>6 DEF IInv

LEMMA Stuttering ==
  ASSUME IInv, UNCHANGED vars
  PROVE  IInv'
<1>1. /\ ends' = ends /\ pruned' = pruned /\ cks' = cks /\ stamps' = stamps /\ pub' = pub
      /\ pc' = pc /\ ckSeq' = ckSeq /\ queue' = queue /\ job' = job /\ sent' = sent
      /\ tsq' = tsq /\ arch' = arch /\ trouble' = trouble /\ clean' = clean
      /\ starts' = starts /\ failures' = failures
  BY DEF vars, disk, worker
<1>2. Newest' = Newest /\ ChainHead' = ChainHead /\ Mark' = Mark /\ Stored' = Stored
      /\ Retired' = Retired /\ Elements(queue)' = Elements(queue)
  BY <1>1 DEF Newest, ChainHead, Mark, Stored, Retired, Elements
<1>3. Types'
  BY <1>1, <1>2 DEF IInv, Types
<1>4. DiskInv'
  BY <1>1, <1>2 DEF IInv, DiskInv
<1>5. ObjectInv'
  BY <1>1, <1>2 DEF IInv, ObjectInv, Named, Holds, Sending
<1> QED
  BY <1>3, <1>4, <1>5 DEF IInv

LEMMA Step ==
  ASSUME IInv, Next
  PROVE  IInv'
<1>1. Types /\ DiskInv /\ ObjectInv
  BY DEF IInv
<1>2. CASE Open
  BY <1>1, <1>2, OpenStep, OpenObjects DEF IInv
<1>3. CASE Write
  BY <1>1, <1>3, WriteStep, QuietObjects DEF IInv
<1>4. CASE Seal
  BY <1>1, <1>4, SealStep, SealObjects DEF IInv
<1>5. CASE Tick
  BY <1>1, <1>5, TickStep, QuietObjects DEF IInv
<1>6. CASE Kill
  BY <1>1, <1>6, KillStep, QuietObjects DEF IInv
<1>7. CASE Shutdown
  BY <1>1, <1>7, ShutdownStep, ShutdownObjects DEF IInv
<1>8. CASE Rotate
  BY <1>1, <1>8, RotateStep, QuietObjects DEF IInv
<1>9. CASE StopTimestamps
  BY <1>1, <1>9, StopTimestampsStep, StopTimestampsObjects DEF IInv
<1>10. CASE StopArchive
  BY <1>1, <1>10, StopArchiveStep, QuietObjects DEF IInv
<1>11. CASE Take
  BY <1>1, <1>11, TakeStep, TakeObjects DEF IInv
<1>12. CASE AskExists
  BY <1>1, <1>12, AskStep, AskObjects DEF IInv
<1>13. CASE Put
  BY <1>1, <1>13, PutStep, PutObjects DEF IInv
<1>14. CASE Anchor
  BY <1>1, <1>14, AnchorStep, QuietObjects DEF IInv
<1>15. CASE RotateKey
  BY <1>1, <1>15, RotateKeyStep, QuietObjects DEF IInv
<1>16. CASE Prune
  BY <1>1, <1>16, PruneStep, QuietObjects DEF IInv
<1> QED
  BY <1>2, <1>3, <1>4, <1>5, <1>6, <1>7, <1>8, <1>9, <1>10, <1>11, <1>12, <1>13, <1>14,
     <1>15, <1>16 DEF Next

\* At every point what is offered, under way and in the archive has a name that the
\* directory accounts for, and no object is more than its file or less than its name
\* (archiver.go enqueueUpload, archiveLoop, upload; archive/s3.go Put).
THEOREM ObjectsAreNamed == Spec => []IInv
<1>1. IInv /\ [Next]_vars => IInv'
  BY Step, Stuttering
<1> QED
  BY Initially, <1>1, PTL DEF Spec

LEMMA TypesSuffice ==
  ASSUME Types, DiskInv
  PROVE  TypeOK
<1>1. /\ ends \in Seq(0 .. MaxSeq) /\ Newest <= MaxSegs /\ stamps \in 0 .. MaxStamps
      /\ pub \in 1 .. MaxKeys /\ ckSeq \in 0 .. MaxSeq /\ Len(queue) <= QueueDepth
      /\ tsq \in 0 .. MaxStamps /\ failures \in 0 .. MaxFailures
  <2>1. stamps \in Nat /\ tsq \in Nat /\ stamps + tsq <= MaxStamps
    BY DirectoryFacts DEF Types
  <2>2. stamps \in 0 .. MaxStamps /\ tsq \in 0 .. MaxStamps
    BY <2>1, ConstantFacts
  <2> QED
    BY <2>2 DEF Types
<1>2. pruned \in 0 .. MaxSegs
  <2>1. pruned \in Nat /\ Newest \in Nat /\ Newest <= MaxSegs /\ pruned <= Newest
    BY Heads, DirectoryFacts DEF Types
  <2> QED
    BY <2>1, ConstantFacts
<1>3. \A c \in Attested : c.seq \in 1 .. MaxSeq /\ c.key \in 1 .. MaxKeys
  <2>1. \A d \in CheckpointLines : d.seq \in 1 .. MaxSeq /\ d.key \in 1 .. MaxKeys
    BY DEF CheckpointLines
  <2>2. \A i \in 1 .. Len(cks) : cks[i] \in CheckpointLines
    BY DEF Types
  <2> QED
    BY <2>1, <2>2 DEF Attested
<1>4. pc \in {"down", "up", "rotating", "broken", "stopping timestamps", "stopping archive"}
  BY DEF Types, Pcs
<1>5. job # NoJob => job.phase \in {"exists", "put"} /\ job.attempt \in 1 .. MaxAttempts
  BY JobForms DEF Types
<1> QED
  BY <1>1, <1>2, <1>3, <1>4, <1>5 DEF TypeOK

\* Every variable holds a value of its kind, the queue stays within ArchiveQueueDepth
\* and a request within its attempts (archiver.go enqueueUpload, archive/s3.go do).
THEOREM TypeCorrect == Spec => []TypeOK
<1>1. IInv => TypeOK
  BY TypesSuffice DEF IInv
<1> QED
  BY ObjectsAreNamed, <1>1, PTL

\* No step removes an object or replaces one by a shorter one: an upload reads its
\* file where the request begins, the file has not shrunk since the object it may
\* replace was read from it, and one upload is under way at a time
\* (archiver.go archiveLoop and upload, archive/s3.go Put).
THEOREM UploadsShrinkNothing == Spec => NothingShrinks
<1>1. IInv /\ [Next]_vars =>
        [\A k \in Stored : /\ k \in DOMAIN arch'
                           /\ arch'[k] >= arch[k]]_vars
  <2> SUFFICES ASSUME IInv, [Next]_vars
               PROVE  \A k \in Stored : k \in DOMAIN arch' /\ arch'[k] >= arch[k]
    OBVIOUS
  <2>1. Types /\ ObjectInv
    BY DEF IInv
  <2>2. \A k \in Stored : arch[k] \in Nat
    BY <2>1 DEF ObjectInv, Holds
  <2>3. CASE arch' = arch
    BY <2>2, <2>3 DEF Stored
  <2>4. CASE Put
    <3>1. /\ job # NoJob /\ job.phase = "put" /\ PutAway
      BY <2>4, PutOutcome
    <3>2. UNCHANGED <<disk, pc, ckSeq>>
      BY <2>4 DEF Put
    <3>3. /\ Stored \subseteq Stored' /\ \A k \in Stored : arch[k] <= arch'[k]
          /\ \A k \in Stored' : Holds(k, arch[k])'
      BY <2>1, <3>1, <3>2, StoreKeeps DEF PutAway
    <3>4. \A k \in Stored : arch'[k] \in Nat
      BY <3>3 DEF Holds
    <3> QED
      BY <2>2, <3>3, <3>4 DEF Stored
  <2>5. arch' = arch \/ Put
    BY AskOutcome DEF Next, vars, Open, Write, Seal, Tick, Kill, Shutdown, Rotate,
       StopTimestamps, StopArchive, Take, Anchor, RotateKey, Prune
  <2> QED
    BY <2>3, <2>4, <2>5
<1> QED
  BY ObjectsAreNamed, <1>1, PTL DEF Spec, NothingShrinks

-----------------------------------------------------------------------------
(* Damage is reported *)

\* What archive-verify says of each kind of key that is in an archive.
LEMMA StatusForms ==
  ASSUME NEW a, NEW k \in ObjectKeys, k \in DOMAIN a
  PROVE  /\ k[1] = "segment" => Status(a, k) = IF k[2] <= pruned \/ Relation(a, k) = "identical"
                                               THEN "present" ELSE "mismatch"
         /\ k[1] = "public" => Status(a, k) = IF KeyKnown(a) THEN "present" ELSE "mismatch"
         /\ k[1] \in {"checkpoints", "open"} =>
              Status(a, k) = IF Relation(a, k) \in {"identical", "prefix"} /\ SnapshotComplete(a, k)
                             THEN "present" ELSE "mismatch"
         /\ k[1] = "retired" => Status(a, k) = IF Relation(a, k) = "identical"
                                               THEN "present" ELSE "mismatch"
<1>1. k = <<"public">> <=> k[1] = "public"
  <2>1. CASE k = <<"public">>
    BY <2>1, KeyForms
  <2>2. CASE k # <<"public">>
    <3>1. k[1] \in {"segment", "checkpoints", "timestamps", "retired", "open"}
      BY <2>2, KeyKinds, KeyForms
    <3> QED
      BY <2>2, <3>1
  <2> QED
    BY <2>1, <2>2
<1>2. ASSUME k[1] = "segment"
      PROVE  Status(a, k) = IF k[2] <= pruned \/ Relation(a, k) = "identical"
                            THEN "present" ELSE "mismatch"
  BY <1>1, <1>2 DEF Status
<1>3. ASSUME k[1] = "public"
      PROVE  Status(a, k) = IF KeyKnown(a) THEN "present" ELSE "mismatch"
  BY <1>1, <1>3 DEF Status
<1>4. ASSUME k[1] \in {"checkpoints", "open"}
      PROVE  Status(a, k) = IF Relation(a, k) \in {"identical", "prefix"} /\ SnapshotComplete(a, k)
                             THEN "present" ELSE "mismatch"
  BY <1>1, <1>4 DEF Status
<1>5. ASSUME k[1] = "retired"
      PROVE  Status(a, k) = IF Relation(a, k) = "identical" THEN "present" ELSE "mismatch"
  BY <1>1, <1>5 DEF Status
<1> QED
  BY <1>2, <1>3, <1>4, <1>5

LEMMA Relations ==
  ASSUME NEW a, NEW k, a[k] \in Nat, FileOf(k) \in Nat
  PROVE  /\ Relation(a, k) = "identical" => a[k] # 0 /\ a[k] = FileOf(k)
         /\ Relation(a, k) = "prefix" => a[k] # 0 /\ a[k] < FileOf(k)
         /\ a[k] # 0 /\ a[k] = FileOf(k) => Relation(a, k) = "identical"
         /\ a[k] # 0 /\ a[k] < FileOf(k) => Relation(a, k) \in {"identical", "prefix"}
<1>1. CASE a[k] = 0
  <2>1. Relation(a, k) # "identical" /\ Relation(a, k) # "prefix"
    BY <1>1 DEF Relation
  <2> QED
    BY <1>1, <2>1
<1>2. CASE a[k] # 0 /\ a[k] = FileOf(k)
  <2>1. Relation(a, k) = "identical" /\ ~(a[k] < FileOf(k))
    BY <1>2 DEF Relation
  <2> QED
    BY <1>2, <2>1
<1>3. CASE a[k] # 0 /\ a[k] < FileOf(k)
  <2>1. Relation(a, k) = "prefix" /\ a[k] # FileOf(k)
    BY <1>3 DEF Relation
  <2> QED
    BY <1>3, <2>1
<1>4. CASE a[k] # 0 /\ FileOf(k) < a[k]
  <2>1. a[k] # FileOf(k) /\ ~(a[k] < FileOf(k))
    BY <1>4
  <2>2. Relation(a, k) # "identical" /\ Relation(a, k) # "prefix"
    BY <1>4, <2>1 DEF Relation
  <2> QED
    BY <2>1, <2>2
<1> QED
  BY <1>1, <1>2, <1>3, <1>4

LEMMA DamageSeen ==
  ASSUME Types, DiskInv, NEW k \in Probes \cap Stored, NEW c \in 0 .. MaxSeq + 1, ~Serves(k, c)
  PROVE  Status([arch EXCEPT ![k] = c], k) = "mismatch"
<1>1. ASSUME NEW a, k \in DOMAIN a, a[k] = c
      PROVE  Status(a, k) = "mismatch"
  <2>1. k \in ObjectKeys /\ c \in Nat
    BY ConstantFacts DEF Types
  <2> FileOf(k) \in Nat /\ a[k] \in Nat
    BY <1>1, <2>1, FilesAreNumbers
  <2>2. /\ Newest \in Nat /\ pruned \in Nat /\ \A i \in 1 .. Newest : ends[i] \in Nat
    BY Heads, EndsAreNumbers DEF Types
  <2>3. \/ \E i \in Sealed : k = <<"segment", i>>
        \/ \E i \in 1 .. pruned : k = <<"segment", i>>
        \/ k = <<"public">>
        \/ \E n \in Retired : k = <<"retired", n>>
        \/ \E d \in Attested : k = <<"checkpoints", d.seq>>
        \/ \E d \in Attested : d.segment \in Here /\ k = <<"open", d.segment, d.seq>>
    BY DEF Probes, Required, SealedProbes, PrunedProbes, ToSegments, RetiredProbes,
           CheckpointProbes, OpenProbes
  <2>4. \A d \in Attested : d.seq \in Nat
    <3>1. \A d \in CheckpointLines : d.seq \in Nat
      BY ConstantFacts DEF CheckpointLines
    <3>2. Attested \subseteq CheckpointLines
      BY DEF Attested, Types
    <3> QED
      BY <3>1, <3>2
  <2>5. ASSUME NEW i \in Sealed, k = <<"segment", i>> PROVE Status(a, k) = "mismatch"
    <3>1. k[1] = "segment" /\ k[2] = i /\ i \in Here /\ i \in Nat /\ i > pruned
      BY <2>5, Heads, KeyForms
    <3>2. FileOf(k) = ends[i]
      BY <3>1 DEF FileOf
    <3>3. c # ends[i]
      BY <3>1 DEF Serves
    <3>4. Relation(a, k) # "identical"
      BY <1>1, <3>2, <3>3, Relations
    <3>5. ~(k[2] <= pruned)
      BY <2>2, <3>1
    <3> QED
      BY <1>1, <2>1, <3>1, <3>4, <3>5, StatusForms
  <2>6. ASSUME NEW i \in 1 .. pruned, k = <<"segment", i>> PROVE Status(a, k) = "mismatch"
    <3>1. k[1] = "segment" /\ k[2] = i /\ i <= pruned
      BY <2>2, <2>6, KeyForms
    <3> QED
      BY <3>1 DEF Serves
  <2>7. ASSUME k = <<"public">> PROVE Status(a, k) = "mismatch"
    <3>1. k[1] = "public"
      BY <2>7, KeyForms
    <3>2. c \notin 1 .. pub
      BY <3>1 DEF Serves
    <3>3. ~KeyKnown(a)
      BY <1>1, <2>7, <3>2 DEF KeyKnown
    <3> QED
      BY <1>1, <2>1, <3>1, <3>3, StatusForms
  <2>8. ASSUME NEW n \in Retired, k = <<"retired", n>> PROVE Status(a, k) = "mismatch"
    <3>1. k[1] = "retired" /\ k[2] = n
      BY <2>8, Heads, KeyForms
    <3>2. FileOf(k) = n /\ c # n
      BY <3>1 DEF FileOf, Serves
    <3>3. Relation(a, k) # "identical"
      BY <1>1, <3>2, Relations
    <3> QED
      BY <1>1, <2>1, <3>1, <3>3, StatusForms
  <2>9. ASSUME NEW d \in Attested, d.segment \in Here, k = <<"open", d.segment, d.seq>>
        PROVE  Status(a, k) = "mismatch"
    <3>1. k[1] = "open" /\ k[2] = d.segment /\ k[3] = d.seq /\ d.segment \in 1 .. Newest
      BY <2>4, <2>9, Heads, KeyForms
    <3>2. FileOf(k) = ends[d.segment] /\ ends[d.segment] \in Nat
      BY <2>2, <2>9, <3>1 DEF FileOf
    <3>3. ~(d.seq <= c /\ c <= ends[d.segment])
      <4>1. c \notin d.seq .. ends[d.segment]
        BY <3>1 DEF Serves
      <4> QED
        BY <2>1, <2>4, <3>2, <4>1
    <3>4. SnapshotComplete(a, k) => c >= d.seq
      BY <1>1, <3>1 DEF SnapshotComplete
    <3>5. Relation(a, k) \in {"identical", "prefix"} => c <= ends[d.segment]
      BY <1>1, <2>1, <3>2, Relations
    <3>6. ~(Relation(a, k) \in {"identical", "prefix"} /\ SnapshotComplete(a, k))
      BY <2>1, <2>4, <3>3, <3>4, <3>5
    <3> QED
      BY <1>1, <2>1, <3>1, <3>6, StatusForms
  <2>10. ASSUME NEW d \in Attested, k = <<"checkpoints", d.seq>> PROVE Status(a, k) = "mismatch"
    <3>1. k[1] = "checkpoints" /\ k[2] = d.seq
      BY <2>4, <2>10, KeyForms
    <3>2. FileOf(k) = Len(cks) /\ Len(cks) \in Nat /\ DOMAIN cks = 1 .. Len(cks)
      BY <3>1 DEF FileOf, Types
    <3>3. PICK j \in 1 .. Len(cks) : cks[j] = d
      BY DEF Attested
    <3>4. ~(c <= Len(cks) /\ j <= c)
      <4>1. ~(c <= Len(cks) /\ \E i \in 1 .. c : cks[i].seq = d.seq)
        BY <3>1 DEF Serves
      <4> QED
        BY <2>1, <3>2, <3>3, <4>1
    <3>5. SnapshotComplete(a, k) => cks[c].seq >= d.seq
      BY <1>1, <3>1 DEF SnapshotComplete
    <3>6. Relation(a, k) \in {"identical", "prefix"} => c # 0 /\ c <= Len(cks)
      BY <1>1, <2>1, <3>2, Relations
    <3>7. c # 0 /\ c <= Len(cks) => cks[c].seq < d.seq
      <4>1. ASSUME c # 0, c <= Len(cks) PROVE cks[c].seq < d.seq
        <5>1. c \in DOMAIN cks /\ j \in DOMAIN cks /\ c < j
          BY <2>1, <3>2, <3>3, <3>4, <4>1
        <5>2. cks[c].seq < cks[j].seq
          BY <5>1 DEF DiskInv
        <5> QED
          BY <3>3, <5>2
      <4> QED
        BY <4>1
    <3>8. ~(Relation(a, k) \in {"identical", "prefix"} /\ SnapshotComplete(a, k))
      <4>1. c # 0 /\ c <= Len(cks) => cks[c].seq \in Nat
        <5>1. c # 0 /\ c <= Len(cks) => cks[c] \in Attested
          BY <2>1, <3>2 DEF Attested
        <5> QED
          BY <2>4, <5>1
      <4> QED
        BY <2>4, <3>5, <3>6, <3>7, <4>1
    <3> QED
      BY <1>1, <2>1, <3>1, <3>8, StatusForms
  <2> QED
    BY <2>3, <2>5, <2>6, <2>7, <2>8, <2>9, <2>10
<1>2. k \in DOMAIN [arch EXCEPT ![k] = c] /\ [arch EXCEPT ![k] = c][k] = c
  BY DEF Stored
<1> QED
  BY <1>1, <1>2

\* An object that no longer serves the purpose its key names is never passed, whatever
\* it was replaced by: a sealed segment or a key that differs, a snapshot that ends
\* before the head it is named after (archivecheck/verify.go compare, snapshotComplete).
THEOREM DamageIsReported == Spec => []DamageReported
<1>1. IInv => DamageReported
  BY DamageSeen DEF IInv, DamageReported
<1> QED
  BY ObjectsAreNamed, <1>1, PTL

-----------------------------------------------------------------------------
(* What a run without a failure leaves behind *)

LEMMA StillPending ==
  ASSUME job' = job, arch' = arch, Elements(queue) \subseteq Elements(queue)'
  PROVE  \A k : Pending(k) => Pending(k)'
BY DEF Pending, Stored

\* What was taken from the queue is under way or was there already, and the job is
\* dropped only when it is done, unless a failure is counted.
LEMMA WorkerPending ==
  ASSUME Types, DiskInv, ObjectInv, Take \/ AskExists \/ Put, ~trouble'
  PROVE  ~trouble /\ \A k : Pending(k) => Pending(k)'
<1>1. CASE Take
  <2>1. /\ queue # <<>> /\ job = NoJob /\ queue' = Tail(queue) /\ queue \in Seq(ObjectKeys)
        /\ job' = IF Head(queue) \in sent THEN NoJob
                  ELSE [key |-> Head(queue), phase |-> "exists", attempt |-> 1, body |-> 0]
        /\ arch' = arch /\ trouble' = trouble
    BY <1>1 DEF Take, Types
  <2>2. \A k \in Elements(queue) : k = Head(queue) \/ k \in Elements(queue)'
    <3> SUFFICES ASSUME NEW i \in DOMAIN queue
                 PROVE  queue[i] = Head(queue) \/ queue[i] \in Elements(queue)'
      BY DEF Elements
    <3>1. CASE i = 1
      BY <2>1, <3>1
    <3>2. CASE i # 1
      <4>1. i - 1 \in DOMAIN queue' /\ queue'[i - 1] = queue[i]
        BY <2>1, <3>2
      <4> QED
        BY <4>1 DEF Elements
    <3> QED
      BY <3>1, <3>2
  <2>3. Head(queue) \in sent => Head(queue) \in Stored'
    BY <2>1 DEF ObjectInv, Stored
  <2>4. Head(queue) \notin sent => job' # NoJob /\ job'.key = Head(queue)
    <3> DEFINE j == [key |-> Head(queue), phase |-> "exists", attempt |-> 1, body |-> 0]
    <3>1. DOMAIN j = {"key", "phase", "attempt", "body"} /\ DOMAIN NoJob = {"key"}
      BY DEF NoJob
    <3>2. j # NoJob
      BY <3>1
    <3> QED
      BY <2>1, <3>2
  <2> QED
    BY <2>1, <2>2, <2>3, <2>4, ~trouble' DEF Pending, Stored
<1>2. CASE AskExists
  <2>1. job # NoJob /\ arch' = arch /\ Asked /\ queue' = queue
    BY <1>2, AskOutcome DEF AskExists
  <2>2. Elements(queue)' = Elements(queue) /\ Stored' = Stored
    BY <2>1 DEF Elements, Stored
  <2>3. CASE Again \/ Begins
    <3>1. job' # NoJob /\ job'.key = job.key
      BY <2>1, <2>3, JobSteps, JobForms DEF Again, Begins
    <3> QED
      BY <2>1, <2>2, <2>3, <3>1 DEF Pending, Again, Begins
  <2>4. CASE job.key \in Stored /\ Done
    BY <2>1, <2>2, <2>4 DEF Pending, Done
  <2>5. CASE GiveUp
    BY <2>5 DEF GiveUp
  <2> QED
    BY <2>1, <2>3, <2>4, <2>5 DEF Asked
<1>3. CASE Put
  <2>1. /\ job # NoJob /\ job.phase = "put" /\ PutAway
        /\ \/ Again
           \/ arch' = Store(job.key, job.body) /\ Done
           \/ GiveUp
    BY <1>3, PutOutcome
  <2>2. queue' = queue /\ UNCHANGED <<disk, pc, ckSeq>>
    BY <1>3 DEF Put
  <2>3. Elements(queue)' = Elements(queue) /\ Stored \subseteq Stored'
    BY <2>1, <2>2, StoreKeeps DEF Elements, PutAway
  <2>4. CASE Again
    <3>1. job' # NoJob /\ job'.key = job.key
      BY <2>1, <2>4, JobSteps, JobForms DEF Again
    <3> QED
      BY <2>3, <2>4, <3>1 DEF Pending, Again
  <2>5. CASE arch' = Store(job.key, job.body) /\ Done
    <3>1. job.key \in Stored'
      BY <2>5 DEF Store, Stored
    <3> QED
      BY <2>3, <2>5, <3>1 DEF Pending, Done
  <2>6. CASE GiveUp
    BY <2>6 DEF GiveUp
  <2> QED
    BY <2>1, <2>4, <2>5, <2>6
<1> QED
  BY <1>1, <1>2, <1>3

\* While the state that DueInv reads of the directory stays, so does what is due.
LEMMA DueStays ==
  ASSUME DueInv, UNCHANGED <<disk, pc, ckSeq>>, ~trouble' => ~trouble,
         ~trouble' => \A k : Pending(k) => Pending(k)'
  PROVE  DueInv'
<1>1. ends' = ends /\ pruned' = pruned /\ stamps' = stamps /\ pub' = pub /\ pc' = pc /\ ckSeq' = ckSeq
  BY DEF disk
<1>2. /\ Newest' = Newest /\ ChainHead' = ChainHead /\ Here' = Here /\ Retired' = Retired
      /\ StartOf(Newest)' = StartOf(Newest)
  BY <1>1 DEF Newest, ChainHead, Here, Retired, StartOf
<1> QED
  BY <1>1, <1>2 DEF DueInv

LEMMA WorkerDue ==
  ASSUME Types, DiskInv, ObjectInv, DueInv, Take \/ AskExists \/ Put
  PROVE  DueInv'
<1>1. UNCHANGED <<disk, pc, ckSeq>>
  BY DEF Take, AskExists, Put
<1> QED
  BY <1>1, WorkerPending, DueStays

LEMMA OpenDue ==
  ASSUME Types, DiskInv, Open
  PROVE  DueInv'
<1> SUFFICES ASSUME ~trouble' PROVE DueInv'
  BY DEF DueInv
<1>1. /\ pc = "down" /\ pc' = "up" /\ pub' = pub /\ pruned' = pruned
      /\ ends' = IF Here = {} THEN Append(ends, ChainHead) ELSE ends
      /\ Offer(VerificationKeys \o CatchUp(ChainHead), <<>>, FALSE)
  BY DEF Open
<1>2. ChainHead \in Nat
  BY Heads, ConstantFacts
<1>3. Elements(queue)' = Elements(VerificationKeys) \cup Elements(CatchUp(ChainHead))
  <2> DEFINE keys == VerificationKeys \o CatchUp(ChainHead)
  <2>1. VerificationKeys \in Seq(ObjectKeys) /\ CatchUp(ChainHead) \in Seq(ObjectKeys)
    BY <1>2, PublicKeys, SealedKeys
  <2>2. keys \in Seq(ObjectKeys)
        /\ Elements(keys) = Elements(VerificationKeys) \cup Elements(CatchUp(ChainHead))
    BY <2>1, JoinedElements
  <2>3. Offer(keys, <<>>, FALSE)
    BY <1>1
  <2>4. <<>> \in Seq(ObjectKeys) /\ Len(<<>>) <= QueueDepth /\ Elements(<<>>) = {}
    BY ShortLists, ConstantFacts
  <2> HIDE DEF keys
  <2>5. Elements(queue)' = Elements(<<>>) \cup Elements(keys)
    BY <2>2, <2>3, <2>4, Offered
  <2> QED
    BY <2>2, <2>4, <2>5
<1>4. \A k : k \in Elements(queue)' => Pending(k)'
  BY DEF Pending
<1>5. Retired' = Retired
  BY <1>1 DEF Retired
<1>6. Pending(<<"public">>)' /\ \A n \in Retired' : Pending(<<"retired", n>>)'
  BY <1>3, <1>4, <1>5, PublicKeys
<1>7. \A i \in Here' : i < Newest' => Pending(<<"segment", i>>)'
  <2> SUFFICES ASSUME NEW i \in Here', i < Newest' PROVE Pending(<<"segment", i>>)'
    OBVIOUS
  <2>1. CASE Here = {}
    <3>1. Newest = 0 /\ pruned \in Nat
      BY <2>1, NewestIsHere, Heads DEF Types
    <3>2. Newest' = 1
      BY <1>1, <2>1, <3>1, SegmentAdded, ConstantFacts
    <3>3. i \in 1 .. 1
      BY <3>2 DEF Here
    <3> QED
      BY <3>2, <3>3
  <2>2. CASE Here # {}
    <3>1. Newest' = Newest /\ Here' = Here
      BY <1>1, <2>2 DEF Newest, Here
    <3>2. i \in Sealed
      BY <3>1, Heads
    <3>3. <<"segment", i>> \in Elements(CatchUp(ChainHead))
      BY <1>2, <2>2, <3>2, SealedKeys
    <3> QED
      BY <1>3, <1>4, <3>3
  <2> QED
    BY <2>1, <2>2
<1> QED
  BY <1>1, <1>6, <1>7 DEF DueInv, Stopping

LEMMA SealDue ==
  ASSUME Types, DiskInv, DueInv, Seal
  PROVE  DueInv'
<1> SUFFICES ASSUME ~trouble' PROVE DueInv'
  BY DEF DueInv
<1>1. PICK ok \in BOOLEAN : Attest(ok) /\ Offer(SealOffer(ckSeq'), queue, trouble \/ ~ok)
  BY DEF Seal, SealOffer
<1>2. /\ pc = "up" /\ pc' = "rotating" /\ job' = job /\ arch' = arch /\ ends' = ends
      /\ pruned' = pruned /\ pub' = pub
  BY DEF Seal
<1>3. ckSeq' \in Nat
  <2>1. ckSeq' \in 0 .. MaxSeq
    BY SealStep DEF Types
  <2> QED
    BY <2>1, ConstantFacts
<1>4. ~trouble /\ Elements(queue)' = Elements(queue) \cup Elements(SealOffer(ckSeq'))
  <2>1. queue \in Seq(ObjectKeys) /\ Len(queue) <= QueueDepth /\ (trouble \/ ~ok) \in BOOLEAN
    BY DEF Types
  <2>2. SealOffer(ckSeq') \in Seq(ObjectKeys)
    BY <1>3, SealOffers
  <2>3. ~(trouble \/ ~ok) /\ Elements(queue)' = Elements(queue) \cup Elements(SealOffer(ckSeq'))
    BY <1>1, <2>1, <2>2, Offered
  <2> QED
    BY <2>3
<1>5. \A k : Pending(k) => Pending(k)'
  BY <1>2, <1>4, StillPending
<1>6. \A i : i = Newest => Pending(<<"segment", i>>)'
  <2>1. <<"segment", Newest>> \in Elements(queue)'
    BY <1>3, <1>4, SealOffers
  <2> QED
    BY <2>1 DEF Pending
<1>7. Newest' = Newest /\ Here' = Here /\ Retired' = Retired
  BY <1>2 DEF Newest, Here, Retired
<1>8. /\ Pending(<<"public">>) /\ \A n \in Retired : Pending(<<"retired", n>>)
      /\ \A i \in Here : i < Newest => Pending(<<"segment", i>>)
  BY <1>2, <1>4 DEF DueInv
<1>9. \A i \in Here' : Pending(<<"segment", i>>)'
  <2> SUFFICES ASSUME NEW i \in Here PROVE Pending(<<"segment", i>>)'
    BY <1>7
  <2>1. i < Newest \/ i = Newest
    BY Heads
  <2> QED
    BY <1>5, <1>6, <1>8, <2>1
<1>10. Pending(<<"public">>)' /\ \A n \in Retired' : Pending(<<"retired", n>>)'
  BY <1>5, <1>7, <1>8
<1> QED
  BY <1>2, <1>9, <1>10 DEF DueInv, Stopping

LEMMA RotateDue ==
  ASSUME Types, DiskInv, DueInv, Rotate
  PROVE  DueInv'
<1> SUFFICES ASSUME ~trouble' PROVE DueInv'
  BY DEF DueInv
<1>1. /\ pc = "rotating" /\ pc' = "up" /\ ~trouble /\ ends' = Append(ends, ChainHead)
      /\ pruned' = pruned /\ pub' = pub /\ queue' = queue /\ job' = job /\ arch' = arch
  BY DEF Rotate, worker
<1>2. \A k : Pending(k) => Pending(k)'
  BY <1>1, StillPending DEF Elements
<1>3. Newest < MaxSegs
  BY <1>1 DEF DiskInv
<1>4. Newest' = Newest + 1 /\ Retired' = Retired /\ Newest \in Nat
  BY <1>1, <1>3, SegmentAdded, Heads DEF Retired
<1>5. /\ Pending(<<"public">>) /\ \A n \in Retired : Pending(<<"retired", n>>)
      /\ \A i \in Here : Pending(<<"segment", i>>)
  BY <1>1 DEF DueInv
<1>6. \A i \in Here' : i < Newest' => i \in Here
  BY <1>1, <1>4 DEF Here
<1> QED
  BY <1>1, <1>2, <1>4, <1>5, <1>6 DEF DueInv, Stopping

LEMMA ShutdownDue ==
  ASSUME Types, DiskInv, DueInv, Shutdown
  PROVE  DueInv'
<1> SUFFICES ASSUME ~trouble' PROVE DueInv'
  BY DEF DueInv
<1>1. /\ pc' = "stopping timestamps" /\ job' = job /\ arch' = arch /\ ends' = ends
      /\ pruned' = pruned /\ pub' = pub
  BY DEF Shutdown
<1>2. pc = "up"
  BY DEF Shutdown, DiskInv
<1>3. PICK ok \in BOOLEAN : Attest(ok) /\ Offer(StopOffer(ckSeq'), queue, trouble \/ ~ok)
  BY <1>2 DEF Shutdown, StopOffer
<1>4. ckSeq' \in Nat
  <2>1. ckSeq' \in 0 .. MaxSeq
    BY ShutdownStep DEF Types
  <2> QED
    BY <2>1, ConstantFacts
<1>5. ~trouble /\ ok /\ Elements(queue)' = Elements(queue) \cup Elements(StopOffer(ckSeq'))
  <2>1. queue \in Seq(ObjectKeys) /\ Len(queue) <= QueueDepth /\ (trouble \/ ~ok) \in BOOLEAN
    BY DEF Types
  <2>2. StopOffer(ckSeq') \in Seq(ObjectKeys)
    BY <1>4, StopOffers
  <2>3. ~(trouble \/ ~ok) /\ Elements(queue)' = Elements(queue) \cup Elements(StopOffer(ckSeq'))
    BY <1>3, <2>1, <2>2, Offered
  <2> QED
    BY <2>3
<1>6. ckSeq' = ChainHead
  BY <1>2, <1>3, <1>5, Attests
<1>7. \A k : Pending(k) => Pending(k)'
  BY <1>1, <1>5, StillPending
<1>8. /\ Newest' = Newest /\ Here' = Here /\ Retired' = Retired /\ ChainHead' = ChainHead
      /\ StartOf(Newest)' = StartOf(Newest)
  BY <1>1 DEF Newest, Here, Retired, ChainHead, StartOf
<1>9. /\ Pending(<<"public">>) /\ \A n \in Retired : Pending(<<"retired", n>>)
      /\ \A i \in Here : i < Newest => Pending(<<"segment", i>>)
  BY <1>2, <1>5 DEF DueInv
<1>10. ChainHead > StartOf(Newest) => Pending(<<"open", Newest, ChainHead>>)'
  <2>1. ChainHead > StartOf(Newest) => <<"open", Newest, ChainHead>> \in Elements(queue)'
    BY <1>4, <1>5, StopOffers
  <2> QED
    BY <1>8, <2>1 DEF Pending
<1>11. ChainHead > 0 => Pending(<<"checkpoints", ChainHead>>)'
  <2>1. ChainHead > 0 => <<"checkpoints", ChainHead>> \in Elements(archiveCheckpoints(ckSeq'))
    BY <1>4, <1>6, CheckpointKeys
  <2>2. ChainHead > 0 => <<"checkpoints", ChainHead>> \in Elements(queue)'
    BY <1>4, <1>5, <2>1, StopOffers
  <2> QED
    BY <1>8, <2>2 DEF Pending
<1>12. /\ Pending(<<"public">>)' /\ \A n \in Retired' : Pending(<<"retired", n>>)'
       /\ \A i \in Here' : i < Newest' => Pending(<<"segment", i>>)'
  BY <1>7, <1>8, <1>9
<1>13. /\ ChainHead' > StartOf(Newest)' => Pending(<<"open", Newest, ChainHead>>)'
       /\ ChainHead' > 0 => Pending(<<"checkpoints", ChainHead>>)'
  BY <1>8, <1>10, <1>11 DEF Pending
<1> QED
  BY <1>1, <1>6, <1>8, <1>12, <1>13 DEF DueInv, Stopping

LEMMA StopTimestampsDue ==
  ASSUME Types, DiskInv, DueInv, StopTimestamps
  PROVE  DueInv'
<1> SUFFICES ASSUME ~trouble' PROVE DueInv'
  BY DEF DueInv
<1>1. /\ pc = "stopping timestamps" /\ pc' = "stopping archive" /\ job' = job /\ arch' = arch
      /\ UNCHANGED disk /\ ckSeq' = ckSeq
      /\ Offer(archiveTimestamps, queue, trouble \/ tsq > 0)
  BY DEF StopTimestamps, LastOffer
<1>2. ~trouble /\ Elements(queue)' = Elements(queue) \cup Elements(archiveTimestamps)
  <2>1. queue \in Seq(ObjectKeys) /\ Len(queue) <= QueueDepth
    BY DEF Types
  <2>2. (trouble \/ tsq > 0) \in BOOLEAN
    BY DEF Types
  <2>3. archiveTimestamps \in Seq(ObjectKeys)
    BY AnchorKeys
  <2>4. ~(trouble \/ tsq > 0) /\ Elements(queue)' = Elements(queue) \cup Elements(archiveTimestamps)
    BY <1>1, <2>1, <2>2, <2>3, Offered
  <2> QED
    BY <2>4
<1>3. \A k : Pending(k) => Pending(k)'
  BY <1>1, <1>2, StillPending
<1>4. stamps > 0 => Pending(<<"timestamps", stamps>>)'
  <2>1. stamps > 0 => <<"timestamps", stamps>> \in Elements(queue)'
    BY <1>2, AnchorKeys
  <2>2. stamps' = stamps
    BY <1>1 DEF disk
  <2> QED
    BY <2>1, <2>2 DEF Pending
<1>5. ends' = ends /\ pruned' = pruned /\ stamps' = stamps /\ pub' = pub
  BY <1>1 DEF disk
<1>6. /\ Newest' = Newest /\ ChainHead' = ChainHead /\ Here' = Here /\ Retired' = Retired
      /\ StartOf(Newest)' = StartOf(Newest)
  BY <1>5 DEF Newest, ChainHead, Here, Retired, StartOf
<1>7. /\ Pending(<<"public">>) /\ \A n \in Retired : Pending(<<"retired", n>>)
      /\ \A i \in Here : i < Newest => Pending(<<"segment", i>>)
      /\ ckSeq = ChainHead
      /\ ChainHead > StartOf(Newest) => Pending(<<"open", Newest, ChainHead>>)
      /\ ChainHead > 0 => Pending(<<"checkpoints", ChainHead>>)
  BY <1>1, <1>2 DEF DueInv, Stopping
<1>8. /\ Pending(<<"public">>)' /\ \A n \in Retired' : Pending(<<"retired", n>>)'
      /\ \A i \in Here' : i < Newest' => Pending(<<"segment", i>>)'
  BY <1>3, <1>6, <1>7
<1>9. /\ ChainHead' > StartOf(Newest)' => Pending(<<"open", Newest, ChainHead>>)'
      /\ ChainHead' > 0 => Pending(<<"checkpoints", ChainHead>>)'
      /\ stamps' > 0 => Pending(<<"timestamps", stamps>>)'
  BY <1>3, <1>4, <1>5, <1>6, <1>7
<1> QED
  BY <1>1, <1>6, <1>7, <1>8, <1>9 DEF DueInv, Stopping

\* The other steps of the writer, the authority and the operator.
LEMMA QuietDue ==
  ASSUME Types, DiskInv, DueInv, Write \/ Tick \/ Kill \/ StopArchive \/ Anchor \/ RotateKey \/ Prune
  PROVE  DueInv'
<1> SUFFICES ASSUME pc' # "down", ~trouble' PROVE DueInv'
  BY DEF DueInv
<1>1. /\ Write \/ Tick \/ Anchor \/ Prune
      /\ pc' = pc /\ queue' = queue /\ job' = job /\ arch' = arch /\ pub' = pub /\ ~trouble
  BY DEF Write, Tick, Kill, StopArchive, Anchor, AnchorFails, Counted, RotateKey, Prune, worker, DiskInv
<1>2. \A k : Pending(k) => Pending(k)'
  BY <1>1, StillPending DEF Elements
<1>3. /\ Pending(<<"public">>) /\ \A n \in Retired : Pending(<<"retired", n>>)
      /\ \A i \in Here : i < Newest \/ pc = "rotating" => Pending(<<"segment", i>>)
  BY <1>1 DEF DueInv
<1>4. Newest' = Newest /\ Here' \subseteq Here /\ Retired' = Retired
  <2>1. Retired' = Retired
    BY <1>1 DEF Retired
  <2>2. CASE Write
    <3>1. pc = "up" /\ ChainHead < MaxSeq /\ ends' = [ends EXCEPT ![Newest] = @ + 1] /\ pruned' = pruned
      BY <2>2 DEF Write
    <3>2. Newest' = Newest
      BY <3>1, RecordAdded, DirectoryFacts
    <3> QED
      BY <2>1, <3>1, <3>2 DEF Here
  <2>3. CASE Tick \/ Anchor
    <3>1. ends' = ends /\ pruned' = pruned
      BY <2>3 DEF Tick, Anchor
    <3> QED
      BY <2>1, <3>1 DEF Newest, Here
  <2>4. CASE Prune
    <3>1. ends' = ends /\ pruned' = pruned + 1 /\ pruned \in Nat
      BY <2>4 DEF Prune, Types
    <3>2. Newest' = Newest /\ Newest \in Nat
      BY <3>1, Heads DEF Newest
    <3> QED
      BY <2>1, <3>1, <3>2 DEF Here
  <2> QED
    BY <1>1, <2>2, <2>3, <2>4
<1>5. /\ Pending(<<"public">>)' /\ \A n \in Retired' : Pending(<<"retired", n>>)'
      /\ \A i \in Here' : i < Newest' \/ pc' = "rotating" => Pending(<<"segment", i>>)'
  BY <1>1, <1>2, <1>3, <1>4
<1>6. CASE pc \in Stopping
  <2>1. Anchor \/ Prune
    BY <1>1, <1>6 DEF Write, Tick, Stopping
  <2>2. ends' = ends /\ ckSeq' = ckSeq
    BY <2>1 DEF Anchor, Prune
  <2>3. ChainHead' = ChainHead /\ StartOf(Newest)' = StartOf(Newest)
    BY <2>2 DEF ChainHead, Newest, StartOf
  <2>4. pc = "stopping archive" => stamps' = stamps
    <3>1. CASE Prune
      BY <3>1 DEF Prune
    <3>2. CASE Anchor
      <4>1. tsq > 0 /\ tsq \in Nat
        BY <3>2 DEF Anchor, Types
      <4>2. tsq # 0
        BY <4>1
      <4> QED
        BY <4>2 DEF DiskInv
    <3> QED
      BY <2>1, <3>1, <3>2
  <2>5. /\ ckSeq = ChainHead
        /\ ChainHead > StartOf(Newest) => Pending(<<"open", Newest, ChainHead>>)
        /\ ChainHead > 0 => Pending(<<"checkpoints", ChainHead>>)
        /\ pc = "stopping archive" /\ stamps > 0 => Pending(<<"timestamps", stamps>>)
    BY <1>1, <1>6 DEF DueInv, Stopping
  <2>6. /\ ChainHead' > StartOf(Newest)' => Pending(<<"open", Newest, ChainHead>>)'
        /\ ChainHead' > 0 => Pending(<<"checkpoints", ChainHead>>)'
        /\ pc' = "stopping archive" /\ stamps' > 0 => Pending(<<"timestamps", stamps>>)'
    BY <1>1, <1>2, <1>4, <2>3, <2>4, <2>5
  <2> QED
    BY <1>5, <2>2, <2>3, <2>5, <2>6 DEF DueInv
<1>7. CASE pc \notin Stopping
  BY <1>1, <1>5, <1>7 DEF DueInv, Stopping
<1> QED
  BY <1>6, <1>7

LEMMA CleanStep ==
  ASSUME Types, DiskInv, ObjectInv, DueInv, CleanInv, [Next]_vars, DiskInv'
  PROVE  CleanInv'
<1> SUFFICES ASSUME clean' PROVE CleanInv'
  BY DEF CleanInv
<1>1. StopArchive \/ (clean /\ (Prune \/ UNCHANGED vars))
  <2>1. pc' = "down"
    BY DEF DiskInv
  <2>2. CASE UNCHANGED vars
    BY <2>2 DEF vars
  <2>3. CASE Next
    <3>1. ~(Open \/ Write \/ Seal \/ Rotate \/ Tick \/ Shutdown \/ StopTimestamps \/ Anchor \/ RotateKey)
      BY <2>1 DEF Open, Write, Seal, Rotate, Tick, Shutdown, StopTimestamps, Anchor, RotateKey
    <3>2. ~Kill
      BY DEF Kill, DiskInv
    <3>3. ~(Take \/ AskExists \/ Put)
      BY <2>1 DEF Take, AskExists, Put, DiskInv
    <3>4. StopArchive \/ Prune
      BY <2>3, <3>1, <3>2, <3>3 DEF Next
    <3> QED
      BY <3>4 DEF Prune
  <2> QED
    BY <2>2, <2>3
<1>2. CASE StopArchive
  <2>1. /\ pc = "stopping archive" /\ UNCHANGED disk /\ arch' = arch
        /\ queue = <<>> /\ job = NoJob /\ ~trouble
    BY <1>2 DEF StopArchive
  <2>2. \A k : Pending(k) => k \in Stored'
    <3>1. Elements(queue) = {} /\ Stored' = Stored
      BY <2>1, ShortLists DEF Stored
    <3> QED
      BY <2>1, <3>1 DEF Pending
  <2>3. ends' = ends /\ pruned' = pruned /\ stamps' = stamps /\ pub' = pub
    BY <2>1 DEF disk
  <2>4. /\ Newest' = Newest /\ ChainHead' = ChainHead /\ Here' = Here /\ Retired' = Retired
        /\ StartOf(Newest)' = StartOf(Newest)
    BY <2>3 DEF Newest, ChainHead, Here, Retired, StartOf
  <2>5. /\ Pending(<<"public">>) /\ \A n \in Retired : Pending(<<"retired", n>>)
        /\ \A i \in Here : i < Newest => Pending(<<"segment", i>>)
        /\ ChainHead > StartOf(Newest) => Pending(<<"open", Newest, ChainHead>>)
        /\ ChainHead > 0 => Pending(<<"checkpoints", ChainHead>>)
        /\ stamps > 0 => Pending(<<"timestamps", stamps>>)
    BY <2>1 DEF DueInv, Stopping
  <2>6. Newest > 0
    BY <2>1 DEF DiskInv
  <2>7. \A i \in Sealed' : i \in Here /\ i < Newest
    BY <2>4, Heads DEF Sealed
  <2> QED
    BY <2>2, <2>3, <2>4, <2>5, <2>6, <2>7 DEF CleanInv
<1>3. CASE clean /\ (Prune \/ UNCHANGED vars)
  <2>1. /\ ends' = ends /\ stamps' = stamps /\ pub' = pub /\ arch' = arch
        /\ pruned' = pruned \/ pruned' = pruned + 1
    BY <1>3 DEF Prune, vars, disk
  <2>2. /\ Newest' = Newest /\ ChainHead' = ChainHead /\ Retired' = Retired
        /\ StartOf(Newest)' = StartOf(Newest) /\ Stored' = Stored
    BY <2>1 DEF Newest, ChainHead, Retired, StartOf, Stored
  <2>3. Sealed' \subseteq Sealed
    <3>1. pruned \in Nat /\ Newest \in Nat
      BY Heads DEF Types
    <3> QED
      BY <2>1, <2>2, <3>1 DEF Sealed, Here
  <2>4. CleanInv /\ clean
    BY <1>3
  <2> QED
    BY <2>1, <2>2, <2>3, <2>4 DEF CleanInv
<1> QED
  BY <1>1, <1>2, <1>3

LEMMA DueStep ==
  ASSUME Types, DiskInv, ObjectInv, DueInv, [Next]_vars
  PROVE  DueInv'
<1>1. CASE UNCHANGED vars
  <2>1. UNCHANGED <<disk, pc, ckSeq>> /\ trouble' = trouble
    BY <1>1 DEF vars
  <2>2. \A k : Pending(k) => Pending(k)'
    BY <1>1, StillPending DEF vars, worker, Elements
  <2> QED
    BY <2>1, <2>2, DueStays
<1>2. CASE Next
  BY <1>2, OpenDue, SealDue, RotateDue, ShutdownDue, StopTimestampsDue, QuietDue, WorkerDue DEF Next
<1> QED
  BY <1>1, <1>2

LEMMA CleanIsComplete ==
  ASSUME Types, DiskInv, ObjectInv, CleanInv, "rotate" \notin Faults => ExactInv
  PROVE  ShutdownComplete
<1> SUFFICES ASSUME clean PROVE ShutdownComplete
  BY DEF ShutdownComplete
<1>1. /\ <<"public">> \in Stored /\ \A n \in Retired : <<"retired", n>> \in Stored
      /\ \A i \in Sealed : <<"segment", i>> \in Stored
      /\ ChainHead > StartOf(Newest) => <<"open", Newest, ChainHead>> \in Stored
      /\ ChainHead > 0 => <<"checkpoints", ChainHead>> \in Stored
      /\ stamps > 0 => <<"timestamps", stamps>> \in Stored
  BY DEF CleanInv
<1>2. Missing(arch) \subseteq PrunedProbes
  <2>1. ASSUME NEW k \in Stored PROVE Status(arch, k) # "missing"
    BY <2>1 DEF Status, Stored
  <2>2. SealedProbes \cup {<<"public">>} \subseteq Stored
    BY <1>1 DEF SealedProbes, ToSegments
  <2> QED
    BY <2>1, <2>2 DEF Missing, Required
<1>3. RetiredProbes \subseteq Stored
  BY <1>1 DEF RetiredProbes
<1>4. Attested # {} => \E k \in Stored : k[1] = "checkpoints" /\ arch[k] = Len(cks)
  <2> SUFFICES ASSUME Attested # {}
               PROVE  \E k \in Stored : k[1] = "checkpoints" /\ arch[k] = Len(cks)
    OBVIOUS
  <2>1. Len(cks) \in Nat /\ DOMAIN cks = 1 .. Len(cks) /\ cks \in Seq(CheckpointLines)
    BY DEF Types
  <2>2. Len(cks) \in DOMAIN cks /\ Len(cks) # 0
    BY <2>1 DEF Attested
  <2>3. cks[Len(cks)].seq \in 1 .. MaxSeq
    <3>1. cks[Len(cks)] \in CheckpointLines
      BY <2>1, <2>2
    <3> QED
      BY <3>1 DEF CheckpointLines
  <2>4. cks[Len(cks)].seq <= Mark /\ Mark <= ChainHead /\ Mark \in Nat /\ ChainHead \in Nat
    BY <2>2, Heads, DirectoryFacts, ConstantFacts
  <2>5. ChainHead > 0 /\ cks[Len(cks)].seq <= ChainHead
    BY <2>3, <2>4, ConstantFacts
  <2> DEFINE k == <<"checkpoints", ChainHead>>
  <2>6. k \in Stored /\ k[1] = "checkpoints" /\ k[2] = ChainHead
    BY <1>1, <2>4, <2>5, KeyForms
  <2> HIDE DEF k
  <2>7. Holds(k, arch[k])
    BY <2>6 DEF ObjectInv
  <2>8. arch[k] \in Nat /\ arch[k] <= Len(cks) /\ Len(cks) <= arch[k]
    BY <2>2, <2>5, <2>6, <2>7 DEF Holds
  <2>9. arch[k] = Len(cks)
    BY <2>1, <2>8
  <2> QED
    BY <2>6, <2>9
<1>5. stamps > 0 => \E k \in Stored : k[1] = "timestamps" /\ arch[k] = stamps
  <2> SUFFICES ASSUME stamps > 0
               PROVE  \E k \in Stored : k[1] = "timestamps" /\ arch[k] = stamps
    OBVIOUS
  <2>1. stamps \in Nat
    BY DEF Types
  <2> DEFINE k == <<"timestamps", stamps>>
  <2>2. k \in Stored /\ k[1] = "timestamps" /\ k[2] = stamps
    BY <1>1, <2>1, KeyForms
  <2> HIDE DEF k
  <2>3. Holds(k, arch[k])
    BY <2>2 DEF ObjectInv
  <2>4. arch[k] = stamps
    BY <2>1, <2>2, <2>3 DEF Holds
  <2> QED
    BY <2>2, <2>4
<1>6. ASSUME "rotate" \notin Faults, NEW i \in Sealed PROVE arch[<<"segment", i>>] = ends[i]
  <2> DEFINE k == <<"segment", i>>
  <2>1. k \in Stored /\ k[1] = "segment" /\ k[2] = i
    BY <1>1, Heads, KeyForms
  <2> HIDE DEF k
  <2>2. arch[k] = ends[i]
    BY <1>6, <2>1 DEF ExactInv
  <2> QED
    BY <2>2 DEF k
<1>7. ASSUME ChainHead > StartOf(Newest)
      PROVE  \E k \in Stored : k = <<"open", Newest, ChainHead>> /\ arch[k] = ChainHead
  <2> DEFINE k == <<"open", Newest, ChainHead>>
  <2>1. k \in Stored /\ k[1] = "open" /\ k[2] = Newest /\ k[3] = ChainHead
    BY <1>1, <1>7, Heads, ConstantFacts, KeyForms
  <2>2. Newest > 0 /\ ChainHead = ends[Newest]
    BY Heads, DirectoryFacts DEF CleanInv
  <2>3. ChainHead \in Nat
    BY Heads, ConstantFacts
  <2> HIDE DEF k
  <2>4. Holds(k, arch[k])
    BY <2>1 DEF ObjectInv
  <2>5. arch[k] \in Nat /\ arch[k] <= ends[Newest] /\ ChainHead <= arch[k]
    BY <2>1, <2>4 DEF Holds
  <2>6. arch[k] = ChainHead
    BY <2>2, <2>3, <2>5
  <2> QED
    BY <2>1, <2>6 DEF k
<1> QED
  BY <1>1, <1>2, <1>3, <1>4, <1>5, <1>6, <1>7 DEF ShutdownComplete

-----------------------------------------------------------------------------
(* Without a rotation that dies, an honest archive matches *)

SealedStay ==
  \A i \in 1 .. Newest : i < Newest \/ pc = "rotating" =>
    ends'[i] = ends[i] /\ (i < Newest' \/ pc' = "rotating")

\* A step of the writer: a segment that was sealed stays as it is.
LEMMA WriterExact ==
  ASSUME ObjectInv, ExactInv, SealedStay, arch' = arch, job' = job \/ job' = NoJob,
         pc' # "broken", \A k \in Elements(queue)' : k \in Elements(queue) \/ SealedKey(k)'
  PROVE  ExactInv'
<1>1. ASSUME NEW k, Named(k), SealedKey(k)
      PROVE  SealedKey(k)' /\ (k[1] = "segment" => ends'[k[2]] = ends[k[2]])
  BY <1>1 DEF SealedKey, Named, SealedStay
<1>2. \A k \in Elements(queue) \cup Stored :
        SealedKey(k)' /\ (k[1] = "segment" => ends'[k[2]] = ends[k[2]])
  BY <1>1 DEF ObjectInv, ExactInv
<1>3. job # NoJob =>
        SealedKey(job.key) /\ Named(job.key)
  BY DEF ObjectInv, ExactInv
<1>4. job' # NoJob => /\ job' = job /\ SealedKey(job.key)'
                     /\ (job.key[1] = "segment" => ends'[job.key[2]] = ends[job.key[2]])
  <2>1. ASSUME job' # NoJob, NEW k, k = job.key, k = job'.key
        PROVE  /\ SealedKey(job.key)'
               /\ (job.key[1] = "segment" => ends'[job.key[2]] = ends[job.key[2]])
    <3>1. Named(k) /\ SealedKey(k)
      BY <1>3, <2>1
    <3>2. SealedKey(k)' /\ (k[1] = "segment" => ends'[k[2]] = ends[k[2]])
      BY <1>1, <3>1
    <3> QED
      BY <2>1, <3>2 DEF SealedKey
  <2> QED
    BY <2>1
<1>5. Stored' = Stored
  BY DEF Stored
<1>6. \A k \in Stored' : k[1] = "segment" => arch'[k] = ends'[k[2]]
  BY <1>2, <1>5 DEF ExactInv
<1>7. Sending' => (job'.key[1] = "segment" => job'.body = ends'[job'.key[2]])
  BY <1>4 DEF Sending, ExactInv
<1> QED
  BY <1>2, <1>4, <1>5, <1>6, <1>7 DEF ExactInv

\* The segments that are sealed stay, step by step.
LEMMA SealedSegmentsStay ==
  ASSUME Types, DiskInv, ExactInv, "rotate" \notin Faults, [Next]_vars
  PROVE  SealedStay /\ pc' # "broken"
<1>1. Newest \in Nat /\ pc # "broken"
  BY Heads DEF ExactInv
<1>2. CASE Open
  <2>1. Newest <= Newest' /\ \A i \in 1 .. Newest : ends'[i] = ends[i]
    <3>1. CASE Here = {}
      <4>1. Newest = 0
        BY <3>1, NewestIsHere, Heads
      <4>2. ends' = Append(ends, ChainHead)
        BY <1>2, <3>1 DEF Open
      <4> QED
        BY <4>1, <4>2, SegmentAdded, ConstantFacts
    <3>2. CASE Here # {}
      <4>1. ends' = ends
        BY <1>2, <3>2 DEF Open
      <4> QED
        BY <4>1, SameSegments
    <3> QED
      BY <3>1, <3>2
  <2>2. pc = "down" /\ pc' = "up"
    BY <1>2 DEF Open
  <2>3. Newest' \in Nat
    <3>1. Types'
      BY <1>2, OpenStep
    <3> QED
      BY <3>1 DEF Types, Newest
  <2> QED
    BY <1>1, <2>1, <2>2, <2>3 DEF SealedStay
<1>3. CASE Write \/ RotateKey
  <2>1. pc \in {"up", "down"} /\ pc' = pc /\ ends' = [ends EXCEPT ![Newest] = @ + 1]
        /\ Newest > 0 /\ ChainHead < MaxSeq
    <3>1. CASE Write
      BY <3>1, DirectoryFacts DEF Write
    <3>2. CASE RotateKey
      BY <3>2, Heads DEF RotateKey
    <3> QED
      BY <1>3, <3>1, <3>2
  <2>2. Newest' = Newest /\ \A i \in 1 .. Newest : i # Newest => ends[i] = ends'[i]
    BY <2>1, RecordAdded
  <2> QED
    BY <1>1, <2>1, <2>2 DEF SealedStay
<1>4. CASE Rotate
  <2>1. pc = "rotating" /\ pc' = "up" /\ ends' = Append(ends, ChainHead)
    BY <1>4 DEF Rotate
  <2>2. Newest < MaxSegs
    BY <2>1 DEF DiskInv
  <2>3. Newest' = Newest + 1 /\ \A i \in 1 .. Newest : ends[i] = ends'[i]
    BY <2>1, <2>2, SegmentAdded
  <2>4. \A i \in 1 .. Newest : i < Newest + 1
    BY <1>1
  <2> QED
    BY <2>1, <2>3, <2>4 DEF SealedStay
<1>5. CASE ends' = ends /\ pc' # "broken" /\ (pc = "rotating" => pc' = "rotating")
  <2>1. Newest' = Newest
    BY <1>5 DEF Newest
  <2> QED
    BY <1>5, <2>1 DEF SealedStay
<1>6. ASSUME Seal \/ Tick \/ Kill \/ Shutdown \/ StopTimestamps \/ StopArchive \/ Take \/ AskExists
               \/ Put \/ Anchor \/ Prune \/ UNCHANGED vars
      PROVE  ends' = ends /\ pc' # "broken" /\ (pc = "rotating" => pc' = "rotating")
  BY <1>1, <1>6 DEF Seal, Tick, Kill, Shutdown, StopTimestamps, StopArchive, Take, AskExists, Put,
     Anchor, Prune, vars, disk
<1> QED
  BY <1>2, <1>3, <1>4, <1>5, <1>6 DEF Next

\* Snapshots are not offered as segments.
LEMMA SnapshotNames ==
  ASSUME Types, NEW head \in Nat, NEW k \in Elements(archiveCheckpoints(head))
  PROVE  k[1] # "segment"
<1>1. stamps \in Nat
  BY DEF Types
<1>2. k = <<"checkpoints", head>> \/ k = <<"timestamps", stamps>>
  BY CheckpointKeys
<1> QED
  BY <1>1, <1>2, KeyForms

\* Only a sealed segment is offered as one.
LEMMA OfferedExact ==
  ASSUME Types, DiskInv, ExactInv, "rotate" \notin Faults, Next, ~(Take \/ AskExists \/ Put),
         NEW k \in Elements(queue)', k \notin Elements(queue)
  PROVE  SealedKey(k)'
<1>1. CASE Open
  <2>1. /\ Offer(VerificationKeys \o CatchUp(ChainHead), <<>>, FALSE)
        /\ ends' = IF Here = {} THEN Append(ends, ChainHead) ELSE ends
    BY <1>1 DEF Open
  <2>2. ChainHead \in Nat
    BY Heads, ConstantFacts
  <2>3. VerificationKeys \in Seq(ObjectKeys) /\ CatchUp(ChainHead) \in Seq(ObjectKeys)
    BY <2>2, PublicKeys, SealedKeys
  <2>4. Elements(queue)' \subseteq Elements(VerificationKeys) \cup Elements(CatchUp(ChainHead))
    <3> DEFINE keys == VerificationKeys \o CatchUp(ChainHead)
    <3>1. keys \in Seq(ObjectKeys)
          /\ Elements(keys) = Elements(VerificationKeys) \cup Elements(CatchUp(ChainHead))
      BY <2>3, JoinedElements
    <3>2. Offer(keys, <<>>, FALSE)
      BY <2>1
    <3>3. <<>> \in Seq(ObjectKeys) /\ Len(<<>>) <= QueueDepth /\ Elements(<<>>) = {}
      BY ShortLists, ConstantFacts
    <3> HIDE DEF keys
    <3>4. Elements(queue)' \subseteq Elements(<<>>) \cup Elements(keys)
      BY <3>1, <3>2, <3>3, Offered
    <3> QED
      BY <3>1, <3>3, <3>4
  <2>5. k[1] = "segment" => Here # {} /\ \E i \in Sealed : k[2] = i
    <3>1. \/ k \in Elements(VerificationKeys)
          \/ Here # {} /\ \E i \in Sealed : k = <<"segment", i>>
          \/ k \in Elements(archiveCheckpoints(ChainHead))
      BY <2>2, <2>4, SealedKeys
    <3>2. CASE k \in Elements(VerificationKeys)
      BY <3>2, PublicKeys, Heads, KeyForms
    <3>3. CASE Here # {} /\ \E i \in Sealed : k = <<"segment", i>>
      BY <3>3, Heads, KeyForms
    <3>4. CASE k \in Elements(archiveCheckpoints(ChainHead))
      BY <2>2, <3>4, SnapshotNames
    <3> QED
      BY <3>1, <3>2, <3>3, <3>4
  <2>6. Here # {} => Newest' = Newest
    BY <2>1 DEF Newest
  <2>7. \A i \in Sealed : i < Newest
    BY Heads
  <2> QED
    BY <2>5, <2>6, <2>7 DEF SealedKey
<1>2. CASE Seal
  BY <1>2 DEF Seal, SealedKey
<1>3. CASE Shutdown
  <2>1. ckSeq' \in Nat
    <3>1. ckSeq' \in 0 .. MaxSeq
      BY <1>3, ShutdownStep DEF Types
    <3> QED
      BY <3>1, ConstantFacts
  <2>2. Elements(queue)' \subseteq Elements(queue) \cup Elements(StopOffer(ckSeq'))
    <3>1. PICK ok \in BOOLEAN : \/ queue' = queue
                                \/ Attest(ok) /\ Offer(StopOffer(ckSeq'), queue, trouble \/ ~ok)
      BY <1>3 DEF Shutdown, StopOffer
    <3>2. queue \in Seq(ObjectKeys) /\ Len(queue) <= QueueDepth /\ (trouble \/ ~ok) \in BOOLEAN
      BY DEF Types
    <3>3. StopOffer(ckSeq') \in Seq(ObjectKeys)
      BY <2>1, StopOffers
    <3>4. CASE queue' = queue
      BY <3>4 DEF Elements
    <3>5. CASE Offer(StopOffer(ckSeq'), queue, trouble \/ ~ok)
      BY <3>2, <3>3, <3>5, Offered
    <3> QED
      BY <3>1, <3>4, <3>5
  <2>3. \/ k = <<"open", Newest, ChainHead>>
        \/ k \in Elements(archiveCheckpoints(ckSeq'))
        \/ k \in Elements(VerificationKeys)
    BY <2>1, <2>2, StopOffers
  <2>4. k[1] # "segment"
    <3>1. CASE k = <<"open", Newest, ChainHead>>
      BY <3>1, Heads, ConstantFacts, KeyForms
    <3>2. CASE k \in Elements(archiveCheckpoints(ckSeq'))
      BY <2>1, <3>2, SnapshotNames
    <3>3. CASE k \in Elements(VerificationKeys)
      BY <3>3, PublicKeys, Heads, KeyForms
    <3> QED
      BY <2>3, <3>1, <3>2, <3>3
  <2> QED
    BY <2>4 DEF SealedKey
<1>4. CASE StopTimestamps
  <2>1. Offer(archiveTimestamps, queue, trouble \/ tsq > 0)
    BY <1>4 DEF StopTimestamps, LastOffer
  <2>2. queue \in Seq(ObjectKeys) /\ Len(queue) <= QueueDepth
    BY DEF Types
  <2>3. (trouble \/ tsq > 0) \in BOOLEAN
    BY DEF Types
  <2>4. Elements(queue)' \subseteq Elements(queue) \cup Elements(archiveTimestamps)
    BY <2>1, <2>2, <2>3, AnchorKeys, Offered
  <2>5. k[1] # "segment"
    <3>1. k = <<"timestamps", stamps>> /\ stamps \in Nat
      BY <2>4, AnchorKeys DEF Types
    <3> QED
      BY <3>1, KeyForms
  <2> QED
    BY <2>5 DEF SealedKey
<1>5. CASE Write \/ Rotate \/ Tick \/ Kill \/ StopArchive \/ Anchor \/ RotateKey \/ Prune
  <2>1. queue' = queue \/ queue' = <<>>
    BY <1>5 DEF Write, Rotate, Tick, Kill, StopArchive, Anchor, RotateKey, Prune, worker
  <2>2. Elements(queue)' = Elements(queue')
    BY DEF Elements
  <2>3. k \in Elements(queue) \/ k \in Elements(<<>>)
    BY <2>1, <2>2
  <2> QED
    BY <2>3, ShortLists
<1> QED
  BY <1>1, <1>2, <1>3, <1>4, <1>5 DEF Next

\* A step of the worker: the directory and the writer stay, and what is sent as a
\* sealed segment is the whole of it.
LEMMA WorkerExact ==
  ASSUME Types, DiskInv, ObjectInv, ExactInv, Take \/ AskExists \/ Put
  PROVE  ExactInv'
<1>1. UNCHANGED disk /\ pc' = pc /\ ends' = ends
  BY DEF Take, AskExists, Put, disk
<1>2. Newest' = Newest /\ \A k : SealedKey(k) => SealedKey(k)'
  BY <1>1 DEF Newest, SealedKey
<1>3. Elements(queue)' \subseteq Elements(queue)
  <2>1. CASE Take
    <3>1. queue # <<>> /\ queue' = Tail(queue) /\ queue \in Seq(ObjectKeys)
      BY <2>1 DEF Take, Types
    <3>2. \A i \in DOMAIN queue' : i + 1 \in DOMAIN queue /\ queue'[i] = queue[i + 1]
      BY <3>1
    <3>3. Elements(queue)' = {queue'[i] : i \in DOMAIN queue'}
      BY DEF Elements
    <3> QED
      BY <3>2, <3>3 DEF Elements
  <2>2. CASE AskExists \/ Put
    BY <2>2 DEF AskExists, Put, Elements
  <2> QED
    BY <2>1, <2>2
<1>4. /\ job' # NoJob =>
           \/ job'.key \in Elements(queue) /\ job'.phase = "exists"
           \/ /\ job # NoJob /\ job'.key = job.key
              /\ \/ job'.phase = job.phase /\ job'.body = job.body
                 \/ job'.body = FileOf(job.key) /\ FileOf(job.key) # 0
      /\ arch' = arch \/ (Sending /\ arch' = Store(job.key, job.body))
  <2>1. CASE Take
    <3>1. queue # <<>> /\ queue \in Seq(ObjectKeys)
      BY <2>1 DEF Take, Types
    <3>2. Head(queue) \in Elements(queue)
      BY <3>1 DEF Elements
    <3>3. job' # NoJob => job'.key = Head(queue) /\ job'.phase = "exists"
      BY <2>1 DEF Take
    <3>4. arch' = arch
      BY <2>1 DEF Take
    <3> QED
      BY <3>2, <3>3, <3>4
  <2>2. CASE AskExists
    <3>1. job # NoJob /\ arch' = arch /\ Asked
      BY <2>2, AskOutcome
    <3>2. job' # NoJob => Again \/ Begins
      BY <3>1 DEF Asked, Done, GiveUp
    <3>3. Again => job'.key = job.key /\ job'.phase = job.phase /\ job'.body = job.body
      BY <3>1, JobSteps DEF Again
    <3>4. Begins => job'.key = job.key /\ job'.body = FileOf(job.key) /\ FileOf(job.key) # 0
      BY <3>1, JobSteps DEF Begins
    <3> QED
      BY <3>1, <3>2, <3>3, <3>4
  <2>3. CASE Put
    <3>1. /\ job # NoJob /\ job.phase = "put" /\ PutAway
          /\ \/ Again
             \/ arch' = Store(job.key, job.body) /\ Done
             \/ GiveUp
      BY <2>3, PutOutcome
    <3>2. job' # NoJob => Again
      BY <3>1 DEF Done, GiveUp
    <3>3. Again => job'.key = job.key /\ job'.phase = job.phase /\ job'.body = job.body
      BY <3>1, JobSteps DEF Again
    <3> QED
      BY <3>1, <3>2, <3>3 DEF PutAway, Sending
  <2> QED
    BY <2>1, <2>2, <2>3
<1>5. /\ job # NoJob => SealedKey(job.key)
      /\ Sending => (job.key[1] = "segment" => job.body = ends[job.key[2]])
      /\ \A k \in Elements(queue) \cup Stored : SealedKey(k)
      /\ \A k \in Stored : k[1] = "segment" => arch[k] = ends[k[2]]
      /\ pc # "broken"
  BY DEF ExactInv
<1>6. job' # NoJob => SealedKey(job.key)'
  <2>1. ASSUME job' # NoJob, NEW k, k = job'.key PROVE SealedKey(job.key)'
    <3>1. SealedKey(k)
      BY <1>4, <1>5, <2>1
    <3> QED
      BY <1>1, <1>2, <2>1, <3>1 DEF SealedKey
  <2> QED
    BY <2>1
<1>7. Sending' => (job'.key[1] = "segment" => job'.body = ends'[job'.key[2]])
  <2> SUFFICES ASSUME Sending', job'.key[1] = "segment"
               PROVE  job'.body = ends[job'.key[2]]
    BY <1>1
  <2>1. /\ job # NoJob /\ job'.key = job.key
        /\ \/ Sending /\ job'.body = job.body
           \/ job'.body = FileOf(job.key) /\ FileOf(job.key) # 0
    BY <1>4 DEF Sending
  <2>2. job.key[1] = "segment" /\ FileOf(job.key) # 0 => FileOf(job.key) = ends[job.key[2]]
    BY DEF FileOf
  <2> QED
    BY <1>5, <2>1, <2>2
<1>8. \A k \in Stored' : SealedKey(k)' /\ (k[1] = "segment" => arch'[k] = ends'[k[2]])
  <2>1. CASE arch' = arch
    BY <1>1, <1>2, <1>5, <2>1 DEF Stored
  <2>2. CASE Sending /\ arch' = Store(job.key, job.body)
    <3>1. /\ Stored' = Stored \cup {job.key}
          /\ \A k \in Stored' : arch'[k] = IF k = job.key THEN job.body ELSE arch[k]
      BY <2>2 DEF Store, Stored
    <3>2. job # NoJob /\ SealedKey(job.key)
      BY <1>5, <2>2 DEF Sending
    <3> QED
      BY <1>1, <1>2, <1>5, <2>2, <3>1, <3>2
  <2> QED
    BY <1>4, <2>1, <2>2
<1> QED
  BY <1>1, <1>2, <1>3, <1>5, <1>6, <1>7, <1>8 DEF ExactInv

LEMMA ExactStep ==
  ASSUME Types, DiskInv, ObjectInv, ExactInv, "rotate" \notin Faults, [Next]_vars
  PROVE  ExactInv'
<1>1. CASE Take \/ AskExists \/ Put
  BY <1>1, WorkerExact
<1>2. CASE ~(Take \/ AskExists \/ Put)
  <2>1. SealedStay /\ pc' # "broken"
    BY SealedSegmentsStay
  <2>2. CASE Next
    <3>1. arch' = arch /\ (job' = job \/ job' = NoJob)
      BY <1>2, <2>2 DEF Next, Open, Write, Seal, Rotate, Tick, Kill, Shutdown, StopTimestamps,
         StopArchive, Anchor, RotateKey, Prune, worker
    <3>2. \A k \in Elements(queue)' : k \in Elements(queue) \/ SealedKey(k)'
      BY <1>2, <2>2, OfferedExact
    <3> QED
      BY <2>1, <3>1, <3>2, WriterExact
  <2>3. CASE UNCHANGED vars
    <3>1. arch' = arch /\ job' = job /\ queue' = queue
      BY <2>3 DEF vars, worker
    <3>2. \A k \in Elements(queue)' : k \in Elements(queue)
      BY <3>1 DEF Elements
    <3> QED
      BY <2>1, <3>1, <3>2, WriterExact
  <2> QED
    BY <2>2, <2>3
<1> QED
  BY <1>1, <1>2

LEMMA InitiallyExact == Init => ExactInv
<1> SUFFICES ASSUME Init PROVE ExactInv
  OBVIOUS
<1>1. pc = "down" /\ queue = <<>> /\ arch = <<>> /\ job = NoJob
  BY DEF Init
<1>2. Elements(queue) = {} /\ Stored = {} /\ ~Sending
  BY <1>1, ShortLists DEF Stored, Sending
<1> QED
  BY <1>1, <1>2 DEF ExactInv

\* A run that closed without counting or reporting a failure leaves nothing behind,
\* whatever crashes, refusals and lost answers came before it: every sealed segment
\* and key is in the archive, the segment whole unless a rotation died between its
\* two halves, and so are the open segment, the checkpoint file and the anchors as
\* far as the directory goes (store.go shutdown and Close, archiver.go
\* archiveCatchUp and archiveLoop).
THEOREM ShutdownIsComplete == Spec => []ShutdownComplete
<1>1. Init => DueInv /\ CleanInv
  BY DEF Init, DueInv, CleanInv
<1>2. IInv /\ DueInv /\ [Next]_vars => DueInv'
  BY DueStep DEF IInv
<1>3. IInv /\ IInv' /\ DueInv /\ CleanInv /\ [Next]_vars => CleanInv'
  BY CleanStep DEF IInv
<1>4. Spec => [](IInv /\ CleanInv)
  BY ObjectsAreNamed, <1>1, <1>2, <1>3, PTL DEF Spec
<1>5. CASE "rotate" \in Faults
  <2>1. IInv /\ CleanInv => ShutdownComplete
    BY <1>5, CleanIsComplete DEF IInv
  <2> QED
    BY <1>4, <2>1, PTL
<1>6. CASE "rotate" \notin Faults
  <2>1. Init => ExactInv
    BY InitiallyExact
  <2>2. IInv /\ ExactInv /\ [Next]_vars => ExactInv'
    BY <1>6, ExactStep DEF IInv
  <2>3. IInv /\ CleanInv /\ ExactInv => ShutdownComplete
    BY CleanIsComplete DEF IInv
  <2> QED
    BY ObjectsAreNamed, <1>4, <2>1, <2>2, <2>3, PTL DEF Spec
<1> QED
  BY <1>5, <1>6

LEMMA MatchesHonest ==
  ASSUME Types, DiskInv, ObjectInv, ExactInv
  PROVE  NoFalseMismatch
<1> SUFFICES ASSUME NEW k \in Probes, k \in Stored PROVE Status(arch, k) # "mismatch"
  BY DEF NoFalseMismatch, Mismatched, Status, Stored
<1>1. k \in ObjectKeys /\ k \in DOMAIN arch /\ Holds(k, arch[k])
  BY DEF Types, ObjectInv, Stored
<1>2. arch[k] \in Nat /\ arch[k] # 0 /\ FileOf(k) \in Nat
  BY <1>1, FilesAreNumbers DEF Holds
<1>3. /\ Newest \in Nat /\ pruned \in Nat /\ \A i \in 1 .. Newest : ends[i] \in Nat
  BY Heads, EndsAreNumbers DEF Types
<1>4. \/ \E i \in Sealed : k = <<"segment", i>>
      \/ \E i \in 1 .. pruned : k = <<"segment", i>>
      \/ k = <<"public">>
      \/ \E n \in Retired : k = <<"retired", n>>
      \/ \E d \in Attested : k = <<"checkpoints", d.seq>>
      \/ \E d \in Attested : d.segment \in Here /\ k = <<"open", d.segment, d.seq>>
  BY DEF Probes, Required, SealedProbes, PrunedProbes, ToSegments, RetiredProbes,
         CheckpointProbes, OpenProbes
<1>5. \A d \in Attested : d.seq \in Nat
  <2>1. \A d \in CheckpointLines : d.seq \in Nat
    BY ConstantFacts DEF CheckpointLines
  <2>2. Attested \subseteq CheckpointLines
    BY DEF Attested, Types
  <2> QED
    BY <2>1, <2>2
<1>6. ASSUME NEW i \in Sealed, k = <<"segment", i>> PROVE Status(arch, k) # "mismatch"
  <2>1. k[1] = "segment" /\ k[2] = i /\ i \in Here
    BY <1>6, Heads, KeyForms
  <2>2. FileOf(k) = ends[i]
    BY <2>1 DEF FileOf
  <2>3. arch[k] = ends[i]
    BY <2>1 DEF ExactInv
  <2>4. Relation(arch, k) = "identical"
    BY <1>2, <2>2, <2>3, Relations
  <2> QED
    BY <1>1, <2>1, <2>4, StatusForms
<1>7. ASSUME NEW i \in 1 .. pruned, k = <<"segment", i>> PROVE Status(arch, k) # "mismatch"
  <2>1. k[1] = "segment" /\ k[2] <= pruned
    BY <1>3, <1>7, KeyForms
  <2> QED
    BY <1>1, <2>1, StatusForms
<1>8. ASSUME k = <<"public">> PROVE Status(arch, k) # "mismatch"
  <2>1. k[1] = "public"
    BY <1>8, KeyForms
  <2>2. KeyKnown(arch)
    BY <1>1, <1>8, <2>1 DEF Holds, KeyKnown
  <2> QED
    BY <1>1, <2>1, <2>2, StatusForms
<1>9. ASSUME NEW n \in Retired, k = <<"retired", n>> PROVE Status(arch, k) # "mismatch"
  <2>1. k[1] = "retired" /\ k[2] = n
    BY <1>9, Heads, KeyForms
  <2>2. FileOf(k) = n /\ arch[k] = n
    BY <1>1, <2>1 DEF FileOf, Holds
  <2>3. Relation(arch, k) = "identical"
    BY <1>2, <2>2, Relations
  <2> QED
    BY <1>1, <2>1, <2>3, StatusForms
<1>10. ASSUME NEW d \in Attested, d.segment \in Here, k = <<"open", d.segment, d.seq>>
       PROVE  Status(arch, k) # "mismatch"
  <2>1. k[1] = "open" /\ k[2] = d.segment /\ k[3] = d.seq /\ d.segment \in 1 .. Newest
    BY <1>5, <1>10, Heads, KeyForms
  <2>2. FileOf(k) = ends[d.segment] /\ ends[d.segment] \in Nat
    BY <1>3, <1>10, <2>1 DEF FileOf
  <2>3. d.seq <= arch[k] /\ arch[k] <= ends[d.segment]
    BY <1>1, <2>1 DEF Holds
  <2>4. Relation(arch, k) \in {"identical", "prefix"}
    <3>1. arch[k] = FileOf(k) \/ arch[k] < FileOf(k)
      BY <1>2, <2>2, <2>3
    <3> QED
      BY <1>2, <3>1, Relations
  <2>5. SnapshotComplete(arch, k)
    <3>1. arch[k] >= d.seq
      BY <1>2, <1>5, <2>3
    <3> QED
      BY <2>1, <3>1 DEF SnapshotComplete
  <2> QED
    BY <1>1, <2>1, <2>4, <2>5, StatusForms
<1>11. ASSUME NEW d \in Attested, k = <<"checkpoints", d.seq>>
       PROVE  Status(arch, k) # "mismatch"
  <2>1. k[1] = "checkpoints" /\ k[2] = d.seq
    BY <1>5, <1>11, KeyForms
  <2>2. FileOf(k) = Len(cks) /\ Len(cks) \in Nat /\ DOMAIN cks = 1 .. Len(cks)
    BY <2>1 DEF FileOf, Types
  <2>3. PICK j \in 1 .. Len(cks) : cks[j] = d
    BY DEF Attested
  <2>4. arch[k] <= Len(cks) /\ j <= arch[k]
    <3>1. arch[k] <= Len(cks) /\ (cks[j].seq <= k[2] => j <= arch[k])
      BY <1>1, <2>1, <2>2, <2>3 DEF Holds
    <3>2. cks[j].seq <= k[2]
      BY <1>5, <2>1, <2>3
    <3> QED
      BY <3>1, <3>2
  <2>5. Relation(arch, k) \in {"identical", "prefix"}
    <3>1. arch[k] = FileOf(k) \/ arch[k] < FileOf(k)
      BY <1>2, <2>2, <2>4
    <3> QED
      BY <1>2, <3>1, Relations
  <2>6. cks[arch[k]].seq >= d.seq
    <3>1. arch[k] \in DOMAIN cks /\ j \in DOMAIN cks /\ (j = arch[k] \/ j < arch[k])
      BY <1>2, <2>2, <2>4
    <3>2. cks[arch[k]] \in Attested
      BY <2>2, <3>1 DEF Attested
    <3>3. j < arch[k] => cks[j].seq < cks[arch[k]].seq
      BY <3>1 DEF DiskInv
    <3> QED
      BY <1>5, <2>3, <3>1, <3>2, <3>3
  <2>7. SnapshotComplete(arch, k)
    BY <2>1, <2>6 DEF SnapshotComplete
  <2> QED
    BY <1>1, <2>1, <2>5, <2>7, StatusForms
<1> QED
  BY <1>4, <1>6, <1>7, <1>8, <1>9, <1>10, <1>11

\* Unless a rotation dies between sealing the segment and creating its successor,
\* an honest archive is never reported as contradicting the directory, whatever was
\* killed, refused, retried, rotated or pruned: what is offered as a sealed segment is
\* never written to again, and a snapshot reaches the head it is named after
\* (store.go rotate and archiveCatchUp, archivecheck/verify.go compare).
THEOREM HonestArchiveMatches ==
  ASSUME "rotate" \notin Faults
  PROVE  Spec => []NoFalseMismatch
<1>1. Init => ExactInv
  BY InitiallyExact
<1>2. IInv /\ ExactInv /\ [Next]_vars => ExactInv'
  BY ExactStep DEF IInv
<1>3. IInv /\ ExactInv => NoFalseMismatch
  BY MatchesHonest DEF IInv
<1> QED
  BY ObjectsAreNamed, <1>1, <1>2, <1>3, PTL DEF Spec


\* Under the same assumption what is under the final name of a sealed segment is all of
\* it, for good (archiver.go archiveSealedSegment and archiveCatchUp, store.go rotate).
THEOREM SealedSegmentsAreFinal ==
  ASSUME "rotate" \notin Faults
  PROVE  Spec => []SealedIsFinal
<1>1. Init => ExactInv
  BY InitiallyExact
<1>2. IInv /\ ExactInv /\ [Next]_vars => ExactInv'
  BY ExactStep DEF IInv
<1>3. ExactInv => SealedIsFinal
  BY DEF ExactInv, SealedIsFinal
<1> QED
  BY ObjectsAreNamed, <1>1, <1>2, <1>3, PTL DEF Spec

-----------------------------------------------------------------------------
(* Which reply of a timestamping authority is recorded *)

\* Whatever is in a reply, the token that is taken from it claims the hash that was
\* asked about and no other, the reply does not decline, at either level, and verify
\* finds the same claim when it reads the token back (timestamp.go: RequestTimestamp,
\* VerifyTimestampImprint).
THEOREM RecordedTokensAreAnswers ==
  ASSUME NEW reply, NEW hash, NEW token, token = RequestTimestamp(reply, hash), token # None
  PROVE  /\ \A h : VerifyTimestampImprint(token, h) <=> h = hash
         /\ ~Declined(reply)
         /\ RequestTimestamp(token, hash) # None
<1>1. token = tokenFromReply(reply) /\ VerifyTimestampImprint(token, hash)
  BY DEF RequestTimestamp, Imprint
<1>2. ParseTimestampToken(token) # None /\ ParseTimestampToken(token).imprint = hash
  BY <1>1 DEF VerifyTimestampImprint
<1>3. \A h : VerifyTimestampImprint(token, h) <=> h = hash
  BY <1>2 DEF VerifyTimestampImprint
<1>4. None.shape = "none" /\ ~IsSignedData(None)
  BY DEF None, IsSignedData
<1>5. IsSignedData(token) \/ IsSignedData(tokenFromResponse(token))
  BY <1>2 DEF ParseTimestampToken
<1>6. ~Declined(reply)
  <2> SUFFICES ASSUME reply.shape = "response", reply.status = "rejected" \/ (reply.token.shape = "response" /\ reply.token.status = "rejected")
               PROVE  FALSE
    BY DEF Declined
  <2>1. ~IsSignedData(reply)
    BY DEF IsSignedData
  <2>2. CASE reply.status = "rejected"
    <3>1. tokenFromResponse(reply) = None
      BY <2>2 DEF tokenFromResponse
    <3> QED
      BY <1>1, <2>1, <3>1 DEF tokenFromReply
  <2>3. CASE reply.token.shape = "response" /\ reply.token.status = "rejected"
    <3>1. token = reply.token
      BY <1>1, <2>1 DEF tokenFromReply, tokenFromResponse
    <3>2. ~IsSignedData(token) /\ tokenFromResponse(token) = None
      BY <2>3, <3>1 DEF IsSignedData, tokenFromResponse
    <3> QED
      BY <1>4, <1>5, <3>2
  <2> QED
    BY <2>2, <2>3
<1>7. RequestTimestamp(token, hash) # None
  <2>1. CASE IsSignedData(token)
    <3>1. tokenFromResponse(token) = None
      BY <2>1 DEF IsSignedData, tokenFromResponse
    <3>2. tokenFromReply(token) = token
      BY <2>1, <3>1 DEF tokenFromReply
    <3> QED
      BY <1>1, <3>2 DEF RequestTimestamp, Imprint
  <2>2. CASE ~IsSignedData(token)
    <3> DEFINE body == tokenFromResponse(token)
    <3>1. IsSignedData(body) /\ body # None
      BY <1>4, <1>5, <2>2
    <3>2. tokenFromReply(token) = body
      BY <3>1 DEF tokenFromReply
    <3>3. ParseTimestampToken(body) = ParseTimestampToken(token)
      BY <2>2, <3>1 DEF ParseTimestampToken
    <3> HIDE DEF body
    <3>4. VerifyTimestampImprint(body, hash)
      BY <1>2, <3>3 DEF VerifyTimestampImprint
    <3> QED
      BY <3>1, <3>2, <3>4 DEF RequestTimestamp, Imprint
  <2> QED
    BY <2>1, <2>2
<1> QED
  BY <1>3, <1>6, <1>7

=============================================================================
