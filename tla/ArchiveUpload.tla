--------------------------- MODULE ArchiveUpload ---------------------------
(***************************************************************************)
(* The offsite copy of an evidence directory: what the store offers to the *)
(* archive and when (archiver.go, store.go), the bounded queue and the     *)
(* upload goroutine, one S3 request with its retries (archive/s3.go), the  *)
(* timestamping goroutine (timestamp.go), the order of Close, and what     *)
(* archive-verify says of the result (archivecheck/verify.go).             *)
(*                                                                         *)
(* Files only grow, so the content of a file or of an object is a number:  *)
(* a segment is its last record, checkpoints.jsonl its lines and           *)
(* timestamps.jsonl its anchors; a key file is the number of its key.      *)
(* Faults names what may happen:                                           *)
(*   "kill"    the process dies between any two steps but in a rotation    *)
(*   "rotate"  a rotation dies or fails after the old segment was sealed   *)
(*   "net"     requests to the archive or the authority fail, or the sync  *)
(*             after the line of an anchor                                 *)
(*   "sign"    a checkpoint cannot be signed                               *)
(***************************************************************************)
EXTENDS Integers, Sequences, FiniteSets, ObjectStore, Timestamping

CONSTANTS
  MaxSeq,       \* bound: records
  MaxSegs,      \* bound: segments
  MaxKeys,      \* bound: signing keys
  MaxStarts,    \* bound: starts of the server
  MaxStamps,    \* bound: anchors
  MaxFailures,  \* bound: requests that fail
  QueueDepth,   \* ArchiveQueueDepth
  MaxAttempts,  \* attempts of one request
  BufferLimit,  \* MaxBufferBytes, in records; large for an archive that is a directory
  Faults

ASSUME ArchiveUploadAssumption ==
  /\ {MaxSeq, MaxStarts, MaxStamps, MaxFailures} \subseteq Nat
  /\ {MaxSegs, MaxKeys, QueueDepth, MaxAttempts, BufferLimit} \subseteq Nat \ {0}
  /\ Faults \subseteq {"kill", "rotate", "net", "sign"}

VARIABLES
  ends,     \* per segment ever written: its last record
  pruned,   \* how many of them retention deleted
  cks,      \* checkpoints.jsonl: seq, segment and signing key per line
  stamps,   \* lines of timestamps.jsonl
  pub,      \* the key in force; retired ones are 1 .. pub - 1
  pc,       \* where the writer is
  ckSeq,    \* checkpointSeq: the head the store takes as attested
  queue,    \* uploads: the job queue
  job,      \* the upload in flight
  sent,     \* keys this run knows to be archived
  tsq,      \* checkpoints waiting for an anchor
  arch,     \* the archive: content by key
  trouble,  \* whether this run counted or reported a failure
  clean,    \* whether the last run closed and reported none
  starts, failures

disk == <<ends, pruned, cks, stamps, pub>>
worker == <<queue, job, sent>>
vars == <<disk, pc, ckSeq, worker, tsq, arch, trouble, clean, starts, failures>>

Newest == Len(ends)
ChainHead == IF ends = <<>> THEN 0 ELSE ends[Newest]
StartOf(i) == IF i = 1 THEN 0 ELSE ends[i - 1]
Here == {i \in 1 .. Newest : i > pruned}
Sealed == Here \ {Newest}
Retired == 1 .. pub - 1

NoJob == [key |-> <<>>]

Init ==
  /\ ends = <<>> /\ pruned = 0 /\ cks = <<>> /\ stamps = 0 /\ pub = 1
  /\ pc = "down" /\ ckSeq = 0
  /\ queue = <<>> /\ job = NoJob /\ sent = {} /\ tsq = 0
  /\ arch = <<>>
  /\ trouble = FALSE /\ clean = FALSE /\ starts = 0 /\ failures = 0

------------------------------------------------------------------------------
\* What is offered, and under which key

SegmentKeys == [i \in 1 .. Newest |-> <<"segment", i>>]
VerificationKeys == <<<<"public">>>> \o [k \in Retired |-> <<"retired", k>>]

\* Snapshots are named by what they cover when they are offered, and what is
\* empty is not offered.
archiveTimestamps == IF stamps > 0 THEN <<<<"timestamps", stamps>>>> ELSE <<>>
archiveCheckpoints(head) ==
  (IF head > 0 THEN <<<<"checkpoints", head>>>> ELSE <<>>) \o archiveTimestamps

\* Mutant: the newest segment is taken for sealed.
CatchUpNewestToo(head) ==
  IF Here = {} THEN <<>>
  ELSE SubSeq(SegmentKeys, pruned + 1, Newest) \o archiveCheckpoints(head)
\* archiveCatchUp: every sealed segment, the checkpoints, the anchors.
CatchUp(head) ==
  IF Here = {} THEN <<>>
  ELSE SubSeq(SegmentKeys, pruned + 1, Newest - 1) \o archiveCheckpoints(head)

\* The file an object is read from, as it stands; 0 when it is gone.
FileOf(key) ==
  CASE key[1] \in {"segment", "open"} -> IF key[2] \in Here THEN ends[key[2]] ELSE 0
    [] key[1] = "checkpoints" -> Len(cks)
    [] key[1] = "timestamps" -> stamps
    [] key[1] = "public" -> pub
    [] key[1] = "retired" -> key[2]

Overflow(keys, q) == Len(q) + Len(keys) > QueueDepth

\* enqueueUpload for a list of keys: a full queue drops the job and counts
\* it.  failed is what else went wrong in the step.
Offer(keys, q, failed) ==
  LET all == q \o keys
  IN  /\ queue' = SubSeq(all, 1, IF Overflow(keys, q) THEN QueueDepth ELSE Len(all))
      /\ trouble' = (failed \/ Overflow(keys, q))

------------------------------------------------------------------------------
\* The writer

\* Whether an anchor is due is a matter of the interval.
maybeTimestamp == tsq' \in {tsq} \cup (IF stamps + tsq < MaxStamps THEN {tsq + 1} ELSE {})

\* appendCheckpoint: ok is FALSE when nothing was signed.
Attest(ok) ==
  IF ok /\ ckSeq < ChainHead
  THEN /\ cks' = Append(cks, [seq |-> ChainHead, segment |-> Newest, key |-> pub])
       /\ ckSeq' = ChainHead
       /\ maybeTimestamp
  ELSE UNCHANGED <<cks, ckSeq, tsq>>
Signs(ok) == ok \/ ("sign" \in Faults /\ ckSeq < ChainHead)

Open ==
  /\ pc = "down" /\ starts < MaxStarts
  /\ starts' = starts + 1
  /\ pc' = "up" /\ ckSeq' = ChainHead
  /\ Offer(VerificationKeys \o CatchUp(ChainHead), <<>>, FALSE)
  /\ ends' = IF Here = {} THEN Append(ends, ChainHead) ELSE ends
  /\ job' = NoJob /\ sent' = {} /\ tsq' = 0 /\ clean' = FALSE
  /\ UNCHANGED <<pruned, cks, stamps, pub, arch, failures>>

\* Records have many lengths: one may still fit where a longer one did not and
\* the segment was sealed, if that was reopened.
Write ==
  /\ pc = "up" /\ ChainHead < MaxSeq
  /\ ends' = [ends EXCEPT ![Newest] = @ + 1]
  /\ UNCHANGED <<pruned, cks, stamps, pub, pc, ckSeq, worker, tsq, arch, trouble,
                 clean, starts, failures>>

\* The next record does not fit: the segment is sealed, attested and offered.
Seal ==
  /\ pc = "up" /\ Newest < MaxSegs /\ ChainHead > StartOf(Newest)
  /\ \E ok \in BOOLEAN :
       /\ Signs(ok) /\ Attest(ok)
       /\ Offer(<<<<"segment", Newest>>>> \o archiveCheckpoints(ckSeq'), queue, trouble \/ ~ok)
  /\ pc' = "rotating"
  /\ UNCHANGED <<ends, pruned, stamps, pub, job, sent, arch, clean, starts, failures>>

\* The new segment is created last; when it cannot be, nothing more is written.
Rotate ==
  /\ pc = "rotating"
  /\ \E created \in {TRUE} \cup (IF "rotate" \in Faults THEN {FALSE} ELSE {}) :
       /\ ends' = IF created THEN Append(ends, ChainHead) ELSE ends
       /\ pc' = IF created THEN "up" ELSE "broken"
       /\ trouble' = (trouble \/ ~created)
  /\ UNCHANGED <<pruned, cks, stamps, pub, ckSeq, worker, tsq, arch, clean, starts, failures>>

Tick ==
  /\ pc = "up" /\ ckSeq < ChainHead
  /\ \E ok \in BOOLEAN :
       /\ Signs(ok) /\ Attest(ok)
       /\ trouble' = (trouble \/ ~ok)
  /\ UNCHANGED <<ends, pruned, stamps, pub, pc, worker, arch, clean, starts, failures>>

Kill ==
  /\ pc # "down"
  /\ IF pc \in {"rotating", "broken"} THEN "rotate" \in Faults ELSE "kill" \in Faults
  /\ pc' = "down" /\ ckSeq' = 0
  /\ queue' = <<>> /\ job' = NoJob /\ sent' = {} /\ tsq' = 0 /\ trouble' = FALSE
  /\ UNCHANGED <<disk, arch, clean, starts, failures>>

------------------------------------------------------------------------------
\* The upload goroutine

Take ==
  /\ queue # <<>> /\ job = NoJob
  /\ queue' = Tail(queue)
  /\ job' = IF Head(queue) \in sent THEN NoJob
            ELSE [key |-> Head(queue), phase |-> "exists", attempt |-> 1, body |-> 0]
  /\ UNCHANGED <<disk, pc, ckSeq, sent, tsq, arch, trouble, clean, starts, failures>>

Fails == "net" \in Faults /\ failures < MaxFailures
Stored == DOMAIN arch
Store(key, body) ==
  [k \in Stored \cup {key} |-> IF k = key THEN body ELSE arch[k]]

\* Mutant: one attempt too many.
RetriesOnceMore == job.attempt <= MaxAttempts
\* do: an attempt that is worth repeating is, up to the limit.
Retries == job.attempt < MaxAttempts
NextAttempt == job' = [job EXCEPT !.attempt = @ + 1]

Done == job' = NoJob /\ sent' = sent \cup {job.key} /\ UNCHANGED trouble
GiveUp == job' = NoJob /\ trouble' = TRUE /\ UNCHANGED sent

FileSize(key) ==
  IF key[1] \in {"segment", "open"} THEN FileOf(key) - StartOf(key[2]) ELSE FileOf(key)

\* Mutant: a file that is gone is uploaded empty.
StartPutAnyway ==
  /\ job' = [job EXCEPT !.phase = "put", !.attempt = 1, !.body = FileOf(job.key)]
  /\ UNCHANGED <<sent, trouble>>
\* The file is read where the request begins, into memory.
StartPut ==
  IF FileOf(job.key) = 0 \/ ~Rewindable(FileSize(job.key), BufferLimit) THEN GiveUp
  ELSE /\ job' = [job EXCEPT !.phase = "put", !.attempt = 1, !.body = FileOf(job.key)]
       /\ UNCHANGED <<sent, trouble>>

\* No answer is not an absence and not a presence: the upload goes ahead.
Unanswered == StartPut

\* What the answers of the store come to: one of a store that works, or a failure.
Question(answers) ==
  {IF Repeated(a) THEN "again" ELSE Exists(a, bucket) : a \in answers, bucket \in {Ok, NoAnswer("reset")}}
WhenStored == Question({Ok})
WhenAbsent == Question(NotFound)
WhenFailing == Question(Busy \cup Decided)

AskExists ==
  /\ job # NoJob /\ job.phase = "exists"
  /\ \E failing \in BOOLEAN :
       /\ failing => Fails
       /\ failures' = IF failing THEN failures + 1 ELSE failures
       /\ \E answer \in IF failing THEN WhenFailing ELSE IF job.key \in Stored THEN WhenStored ELSE WhenAbsent :
            CASE answer = "again" /\ Retries -> NextAttempt /\ UNCHANGED <<sent, trouble>>
              [] answer = "present" -> Done
              [] answer = "absent" -> StartPut
              [] OTHER -> Unanswered
  /\ UNCHANGED <<disk, pc, ckSeq, queue, tsq, arch, clean, starts>>

\* A request may fail before or after the object was stored.
PutFailures == {[again |-> Repeated(a), stored |-> MayHaveStored(a)] : a \in Busy \cup Decided}

Put ==
  /\ job # NoJob /\ job.phase = "put"
  /\ \/ /\ arch' = Store(job.key, job.body) /\ Done
        /\ UNCHANGED failures
     \/ \E f \in PutFailures :
          /\ Fails /\ failures' = failures + 1
          /\ arch' \in {arch} \cup IF f.stored THEN {Store(job.key, job.body)} ELSE {}
          /\ IF f.again /\ Retries THEN NextAttempt /\ UNCHANGED <<sent, trouble>> ELSE GiveUp
  /\ UNCHANGED <<disk, pc, ckSeq, queue, tsq, clean, starts>>

------------------------------------------------------------------------------
\* The timestamping goroutine: one anchor asked for and recorded

AppendTimestamp == stamps' = stamps + 1

\* What comes of the replies an authority may give.
Recordable == {RequestTimestamp(reply, "asked") : reply \in Replies}

\* No usable reply: the transport failed, or the token is not about the hash that was
\* asked about.
Counted == Fails /\ failures' = failures + 1 /\ trouble' = TRUE
AnchorFails == Counted /\ UNCHANGED stamps

\* The token is recorded, although the sync after its line may fail.
Anchor ==
  /\ tsq > 0 /\ pc # "down"
  /\ tsq' = tsq - 1
  /\ \/ AnchorFails
     \/ \E token \in Recordable :
          IF token # None
          THEN AppendTimestamp /\ (UNCHANGED <<trouble, failures>> \/ Counted)
          ELSE AnchorFails
  /\ UNCHANGED <<ends, pruned, cks, pub, pc, ckSeq, worker, arch, clean, starts>>

------------------------------------------------------------------------------
\* Close: the writer, then the timestamper, then the anchors once more, then
\* the archive; each worker is waited for and abandoned after its timeout.

\* shutdown: a store whose segment could not be replaced stops before it has
\* anything to offer.
Shutdown ==
  /\ pc \in {"up", "broken"}
  /\ \E ok \in BOOLEAN :
       IF pc = "broken"
       THEN ok /\ UNCHANGED <<cks, ckSeq, tsq, queue, trouble>>
       ELSE /\ Signs(ok) /\ Attest(ok)
            /\ Offer((IF ChainHead > StartOf(Newest)
                      THEN <<<<"open", Newest, ChainHead>>>> ELSE <<>>)
                       \o archiveCheckpoints(ckSeq') \o VerificationKeys,
                     queue, trouble \/ ~ok)
  /\ pc' = "stopping timestamps"
  /\ UNCHANGED <<ends, pruned, stamps, pub, job, sent, arch, clean, starts, failures>>

\* Mutant: what was anchored while the store closed is not offered.
LastOfferForgotten == <<>>
\* archiveTimestamps after stopTimestamps.
LastOffer == archiveTimestamps

StopTimestamps ==
  /\ pc = "stopping timestamps"
  /\ pc' = "stopping archive"
  /\ tsq' = 0
  /\ Offer(LastOffer, queue, trouble \/ tsq > 0)
  /\ UNCHANGED <<disk, ckSeq, job, sent, arch, clean, starts, failures>>

StopArchive ==
  /\ pc = "stopping archive"
  /\ pc' = "down" /\ ckSeq' = 0
  /\ clean' = (queue = <<>> /\ job = NoJob /\ ~trouble)
  /\ queue' = <<>> /\ job' = NoJob /\ sent' = {} /\ trouble' = FALSE
  /\ UNCHANGED <<disk, tsq, arch, starts, failures>>

------------------------------------------------------------------------------
\* Around the server

\* keys rotate, with the server down; its store has no archiver and attests
\* the rotation's record under the new key.
RotateKey ==
  /\ pc = "down" /\ pub < MaxKeys /\ Here # {} /\ ChainHead < MaxSeq
  /\ pub' = pub + 1
  /\ ends' = [ends EXCEPT ![Newest] = @ + 1]
  /\ cks' = Append(cks, [seq |-> ChainHead + 1, segment |-> Newest, key |-> pub + 1])
  /\ clean' = FALSE
  /\ UNCHANGED <<pruned, stamps, pc, ckSeq, worker, tsq, arch, trouble,
                 starts, failures>>

\* retention --enforce deletes sealed segments whenever it runs.
Prune ==
  /\ Sealed # {}
  /\ pruned' = pruned + 1
  /\ UNCHANGED <<ends, cks, stamps, pub, pc, ckSeq, worker, tsq, arch,
                 trouble, clean, starts, failures>>


Next ==
  \/ Open \/ Write \/ Seal \/ Tick \/ Kill \/ Shutdown
  \/ Rotate \/ StopTimestamps \/ StopArchive
  \/ Take \/ AskExists \/ Put \/ Anchor
  \/ RotateKey \/ Prune

Spec == Init /\ [][Next]_vars
=============================================================================
