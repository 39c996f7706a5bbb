----------------------------- MODULE Retention -----------------------------
(***************************************************************************)
(* Retention enforcement (retention.go, anchor.go, cli/retention.go) beside *)
(* a server that appends, rotates and attests, and a verify command and an *)
(* export (audit/export.go) that read the directory file by file.          *)
(*                                                                         *)
(* The server's log is honest, so record n follows from n; a segment is    *)
(* its last record.  Records pass the retention cutoff in any order: their *)
(* timestamps come from a clock that may step back.                        *)
(***************************************************************************)
EXTENDS Verification

CONSTANTS
  Enforcers,  \* enforcement runs that may overlap
  MaxSeq,     \* bound: records
  MaxSegs,    \* bound: segments
  MaxCks,     \* bound: checkpoints
  Legacy      \* checkpoints written before they were chained

ASSUME RetentionAssumption ==
  /\ Enforcers # {} /\ {MaxSeq, MaxSegs, MaxCks} \subseteq Nat \ {0} /\ Legacy \in Nat

VARIABLES
  ends,    \* per segment ever written: its last record
  gone,    \* segments that were unlinked
  young,   \* records whose timestamp is inside the retention period
  attests, \* checkpoints.jsonl: the record of each line
  anchor,  \* pruned.json
  hold,    \* whether LEGAL_HOLD exists
  run,     \* per enforcement run: where it is and what it read
  view,    \* the verify command: where it is and what it read
  bundle   \* the export command: where it is and what it copied

files == <<ends, gone, young, attests, anchor, hold>>
readers == <<view, bundle>>
vars == <<files, run, readers>>

Newest == Len(ends)
ChainHead == ends[Newest]
StartOf(i) == IF i = 1 THEN 0 ELSE ends[i - 1]
RecordsOf(i) == StartOf(i) + 1 .. ends[i]
Here == {i \in 1 .. Newest : i \notin gone}

Record(n) ==
  LET hash[k \in 0 .. n] == IF k = 0 THEN Genesis ELSE Append(hash[k - 1], <<k, "event">>)
  IN  [seq |-> n, prev |-> hash[n - 1], body |-> "event", hash |-> hash[n]]

Idle == [pc |-> "idle"]

Init ==
  /\ ends = <<0>> /\ gone = {} /\ young = {} /\ attests = <<>>
  /\ anchor = NoAnchor /\ hold = FALSE
  /\ run = [e \in Enforcers |-> Idle] /\ view = Idle /\ bundle = Idle

------------------------------------------------------------------------------
\* The server, the passage of time and the operator

Write ==
  /\ ChainHead < MaxSeq
  /\ ends' = [ends EXCEPT ![Newest] = @ + 1]
  /\ young' = young \cup {ChainHead + 1}
  /\ UNCHANGED <<gone, attests, anchor, hold, run, readers>>

Rotate ==
  /\ Newest < MaxSegs /\ RecordsOf(Newest) # {}
  /\ ends' = Append(ends, ChainHead)
  /\ UNCHANGED <<gone, young, attests, anchor, hold, run, readers>>

LastAttested == IF attests = <<>> THEN 0 ELSE attests[Len(attests)]
Attest ==
  /\ Len(attests) < MaxCks /\ LastAttested < ChainHead
  /\ attests' = Append(attests, ChainHead)
  /\ UNCHANGED <<ends, gone, young, anchor, hold, run, readers>>

Age ==
  /\ \E n \in young : young' = young \ {n}
  /\ UNCHANGED <<ends, gone, attests, anchor, hold, run, readers>>

SetHold ==
  /\ hold' = ~hold
  /\ UNCHANGED <<ends, gone, young, attests, anchor, run, readers>>

------------------------------------------------------------------------------
\* Enforce

\* Mutant: the last record of a segment is taken for its newest.
LastIsOld(i) == ends[i] \notin young
\* classify: the newest timestamp of the segment is before the cutoff; an
\* empty segment holds nothing back.
BeyondRetention(i) == RecordsOf(i) \cap young = {}

\* Mutant: the segment being written is deleted as well.
EligibleActiveToo(i) == BeyondRetention(i)
Eligible(i) == BeyondRetention(i) /\ i # Newest
\* Whole segments, from the front.
Plan == {i \in Here : \A j \in Here : j <= i => Eligible(j)}
\* lastWithRecords
WithRecords(S) == {i \in S : RecordsOf(i) # {}}
LastWithRecords(S) == CHOOSE i \in WithRecords(S) : \A j \in WithRecords(S) : j <= i

\* ReadLegalHold, where the run starts
Start(e) ==
  /\ run[e].pc = "idle"
  /\ run' = [run EXCEPT ![e] = [pc |-> "scan", held |-> hold]]
  /\ UNCHANGED <<files, readers>>

\* scanSegments and classify; under a hold, or with nothing eligible, that is
\* all.
Scan(e) ==
  /\ run[e].pc = "scan"
  /\ run' = [run EXCEPT ![e] =
       IF @.held \/ Plan = {} THEN Idle
       ELSE [pc |-> IF WithRecords(Plan) = {} THEN "unlink" ELSE "check",
             plan |-> Plan, survivors |-> WithRecords(Here \ Plan)]]
  /\ UNCHANGED <<files, readers>>

LastOf(plan) == ends[LastWithRecords(plan)]
\* Mutant: a prune that was begun is not to be repeated.
RewindsOrStays(plan) == anchor.present /\ LastOf(plan) <= anchor.seq
\* checkAnchorNeverRewinds: the same point again is how a prune is finished.
Rewinds(plan) == anchor.present /\ LastOf(plan) < anchor.seq
\* checkSurvivorLinks
SurvivorLinks(r) ==
  LET first == CHOOSE i \in r.survivors : \A j \in r.survivors : i <= j
  IN  r.survivors # {} => StartOf(first) = LastOf(r.plan)

\* A dry run ends here as well.
Check(e) ==
  /\ run[e].pc = "check"
  /\ run' = [run EXCEPT ![e] =
       IF Rewinds(@.plan) \/ ~SurvivorLinks(@) THEN Idle ELSE [@ EXCEPT !.pc = "anchor"]]
  /\ UNCHANGED <<files, readers>>

\* What an earlier run named is not counted again.
Named(i) == anchor.present /\ i \in anchor.segments
\* buildAnchor: cumulative over every prune.  No two segments share a record, so
\* the sum over the segments is the size of their union.
CountRecords(S) == Cardinality(UNION {RecordsOf(i) : i \in S})
Built(plan) ==
  LET new == {i \in plan : ~Named(i)}
      a == [present |-> TRUE, seq |-> LastOf(plan), hash |-> Record(LastOf(plan)).hash,
            segments |-> plan \cup IF anchor.present THEN anchor.segments ELSE {},
            records |-> CountRecords(new) + IF anchor.present THEN anchor.records ELSE 0,
            key |-> "k1", signature |-> <<>>]
  IN  [a EXCEPT !.signature = AnchorPreimage(a)]

\* WritePruneAnchor replaces the file in one step.
WriteAnchor(e) ==
  /\ run[e].pc = "anchor"
  /\ anchor' = Built(run[e].plan)
  /\ run' = [run EXCEPT ![e].pc = "unlink"]
  /\ UNCHANGED <<ends, gone, young, attests, hold, readers>>

\* One file after the other; one that is gone already ends the run.
Unlink(e) ==
  /\ run[e].pc = "unlink"
  /\ LET i == CHOOSE i \in run[e].plan : \A j \in run[e].plan : i <= j
         rest == run[e].plan \ {i}
     IN  /\ gone' = gone \cup {i}
         /\ run' = [run EXCEPT ![e] =
              IF i \in gone \/ rest = {} THEN Idle ELSE [@ EXCEPT !.plan = rest]]
         /\ view' = IF view.pc = "idle" THEN view ELSE [view EXCEPT !.raced = TRUE]
  /\ UNCHANGED <<ends, young, attests, anchor, hold, bundle>>

Kill(e) ==
  /\ run[e].pc # "idle"
  /\ run' = [run EXCEPT ![e] = Idle]
  /\ UNCHANGED <<files, readers>>

------------------------------------------------------------------------------
\* What the files hold

\* The first ones are legacy; each later one commits to its position and its
\* predecessor.
CheckpointList(list) ==
  LET signed(i) == Signed([seq |-> list[i], hash |-> Record(list[i]).hash, key |-> "k1"])
      before(i) == IF i = 1 THEN <<>> ELSE CheckpointHash(signed(i - 1))
  IN  [i \in DOMAIN list |-> IF i <= Legacy THEN signed(i) ELSE Linked(signed(i), i - 1, before(i))]
Stamps(list) ==
  {[seq |-> n, hash |-> Record(n).hash, imprint |-> Record(n).hash] : n \in ToSet(list)}
SegmentFile(i, last) == [k \in 1 .. last - StartOf(i) |-> Record(StartOf(i) + k)]
SegmentFiles(S) ==
  [k \in 1 .. Cardinality(S) |->
     LET i == CHOOSE i \in S : Cardinality({j \in S : j <= i}) = k IN SegmentFile(i, ends[i])]

Directory(a, list, segments) ==
  [anchor |-> a, keys |-> {"k1"}, cks |-> CheckpointList(list), stamps |-> Stamps(list),
   segments |-> segments]
Source == Directory(anchor, attests, SegmentFiles(Here))

------------------------------------------------------------------------------
\* The verify command: anchor and keys, then the checkpoints, then the segments

ReadAnchor ==
  /\ view.pc = "idle" /\ bundle.pc = "idle"
  /\ view' = [pc |-> "checkpoints", anchor |-> anchor, raced |-> FALSE]
  /\ UNCHANGED <<files, run, bundle>>

ReadCheckpoints ==
  /\ view.pc = "checkpoints"
  /\ view' = [pc |-> "segments", anchor |-> view.anchor, attests |-> attests,
              raced |-> view.raced]
  /\ UNCHANGED <<files, run, bundle>>

ReadSegments ==
  /\ view.pc = "segments"
  /\ view' = Idle
  /\ UNCHANGED <<files, run, bundle>>
Found == Problems(Directory(view.anchor, view.attests, SegmentFiles(Here)))

------------------------------------------------------------------------------
\* The export command: the names first, then a verification for the manifest,
\* then one file after the other: the segments, checkpoints.jsonl, pruned.json.
\* (Two commands that only read do not disturb each other; one runs at a time.)

\* Mutant: the anchor of a pruned log is left behind.
CollectedWithoutAnchor == [segments |-> Here, checkpoints |-> attests # <<>>, anchor |-> FALSE]
\* collect: a file that appears later is not in the bundle.
Collected == [segments |-> Here, checkpoints |-> attests # <<>>, anchor |-> anchor.present]
Collect ==
  /\ bundle.pc = "idle" /\ view.pc = "idle"
  /\ bundle' = [pc |-> "verify", names |-> Collected]
  /\ UNCHANGED <<files, run, view>>

VerifyForManifest ==
  /\ bundle.pc = "verify"
  /\ bundle' = [pc |-> "segments", names |-> bundle.names, left |-> bundle.names.segments,
                verified |-> Problems(Source) = {}]
  /\ UNCHANGED <<files, run, view>>

\* writeFileEntry: a file that is gone, or that grew after its size was taken,
\* ends the export, and what was at the destination stays there.  A segment
\* that rotated meanwhile is copied whole; the last one as far as it goes.
CopySegment ==
  /\ bundle.pc = "segments"
  /\ LET i == CHOOSE i \in bundle.left : \A j \in bundle.left : i <= j
         rest == bundle.left \ {i}
     IN  bundle' = IF i \in gone THEN Idle
                   ELSE IF rest # {} THEN [bundle EXCEPT !.left = rest]
                   ELSE [pc |-> "checkpoints", names |-> bundle.names,
                         copied |-> ends[i], verified |-> bundle.verified]
  /\ UNCHANGED <<files, run, view>>

CopyCheckpoints ==
  /\ bundle.pc = "checkpoints"
  /\ bundle' = [pc |-> "anchor", names |-> bundle.names, copied |-> bundle.copied,
                attests |-> IF bundle.names.checkpoints THEN attests ELSE <<>>,
                verified |-> bundle.verified]
  /\ UNCHANGED <<files, run, view>>

\* pruned.json, and the bundle is renamed into place.
CopyAnchor ==
  /\ bundle.pc = "anchor"
  /\ bundle' = Idle
  /\ UNCHANGED <<files, run, view>>

FileGrew ==
  /\ bundle.pc \in {"segments", "checkpoints"}
  /\ bundle' = Idle
  /\ UNCHANGED <<files, run, view>>

\* What the recipient unpacks when the export ends now.
LastCopied == CHOOSE i \in bundle.names.segments : \A j \in bundle.names.segments : j <= i
Bundle ==
  Directory(IF bundle.names.anchor THEN anchor ELSE NoAnchor, bundle.attests,
            Append(SegmentFiles(bundle.names.segments \ {LastCopied}),
                   SegmentFile(LastCopied, bundle.copied)))

Next ==
  \/ Write \/ Rotate \/ Attest \/ Age \/ SetHold
  \/ \E e \in Enforcers :
       Start(e) \/ Scan(e) \/ Check(e) \/ WriteAnchor(e) \/ Unlink(e) \/ Kill(e)
  \/ ReadAnchor \/ ReadCheckpoints \/ ReadSegments
  \/ Collect \/ VerifyForManifest \/ CopySegment \/ CopyCheckpoints \/ CopyAnchor \/ FileGrew

Spec == Init /\ [][Next]_vars

------------------------------------------------------------------------------
\* Properties

\* Every variable holds a value of its kind; an enforcement run works on
\* segments that are not the one being written.
TypeOK ==
  /\ ends \in Seq(0 .. MaxSeq) /\ Newest \in 1 .. MaxSegs /\ gone \subseteq 1 .. Newest - 1
  /\ young \subseteq 1 .. ChainHead /\ attests \in Seq(1 .. MaxSeq) /\ hold \in BOOLEAN
  /\ anchor.present => anchor.seq \in 1 .. ChainHead /\ anchor.segments \subseteq 1 .. Newest - 1
  /\ \A e \in Enforcers :
       /\ run[e].pc \in {"idle", "scan", "check", "anchor", "unlink"}
       /\ run[e].pc \in {"check", "anchor", "unlink"} => run[e].plan \subseteq 1 .. Newest - 1
  /\ view.pc \in {"idle", "checkpoints", "segments"}
  /\ bundle.pc \in {"idle", "verify", "segments", "checkpoints", "anchor"}

\* Of a log nobody touched, however the server's appends and checkpoints fall
\* between the files verify reads, and however often a prune was interrupted,
\* verify reports at most an interrupted prune; a public key that is missing
\* or foreign is never taken for damage.  (A prune that deletes while verify
\* reads is left out.)
NoFalseAlarm ==
  view.pc = "segments" /\ ~view.raced =>
    LET d == Directory(view.anchor, view.attests, SegmentFiles(Here))
    IN  /\ Problems(d) \subseteq {"prune_incomplete"}
        /\ Problems(d) = {} => \A K \in SUBSET {"k1", "k2"} : Intact(Problems([d EXCEPT !.keys = K]))

\* Retention deletes only what is beyond the minimum age, and at every moment
\* pruned.json accounts for what is gone: each deleted segment by name, each
\* record up to the anchor once.
PruneAccounted ==
  /\ \A i \in gone : RecordsOf(i) \cap young = {}
  /\ gone # {} => anchor.present
  /\ anchor.present =>
       /\ gone \subseteq anchor.segments
       /\ anchor.records = anchor.seq

\* A prune that was interrupted between two unlinks can be finished by a
\* second run, whatever was written since (Enforce).
Unfinished == IF anchor.present THEN anchor.segments \ gone ELSE {}
PruneResumes ==
  Unfinished # {} =>
    /\ Unfinished \subseteq Plan
    /\ ~Rewinds(Plan)
    /\ SurvivorLinks([plan |-> Plan, survivors |-> WithRecords(Here \ Plan)])

\* A bundle exported beside a running server and a running retention command
\* holds a log that the recipient's verify takes for undamaged, at most for one
\* with an interrupted prune, unless a checkpoint or the anchor in it is about
\* records that were written after the segments were copied (Export).
AboutCopied(b) ==
  /\ \A i \in DOMAIN b.cks : b.cks[i].seq <= bundle.copied
  /\ b.anchor.present => b.anchor.seq <= bundle.copied
BundleHoldsTogether ==
  bundle.pc = "anchor" /\ AboutCopied(Bundle) => Problems(Bundle) \subseteq {"prune_incomplete"}

\* A bundle whose manifest says that the chain verified at the export
\* verifies (chain_verified_at_export, Export).
VerifiedBundleVerifies ==
  bundle.pc = "anchor" /\ bundle.verified => Problems(Bundle) \subseteq {"prune_incomplete"}

\* Changes to the files of a log that verifies.  What no checkpoint attests
\* can be rewritten or cut off without a trace, by design.
Rehash(recs) ==
  LET hash[k \in 0 .. Len(recs)] ==
        IF k = 0 THEN recs[1].prev ELSE Hash([recs[k] EXCEPT !.prev = hash[k - 1]])
  IN  [k \in DOMAIN recs |-> [recs[k] EXCEPT !.prev = hash[k - 1], !.hash = hash[k]]]
ChangedLogs(recs) ==
  LET attested == {i \in DOMAIN recs : recs[i].seq <= LastAttested}
      one(i) == [recs EXCEPT ![i].body = "changed"]
  IN  {one(i) : i \in DOMAIN recs}
        \cup {[recs EXCEPT ![i].body = "unreadable"] : i \in DOMAIN recs}
        \cup {Rehash(one(i)) : i \in attested}
        \cup {RemoveAt(recs, i) : i \in attested}
        \cup {SubSeq(recs, 1, i - 1) : i \in attested}
ChangedCheckpoints(list) ==
  {RemoveAt(list, i) : i \in {j \in 1 .. Len(list) - 1 : Chained(list[Len(list)])}}
    \cup {[list EXCEPT ![i].hash = Unknown] : i \in DOMAIN list}
ChangedAnchors ==
  IF ~anchor.present \/ WithRecords(Here) = {} THEN {}
  ELSE {NoAnchor, [anchor EXCEPT !.hash = Unknown], [anchor EXCEPT !.seq = @ - 1],
        [anchor EXCEPT !.seq = @ + 1]}
Changed(d) ==
  {[d EXCEPT !.segments = <<r>>] : r \in ChangedLogs(FlattenSeq(d.segments))}
    \cup {[d EXCEPT !.cks = c] : c \in ChangedCheckpoints(d.cks)}
    \cup {[d EXCEPT !.anchor = a] : a \in ChangedAnchors}

\* Verify takes a log for damaged when a record changed, when an attested one
\* was rewritten consistently, removed or cut off, when a checkpoint was changed
\* or removed from before a chained one, and when the anchor is another.
\* (Every set of files is also reached with no command running.)
Quiet == view.pc = "idle" /\ bundle.pc = "idle" /\ \A e \in Enforcers : run[e].pc = "idle"
ChangeReported ==
  LET d == Source
  IN  Quiet /\ Problems(d) = {} => \A c \in Changed(d) : ~Intact(Problems(c))

\* An existing anchor is never moved backwards (checkAnchorNeverRewinds).
AnchorNeverRewinds ==
  [][anchor.present => anchor'.seq >= anchor.seq]_vars

\* Medium means that what is present is intact (the severities of verify.go).
MediumIsIntact ==
  LET found == Problems(Source)
  IN  found \subseteq Medium => Intact(found)

\* Nothing is deleted while a legal hold is in force (Enforce, placeHold).
HeldIsKept == [][hold => gone' = gone]_vars
=============================================================================
