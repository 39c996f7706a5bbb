---------------------------- MODULE Verification ----------------------------
(***************************************************************************)
(* The verify command: one pass over the files of an evidence directory    *)
(* (verify.go), as a function from the files to the kinds of problem found.*)
(*                                                                         *)
(* A hash is the sequence of everything it covers, so two hashes are equal *)
(* exactly when what they cover is; a signature is what was signed.  A     *)
(* directory d is a record of the prune anchor, the public keys, the       *)
(* checkpoints, the timestamps and the segments.                           *)
(***************************************************************************)
EXTENDS Integers, Sequences, FiniteSets, SequencesExt

Genesis == <<>>
\* No hash to hold the next record against.
Unknown == <<<<0, "unknown">>>>
Hash(rec) == Append(rec.prev, <<rec.seq, rec.body>>)

NoAnchor == [present |-> FALSE]
AnchorPreimage(a) == <<a.seq, a.hash, a.segments, a.records, a.key>>
CheckpointPreimage(c) == <<c.seq, c.hash, c.key>>
CheckpointHash(c) == <<CheckpointPreimage(c), c.signature>>
ChainPreimage(c) == <<CheckpointHash(c), c.index, c.prev>>
Chained(c) == c.chained

\* A checkpoint as it was signed before checkpoints were chained, and the link
\* that a chained one carries as well.
Signed(c) ==
  [seq |-> c.seq, hash |-> c.hash, key |-> c.key, signature |-> CheckpointPreimage(c),
   chained |-> FALSE, index |-> 0, prev |-> <<>>, chainSignature |-> <<>>]
Linked(c, index, prev) ==
  LET d == [c EXCEPT !.chained = TRUE, !.index = index, !.prev = prev]
  IN  [d EXCEPT !.chainSignature = ChainPreimage(d)]

------------------------------------------------------------------------------
\* What is read before the walk

\* loadAnchorForVerify
Pruned(d) == d.anchor.present /\ d.anchor.seq > 0
AnchorUnusable(d) == d.anchor.present /\ d.anchor.seq = 0

\* verifyAnchorSignature: without any key, or without a signature, nothing is
\* checked.
AnchorChecked(d) == d.anchor.present /\ d.keys # {} /\ d.anchor.signature # <<>>
AnchorProblems(d) ==
  (IF AnchorUnusable(d) THEN {"bad_prune_anchor"} ELSE {})
    \cup IF ~AnchorChecked(d) THEN {}
         ELSE IF d.anchor.key \notin d.keys THEN {"unknown_key"}
         ELSE IF d.anchor.signature # AnchorPreimage(d.anchor) THEN {"bad_signature"}
         ELSE {}

Genuine(c) ==
  /\ c.signature = CheckpointPreimage(c)
  /\ Chained(c) => c.chainSignature = ChainPreimage(c)

\* loadCheckpointsForVerify
SignatureProblems(d) ==
  IF d.keys = {} THEN {}
  ELSE (IF \E i \in DOMAIN d.cks : d.cks[i].key \notin d.keys THEN {"unknown_key"} ELSE {})
         \cup (IF \E i \in DOMAIN d.cks : d.cks[i].key \in d.keys /\ ~Genuine(d.cks[i])
               THEN {"bad_signature"} ELSE {})

\* Mutant: only links between neighbours are checked.
GapNowhereAtStart(cks, i) ==
  /\ i > 1 /\ Chained(cks[i]) /\ Chained(cks[i - 1])
  /\ cks[i].prev # CheckpointHash(cks[i - 1])
\* checkLinkage: the survivors of a deletion commit to a position and to a
\* predecessor.
GapAt(cks, i) ==
  /\ Chained(cks[i])
  /\ IF i = 1 \/ ~Chained(cks[i - 1])
     THEN cks[i].index > i - 1
     ELSE \/ cks[i].index # cks[i - 1].index + 1
          \/ cks[i].prev # CheckpointHash(cks[i - 1])
LinkageProblems(d) == IF \E i \in DOMAIN d.cks : GapAt(d.cks, i) THEN {"checkpoint_gap"} ELSE {}

\* The first checkpoint at that sequence number.
CheckpointsAt(d, seq) == {i \in DOMAIN d.cks : d.cks[i].seq = seq}
CheckpointAt(d, seq) == d.cks[CHOOSE i \in CheckpointsAt(d, seq) : \A j \in CheckpointsAt(d, seq) : i <= j]

\* verifyTimestamps: a token without its checkpoint is a note.
StampProblems(d) ==
  IF \E t \in d.stamps :
       /\ CheckpointsAt(d, t.seq) # {}
       /\ CheckpointAt(d, t.seq).hash # t.hash \/ t.imprint # t.hash
  THEN {"bad_timestamp"} ELSE {}

------------------------------------------------------------------------------
\* The walk over the records

WalkStart(d) ==
  [problems |-> {}, first |-> TRUE, watch |-> "off", seen |-> {},
   prevHash |-> IF Pruned(d) THEN d.anchor.hash ELSE Genesis,
   prevSeq |-> IF Pruned(d) THEN d.anchor.seq ELSE 0]

\* Mutant: a log that starts inside what the anchor covers is a gap.
StartHasGap(d, w, rec) ==
  [w EXCEPT !.problems = @ \cup {"sequence_gap"}, !.prevHash = Unknown, !.prevSeq = rec.seq - 1]
\* The first record is one the anchor says was deleted: a prune that was
\* interrupted, or another log; the record at the anchor will tell.
StartInsidePruned(d, w, rec) ==
  [w EXCEPT !.watch = "armed",
            !.prevHash = IF rec.seq = 1 /\ rec.prev = Genesis THEN Genesis ELSE Unknown,
            !.prevSeq = rec.seq - 1]
\* classifyPrunedStart
PrunedStart(d, w, rec) ==
  CASE rec.seq = d.anchor.seq + 1 /\ rec.prev = d.anchor.hash -> w
    [] rec.seq <= d.anchor.seq -> StartInsidePruned(d, w, rec)
    [] OTHER ->
         [w EXCEPT !.problems = @ \cup {IF rec.seq > d.anchor.seq + 1
                                        THEN "sequence_gap" ELSE "broken_link"},
                   !.prevHash = Unknown, !.prevSeq = rec.seq - 1]
Started(d, w, rec) ==
  IF w.first /\ Pruned(d) THEN PrunedStart(d, [w EXCEPT !.first = FALSE], rec)
  ELSE [w EXCEPT !.first = FALSE]

LinkProblems(w, rec) ==
  (IF Hash(rec) # rec.hash THEN {"hash_mismatch"} ELSE {})
    \cup (IF w.prevHash # Unknown /\ rec.prev # w.prevHash THEN {"broken_link"} ELSE {})
    \cup (IF w.prevSeq # 0 /\ rec.seq # w.prevSeq + 1 THEN {"sequence_gap"} ELSE {})

\* checkpointSet.match
MatchProblems(d, rec) ==
  IF \E i \in CheckpointsAt(d, rec.seq) : d.cks[i].hash # rec.hash
  THEN {"checkpoint_mismatch"} ELSE {}

\* anchorWatch.observe
Observed(d, w, rec) ==
  IF w.watch = "armed" /\ rec.seq = d.anchor.seq
  THEN IF rec.hash = d.anchor.hash THEN "agrees" ELSE "differs"
  ELSE w.watch

Unreadable(rec) == rec.body = "unreadable"
WalkRecord(d, before, rec) ==
  IF Unreadable(rec)
  THEN [before EXCEPT !.problems = @ \cup {"malformed_record"}, !.prevHash = Unknown,
                      !.first = FALSE]
  ELSE LET w == Started(d, before, rec)
       IN  [w EXCEPT !.problems = @ \cup LinkProblems(w, rec) \cup MatchProblems(d, rec),
                     !.watch = Observed(d, w, rec),
                     !.seen = @ \cup CheckpointsAt(d, rec.seq),
                     !.prevHash = rec.hash, !.prevSeq = rec.seq]

\* anchorWatch.finish: the diagnosis stands only when the record at the anchor
\* came by and agreed.
WatchProblems(w) ==
  CASE w.watch = "off" -> {}
    [] w.watch = "agrees" -> {"prune_incomplete"}
    [] OTHER -> {"anchor_mismatch"}

\* checkpointSet.finish
UnseenProblems(d, w) ==
  IF \E i \in DOMAIN d.cks \ w.seen : ~(d.anchor.present /\ d.cks[i].seq <= d.anchor.seq)
  THEN {"checkpoint_mismatch"} ELSE {}

\* walk[k]: what is known after k records.
Walked(d) ==
  LET recs == FlattenSeq(d.segments)
      walk[k \in 0 .. Len(recs)] ==
        IF k = 0 THEN WalkStart(d) ELSE WalkRecord(d, walk[k - 1], recs[k])
  IN  walk[Len(recs)]
WalkProblems(d) ==
  IF d.segments = <<>> THEN {"no_segments"}
  ELSE LET w == Walked(d) IN w.problems \cup WatchProblems(w) \cup UnseenProblems(d, w)

\* Verify
Problems(d) ==
  AnchorProblems(d) \cup SignatureProblems(d) \cup LinkageProblems(d)
    \cup StampProblems(d) \cup WalkProblems(d)

Medium == {"prune_incomplete", "unknown_key", "bad_timestamp", "no_segments"}
Uncheckable == {"unknown_key", "bad_timestamp"}
Intact(problems) == problems \subseteq Uncheckable
=============================================================================
