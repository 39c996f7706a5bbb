--------------------------- MODULE ArchiveVerify ---------------------------
(***************************************************************************)
(* archive-verify --deep over the state of ArchiveUpload: which keys the   *)
(* local directory lets it derive, what it reports of each, and what an    *)
(* operator may conclude (archivecheck/verify.go).                         *)
(***************************************************************************)
EXTENDS ArchiveUpload

ToSegments(S) == {<<"segment", i>> : i \in S}
SealedProbes == ToSegments(Sealed)
PrunedProbes == ToSegments(1 .. pruned)
RetiredProbes == {<<"retired", k>> : k \in Retired}

Attested == {cks[i] : i \in 1 .. Len(cks)}
CheckpointProbes == {<<"checkpoints", c.seq>> : c \in Attested}
OpenProbes == {<<"open", c.segment, c.seq>> : c \in {d \in Attested : d.segment \in Here}}

Required == SealedProbes \cup PrunedProbes \cup {<<"public">>}
Probes == Required \cup RetiredProbes \cup CheckpointProbes \cup OpenProbes

\* compareArchived, of an archive a; what is none of our bytes is content 0.
Relation(a, k) ==
  IF a[k] = 0 THEN "differs"
  ELSE CASE a[k] = FileOf(k) -> "identical"
         [] a[k] < FileOf(k) -> "prefix"
         [] OTHER -> "longer"

\* Mutant: any prefix is a complete snapshot.
AnySnapshot(a, k) == TRUE
\* snapshotComplete: the last record of the snapshot reaches its named head.
SnapshotComplete(a, k) ==
  IF k[1] = "checkpoints" THEN cks[a[k]].seq >= k[2] ELSE a[k] >= k[3]

\* checkPublicKey: the key in force or any that was retired.
KeyKnown(a) == a[<<"public">>] \in 1 .. pub

\* check, exists, compare
Status(a, k) ==
  IF k \notin DOMAIN a THEN "missing"
  ELSE CASE k[1] = "segment" /\ k[2] <= pruned -> "present"
         [] k = <<"public">> -> IF KeyKnown(a) THEN "present" ELSE "mismatch"
         [] k[1] \in {"checkpoints", "open"} ->
              IF Relation(a, k) \in {"identical", "prefix"} /\ SnapshotComplete(a, k)
              THEN "present" ELSE "mismatch"
         [] OTHER -> IF Relation(a, k) = "identical" THEN "present" ELSE "mismatch"

Mismatched(a) == {k \in Probes : Status(a, k) = "mismatch"}
Missing(a) == {k \in Required : Status(a, k) = "missing"}

------------------------------------------------------------------------------
\* Properties

\* Every variable holds a value of its kind.
TypeOK ==
  /\ ends \in Seq(0 .. MaxSeq) /\ Newest <= MaxSegs /\ pruned \in 0 .. MaxSegs
  /\ \A c \in Attested : c.seq \in 1 .. MaxSeq /\ c.key \in 1 .. MaxKeys
  /\ stamps \in 0 .. MaxStamps /\ pub \in 1 .. MaxKeys /\ ckSeq \in 0 .. MaxSeq
  /\ pc \in {"down", "up", "rotating", "broken", "stopping timestamps",
             "stopping archive"}
  /\ Len(queue) <= QueueDepth
  /\ job # NoJob => job.phase \in {"exists", "put"} /\ job.attempt \in 1 .. MaxAttempts
  /\ tsq \in 0 .. MaxStamps /\ failures \in 0 .. MaxFailures

\* A run that closed without reporting a failure leaves nothing behind: every
\* required key but of what was pruned is in the archive, the open segment, the
\* checkpoint file and the anchors as far as the directory goes, and so is every
\* retired key and, unless a rotation died between its two halves, the whole of
\* every sealed segment (Close, shutdown).  The object of the public key may still
\* hold a key that was in force before.
ShutdownComplete ==
  clean =>
    /\ Missing(arch) \subseteq PrunedProbes /\ RetiredProbes \subseteq Stored
    /\ "rotate" \notin Faults => \A i \in Sealed : arch[<<"segment", i>>] = ends[i]
    /\ ChainHead > StartOf(Newest) =>
         \E k \in Stored : k = <<"open", Newest, ChainHead>> /\ arch[k] = ChainHead
    /\ Attested # {} => \E k \in Stored : k[1] = "checkpoints" /\ arch[k] = Len(cks)
    /\ stamps > 0 => \E k \in Stored : k[1] = "timestamps" /\ arch[k] = stamps

\* An honest archive is never reported as contradicting the directory, after any
\* rotation of the key, prune or interrupted upload and any crash, but one between
\* the two halves of a rotation (the fault "rotate", see SealedIsFinal).
NoFalseMismatch == Mismatched(arch) = {}

\* An object that no longer serves the purpose its key names is never passed:
\* a sealed segment or key that changed, a snapshot short of its head.
Serves(k, c) ==
  CASE k[1] = "segment" -> k[2] <= pruned \/ c = ends[k[2]]
    [] k[1] = "open" -> c \in k[3] .. ends[k[2]]
    [] k[1] = "checkpoints" -> c <= Len(cks) /\ \E i \in 1 .. c : cks[i].seq = k[2]
    [] k[1] = "public" -> c \in 1 .. pub
    [] k[1] = "retired" -> c = k[2]
DamageReported ==
  \A k \in Probes \cap Stored, c \in 0 .. MaxSeq + 1 :
    ~Serves(k, c) => Status([arch EXCEPT ![k] = c], k) = "mismatch"

\* An upload never removes an object and never replaces one by a shorter one,
\* although a question that got no answer sends it again.
NothingShrinks ==
  [][\A k \in Stored : /\ k \in DOMAIN arch'
                       /\ arch'[k] >= arch[k]]_vars

\* A directory reassembled from the archive verifies (docs/SCHEMA.md): after
\* a run without a failure the archive holds the key of every checkpoint.
ArchivedKeysSuffice ==
  clean => \A c \in Attested : \E k \in Stored : k[1] \in {"public", "retired"} /\ arch[k] = c.key

\* A sealed segment never changes again, the only reason it can be uploaded at
\* all (archiveSealedSegment): what is under its final name is all of it.
SealedIsFinal == \A k \in Stored : k[1] = "segment" => arch[k] = ends[k[2]]

\* The limit on what is held in memory does not concern files (Config in
\* archive/s3.go): an upload of a file that is there, of which no request
\* failed, is not given up before it is sent.
FilesAreSent ==
  [][job # NoJob /\ job' = NoJob /\ FileOf(job.key) # 0 /\ pc' = pc /\ failures' = failures
       => job.key \in sent']_vars
=============================================================================
