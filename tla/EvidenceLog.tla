----------------------------- MODULE EvidenceLog -----------------------------
(***************************************************************************)
(* What the evidence store promises, with no files, segments, buffers or   *)
(* processes: an append-only log in which nothing a signed checkpoint      *)
(* attests to is ever lost, and from whose front records disappear only    *)
(* after a prune anchor accounts for them.  EvidenceStore implements it.   *)
(***************************************************************************)
EXTENDS Naturals, Sequences

CONSTANT Hash  \* the record hashes there are

VARIABLES
  records,    \* the hash of every record ever kept, oldest first
  attested,   \* how many of them a signed checkpoint covers
  accounted,  \* how many of them the prune anchor says were deleted
  deleted     \* how many of them are gone from the front of the log

logVars == <<records, attested, accounted, deleted>>

LogInit ==
  /\ records = <<>>
  /\ attested = 0
  /\ accounted = 0
  /\ deleted = 0

\* A record joins the end; what is already there stays as it was.
LogAppend ==
  /\ \E h \in Hash : records' = Append(records, h)
  /\ UNCHANGED <<attested, accounted, deleted>>

\* A checkpoint covers the whole log as it stands.
LogAttest ==
  /\ attested' = Len(records)
  /\ UNCHANGED <<records, accounted, deleted>>

\* A power loss takes records from the end, but none that is attested to and
\* none that the prune anchor names.
LogLose ==
  /\ \E k \in 0 .. Len(records) :
        /\ attested <= k
        /\ accounted <= k
        /\ records' = SubSeq(records, 1, k)
  /\ UNCHANGED <<attested, accounted, deleted>>

\* The anchor is written first ...
LogAccount ==
  /\ accounted' \in accounted .. Len(records)
  /\ UNCHANGED <<records, attested, deleted>>

\* ... and only what it names is deleted.
LogDelete ==
  /\ deleted' \in deleted .. accounted
  /\ UNCHANGED <<records, attested, accounted>>

LogNext == LogAppend \/ LogAttest \/ LogLose \/ LogAccount \/ LogDelete

LogSpec == LogInit /\ [][LogNext]_logVars
=============================================================================
