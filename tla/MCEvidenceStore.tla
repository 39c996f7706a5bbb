-------------------------- MODULE MCEvidenceStore --------------------------
(***************************************************************************)
(* EvidenceStore for TLC.  MaxWrites bounds the behaviours: a record that  *)
(* a power loss took still counts, so a log of MaxWrites records is the    *)
(* longest, and a shorter one has been cut and continued.                  *)
(***************************************************************************)
EXTENDS EvidenceStore

\* What can happen to a machine whose file system keeps the directory entry of
\* an fsynced file, and whose checkpoint lines are written whole.
IOFaults == {"power", "newline", "disk", "fsync", "open", "sign"}

\* A checkpoint line may be cut short as well.
CheckpointFaults == {"power", "checkpoint"}
=============================================================================
