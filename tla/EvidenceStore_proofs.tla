------------------------ MODULE EvidenceStore_proofs ------------------------
(***************************************************************************)
(* Proofs about EvidenceStore, for every segment size, every number of     *)
(* writes and every set of faults.                                         *)
(*                                                                         *)
(* The inductive invariant IInv says what a process remembers of the       *)
(* directory it has open (HeadInv), how far fsync has come in it           *)
(* (SyncInv), where the records and segments are (SegmentInv) and what a   *)
(* prune in progress has accounted for (PruneInv).  AttestInv and          *)
(* CheckpointInv add what is needed of the checkpoints, TakenInv what the  *)
(* refinement of EvidenceLog needs of a queued record, SizeInv how full    *)
(* the open segment is.                                                    *)
(***************************************************************************)
EXTENDS EvidenceStore, FiniteSetTheorems, TLAPS

\* A process has the directory open.
Live == pc \notin {"down", "reopen"}

\* A segment is only sealed, and the next one only opened, over a good file.
ControlInv ==
  /\ attesting => pc \in AttestPcs
  /\ pc \in {"attest", "open"} => broken = "no"
  /\ tail = "noeol" => log # <<>>

\* Every record is in a segment that exists or existed; the oldest segment is
\* not past the newest; the writer is in the newest.
SegmentInv ==
  /\ \A i \in DOMAIN log : log[i].seg \in 1 .. segHi
  /\ segLo <= segHi \/ (segHi = 0 /\ segLo = 1)
  /\ Live => segHi # 0
  /\ Live /\ broken # "closed" => segIndex = segHi

\* Records without an fsync are all in the newest segment, and there are none
\* when a checkpoint is about to be signed or the next segment opened.
SyncInv ==
  /\ \A i \in DOMAIN log : i > synced => log[i].seg = segHi
  /\ pc \in AttestPcs \cup {"open"} => synced = Len(log)
  /\ Live /\ ~dirty /\ seq # checkpointSeq => synced = Len(log)

\* The process remembers the head of the chain.
HeadInv ==
  Live => /\ seq = Len(log)
          /\ prevHash = IF log = <<>> THEN GenesisHash ELSE log[Len(log)].hash

\* A prune in progress stays below the newest segment, and the anchor already
\* names a record at or after every record it will delete.  The record the
\* anchor names is durable.
PruneInv ==
  /\ pruneTo # 0 => /\ segLo <= pruneTo
                    /\ pruneTo < segHi
                    /\ \A i \in DOMAIN log : log[i].seg <= pruneTo => i <= anchor.seq
  /\ anchor.seq = 0 => anchor.hash = GenesisHash
  /\ anchor.seq # 0 => /\ anchor.seq <= synced
                       /\ log[anchor.seq].seg <= named

IInv ==
  /\ TypeOK
  /\ ControlInv
  /\ SegmentInv
  /\ SyncInv
  /\ ChainIntact
  /\ HeadInv
  /\ DeletionAccounted
  /\ PruneInv
-----------------------------------------------------------------------------
(* What a step leaves alone *)

\* The steps that touch the segment files.
LEMMA SegmentFrame ==
  ASSUME [Next]_vars
  PROVE  \/ UNCHANGED segmentVars
         \/ Open \/ Reopen \/ Put \/ PutFails \/ Sync \/ Seal \/ OpenNext
         \/ CheckpointTimer \/ AttestDone \/ PowerLoss \/ Repair
         \/ EnforceAnchor \/ EnforceUnlink
BY DEF Next, WriterStep, vars, Take, SyncFails, SealFails, OpenNextFails,
       AttestSkips, AttestWrites, AttestFails, Close, Release, Crash, RemoveLock,
       EnforceStops

-----------------------------------------------------------------------------
(* Types *)

\* The log is a sequence of records, each in a numbered segment.
LEMMA LogType ==
  ASSUME SegmentTypes
  PROVE  /\ Len(log) \in Nat
         /\ DOMAIN log = 1 .. Len(log)
         /\ \A i \in DOMAIN log : i \in Nat /\ log[i] \in Records /\ log[i].seg \in Nat
<1>1. Len(log) \in Nat /\ DOMAIN log = 1 .. Len(log)
  BY DEF SegmentTypes
<1>2. \A i \in DOMAIN log : log[i] \in Records
  BY DEF SegmentTypes
<1>3. \A r \in Records : r.seg \in Nat
  BY DEF Records
<1> QED
  BY <1>1, <1>2, <1>3

\* The size of a segment is a natural number.
LEMMA RecordsInType ==
  ASSUME SegmentTypes, NEW n
  PROVE  RecordsIn(n) \in Nat
<1> DEFINE S == {i \in DOMAIN log : log[i].seg = n}
<1>1. Len(log) \in Nat /\ DOMAIN log = 1 .. Len(log)
  BY DEF SegmentTypes
<1>2. IsFiniteSet(1 .. Len(log))
  BY <1>1, FS_Interval
<1>3. IsFiniteSet(S)
  BY <1>1, <1>2, FS_Subset
<1> QED
  BY <1>3, FS_CardinalityType DEF RecordsIn

\* The recovered head has the types of a sequence number and a hash.
LEMMA RecoveredHeadType ==
  ASSUME SegmentTypes, FileTypes
  PROVE  RecoveredHead.seq \in Nat /\ RecoveredHead.hash \in Nat
<1>1. CASE HoldsRecords
  <2>1. log[Len(log)] \in Records
    BY <1>1 DEF HoldsRecords, SegmentTypes
  <2> QED
    BY <1>1, <2>1 DEF RecoveredHead, Records
<1>2. CASE ~HoldsRecords
  BY <1>2 DEF RecoveredHead, FileTypes
<1> QED
  BY <1>1, <1>2

\* Sync counts records of the log, and never fewer than before.
LEMMA SyncedWithType ==
  ASSUME SegmentTypes, NEW n
  PROVE  SyncedWith(n) \in synced .. Len(log)
BY DEF SegmentTypes, SyncedWith

\* A recovered position in the checkpoint chain has its types.
LEMMA RecoverCheckpointChainType ==
  ASSUME FileTypes, RecoverCheckpointChain
  PROVE  checkpointIndex' \in Nat /\ prevCheckpointHash' \in Nat \X Nat
<1>1. CASE checks = <<>>
  BY <1>1 DEF RecoverCheckpointChain, GenesisCheckpointHash
<1>2. CASE checks # <<>>
  <2>1. checks[Len(checks)] \in Checkpoints
    BY <1>2 DEF FileTypes
  <2> QED
    BY <1>2, <2>1 DEF RecoverCheckpointChain, CheckpointHash, Checkpoints
<1> QED
  BY <1>1, <1>2

\* A checkpoint the store signs is one.
LEMMA NewCheckpointType ==
  ASSUME ProcessTypes
  PROVE  NewCheckpoint \in Checkpoints /\ CheckpointHash(NewCheckpoint) \in Nat \X Nat
BY DEF ProcessTypes, NewCheckpoint, Checkpoints, CheckpointHash

\* Every step keeps the types of the segment files.
LEMMA SegmentTypesStep ==
  ASSUME TypeOK, ControlInv, SegmentInv, [Next]_vars
  PROVE  SegmentTypes'
<1> USE DEF TypeOK
<1>1. CASE UNCHANGED segmentVars
  BY <1>1 DEF SegmentTypes, segmentVars
<1>2. ASSUME OpenDirectory PROVE SegmentTypes'
  BY <1>2 DEF OpenDirectory, OpenNewest, SegmentTypes
<1>3. CASE Put
  <2>1. log' \in Seq(Records) /\ Len(log') = Len(log) + 1
    BY <1>3 DEF Put, SegmentTypes, ProcessTypes, Records
  <2>2. glued' \subseteq DOMAIN log'
    BY <1>3, <2>1 DEF Put, SegmentTypes, ControlInv
  <2> QED
    BY <1>3, <2>1, <2>2 DEF Put, SegmentTypes
<1>4. CASE PutFails
  BY <1>4 DEF PutFails, SegmentTypes
<1>5. CASE Sync \/ Seal \/ CheckpointTimer
  <2>1. synced' \in synced .. Len(log)
    BY <1>5, SyncedWithType DEF Sync, Seal, CheckpointTimer, SegmentTypes
  <2> QED
    BY <1>5, <2>1 DEF Sync, Seal, CheckpointTimer, SegmentTypes
<1>6. CASE OpenNext
  BY <1>6 DEF OpenNext, SegmentTypes, ProcessTypes, ControlInv, SegmentInv, Live
<1>7. CASE AttestDone
  BY <1>7 DEF AttestDone, SegmentTypes
<1>8. CASE PowerLoss
  <2>1. PICK t \in named .. segHi, k \in 0 .. Len(log) :
          /\ log' = SubSeq(log, 1, k)
          /\ tail' \in TailsAfter(t, k)
          /\ glued' = {i \in glued : i < k}
          /\ synced' = k
          /\ segHi' = t
          /\ named' = t
    BY <1>8 DEF PowerLoss
  <2>2. log' \in Seq(Records) /\ Len(log') = k
    BY <2>1 DEF SegmentTypes
  <2>3. glued' \subseteq DOMAIN log'
    BY <2>1, <2>2 DEF SegmentTypes
  <2>4. tail' \in {"clean", "torn", "noeol"}
    BY <2>1 DEF TailsAfter
  <2> QED
    BY <1>8, <2>1, <2>2, <2>3, <2>4 DEF PowerLoss, SegmentTypes
<1>9. CASE Repair
  BY <1>9, SyncedWithType DEF Repair, SegmentTypes
<1>10. CASE EnforceAnchor
  <2>1. named' \in {named, segHi}
    BY <1>10 DEF EnforceAnchor
  <2> QED
    BY <1>10, <2>1 DEF EnforceAnchor, SegmentTypes
<1>11. CASE EnforceUnlink
  BY <1>11 DEF EnforceUnlink, SegmentTypes
<1> QED
  BY <1>1, <1>2, <1>3, <1>4, <1>5, <1>6, <1>7, <1>8, <1>9, <1>10, <1>11, SegmentFrame
  DEF Open, Reopen

\* Every step keeps the types of the other files.
LEMMA FileTypesStep ==
  ASSUME TypeOK, [Next]_vars
  PROVE  FileTypes'
<1> USE DEF TypeOK
<1>1. CASE UNCHANGED <<checkpointVars, anchor, lock>>
  BY <1>1 DEF FileTypes, checkpointVars
<1>2. CASE UNCHANGED <<checkpointVars, anchor>> /\ lock' \in BOOLEAN
  BY <1>2 DEF FileTypes, checkpointVars
<1>3. CASE AttestWrites \/ AttestFails
  <2>1. checks' \in {checks, Append(checks, NewCheckpoint)} /\ checksTorn' \in BOOLEAN
    BY <1>3 DEF AttestWrites, AttestFails, checkpointVars, FileTypes
  <2>2. checks' \in Seq(Checkpoints)
    <3>1. checks \in Seq(Checkpoints) /\ NewCheckpoint \in Checkpoints
      BY NewCheckpointType DEF FileTypes
    <3>2. Append(checks, NewCheckpoint) \in Seq(Checkpoints)
      BY ONLY <3>1
    <3> QED
      BY ONLY <2>1, <3>1, <3>2
  <2> QED
    BY <1>3, <2>1, <2>2 DEF AttestWrites, AttestFails, FileTypes
<1>4. CASE PowerLoss
  BY <1>4 DEF PowerLoss, FileTypes
<1>5. CASE EnforceAnchor
  <2>1. anchor' \in [seq : Nat, hash : Nat]
    <3>1. CASE anchor' = anchor
      BY <3>1 DEF FileTypes
    <3>2. CASE \E n \in DOMAIN log : anchor' = [seq |-> log[n].seq, hash |-> log[n].hash]
      <4>1. PICK n \in DOMAIN log : anchor' = [seq |-> log[n].seq, hash |-> log[n].hash]
        BY <3>2
      <4>2. log[n] \in Records
        BY <4>1 DEF SegmentTypes
      <4> QED
        BY <4>1, <4>2 DEF Records
    <3> QED
      BY <1>5, <3>1, <3>2 DEF EnforceAnchor
  <2> QED
    BY <1>5, <2>1 DEF EnforceAnchor, FileTypes, checkpointVars
<1>6. \/ UNCHANGED <<checkpointVars, anchor, lock>>
      \/ UNCHANGED <<checkpointVars, anchor>> /\ lock' \in BOOLEAN
      \/ AttestWrites \/ AttestFails \/ PowerLoss \/ EnforceAnchor
  BY DEF Next, WriterStep, vars, Open, Reopen, OpenDirectory, Take, Put, PutFails,
         Sync, SyncFails, Seal, SealFails, OpenNext, OpenNextFails, CheckpointTimer,
         AttestSkips, AttestDone, Close, Release, Crash, RemoveLock, Repair,
         EnforceUnlink, EnforceStops
<1> QED
  BY <1>1, <1>2, <1>3, <1>4, <1>5, <1>6

\* What a process that ended remembers has its types.
LEMMA ForgetType ==
  ASSUME TypeOK, Forget, pc' = "down", pruneTo' \in Nat, owed' = owed, stamp' = stamp
  PROVE  ProcessTypes'
BY DEF Forget, GenesisHash, GenesisCheckpointHash, TypeOK, ProcessTypes, AttestPcs

\* Opening the directory keeps the types.
LEMMA OpenDirectoryType ==
  ASSUME TypeOK, OpenDirectory, role' \in {"none", "server", "repair"},
         signer' \in BOOLEAN
  PROVE  ProcessTypes'
<1>1. segIndex' \in Nat /\ segBytes' \in Nat
  BY RecordsInType DEF TypeOK, SegmentTypes, OpenDirectory, OpenNewest
<1>2. seq' \in Nat /\ prevHash' \in Nat /\ checkpointSeq' \in Nat
  BY RecoveredHeadType DEF TypeOK, OpenDirectory
<1>3. checkpointIndex' \in Nat /\ prevCheckpointHash' \in Nat \X Nat
  BY RecoverCheckpointChainType DEF TypeOK, OpenDirectory
<1> QED
  BY <1>1, <1>2, <1>3 DEF TypeOK, ProcessTypes, OpenDirectory, AttestPcs

\* Every step keeps the types of what processes remember.
LEMMA ProcessTypesStep ==
  ASSUME TypeOK, ControlInv, [Next]_vars
  PROVE  ProcessTypes'
<1> USE DEF TypeOK, AttestPcs
<1>1. CASE Open
  BY <1>1, OpenDirectoryType DEF Open
<1>2. CASE Reopen
  BY <1>2, OpenDirectoryType DEF Reopen, ProcessTypes
<1>3. CASE Take \/ Close
  BY <1>3 DEF Take, Close, ProcessTypes, chainVars, attestVars
<1>4. CASE Put
  BY <1>4 DEF Put, ProcessTypes, attestVars
<1>5. CASE PutFails
  BY <1>5 DEF PutFails, ProcessTypes, chainVars, attestVars
<1>6. CASE Sync \/ SyncFails
  BY <1>6 DEF Sync, SyncFails, ProcessTypes, controlVars, chainVars, attestVars
<1>7. CASE Seal \/ SealFails
  BY <1>7 DEF Seal, SealFails, ProcessTypes, chainVars, attestVars
<1>8. CASE OpenNext \/ OpenNextFails
  <2>1. CASE OpenNext
    BY <2>1 DEF OpenNext, ProcessTypes, attestVars
  <2>2. CASE OpenNextFails
    BY <2>2 DEF OpenNextFails, ProcessTypes, attestVars
  <2> QED
    BY <1>8, <2>1, <2>2
<1>9. CASE CheckpointTimer
  BY <1>9 DEF CheckpointTimer, ProcessTypes, attestVars
<1>10. CASE AttestSkips
  BY <1>10 DEF AttestSkips, ProcessTypes, chainVars, attestVars, After
<1>11. CASE AttestWrites
  BY <1>11 DEF AttestWrites, ProcessTypes, chainVars, attestVars
<1>12. CASE AttestDone
  <2>1. pc \in AttestPcs
    BY <1>12 DEF AttestDone, ControlInv
  <2>2. pc' \in {"open", "idle", "release"}
    BY <1>12, <2>1 DEF AttestDone, After
  <2>3. checkpointSeq' \in Nat /\ checkpointIndex' \in Nat /\ prevCheckpointHash' \in Nat \X Nat
    BY <1>12, NewCheckpointType DEF AttestDone, ProcessTypes
  <2> QED
    BY <1>12, <2>2, <2>3 DEF AttestDone, ProcessTypes, chainVars
<1>13. CASE AttestFails
  <2>1. pc' \in {"open", "idle", "release"}
    BY <1>13 DEF AttestFails, After
  <2> QED
    BY <1>13, <2>1 DEF AttestFails, ProcessTypes, chainVars, attestVars
<1>14. CASE Release \/ Crash
  BY <1>14, ForgetType DEF Release, Crash, ProcessTypes
<1>15. CASE PowerLoss
  BY <1>15, ForgetType DEF PowerLoss
<1>16. CASE RemoveLock
  BY <1>16 DEF RemoveLock, ProcessTypes, controlVars, chainVars, attestVars
<1>17. CASE Repair
  BY <1>17 DEF Repair, ProcessTypes, chainVars, attestVars
<1>18. CASE EnforceAnchor
  <2>1. pruneTo' \in Nat
    BY <1>18 DEF EnforceAnchor, Prunable, SegmentTypes
  <2> QED
    BY <1>18, <2>1 DEF EnforceAnchor, ProcessTypes, controlVars, chainVars, attestVars
<1>19. CASE EnforceUnlink \/ EnforceStops
  BY <1>19 DEF EnforceUnlink, EnforceStops, ProcessTypes, controlVars, chainVars, attestVars
<1>20. CASE UNCHANGED vars
  BY <1>20 DEF vars, ProcessTypes, controlVars, chainVars, attestVars
<1> QED
  BY <1>1, <1>2, <1>3, <1>4, <1>5, <1>6, <1>7, <1>8, <1>9, <1>10, <1>11, <1>12,
     <1>13, <1>14, <1>15, <1>16, <1>17, <1>18, <1>19, <1>20
  DEF Next, WriterStep

\* Every step keeps the types.
LEMMA TypeStep ==
  ASSUME TypeOK, ControlInv, SegmentInv, [Next]_vars
  PROVE  TypeOK'
BY SegmentTypesStep, FileTypesStep, ProcessTypesStep DEF TypeOK
-----------------------------------------------------------------------------
(* The two steps that change the log, and the fsync *)

\* Only a write and a power loss change the log.
LEMMA LogFrame ==
  ASSUME [Next]_vars
  PROVE  log' = log \/ Put \/ PowerLoss
BY SegmentFrame DEF segmentVars, Open, Reopen, OpenDirectory, PutFails, Sync, Seal,
       OpenNext, CheckpointTimer, AttestDone, Repair, EnforceAnchor, EnforceUnlink

\* A write adds one record, in the newest segment.
LEMMA PutFacts ==
  ASSUME TypeOK, SegmentInv, Put
  PROVE  /\ Len(log') = Len(log) + 1
         /\ DOMAIN log' = 1 .. Len(log) + 1
         /\ \A i \in DOMAIN log : log'[i] = log[i]
         /\ log'[Len(log) + 1] = [seq |-> seq + 1, hash |-> stamp + 1,
                                 prevHash |-> prevHash, seg |-> segHi]
         /\ segIndex = segHi
         /\ segHi # 0
<1>1. Live /\ broken = "no"
  BY DEF Put, Live
<1>2. segIndex = segHi /\ segHi # 0
  BY <1>1 DEF SegmentInv
<1>3. log' = Append(log, [seq |-> seq + 1, hash |-> stamp + 1,
                         prevHash |-> prevHash, seg |-> segHi])
  BY <1>2 DEF Put
<1> QED
  BY <1>2, <1>3 DEF TypeOK, SegmentTypes

\* A power loss leaves a prefix, of at least the synced records in the files
\* that survive.
LEMMA PowerLossFacts ==
  ASSUME TypeOK, PowerLoss
  PROVE  \E t \in named .. segHi, k \in 0 .. Len(log) :
           /\ "entry" \notin Faults => t = segHi
           /\ segLo <= segHi => segLo <= t
           /\ \A i \in DOMAIN log : i <= k => log[i].seg <= t
           /\ \A i \in DOMAIN log : i <= synced /\ log[i].seg <= t => i <= k
           /\ Len(log') = k
           /\ DOMAIN log' = 1 .. k
           /\ \A i \in 1 .. k : log'[i] = log[i]
           /\ tail' \in TailsAfter(t, k)
           /\ synced' = k
           /\ segHi' = t
           /\ named' = t
<1>1. PICK t \in named .. segHi, k \in 0 .. Len(log) :
        /\ "entry" \notin Faults => t = segHi
        /\ segLo <= segHi => segLo <= t
        /\ \A i \in DOMAIN log :
              /\ i <= k => log[i].seg <= t
              /\ i <= synced /\ log[i].seg <= t => i <= k
        /\ log' = SubSeq(log, 1, k)
        /\ tail' \in TailsAfter(t, k)
        /\ synced' = k
        /\ segHi' = t
        /\ named' = t
  BY DEF PowerLoss
<1>2. Len(log') = k /\ DOMAIN log' = 1 .. k /\ \A i \in 1 .. k : log'[i] = log[i]
  BY <1>1 DEF TypeOK, SegmentTypes
<1> QED
  BY <1>1, <1>2

\* While the file is open, an fsync of it covers the whole log.
LEMMA SyncsAll ==
  ASSUME TypeOK, SegmentInv, SyncInv, Live, broken # "closed"
  PROVE  SyncedWith(segIndex) = Len(log)
BY DEF SegmentInv, SyncInv, SyncedWith, TypeOK, SegmentTypes

\* The fsync of a repair does, too.
LEMMA RepairSyncsAll ==
  ASSUME TypeOK, SyncInv
  PROVE  SyncedWith(segHi) = Len(log)
BY DEF SyncInv, SyncedWith, TypeOK, SegmentTypes

-----------------------------------------------------------------------------
(* Control, segments and fsync *)

LEMMA ControlStep ==
  ASSUME TypeOK, ControlInv, [Next]_vars
  PROVE  ControlInv'
<1> USE DEF ControlInv, AttestPcs
<1>1. CASE Open \/ Reopen
  BY <1>1 DEF Open, Reopen, OpenDirectory
<1>2. CASE Take \/ Close
  BY <1>2 DEF Take, Close, segmentVars
<1>3. CASE Put
  <2>1. log' # <<>>
    BY <1>3 DEF Put, TypeOK, SegmentTypes
  <2> QED
    BY <1>3, <2>1 DEF Put
<1>4. CASE PutFails
  BY <1>4 DEF PutFails
<1>5. CASE Sync \/ SyncFails
  BY <1>5 DEF Sync, SyncFails, controlVars, segmentVars
<1>6. CASE Seal \/ SealFails
  BY <1>6 DEF Seal, SealFails, segmentVars
<1>7. CASE OpenNext \/ OpenNextFails
  BY <1>7 DEF OpenNext, OpenNextFails, segmentVars
<1>8. CASE CheckpointTimer
  BY <1>8 DEF CheckpointTimer
<1>9. CASE AttestSkips
  BY <1>9 DEF AttestSkips, After, segmentVars
<1>10. CASE AttestWrites
  BY <1>10 DEF AttestWrites, segmentVars
<1>11. CASE AttestDone
  BY <1>11 DEF AttestDone, After
<1>12. CASE AttestFails
  BY <1>12 DEF AttestFails, After, segmentVars
<1>13. CASE Release \/ Crash
  BY <1>13 DEF Release, Crash, Forget, segmentVars
<1>14. CASE PowerLoss
  <2>1. pc' = "down" /\ attesting' = FALSE
    BY <1>14 DEF PowerLoss, Forget
  <2>2. tail' = "noeol" => log' # <<>>
    <3>1. PICK t \in named .. segHi, k \in 0 .. Len(log) :
            Len(log') = k /\ tail' \in TailsAfter(t, k)
      BY <1>14, PowerLossFacts
    <3>2. tail' = "noeol" => k # 0
      BY <3>1 DEF TailsAfter, TypeOK, SegmentTypes
    <3> QED
      BY <3>1, <3>2
  <2> QED
    BY <2>1, <2>2
<1>15. CASE RemoveLock \/ EnforceStops
  BY <1>15 DEF RemoveLock, EnforceStops, controlVars, segmentVars
<1>16. CASE Repair
  BY <1>16 DEF Repair
<1>17. CASE EnforceAnchor \/ EnforceUnlink
  BY <1>17 DEF EnforceAnchor, EnforceUnlink, controlVars
<1>18. CASE UNCHANGED vars
  BY <1>18 DEF vars, controlVars, segmentVars
<1> QED
  BY <1>1, <1>2, <1>3, <1>4, <1>5, <1>6, <1>7, <1>8, <1>9, <1>10, <1>11, <1>12,
     <1>13, <1>14, <1>15, <1>16, <1>17, <1>18
  DEF Next, WriterStep

LEMMA SegmentStep ==
  ASSUME TypeOK, ControlInv, SegmentInv, PruneInv, [Next]_vars
  PROVE  SegmentInv'
<1> USE DEF SegmentInv, Live
<1>1. CASE Open \/ Reopen
  BY <1>1 DEF Open, Reopen, OpenDirectory, OpenNewest, TypeOK, SegmentTypes
<1>2. CASE Take \/ Close
  BY <1>2 DEF Take, Close, segmentVars, chainVars
<1>3. CASE Put
  <2>1. \A i \in DOMAIN log' : log'[i].seg \in 1 .. segHi
    BY <1>3, PutFacts DEF TypeOK, SegmentTypes
  <2> QED
    BY <1>3, <2>1 DEF Put
<1>4. CASE PutFails
  BY <1>4 DEF PutFails, chainVars
<1>5. CASE Sync \/ SyncFails
  BY <1>5 DEF Sync, SyncFails, controlVars, segmentVars, chainVars
<1>6. CASE Seal \/ SealFails
  BY <1>6 DEF Seal, SealFails, segmentVars, chainVars
<1>7. CASE OpenNext
  BY <1>7 DEF OpenNext, ControlInv, TypeOK, SegmentTypes
<1>8. CASE OpenNextFails
  BY <1>8 DEF OpenNextFails, segmentVars
<1>9. CASE CheckpointTimer
  BY <1>9 DEF CheckpointTimer
<1>10. CASE AttestSkips \/ AttestFails
  BY <1>10 DEF AttestSkips, AttestFails, AttestPcs, segmentVars, chainVars
<1>11. CASE AttestWrites
  BY <1>11 DEF AttestWrites, segmentVars, chainVars
<1>12. CASE AttestDone
  BY <1>12 DEF AttestDone, ControlInv, AttestPcs, chainVars
<1>13. CASE Release \/ Crash
  BY <1>13 DEF Release, Crash, segmentVars
<1>14. CASE PowerLoss
  <2>1. pc' = "down" /\ segLo' = segLo
    BY <1>14 DEF PowerLoss
  <2>2. PICK t \in named .. segHi, k \in 0 .. Len(log) :
          /\ segLo <= segHi => segLo <= t
          /\ \A i \in DOMAIN log : i <= k => log[i].seg <= t
          /\ DOMAIN log' = 1 .. k
          /\ \A i \in 1 .. k : log'[i] = log[i]
          /\ segHi' = t
    BY <1>14, PowerLossFacts
  <2>3. \A i \in DOMAIN log' : log'[i].seg \in 1 .. segHi'
    BY <2>2 DEF TypeOK, SegmentTypes
  <2>4. segLo <= segHi' \/ (segHi' = 0 /\ segLo = 1)
    BY <2>2 DEF TypeOK, SegmentTypes
  <2> QED
    BY <2>1, <2>3, <2>4
<1>15. CASE RemoveLock \/ EnforceStops
  BY <1>15 DEF RemoveLock, EnforceStops, controlVars, segmentVars, chainVars
<1>16. CASE Repair
  BY <1>16 DEF Repair
<1>17. CASE EnforceAnchor
  BY <1>17 DEF EnforceAnchor, controlVars, chainVars
<1>18. CASE EnforceUnlink
  BY <1>18 DEF EnforceUnlink, PruneInv, controlVars, chainVars, TypeOK, SegmentTypes, ProcessTypes
<1>19. CASE UNCHANGED vars
  BY <1>19 DEF vars, controlVars, segmentVars, chainVars
<1> QED
  BY <1>1, <1>2, <1>3, <1>4, <1>5, <1>6, <1>7, <1>8, <1>9, <1>10, <1>11, <1>12,
     <1>13, <1>14, <1>15, <1>16, <1>17, <1>18, <1>19
  DEF Next, WriterStep
LEMMA SyncStep ==
  ASSUME TypeOK, ControlInv, SegmentInv, SyncInv, [Next]_vars
  PROVE  SyncInv'
<1> USE DEF SyncInv, Live, AttestPcs
<1>1. CASE Open \/ Reopen
  <2>1. seq' = checkpointSeq' /\ pc' = "idle" /\ log' = log /\ synced' = synced
    BY <1>1 DEF Open, Reopen, OpenDirectory
  <2>2. segHi' = segHi \/ log = <<>>
    BY <1>1 DEF Open, Reopen, OpenDirectory, OpenNewest, SegmentInv, TypeOK, SegmentTypes
  <2> QED
    BY <2>1, <2>2 DEF TypeOK, SegmentTypes
<1>2. CASE Take \/ Close
  BY <1>2 DEF Take, Close, segmentVars, chainVars, attestVars
<1>3. CASE Put
  <2>1. pc' = "idle" /\ dirty' = TRUE /\ synced' = synced /\ segHi' = segHi
    BY <1>3 DEF Put
  <2>2. \A i \in DOMAIN log' : i > synced => log'[i].seg = segHi
    BY <1>3, PutFacts DEF TypeOK, SegmentTypes
  <2> QED
    BY <2>1, <2>2
<1>4. CASE PutFails
  BY <1>4 DEF PutFails, chainVars, attestVars
<1>5. CASE Sync
  <2>1. synced' = Len(log)
    BY <1>5, SyncsAll DEF Sync
  <2> QED
    BY <1>5, <2>1 DEF Sync, TypeOK, SegmentTypes
<1>6. CASE SyncFails
  BY <1>6 DEF SyncFails, controlVars, segmentVars, chainVars, attestVars
<1>7. CASE Seal
  <2>1. synced' = Len(log)
    BY <1>7, SyncsAll DEF Seal
  <2> QED
    BY <1>7, <2>1 DEF Seal, TypeOK, SegmentTypes
<1>8. CASE SealFails
  BY <1>8 DEF SealFails, segmentVars, chainVars, attestVars
<1>9. CASE OpenNext
  BY <1>9 DEF OpenNext, attestVars, TypeOK, SegmentTypes
<1>10. CASE OpenNextFails
  BY <1>10 DEF OpenNextFails, segmentVars, attestVars
<1>11. CASE CheckpointTimer
  <2>1. synced' = Len(log)
    BY <1>11, SyncsAll DEF CheckpointTimer, Attestable
  <2> QED
    BY <1>11, <2>1 DEF CheckpointTimer, TypeOK, SegmentTypes
<1>12. CASE AttestSkips \/ AttestFails
  BY <1>12 DEF AttestSkips, AttestFails, segmentVars, chainVars, attestVars
<1>13. CASE AttestWrites
  BY <1>13 DEF AttestWrites, segmentVars, chainVars, attestVars
<1>14. CASE AttestDone
  BY <1>14 DEF AttestDone, ControlInv, After, chainVars
<1>15. CASE Release \/ Crash
  BY <1>15 DEF Release, Crash, segmentVars
<1>16. CASE PowerLoss
  <2>1. pc' = "down"
    BY <1>16 DEF PowerLoss
  <2>2. \A i \in DOMAIN log' : ~(i > synced')
    BY <1>16, PowerLossFacts DEF TypeOK, SegmentTypes
  <2> QED
    BY <2>1, <2>2
<1>17. CASE RemoveLock \/ EnforceStops
  BY <1>17 DEF RemoveLock, EnforceStops, controlVars, segmentVars, chainVars, attestVars
<1>18. CASE Repair
  <2>1. synced' = Len(log)
    BY <1>18, RepairSyncsAll DEF Repair
  <2> QED
    BY <1>18, <2>1 DEF Repair, TypeOK, SegmentTypes
<1>19. CASE EnforceAnchor \/ EnforceUnlink
  BY <1>19 DEF EnforceAnchor, EnforceUnlink, controlVars, chainVars, attestVars
<1>20. CASE UNCHANGED vars
  BY <1>20 DEF vars, controlVars, segmentVars, chainVars, attestVars
<1> QED
  BY <1>1, <1>2, <1>3, <1>4, <1>5, <1>6, <1>7, <1>8, <1>9, <1>10, <1>11, <1>12,
     <1>13, <1>14, <1>15, <1>16, <1>17, <1>18, <1>19, <1>20
  DEF Next, WriterStep

-----------------------------------------------------------------------------
(* The chain and its head *)

\* The hash the next record links to.
HeadHash == IF log = <<>> THEN GenesisHash ELSE log[Len(log)].hash

\* recoverChainHead finds the head of the chain, from the segments or, when
\* retention took them all, from the anchor.
LEMMA RecoveredHeadIsHead ==
  ASSUME TypeOK, ChainIntact, DeletionAccounted, PruneInv
  PROVE  RecoveredHead.seq = Len(log) /\ RecoveredHead.hash = HeadHash
<1>1. CASE log = <<>>
  <2>1. anchor.seq = 0
    BY <1>1 DEF DeletionAccounted
  <2> QED
    BY <1>1, <2>1 DEF RecoveredHead, HoldsRecords, HeadHash, PruneInv
<1>2. CASE log # <<>>
  <2>1. Len(log) \in DOMAIN log /\ Len(log) # 0
    BY <1>2 DEF TypeOK, SegmentTypes
  <2>2. CASE HoldsRecords
    BY <1>2, <2>1, <2>2 DEF RecoveredHead, HeadHash, ChainIntact
  <2>3. CASE ~HoldsRecords
    <3>1. log[Len(log)] \in Records
      BY <2>1 DEF TypeOK, SegmentTypes
    <3>2. log[Len(log)].seg < segLo
      BY <1>2, <2>3, <3>1 DEF HoldsRecords, TypeOK, SegmentTypes, Records
    <3>3. Len(log) <= anchor.seq
      BY <2>1, <3>2 DEF DeletionAccounted
    <3>4. anchor.seq = Len(log)
      BY <2>1, <3>3 DEF DeletionAccounted, TypeOK, SegmentTypes, FileTypes
    <3> QED
      BY <1>2, <2>1, <2>3, <3>4 DEF RecoveredHead, HeadHash, DeletionAccounted
  <2> QED
    BY <2>2, <2>3
<1> QED
  BY <1>1, <1>2

LEMMA HeadStep ==
  ASSUME TypeOK, ControlInv, SegmentInv, ChainIntact, DeletionAccounted, PruneInv,
         HeadInv, [Next]_vars
  PROVE  HeadInv'
<1> USE DEF HeadInv, Live
<1>1. CASE Open \/ Reopen
  BY <1>1, RecoveredHeadIsHead DEF Open, Reopen, OpenDirectory, HeadHash
<1>2. CASE Take \/ Close
  BY <1>2 DEF Take, Close, segmentVars, chainVars
<1>3. CASE Put
  <2>1. seq' = seq + 1 /\ prevHash' = stamp + 1 /\ seq = Len(log)
    BY <1>3 DEF Put
  <2>2. Len(log') = Len(log) + 1 /\ log'[Len(log) + 1].hash = stamp + 1
    BY <1>3, PutFacts
  <2>3. log' # <<>>
    BY <2>2 DEF TypeOK, SegmentTypes
  <2> QED
    BY <2>1, <2>2, <2>3
<1>4. CASE PutFails
  BY <1>4 DEF PutFails, chainVars
<1>5. CASE Sync \/ SyncFails
  BY <1>5 DEF Sync, SyncFails, controlVars, segmentVars, chainVars
<1>6. CASE Seal \/ SealFails
  BY <1>6 DEF Seal, SealFails, segmentVars, chainVars
<1>7. CASE OpenNext \/ OpenNextFails
  BY <1>7 DEF OpenNext, OpenNextFails, segmentVars
<1>8. CASE CheckpointTimer
  BY <1>8 DEF CheckpointTimer
<1>9. CASE AttestSkips \/ AttestFails
  BY <1>9 DEF AttestSkips, AttestFails, AttestPcs, segmentVars, chainVars
<1>10. CASE AttestWrites
  BY <1>10 DEF AttestWrites, segmentVars, chainVars
<1>11. CASE AttestDone
  BY <1>11 DEF AttestDone, chainVars, ControlInv, AttestPcs
<1>12. CASE Release \/ Crash
  BY <1>12 DEF Release, Crash
<1>13. CASE PowerLoss
  BY <1>13 DEF PowerLoss
<1>14. CASE RemoveLock \/ EnforceStops
  BY <1>14 DEF RemoveLock, EnforceStops, controlVars, segmentVars, chainVars
<1>15. CASE Repair
  BY <1>15 DEF Repair
<1>16. CASE EnforceAnchor \/ EnforceUnlink
  BY <1>16 DEF EnforceAnchor, EnforceUnlink, controlVars, chainVars
<1>17. CASE UNCHANGED vars
  BY <1>17 DEF vars, controlVars, segmentVars, chainVars
<1> QED
  BY <1>1, <1>2, <1>3, <1>4, <1>5, <1>6, <1>7, <1>8, <1>9, <1>10, <1>11, <1>12,
     <1>13, <1>14, <1>15, <1>16, <1>17
  DEF Next, WriterStep

LEMMA ChainStep ==
  ASSUME TypeOK, SegmentInv, ChainIntact, HeadInv, [Next]_vars
  PROVE  ChainIntact'
<1>1. CASE log' = log
  BY <1>1 DEF ChainIntact
<1>2. CASE Put
  <2> DEFINE n == Len(log)
  <2>1. n \in Nat /\ DOMAIN log = 1 .. n
    BY DEF TypeOK, SegmentTypes
  <2>2. seq = n /\ prevHash = HeadHash
    BY <1>2 DEF Put, HeadInv, HeadHash, Live
  <2>3. /\ DOMAIN log' = 1 .. n + 1
        /\ \A i \in DOMAIN log : log'[i] = log[i]
        /\ log'[n + 1].seq = n + 1
        /\ log'[n + 1].prevHash = HeadHash
    BY <1>2, <2>2, PutFacts
  <2>4. HeadHash = IF n + 1 = 1 THEN GenesisHash ELSE log'[n].hash
    BY <2>1, <2>3 DEF HeadHash, TypeOK, SegmentTypes
  <2> SUFFICES ASSUME NEW i \in DOMAIN log'
               PROVE  /\ log'[i].seq = i
                      /\ log'[i].prevHash = IF i = 1 THEN GenesisHash ELSE log'[i - 1].hash
    BY DEF ChainIntact
  <2>5. CASE i = n + 1
    BY <2>1, <2>3, <2>4, <2>5
  <2>6. CASE i \in DOMAIN log
    <3>1. i # 1 => i - 1 \in DOMAIN log
      BY <2>1, <2>6
    <3> QED
      BY <2>3, <2>6, <3>1 DEF ChainIntact
  <2> QED
    BY <2>1, <2>3, <2>5, <2>6
<1>3. CASE PowerLoss
  <2>1. PICK k \in 0 .. Len(log) :
          DOMAIN log' = 1 .. k /\ \A i \in 1 .. k : log'[i] = log[i]
    BY <1>3, PowerLossFacts
  <2>2. \A i \in 1 .. k : i \in DOMAIN log /\ (i # 1 => i - 1 \in 1 .. k)
    BY <2>1 DEF TypeOK, SegmentTypes
  <2> QED
    BY <2>1, <2>2 DEF ChainIntact
<1> QED
  BY <1>1, <1>2, <1>3, LogFrame
-----------------------------------------------------------------------------
(* Pruning *)

\* The anchor a prune writes names the last record it will delete, by its true
\* hash, at or after the one the anchor named before; that record is durable.
LEMMA EnforceAnchorFacts ==
  ASSUME TypeOK, SegmentInv, SyncInv, ChainIntact, DeletionAccounted, PruneInv,
         EnforceAnchor
  PROVE  /\ pruneTo' \in segLo .. segHi - 1
         /\ anchor.seq <= anchor'.seq
         /\ \A i \in DOMAIN log : log[i].seg <= pruneTo' => i <= anchor'.seq
         /\ \/ anchor' = anchor /\ named' = named
            \/ /\ anchor'.seq \in DOMAIN log
               /\ anchor'.hash = log[anchor'.seq].hash
               /\ anchor'.seq <= synced
               /\ log[anchor'.seq].seg <= segHi
               /\ named' = segHi
<1>1. PICK t \in Prunable :
        /\ pruneTo' = t
        /\ \/ /\ \A i \in DOMAIN log : log[i].seg \notin segLo .. t
              /\ UNCHANGED <<anchor, named>>
           \/ \E n \in DOMAIN log :
                /\ AnchorAt(n, t)
                /\ log[n].seq >= anchor.seq
                /\ anchor' = [seq |-> log[n].seq, hash |-> log[n].hash]
                /\ named' = segHi
  BY DEF EnforceAnchor
<1>2. t \in segLo .. segHi - 1 /\ segLo \in Nat /\ segHi \in Nat /\ t \in Nat
  BY DEF Prunable, TypeOK, SegmentTypes
<1>3. DOMAIN log = 1 .. Len(log) /\ Len(log) \in Nat
      /\ \A i \in DOMAIN log : log[i].seg \in Nat
  BY LogType DEF TypeOK
<1>4. CASE /\ \A i \in DOMAIN log : log[i].seg \notin segLo .. t
           /\ UNCHANGED <<anchor, named>>
  <2>1. \A i \in DOMAIN log : log[i].seg <= t => i <= anchor.seq
    BY <1>2, <1>3, <1>4 DEF DeletionAccounted
  <2>2. anchor.seq \in Nat
    BY DEF TypeOK, FileTypes
  <2> QED
    BY <1>1, <1>2, <1>4, <2>1, <2>2
<1>5. CASE \E n \in DOMAIN log :
             /\ AnchorAt(n, t)
             /\ log[n].seq >= anchor.seq
             /\ anchor' = [seq |-> log[n].seq, hash |-> log[n].hash]
             /\ named' = segHi
  <2>1. PICK n \in DOMAIN log :
          /\ AnchorAt(n, t)
          /\ log[n].seq >= anchor.seq
          /\ anchor' = [seq |-> log[n].seq, hash |-> log[n].hash]
          /\ named' = segHi
    BY <1>5
  <2>2. log[n].seq = n
    BY <2>1 DEF ChainIntact
  <2>3. log[n].seg <= t /\ \A i \in DOMAIN log : log[i].seg <= t => i <= n
    BY <1>2, <2>1 DEF AnchorAt
  <2>4. log[n].seg # segHi /\ log[n].seg <= segHi
    BY <1>2, <1>3, <2>1, <2>3
  <2>5. n <= synced
    <3>1. ~(n > synced)
      BY <2>1, <2>4 DEF SyncInv
    <3>2. n \in Nat /\ synced \in Nat
      BY <1>3, <2>1 DEF TypeOK, SegmentTypes
    <3> QED
      BY <3>1, <3>2
  <2>6. anchor.seq <= n
    BY <1>3, <2>1, <2>2 DEF TypeOK, FileTypes
  <2> QED
    BY <1>1, <1>2, <2>1, <2>2, <2>3, <2>4, <2>5, <2>6
<1> QED
  BY <1>1, <1>4, <1>5

LEMMA DeletionStep ==
  ASSUME TypeOK, SegmentInv, SyncInv, ChainIntact, DeletionAccounted, PruneInv,
         [Next]_vars
  PROVE  DeletionAccounted'
<1> USE DEF DeletionAccounted
<1>1. DOMAIN log = 1 .. Len(log) /\ Len(log) \in Nat /\ segLo \in Nat /\ segHi \in Nat
      /\ anchor.seq \in Nat /\ \A i \in DOMAIN log : log[i].seg \in Nat
  BY LogType DEF TypeOK, SegmentTypes, FileTypes
<1>2. CASE UNCHANGED <<log, segLo, anchor>>
  BY <1>2
<1>3. CASE Put
  <2>1. segLo' = segLo /\ anchor' = anchor
    BY <1>3 DEF Put
  <2>2. ~(log'[Len(log) + 1].seg < segLo)
    BY <1>1, <1>3, PutFacts DEF SegmentInv
  <2> QED
    BY <1>1, <1>3, <2>1, <2>2, PutFacts
<1>4. CASE PowerLoss
  <2>1. segLo' = segLo /\ anchor' = anchor
    BY <1>4 DEF PowerLoss
  <2>2. PICK t \in named .. segHi, k \in 0 .. Len(log) :
          /\ \A i \in DOMAIN log : i <= synced /\ log[i].seg <= t => i <= k
          /\ DOMAIN log' = 1 .. k
          /\ \A i \in 1 .. k : log'[i] = log[i]
    BY <1>4, PowerLossFacts
  <2>3. anchor.seq # 0 => anchor.seq \in 1 .. k
    BY <1>1, <2>2 DEF PruneInv, TypeOK, SegmentTypes
  <2> QED
    BY <1>1, <2>1, <2>2, <2>3
<1>5. CASE EnforceAnchor
  <2>1. log' = log /\ segLo' = segLo
    BY <1>5 DEF EnforceAnchor
  <2>2. \A i \in DOMAIN log : log[i].seg < segLo => i <= anchor'.seq
    <3>1. pruneTo' >= segLo /\ pruneTo' \in Nat
      BY <1>1, <1>5, EnforceAnchorFacts
    <3> QED
      BY <1>1, <1>5, <3>1, EnforceAnchorFacts
  <2>3. anchor'.seq # 0 => /\ anchor'.seq \in DOMAIN log
                           /\ anchor'.hash = log[anchor'.seq].hash
    BY <1>5, EnforceAnchorFacts
  <2> QED
    BY <2>1, <2>2, <2>3
<1>6. CASE EnforceUnlink
  <2>1. log' = log /\ anchor' = anchor /\ segLo' = segLo + 1
        /\ segLo <= pruneTo /\ pruneTo \in Nat
        /\ \A i \in DOMAIN log : log[i].seg <= pruneTo => i <= anchor.seq
    BY <1>6 DEF EnforceUnlink, PruneInv, TypeOK, ProcessTypes
  <2> QED
    BY <1>1, <2>1
<1> QED
  BY <1>2, <1>3, <1>4, <1>5, <1>6
  DEF Next, WriterStep, vars, segmentVars, Open, Reopen, OpenDirectory, Take, PutFails,
      Sync, SyncFails, Seal, SealFails, OpenNext, OpenNextFails, CheckpointTimer,
      AttestSkips, AttestWrites, AttestDone, AttestFails, Close, Release, Crash,
      RemoveLock, Repair, EnforceStops

LEMMA PruneStep ==
  ASSUME TypeOK, ControlInv, SegmentInv, SyncInv, ChainIntact, DeletionAccounted,
         PruneInv, [Next]_vars
  PROVE  PruneInv'
<1>1. DOMAIN log = 1 .. Len(log) /\ Len(log) \in Nat /\ segLo \in Nat /\ segHi \in Nat
      /\ anchor.seq \in Nat /\ pruneTo \in Nat /\ synced \in 0 .. Len(log)
      /\ named \in 0 .. segHi /\ \A i \in DOMAIN log : log[i].seg \in Nat
  BY LogType DEF TypeOK, SegmentTypes, FileTypes, ProcessTypes
<1>2. ASSUME UNCHANGED <<log, segLo, anchor, pruneTo>>,
             segHi' \in Nat, segHi <= segHi', synced' \in Nat, synced <= synced',
             named' \in {named, segHi, segHi'}
      PROVE  PruneInv'
  <2>1. anchor.seq # 0 => log[anchor.seq].seg <= named'
    BY <1>1, <1>2 DEF PruneInv, DeletionAccounted
  <2> QED
    BY <1>1, <1>2, <2>1 DEF PruneInv
<1>3. CASE Open \/ Reopen
  <2>1. segHi' \in Nat /\ segHi <= segHi' /\ named' = segHi'
    BY <1>1, <1>3 DEF Open, Reopen, OpenDirectory, OpenNewest, SegmentInv
  <2> QED
    BY <1>1, <1>2, <1>3, <2>1 DEF Open, Reopen, OpenDirectory
<1>4. CASE Put
  <2>1. UNCHANGED <<segLo, segHi, anchor, pruneTo, synced, named>>
    BY <1>4 DEF Put
  <2>2. pruneTo # 0 => \A i \in DOMAIN log' : log'[i].seg <= pruneTo => i <= anchor.seq
    BY <1>1, <1>4, PutFacts DEF PruneInv
  <2>3. anchor.seq # 0 => log'[anchor.seq].seg <= named
    BY <1>4, PutFacts DEF PruneInv, DeletionAccounted
  <2> QED
    BY <2>1, <2>2, <2>3 DEF PruneInv
<1>5. CASE OpenNext
  <2>1. segHi <= segHi' /\ segHi' \in Nat
    BY <1>1, <1>5 DEF OpenNext, ControlInv, SegmentInv, Live
  <2> QED
    BY <1>1, <1>2, <1>5, <2>1 DEF OpenNext
<1>6. CASE Sync \/ Seal \/ CheckpointTimer
  <2>1. synced' \in synced .. Len(log)
    BY <1>1, <1>6, SyncedWithType DEF Sync, Seal, CheckpointTimer, TypeOK
  <2> QED
    BY <1>1, <1>2, <1>6, <2>1 DEF Sync, Seal, CheckpointTimer
<1>7. CASE AttestDone
  BY <1>1, <1>2, <1>7 DEF AttestDone
<1>8. CASE PowerLoss
  <2>1. segLo' = segLo /\ anchor' = anchor /\ pruneTo' = 0
    BY <1>8 DEF PowerLoss
  <2>2. PICK t \in named .. segHi, k \in 0 .. Len(log) :
          /\ \A i \in DOMAIN log : i <= synced /\ log[i].seg <= t => i <= k
          /\ \A i \in 1 .. k : log'[i] = log[i]
          /\ synced' = k
          /\ named' = t
    BY <1>8, PowerLossFacts
  <2>3. anchor.seq # 0 => anchor.seq \in 1 .. k /\ log[anchor.seq].seg <= t
    BY <1>1, <2>2 DEF PruneInv, DeletionAccounted
  <2> QED
    BY <1>1, <2>1, <2>2, <2>3 DEF PruneInv
<1>9. CASE Repair
  <2>1. synced' \in synced .. Len(log)
    BY <1>9, SyncedWithType DEF Repair, TypeOK
  <2> QED
    BY <1>1, <1>2, <1>9, <2>1 DEF Repair
<1>10. CASE EnforceAnchor
  <2>1. UNCHANGED <<log, segLo, segHi, synced>>
    BY <1>10 DEF EnforceAnchor
  <2>2. /\ segLo <= pruneTo'
        /\ pruneTo' < segHi
        /\ \A i \in DOMAIN log : log[i].seg <= pruneTo' => i <= anchor'.seq
    BY <1>1, <1>10, EnforceAnchorFacts
  <2>3. /\ anchor'.seq = 0 => anchor'.hash = GenesisHash
        /\ anchor'.seq # 0 => /\ anchor'.seq <= synced
                              /\ log[anchor'.seq].seg <= named'
    BY <1>1, <1>10, EnforceAnchorFacts DEF PruneInv
  <2> QED
    BY <2>1, <2>2, <2>3 DEF PruneInv
<1>11. CASE EnforceUnlink
  <2>1. UNCHANGED <<log, segHi, anchor, synced, named>> /\ segLo' = segLo + 1
        /\ pruneTo' = IF segLo = pruneTo THEN 0 ELSE pruneTo
    BY <1>11 DEF EnforceUnlink
  <2> QED
    BY <1>1, <2>1 DEF PruneInv
<1>12. CASE EnforceStops
  BY <1>12 DEF EnforceStops, PruneInv, segmentVars
<1>13. CASE UNCHANGED <<log, segLo, anchor, pruneTo, segHi, synced, named>>
  BY <1>1, <1>2, <1>13
<1> QED
  BY <1>3, <1>4, <1>5, <1>6, <1>7, <1>8, <1>9, <1>10, <1>11, <1>12, <1>13
  DEF Next, WriterStep, vars, segmentVars, Take, PutFails, SyncFails, SealFails,
      OpenNextFails, AttestSkips, AttestWrites, AttestFails, Close, Release, Crash,
      RemoveLock

-----------------------------------------------------------------------------
(* Theorems *)

\* The inductive invariant holds in the empty directory.
LEMMA InvInit == Init => IInv
<1> SUFFICES ASSUME Init PROVE IInv
  OBVIOUS
<1>1. TypeOK
  <2>1. SegmentTypes
    BY DEF Init, SegmentTypes
  <2>2. FileTypes
    <3>1. NoAnchor \in [seq : Nat, hash : Nat]
      BY DEF NoAnchor, GenesisHash
    <3>2. checks \in Seq(Checkpoints)
      BY DEF Init
    <3> QED
      BY <3>1, <3>2 DEF Init, FileTypes
  <2>3. ProcessTypes
    BY DEF Init, ProcessTypes, GenesisHash, GenesisCheckpointHash
  <2> QED
    BY <2>1, <2>2, <2>3 DEF TypeOK
<1>2. DOMAIN log = {}
  BY DEF Init
<1> QED
  BY <1>1, <1>2 DEF Init, IInv, ControlInv, SegmentInv, SyncInv, ChainIntact, HeadInv,
     DeletionAccounted, PruneInv, Live, AttestPcs, NoAnchor, GenesisHash

\* Every step keeps it.
LEMMA InvStep == IInv /\ [Next]_vars => IInv'
BY TypeStep, ControlStep, SegmentStep, SyncStep, ChainStep, HeadStep, DeletionStep,
   PruneStep
DEF IInv

THEOREM Invariance == Spec => []IInv
BY InvInit, InvStep, PTL DEF Spec

\* The types are kept, with what they say of fsync and of directory entries:
\* nothing is synced that is not in the log.
THEOREM TypeCorrectness == Spec => []TypeOK
BY Invariance, PTL DEF IInv

\* Whatever is killed, lost, repaired or pruned, the records form one chain
\* without a gap or a fork (write, recoverChainHead).
THEOREM ChainIsIntact == Spec => []ChainIntact
BY Invariance, PTL DEF IInv

\* Every deleted record is accounted for by the prune anchor, in the middle of
\* a prune too (Enforce, buildAnchor).
THEOREM DeletionsAreAccounted == Spec => []DeletionAccounted
BY Invariance, PTL DEF IInv

\* Retention deletes only records that an fsync has covered, and never the
\* newest segment (classify).
THEOREM WriterSegmentIsKept == Spec => []WriterSegmentKept
<1>1. IInv => WriterSegmentKept
  <2> SUFFICES ASSUME IInv PROVE WriterSegmentKept
    OBVIOUS
  <2>1. \A i \in DOMAIN log : i \in Nat /\ log[i].seg \in Nat
    BY LogType DEF IInv, TypeOK
  <2>2. anchor.seq \in Nat /\ synced \in Nat /\ segLo \in Nat /\ segHi \in Nat
    BY DEF IInv, TypeOK, SegmentTypes, FileTypes
  <2>3. \A i \in DOMAIN log : log[i].seg < segLo => i <= synced
    <3> SUFFICES ASSUME NEW i \in DOMAIN log, log[i].seg < segLo PROVE i <= synced
      OBVIOUS
    <3>1. i \in Nat /\ i # 0
      BY DEF IInv, TypeOK, SegmentTypes
    <3>2. i <= anchor.seq
      BY DEF IInv, DeletionAccounted
    <3>3. anchor.seq # 0 /\ anchor.seq <= synced
      BY <2>2, <3>1, <3>2 DEF IInv, PruneInv
    <3> QED
      BY <2>2, <3>1, <3>2, <3>3
  <2>4. segHi > 0 => segLo <= segHi
    BY <2>2 DEF IInv, SegmentInv
  <2> QED
    BY <2>3, <2>4 DEF WriterSegmentKept
<1> QED
  BY <1>1, Invariance, PTL
-----------------------------------------------------------------------------
(* Checkpoints *)

\* A checkpoint is about a record of the log that an fsync has covered.
AttestInv ==
  \A c \in DOMAIN checks :
    /\ checks[c].seq \in 1 .. synced
    /\ log[checks[c].seq].hash = checks[c].recordHash

\* What the store signs is the head, and it is synced by then.
LEMMA NewCheckpointFacts ==
  ASSUME IInv, pc \in AttestPcs, Attestable
  PROVE  /\ NewCheckpoint.seq \in 1 .. synced
         /\ log[NewCheckpoint.seq].hash = NewCheckpoint.recordHash
<1>1. Live
  BY DEF Live, AttestPcs
<1>2. seq = Len(log) /\ synced = Len(log) /\ seq # 0
  BY <1>1 DEF IInv, HeadInv, SyncInv, Attestable
<1>3. log # <<>> /\ seq \in Nat
  BY <1>2, LogType DEF IInv, TypeOK
<1>4. prevHash = log[Len(log)].hash
  BY <1>1, <1>3 DEF IInv, HeadInv
<1>5. NewCheckpoint.seq = seq /\ NewCheckpoint.recordHash = prevHash
  BY DEF NewCheckpoint
<1> QED
  BY <1>2, <1>3, <1>4, <1>5

\* On a file system that keeps the directory entry of an fsynced file, every
\* step keeps it: a power loss takes only what no fsync has covered.
LEMMA AttestStep ==
  ASSUME IInv, AttestInv, [Next]_vars, "entry" \notin Faults
  PROVE  AttestInv'
<1> USE DEF AttestInv
<1>1. /\ Len(log) \in Nat /\ DOMAIN log = 1 .. Len(log) /\ synced \in 0 .. Len(log)
      /\ segHi \in Nat
  BY LogType DEF IInv, TypeOK, SegmentTypes
<1>2. CASE UNCHANGED <<log, synced, checks>>
  BY <1>2
<1>3. CASE UNCHANGED <<log, checks>> /\ synced' \in synced .. Len(log)
  BY <1>1, <1>3
<1>4. CASE Put
  <2>1. UNCHANGED <<checks, synced>>
    BY <1>4 DEF Put, checkpointVars
  <2>2. \A i \in DOMAIN log : log'[i] = log[i]
    BY <1>4, PutFacts DEF IInv
  <2> QED
    BY <1>1, <2>1, <2>2
<1>5. CASE PowerLoss
  <2>1. checks' = checks
    BY <1>5 DEF PowerLoss
  <2>2. PICK t \in named .. segHi, k \in 0 .. Len(log) :
          /\ "entry" \notin Faults => t = segHi
          /\ \A i \in DOMAIN log : i <= synced /\ log[i].seg <= t => i <= k
          /\ \A i \in 1 .. k : log'[i] = log[i]
          /\ synced' = k
    BY <1>5, PowerLossFacts DEF IInv
  <2>3. \A i \in 1 .. synced : i \in 1 .. k
    BY <1>1, <2>2 DEF IInv, SegmentInv
  <2> QED
    BY <2>1, <2>2, <2>3
<1>6. CASE AttestWrites \/ AttestFails
  <2>1. UNCHANGED <<log, synced>> /\ checks' \in {checks, Append(checks, NewCheckpoint)}
    BY <1>6 DEF AttestWrites, AttestFails, segmentVars, checkpointVars
  <2>2. CASE checks' = checks
    BY <2>1, <2>2
  <2>3. CASE checks' = Append(checks, NewCheckpoint)
    <3>1. pc \in AttestPcs /\ Attestable
      BY <1>6 DEF AttestWrites, AttestFails
    <3>2. \A c \in DOMAIN checks' : checks'[c] = NewCheckpoint
            \/ (c \in DOMAIN checks /\ checks'[c] = checks[c])
      BY <2>3 DEF IInv, TypeOK, FileTypes
    <3> QED
      BY <2>1, <3>1, <3>2, NewCheckpointFacts
  <2> QED
    BY <2>1, <2>2, <2>3
<1>7. \/ UNCHANGED <<log, synced, checks>>
      \/ UNCHANGED <<log, checks>> /\ synced' \in synced .. Len(log)
      \/ Put \/ PowerLoss \/ AttestWrites \/ AttestFails
  <2>1. CASE Sync \/ Seal \/ Repair \/ CheckpointTimer
    <3>1. synced' \in synced .. Len(log)
      BY <1>1, <2>1, SyncedWithType DEF IInv, TypeOK, Sync, Seal, Repair, CheckpointTimer
    <3> QED
      BY <2>1, <3>1 DEF Sync, Seal, Repair, CheckpointTimer, checkpointVars
  <2> QED
    BY <2>1 DEF Next, WriterStep, vars, segmentVars, checkpointVars, Open, Reopen,
       OpenDirectory, Take, PutFails, SyncFails, SealFails, OpenNext, OpenNextFails,
       AttestSkips, AttestDone, Close, Release, Crash, RemoveLock, EnforceAnchor,
       EnforceUnlink, EnforceStops
<1> QED
  BY <1>2, <1>3, <1>4, <1>5, <1>6, <1>7

LEMMA AttestInvariance ==
  ASSUME "entry" \notin Faults
  PROVE  Spec => []AttestInv
<1>1. Init => AttestInv
  BY DEF Init, AttestInv
<1>2. IInv /\ AttestInv /\ [Next]_vars => AttestInv'
  BY AttestStep
<1> QED
  BY <1>1, <1>2, Invariance, PTL DEF Spec

\* No crash, power loss or repair takes a record a checkpoint is about, or puts
\* another in its place (appendCheckpoint, refuseIfAttested).
THEOREM AttestedIsNeverLost ==
  ASSUME "entry" \notin Faults
  PROVE  Spec => []AttestedNeverLost
<1>1. TypeOK /\ AttestInv => AttestedNeverLost
  BY LogType DEF TypeOK, SegmentTypes, AttestInv, AttestedNeverLost
<1> QED
  BY <1>1, AttestInvariance, TypeCorrectness, PTL

\* The records are fsynced before the checkpoint about them is written, by the
\* timer, a rotation and a shutdown alike (checkpoint, closeSegment).
THEOREM AttestedIsAlwaysSynced ==
  ASSUME "entry" \notin Faults
  PROVE  Spec => []AttestedIsSynced
<1>1. TypeOK /\ AttestInv => AttestedIsSynced
  BY DEF TypeOK, SegmentTypes, AttestInv, AttestedIsSynced
<1> QED
  BY <1>1, AttestInvariance, TypeCorrectness, PTL
\* What the next checkpoint links to.
LastCheckpointHash ==
  IF checks = <<>> THEN GenesisCheckpointHash ELSE CheckpointHash(checks[Len(checks)])

\* The process remembers the end of the checkpoint chain, or, while
\* AppendCheckpoint is running, the place of the line it has just written.
CheckpointInv ==
  /\ Live /\ ~attesting => /\ checkpointIndex = Len(checks)
                           /\ prevCheckpointHash = LastCheckpointHash
  /\ attesting => /\ checks # <<>>
                  /\ checks[Len(checks)] = NewCheckpoint
                  /\ checkpointIndex + 1 = Len(checks)

\* A checkpoint put at the end of the chain continues it.
LEMMA ChainContinues ==
  ASSUME TypeOK, CheckpointChainIntact, checkpointIndex = Len(checks),
         prevCheckpointHash = LastCheckpointHash,
         checks' = Append(checks, NewCheckpoint)
  PROVE  /\ CheckpointChainIntact'
         /\ checks' # <<>>
         /\ checks'[Len(checks')] = NewCheckpoint
         /\ Len(checks') = checkpointIndex + 1
<1> DEFINE n == Len(checks)
<1>1. n \in Nat /\ DOMAIN checks = 1 .. n /\ (checks = <<>> <=> n = 0)
  BY DEF TypeOK, FileTypes
<1>2. /\ DOMAIN checks' = 1 .. n + 1 /\ Len(checks') = n + 1
      /\ \A c \in 1 .. n : checks'[c] = checks[c]
      /\ checks'[n + 1] = NewCheckpoint
  BY DEF TypeOK, FileTypes
<1>3. NewCheckpoint.index = n /\ NewCheckpoint.prev = LastCheckpointHash
  BY DEF NewCheckpoint
<1>4. CheckpointChainIntact'
  <2> SUFFICES ASSUME NEW c \in DOMAIN checks'
               PROVE  /\ checks'[c].index = c - 1
                      /\ checks'[c].prev = IF c = 1 THEN GenesisCheckpointHash
                                           ELSE CheckpointHash(checks'[c - 1])
    BY DEF CheckpointChainIntact, CheckpointHash
  <2>1. CASE c = n + 1
    <3>1. LastCheckpointHash = IF c = 1 THEN GenesisCheckpointHash
                               ELSE CheckpointHash(checks'[c - 1])
      BY <1>1, <1>2, <2>1 DEF LastCheckpointHash
    <3> QED
      BY <1>1, <1>2, <1>3, <2>1, <3>1
  <2>2. CASE c \in 1 .. n
    <3>1. c # 1 => checks'[c - 1] = checks[c - 1]
      BY <1>1, <1>2, <2>2
    <3> QED
      BY <1>1, <1>2, <2>2, <3>1 DEF CheckpointChainIntact
  <2> QED
    BY <1>1, <1>2, <2>1, <2>2
<1> QED
  BY <1>1, <1>2, <1>4

\* Every step that writes no half checkpoint keeps the chain and the memory of it.
LEMMA CheckpointStep ==
  ASSUME TypeOK, ControlInv, CheckpointChainIntact, CheckpointInv, [Next]_vars,
         "checkpoint" \notin Faults
  PROVE  CheckpointChainIntact' /\ CheckpointInv'
<1> USE DEF CheckpointInv, Live
<1>1. ASSUME checks' = checks
      PROVE  /\ CheckpointChainIntact'
             /\ LastCheckpointHash' = LastCheckpointHash
  BY <1>1 DEF CheckpointChainIntact, LastCheckpointHash, CheckpointHash
<1>2. CASE Open \/ Reopen
  <2>1. checks' = checks /\ ~attesting' /\ RecoverCheckpointChain
    BY <1>2 DEF Open, Reopen, OpenDirectory, checkpointVars
  <2>2. checkpointIndex' = Len(checks) /\ prevCheckpointHash' = LastCheckpointHash
    <3>1. CASE checks = <<>>
      BY <2>1, <3>1 DEF RecoverCheckpointChain, LastCheckpointHash
    <3>2. CASE checks # <<>>
      <4>1. Len(checks) \in DOMAIN checks /\ Len(checks) \in Nat
        BY <3>2 DEF TypeOK, FileTypes
      <4>2. checks[Len(checks)].index = Len(checks) - 1
        BY <4>1 DEF CheckpointChainIntact
      <4> QED
        BY <2>1, <3>2, <4>1, <4>2 DEF RecoverCheckpointChain, LastCheckpointHash
    <3> QED
      BY <3>1, <3>2
  <2> QED
    BY <1>1, <2>1, <2>2
<1>3. CASE AttestWrites
  <2>1. /\ checkpointIndex = Len(checks) /\ prevCheckpointHash = LastCheckpointHash
        /\ checks' = Append(checks, NewCheckpoint)
        /\ attesting' = TRUE
        /\ UNCHANGED <<checkpointIndex, seq, prevHash, prevCheckpointHash>>
    BY <1>3 DEF AttestWrites, AttestPcs, chainVars, attestVars
  <2>2. NewCheckpoint' = NewCheckpoint
    BY <2>1 DEF NewCheckpoint
  <2> QED
    BY <2>1, <2>2, ChainContinues
<1>4. CASE AttestDone
  <2>1. checks' = checks /\ ~attesting' /\ attesting
        /\ checkpointIndex' = checkpointIndex + 1
        /\ prevCheckpointHash' = CheckpointHash(NewCheckpoint)
    BY <1>4 DEF AttestDone, checkpointVars
  <2>2. LastCheckpointHash = CheckpointHash(NewCheckpoint)
    BY <2>1 DEF LastCheckpointHash
  <2> QED
    BY <1>1, <2>1, <2>2
<1>5. CASE Release \/ Crash \/ PowerLoss
  <2>1. checks' = checks /\ ~attesting' /\ pc' = "down"
    BY <1>5 DEF Release, Crash, PowerLoss, Forget, checkpointVars
  <2> QED
    BY <1>1, <2>1
<1>6. CASE Repair
  <2>1. checks' = checks /\ ~attesting' /\ pc' = "reopen"
    BY <1>6 DEF Repair, checkpointVars, ControlInv, AttestPcs
  <2> QED
    BY <1>1, <2>1
<1>7. CASE Take \/ Put \/ PutFails \/ Seal \/ SealFails \/ OpenNext \/ OpenNextFails
           \/ CheckpointTimer \/ AttestSkips \/ AttestFails \/ Close
  <2>1. ~attesting /\ Live
    BY <1>7 DEF Take, Put, PutFails, Seal, SealFails, OpenNext, OpenNextFails,
       CheckpointTimer, AttestSkips, AttestFails, Close, ControlInv, AttestPcs
  <2>2. UNCHANGED <<checks, attesting, checkpointIndex, prevCheckpointHash>>
    BY <1>7 DEF Take, Put, PutFails, Seal, SealFails, OpenNext, OpenNextFails,
       CheckpointTimer, AttestSkips, AttestFails, Close, checkpointVars, attestVars
  <2> QED
    BY <1>1, <2>1, <2>2
<1>8. CASE Sync \/ SyncFails \/ RemoveLock \/ EnforceAnchor \/ EnforceUnlink
           \/ EnforceStops \/ UNCHANGED vars
  <2>1. UNCHANGED <<checks, pc, attesting, seq, prevHash, checkpointIndex,
                    prevCheckpointHash>>
    BY <1>8 DEF Sync, SyncFails, RemoveLock, EnforceAnchor, EnforceUnlink,
       EnforceStops, vars, checkpointVars, controlVars, chainVars, attestVars
  <2>2. NewCheckpoint' = NewCheckpoint
    BY <2>1 DEF NewCheckpoint
  <2> QED
    BY <1>1, <2>1, <2>2
<1> QED
  BY <1>2, <1>3, <1>4, <1>5, <1>6, <1>7, <1>8 DEF Next, WriterStep

\* Where a checkpoint line is written whole or not at all, checkpoints number
\* and link themselves without a gap across every restart
\* (recoverCheckpointChain), so that a gap in them is a deletion.
THEOREM CheckpointsAreChained ==
  ASSUME "checkpoint" \notin Faults
  PROVE  Spec => []CheckpointChainIntact
<1>1. Init => CheckpointChainIntact /\ CheckpointInv
  BY DEF Init, CheckpointChainIntact, CheckpointInv, Live
<1>2. /\ IInv /\ CheckpointChainIntact /\ CheckpointInv /\ [Next]_vars
      => CheckpointChainIntact' /\ CheckpointInv'
  BY CheckpointStep DEF IInv
<1> QED
  BY <1>1, <1>2, Invariance, PTL DEF Spec

-----------------------------------------------------------------------------
(* The store implements the log it promises *)

\* The writer takes an event only while there is a hash left to give out.
TakenInv == pc \in {"seal", "attest", "open", "put"} => stamp < MaxWrites

LEMMA TakenStep ==
  ASSUME TypeOK, ControlInv, TakenInv, [Next]_vars
  PROVE  TakenInv'
<1>1. CASE Take
  BY <1>1 DEF Take, TakenInv
<1>2. CASE Seal \/ OpenNext
  BY <1>2 DEF Seal, OpenNext, TakenInv
<1>3. CASE AttestDone
  <2>1. pc \in AttestPcs /\ pc' = After[pc] /\ stamp' = stamp
    BY <1>3 DEF AttestDone, ControlInv
  <2> QED
    BY <2>1 DEF After, AttestPcs, TakenInv
<1>4. CASE AttestSkips \/ AttestFails
  <2>1. pc \in AttestPcs /\ pc' = After[pc] /\ stamp' = stamp
    BY <1>4 DEF AttestSkips, AttestFails
  <2> QED
    BY <2>1 DEF After, AttestPcs, TakenInv
<1>5. CASE Open \/ Reopen \/ Put \/ PutFails \/ SealFails \/ OpenNextFails \/ CheckpointTimer
           \/ Close \/ Release \/ Crash \/ PowerLoss \/ Repair
  BY <1>5 DEF Open, Reopen, OpenDirectory, Put, PutFails, SealFails, OpenNextFails,
     CheckpointTimer, Close, Release, Crash, PowerLoss, Repair, TakenInv
<1>6. CASE UNCHANGED <<pc, stamp>>
  BY <1>6 DEF TakenInv
<1>7. CASE Sync \/ SyncFails \/ AttestWrites \/ RemoveLock \/ EnforceAnchor \/ EnforceUnlink
           \/ EnforceStops \/ UNCHANGED vars
  BY <1>6, <1>7 DEF Sync, SyncFails, AttestWrites, RemoveLock, EnforceAnchor, EnforceUnlink,
     EnforceStops, vars, controlVars
<1> QED
  BY <1>1, <1>2, <1>3, <1>4, <1>5, <1>7 DEF Next, WriterStep

\* What the abstract log sees of the directory.
Hashes == [i \in DOMAIN log |-> log[i].hash]
LastAttested == IF checks = <<>> THEN 0 ELSE checks[Len(checks)].seq
Deleted == {i \in DOMAIN log : log[i].seg < segLo}

\* Three of the four are a matter of the files a step touches.
LEMMA HashesKept == log' = log => Hashes' = Hashes
BY DEF Hashes

LEMMA LastAttestedKept == checks' = checks => LastAttested' = LastAttested
BY DEF LastAttested

LEMMA DeletedKept == log' = log /\ segLo' = segLo => Deleted' = Deleted
BY DEF Deleted

\* A write appends a hash nothing else has, and deletes nothing.
LEMMA PutAppends ==
  ASSUME IInv, TakenInv, Put
  PROVE  /\ \E h \in 1 .. MaxWrites : Hashes' = Append(Hashes, h)
         /\ LastAttested' = LastAttested /\ anchor' = anchor /\ Deleted' = Deleted
<1>1. /\ Len(log) \in Nat /\ DOMAIN log = 1 .. Len(log) /\ segLo \in Nat /\ segHi \in Nat
      /\ stamp \in Nat /\ \A i \in DOMAIN log : log[i].seg \in Nat
  BY LogType DEF IInv, TypeOK, SegmentTypes, ProcessTypes
<1>2. /\ DOMAIN log' = 1 .. Len(log) + 1 /\ \A i \in DOMAIN log : log'[i] = log[i]
      /\ log'[Len(log) + 1] = [seq |-> seq + 1, hash |-> stamp + 1,
                              prevHash |-> prevHash, seg |-> segHi]
      /\ segHi # 0
  BY PutFacts DEF IInv
<1>3. stamp + 1 \in 1 .. MaxWrites
  BY <1>1, ConstantsAssumption DEF Put, TakenInv
<1>4. Hashes' = Append(Hashes, stamp + 1)
  <2>1. Hashes \in Seq(Nat) /\ Len(Hashes) = Len(log)
    <3>1. \A i \in 1 .. Len(log) : log[i].hash \in Nat
      BY <1>1, LogType DEF IInv, TypeOK, Records
    <3> QED
      BY <1>1, <3>1 DEF Hashes
  <2>2. Hashes' = [i \in 1 .. Len(log) + 1 |-> IF i <= Len(log) THEN log[i].hash ELSE stamp + 1]
    <3>1. \A i \in 1 .. Len(log) + 1 :
            log'[i].hash = IF i <= Len(log) THEN log[i].hash ELSE stamp + 1
      BY <1>1, <1>2
    <3> QED
      BY <1>2, <3>1 DEF Hashes
  <2>3. Append(Hashes, stamp + 1) =
          [i \in 1 .. Len(log) + 1 |-> IF i <= Len(log) THEN log[i].hash ELSE stamp + 1]
    BY <1>1, <2>1 DEF Hashes
  <2> QED
    BY <2>2, <2>3
<1>5. segLo' = segLo /\ checks' = checks /\ anchor' = anchor
  BY DEF Put, checkpointVars
<1>6. Deleted' = Deleted
  <2>1. ~(segHi < segLo)
    BY <1>1, <1>2 DEF IInv, SegmentInv
  <2> QED
    BY <1>1, <1>2, <1>5, <2>1 DEF Deleted
<1> QED
  BY <1>3, <1>4, <1>5, <1>6, LastAttestedKept

\* A power loss keeps a prefix with all that is attested to and accounted for.
LEMMA PowerLossLoses ==
  ASSUME IInv, AttestInv, PowerLoss, "entry" \notin Faults
  PROVE  /\ \E k \in 0 .. Len(Hashes) :
              LastAttested <= k /\ anchor.seq <= k /\ Hashes' = SubSeq(Hashes, 1, k)
         /\ LastAttested' = LastAttested /\ anchor' = anchor /\ Deleted' = Deleted
<1>1. /\ Len(log) \in Nat /\ DOMAIN log = 1 .. Len(log) /\ segLo \in Nat /\ segHi \in Nat
      /\ synced \in 0 .. Len(log) /\ anchor.seq \in Nat
      /\ \A i \in DOMAIN log : log[i].seg \in Nat /\ log[i].hash \in Nat
  BY LogType DEF IInv, TypeOK, SegmentTypes, FileTypes, Records
<1>2. PICK t \in named .. segHi, k \in 0 .. Len(log) :
        /\ "entry" \notin Faults => t = segHi
        /\ \A i \in DOMAIN log : i <= synced /\ log[i].seg <= t => i <= k
        /\ DOMAIN log' = 1 .. k
        /\ \A i \in 1 .. k : log'[i] = log[i]
  BY PowerLossFacts DEF IInv
<1>3. synced <= k
  <2>1. synced # 0 => synced \in DOMAIN log /\ log[synced].seg <= segHi
    BY <1>1 DEF IInv, SegmentInv
  <2> QED
    BY <1>1, <1>2, <2>1
<1>4. LastAttested <= k
  <2>1. CASE checks = <<>>
    BY <1>2, <2>1 DEF LastAttested
  <2>2. CASE checks # <<>>
    <3>1. Len(checks) \in DOMAIN checks
      BY <2>2 DEF IInv, TypeOK, FileTypes
    <3>2. checks[Len(checks)].seq \in 1 .. synced
      BY <3>1 DEF AttestInv
    <3> QED
      BY <1>1, <1>3, <2>2, <3>2 DEF LastAttested
  <2> QED
    BY <2>1, <2>2
<1>5. anchor.seq <= k
  BY <1>1, <1>3 DEF IInv, PruneInv
<1>6. Len(Hashes) = Len(log) /\ Hashes' = SubSeq(Hashes, 1, k)
  <2>1. Hashes \in Seq(Nat) /\ Len(Hashes) = Len(log)
    BY <1>1 DEF Hashes
  <2>2. Hashes' = [i \in 1 .. k |-> log[i].hash]
    BY <1>2 DEF Hashes
  <2>3. SubSeq(Hashes, 1, k) = [i \in 1 .. k |-> log[i].hash]
    BY <1>1, <2>1 DEF Hashes
  <2> QED
    BY <2>1, <2>2, <2>3
<1>7. segLo' = segLo /\ checks' = checks /\ anchor' = anchor
  BY DEF PowerLoss
<1>8. Deleted' = Deleted
  <2>1. \A i \in DOMAIN log : log[i].seg < segLo => i \in 1 .. k
    BY <1>1, <1>2, <1>5 DEF IInv, DeletionAccounted
  <2> QED
    BY <1>1, <1>2, <1>7, <2>1 DEF Deleted
<1> QED
  BY <1>2, <1>4, <1>5, <1>6, <1>7, <1>8, LastAttestedKept

\* A checkpoint line attests to the whole log.
LEMMA AttestCovers ==
  ASSUME IInv, AttestWrites \/ AttestFails
  PROVE  /\ LastAttested' \in {LastAttested, Len(Hashes)}
         /\ Hashes' = Hashes /\ anchor' = anchor /\ Deleted' = Deleted
<1>1. /\ UNCHANGED <<log, segLo, anchor>>
      /\ checks' \in {checks, Append(checks, NewCheckpoint)} /\ pc \in AttestPcs
  BY DEF AttestWrites, AttestFails, segmentVars, checkpointVars
<1>2. Len(Hashes) = Len(log)
  <2>1. Len(log) \in Nat /\ DOMAIN log = 1 .. Len(log)
    BY LogType DEF IInv, TypeOK
  <2> QED
    BY <2>1 DEF Hashes
<1>3. NewCheckpoint.seq = Len(log)
  <2>1. Live
    BY <1>1 DEF Live, AttestPcs
  <2> QED
    BY <2>1 DEF IInv, HeadInv, NewCheckpoint
<1>4. checks' = Append(checks, NewCheckpoint) => LastAttested' = Len(log)
  <2>1. checks \in Seq(Checkpoints)
    BY DEF IInv, TypeOK, FileTypes
  <2> QED
    BY <1>3, <2>1 DEF LastAttested
<1> QED
  BY <1>1, <1>2, <1>4, HashesKept, LastAttestedKept, DeletedKept

\* What a prune unlinks the anchor has accounted for.
LEMMA UnlinkDeletes ==
  ASSUME IInv, EnforceUnlink
  PROVE  /\ Cardinality(Deleted') \in Cardinality(Deleted) .. anchor.seq
         /\ Hashes' = Hashes /\ anchor' = anchor /\ LastAttested' = LastAttested
<1>1. /\ Len(log) \in Nat /\ DOMAIN log = 1 .. Len(log) /\ segLo \in Nat /\ pruneTo \in Nat
      /\ anchor.seq \in Nat /\ \A i \in DOMAIN log : log[i].seg \in Nat
  BY LogType DEF IInv, TypeOK, SegmentTypes, FileTypes, ProcessTypes
<1>2. UNCHANGED <<log, checks, anchor>> /\ segLo' = segLo + 1 /\ pruneTo # 0
  BY DEF EnforceUnlink, checkpointVars
<1>3. Deleted' \subseteq 1 .. anchor.seq
  <2>1. \A i \in DOMAIN log : log[i].seg <= pruneTo => i <= anchor.seq
    BY <1>2 DEF IInv, PruneInv
  <2>2. segLo <= pruneTo
    BY <1>2 DEF IInv, PruneInv
  <2> QED
    BY <1>1, <1>2, <2>1, <2>2 DEF Deleted
<1>4. Deleted \subseteq Deleted'
  BY <1>1, <1>2 DEF Deleted
<1>5. IsFiniteSet(1 .. anchor.seq) /\ Cardinality(1 .. anchor.seq) = anchor.seq
  <2> DEFINE n == anchor.seq
  <2>1. n \in Nat
    BY <1>1
  <2> HIDE DEF n
  <2>2. /\ IsFiniteSet(1 .. n)
        /\ Cardinality(1 .. n) = IF 1 > n THEN 0 ELSE n - 1 + 1
    BY <2>1, FS_Interval
  <2>3. IsFiniteSet(1 .. n) /\ Cardinality(1 .. n) = n
    BY <2>1, <2>2
  <2> QED
    BY <2>3 DEF n
<1>6. IsFiniteSet(Deleted') /\ Cardinality(Deleted') <= anchor.seq
  BY <1>3, <1>5, FS_Subset
<1>7. IsFiniteSet(Deleted) /\ Cardinality(Deleted) <= Cardinality(Deleted')
  BY <1>4, <1>6, FS_Subset
<1>8. Cardinality(Deleted) \in Nat /\ Cardinality(Deleted') \in Nat
  BY <1>6, <1>7, FS_CardinalityType
<1> QED
  BY <1>1, <1>2, <1>6, <1>7, <1>8, HashesKept, LastAttestedKept

\* Every other step is none of the log's business.
LEMMA OtherSteps ==
  ASSUME IInv, [Next]_vars
  PROVE  \/ Put \/ PowerLoss \/ AttestWrites \/ AttestFails \/ EnforceAnchor \/ EnforceUnlink
         \/ UNCHANGED <<log, checks, anchor, segLo>>
BY DEF Next, WriterStep, vars, segmentVars, checkpointVars, Open, Reopen, OpenDirectory, Take,
       PutFails, Sync, SyncFails, Seal, SealFails, OpenNext, OpenNextFails, CheckpointTimer,
       AttestSkips, AttestDone, Close, Release, Crash, RemoveLock, Repair, EnforceStops

\* Every step is a step of the abstract log or leaves it as it is.
LEMMA LogStep ==
  ASSUME IInv, AttestInv, TakenInv, [Next]_vars, "entry" \notin Faults
  PROVE  [Log!LogNext]_(Log!logVars)
<1> USE DEF Log!LogNext, Log!logVars
<1>1. CASE Put
  <2>1. Log!LogAppend
    BY <1>1, PutAppends DEF Log!LogAppend, Hashes, LastAttested, Deleted
  <2> QED
    BY <2>1
<1>2. CASE PowerLoss
  <2>1. Log!LogLose
    BY <1>2, PowerLossLoses DEF Log!LogLose, Hashes, LastAttested, Deleted
  <2> QED
    BY <2>1
<1>3. CASE AttestWrites \/ AttestFails
  <2>1. CASE LastAttested' = LastAttested
    BY <1>3, <2>1, AttestCovers DEF Hashes, LastAttested, Deleted
  <2>2. CASE LastAttested' = Len(Hashes)
    <3>1. Log!LogAttest
      BY <1>3, <2>2, AttestCovers DEF Log!LogAttest, Hashes, LastAttested, Deleted
    <3> QED
      BY <3>1
  <2> QED
    BY <1>3, <2>1, <2>2, AttestCovers
<1>4. CASE EnforceAnchor
  <2>1. UNCHANGED <<log, checks, segLo>>
    BY <1>4 DEF EnforceAnchor, checkpointVars
  <2>2. anchor'.seq \in anchor.seq .. Len(Hashes)
    <3>1. Len(log) \in Nat /\ DOMAIN log = 1 .. Len(log) /\ anchor.seq \in Nat
      BY LogType DEF IInv, TypeOK, FileTypes
    <3>2. Len(Hashes) = Len(log)
      BY <3>1 DEF Hashes
    <3>3. anchor.seq # 0 => anchor.seq \in DOMAIN log
      BY DEF IInv, DeletionAccounted
    <3>4. anchor.seq <= anchor'.seq /\ (anchor' = anchor \/ anchor'.seq \in DOMAIN log)
      BY <1>4, EnforceAnchorFacts DEF IInv
    <3> QED
      BY <3>1, <3>2, <3>3, <3>4
  <2>3. Log!LogAccount
    BY <2>1, <2>2, HashesKept, LastAttestedKept, DeletedKept
       DEF Log!LogAccount, Hashes, LastAttested, Deleted
  <2> QED
    BY <2>3
<1>5. CASE EnforceUnlink
  <2>1. Log!LogDelete
    BY <1>5, UnlinkDeletes DEF Log!LogDelete, Hashes, LastAttested, Deleted
  <2> QED
    BY <2>1
<1>6. CASE UNCHANGED <<log, checks, anchor, segLo>>
  BY <1>6, HashesKept, LastAttestedKept, DeletedKept DEF Hashes, LastAttested, Deleted
<1> QED
  BY <1>1, <1>2, <1>3, <1>4, <1>5, <1>6, OtherSteps

\* On a file system that keeps the directory entry of an fsynced file, the store
\* is the append-only log it promises: whatever is killed, lost, repaired or
\* pruned, a step appends one record, attests to all of them, loses only
\* records no checkpoint and no anchor is about, accounts for a prefix, or deletes
\* what is accounted for.
THEOREM StoreImplementsLog ==
  ASSUME "entry" \notin Faults
  PROVE  Spec => ImplementsLog
<1>1. Init => TakenInv
  BY DEF Init, TakenInv
<1>2. IInv /\ TakenInv /\ [Next]_vars => TakenInv'
  BY TakenStep DEF IInv
<1>3. Init => Log!LogInit
  <2> SUFFICES ASSUME Init PROVE Log!LogInit
    OBVIOUS
  <2>1. log = <<>> /\ checks = <<>> /\ anchor.seq = 0 /\ DOMAIN log = {}
    BY DEF Init, NoAnchor
  <2>2. [i \in DOMAIN log |-> log[i].hash] = <<>>
    BY <2>1
  <2>3. {i \in DOMAIN log : log[i].seg < segLo} = {}
    BY <2>1
  <2>4. Cardinality({i \in DOMAIN log : log[i].seg < segLo}) = 0
    BY <2>3, FS_EmptySet
  <2> QED
    BY <2>1, <2>2, <2>4 DEF Log!LogInit
<1>4. IInv /\ AttestInv /\ TakenInv /\ [Next]_vars => [Log!LogNext]_(Log!logVars)
  BY LogStep
<1> QED
  BY <1>1, <1>2, <1>3, <1>4, Invariance, AttestInvariance, PTL
     DEF Spec, ImplementsLog, Log!LogSpec

-----------------------------------------------------------------------------
(* The size of a segment *)

\* The process knows the size of the segment it writes, and writes a record only
\* to a segment that has room for it.
SizeInv ==
  /\ Live /\ broken # "closed" => segBytes = RecordsIn(segIndex)
  /\ pc = "put" => segBytes < SegmentMax

LEMMA RecordsInKept == log' = log => \A n : RecordsIn(n)' = RecordsIn(n)
BY DEF RecordsIn

\* A write adds one record to the newest segment.
LEMMA PutGrows ==
  ASSUME IInv, Put, NEW n
  PROVE  RecordsIn(n)' = IF n = segHi THEN RecordsIn(n) + 1 ELSE RecordsIn(n)
<1> DEFINE S == {i \in DOMAIN log : log[i].seg = n}
           T == {i \in DOMAIN log' : log'[i].seg = n}
           k == Len(log) + 1
<1>1. Len(log) \in Nat /\ DOMAIN log = 1 .. Len(log)
  BY LogType DEF IInv, TypeOK
<1>2. /\ DOMAIN log' = 1 .. k /\ \A i \in DOMAIN log : log'[i] = log[i]
      /\ log'[k].seg = segHi
  BY PutFacts DEF IInv
<1>3. IsFiniteSet(S)
  <2>1. IsFiniteSet(1 .. Len(log))
    BY <1>1, FS_Interval
  <2> QED
    BY <1>1, <2>1, FS_Subset
<1>4. k \notin S
  BY <1>1
<1>5. CASE n = segHi
  <2>1. T = S \cup {k}
    BY <1>1, <1>2, <1>5
  <2>2. Cardinality(S \cup {k}) = Cardinality(S) + 1
    BY <1>3, <1>4, FS_AddElement
  <2> QED
    BY <1>5, <2>1, <2>2 DEF RecordsIn
<1>6. CASE n # segHi
  <2>1. T = S
    BY <1>1, <1>2, <1>6
  <2> QED
    BY <1>6, <2>1 DEF RecordsIn
<1> QED
  BY <1>5, <1>6

\* A power loss makes no segment longer.
LEMMA PowerLossShrinks ==
  ASSUME IInv, PowerLoss, NEW n
  PROVE  RecordsIn(n)' <= RecordsIn(n)
<1> DEFINE S == {i \in DOMAIN log : log[i].seg = n}
           T == {i \in DOMAIN log' : log'[i].seg = n}
<1>1. Len(log) \in Nat /\ DOMAIN log = 1 .. Len(log)
  BY LogType DEF IInv, TypeOK
<1>2. PICK k \in 0 .. Len(log) : DOMAIN log' = 1 .. k /\ \A i \in 1 .. k : log'[i] = log[i]
  BY PowerLossFacts DEF IInv
<1>3. IsFiniteSet(S)
  <2>1. IsFiniteSet(1 .. Len(log))
    BY <1>1, FS_Interval
  <2> QED
    BY <1>1, <2>1, FS_Subset
<1>4. T \subseteq S
  BY <1>1, <1>2
<1>5. Cardinality(T) <= Cardinality(S)
  BY <1>3, <1>4, FS_Subset
<1> QED
  BY <1>5 DEF RecordsIn

\* A segment nobody wrote to is empty.
LEMMA NewSegmentEmpty ==
  ASSUME IInv, NEW n \in Nat, n > segHi
  PROVE  RecordsIn(n) = 0
<1>1. {i \in DOMAIN log : log[i].seg = n} = {}
  <2>1. segHi \in Nat /\ \A i \in DOMAIN log : log[i].seg \in 1 .. segHi
    BY DEF IInv, TypeOK, SegmentTypes, SegmentInv
  <2> QED
    BY <2>1
<1> QED
  BY <1>1, FS_EmptySet DEF RecordsIn

LEMMA SizeStep ==
  ASSUME IInv, SizeInv, SegmentsOrdered, [Next]_vars
  PROVE  SizeInv' /\ SegmentsOrdered'
<1>1. /\ Len(log) \in Nat /\ DOMAIN log = 1 .. Len(log) /\ segLo \in Nat /\ segHi \in Nat
      /\ segIndex \in Nat /\ segBytes \in Nat /\ SegmentMax \in Nat \ {0}
      /\ \A i \in DOMAIN log : log[i].seg \in Nat /\ log[i].seg \in 1 .. segHi
      /\ \A n : RecordsIn(n) \in Nat
  BY LogType, RecordsInType, ConstantsAssumption
     DEF IInv, TypeOK, SegmentTypes, ProcessTypes, SegmentInv
<1>2. \A n \in Nat : RecordsIn(n) <= SegmentMax
  <2> SUFFICES ASSUME NEW n \in Nat PROVE RecordsIn(n) <= SegmentMax
    OBVIOUS
  <2>1. CASE n \in 1 .. segHi
    BY <2>1 DEF SegmentsOrdered
  <2>2. CASE n > segHi
    BY <1>1, <2>2, NewSegmentEmpty
  <2>3. CASE n = 0
    <3>1. {i \in DOMAIN log : log[i].seg = n} = {}
      BY <1>1, <2>3
    <3>2. RecordsIn(n) = 0
      BY <3>1, FS_EmptySet DEF RecordsIn
    <3> QED
      BY <1>1, <3>2
  <2> QED
    BY <1>1, <2>1, <2>2, <2>3
<1>3. ASSUME log' = log, segHi' \in Nat, segHi <= segHi' PROVE SegmentsOrdered'
  <2>1. \A n \in 1 .. segHi' : RecordsIn(n)' <= SegmentMax
    BY <1>1, <1>2, <1>3, RecordsInKept
  <2>2. \A i \in DOMAIN log' : /\ log'[i].seg \in 1 .. segHi'
                               /\ i > 1 => log'[i - 1].seg <= log'[i].seg
    BY <1>1, <1>3 DEF SegmentsOrdered
  <2> QED
    BY <2>1, <2>2 DEF SegmentsOrdered
<1>4. CASE Open \/ Reopen
  <2> DEFINE newest == IF segLo <= segHi THEN segHi ELSE 1
  <2>1. /\ log' = log /\ segHi' = newest /\ segIndex' = newest
        /\ segBytes' = RecordsIn(newest) /\ pc' = "idle"
    BY <1>4 DEF Open, Reopen, OpenDirectory, OpenNewest
  <2>2. segHi' \in Nat /\ segHi <= segHi'
    BY <1>1, <2>1 DEF IInv, SegmentInv
  <2> QED
    BY <1>3, <2>1, <2>2, RecordsInKept DEF SizeInv
<1>5. CASE Take
  <2>1. /\ UNCHANGED <<log, segHi, segIndex, segBytes, broken>> /\ pc = "idle"
        /\ pc' = IF segBytes > 0 /\ segBytes + 1 > SegmentMax THEN "seal" ELSE "put"
    BY <1>5 DEF Take, segmentVars, chainVars
  <2>2. pc' = "put" => segBytes < SegmentMax
    BY <1>1, <2>1
  <2> QED
    BY <1>1, <1>3, <2>1, <2>2, RecordsInKept DEF SizeInv, Live
<1>6. CASE Put
  <2>1. /\ pc = "put" /\ broken = "no" /\ pc' = "idle" /\ segBytes' = segBytes + 1
        /\ UNCHANGED <<segHi, segIndex, broken>>
    BY <1>6 DEF Put
  <2>2. segIndex = segHi /\ segBytes = RecordsIn(segHi) /\ segBytes < SegmentMax
    BY <1>1, <1>6, <2>1, PutFacts DEF SizeInv, Live, IInv
  <2>3. \A n : RecordsIn(n)' = IF n = segHi THEN RecordsIn(n) + 1 ELSE RecordsIn(n)
    BY <1>6, PutGrows
  <2>4. SizeInv'
    BY <2>1, <2>2, <2>3 DEF SizeInv
  <2>5. \A n \in 1 .. segHi' : RecordsIn(n)' <= SegmentMax
    <3> SUFFICES ASSUME NEW n \in 1 .. segHi PROVE RecordsIn(n)' <= SegmentMax
      BY <2>1
    <3>1. CASE n = segHi
      BY <1>1, <2>2, <2>3, <3>1
    <3>2. CASE n # segHi
      <4>1. n \in Nat
        BY <1>1
      <4>2. RecordsIn(n)' = RecordsIn(n)
        BY <2>3, <3>2
      <4>3. RecordsIn(n) <= SegmentMax
        BY <1>2, <4>1
      <4> QED
        BY <4>2, <4>3
    <3> QED
      BY <3>1, <3>2
  <2>6. \A i \in DOMAIN log' : /\ log'[i].seg \in 1 .. segHi'
                               /\ i > 1 => log'[i - 1].seg <= log'[i].seg
    <3>1. /\ DOMAIN log' = 1 .. Len(log) + 1 /\ \A i \in DOMAIN log : log'[i] = log[i]
          /\ log'[Len(log) + 1].seg = segHi /\ segHi # 0
      BY <1>6, PutFacts DEF IInv
    <3> SUFFICES ASSUME NEW i \in DOMAIN log'
                 PROVE  /\ log'[i].seg \in 1 .. segHi
                        /\ i > 1 => log'[i - 1].seg <= log'[i].seg
      BY <2>1
    <3>2. CASE i \in DOMAIN log
      <4>1. i > 1 => i - 1 \in DOMAIN log /\ log'[i - 1] = log[i - 1]
        BY <1>1, <3>1, <3>2
      <4> QED
        BY <1>1, <3>1, <3>2, <4>1 DEF SegmentsOrdered
    <3>3. CASE i = Len(log) + 1
      <4>1. i > 1 => i - 1 \in DOMAIN log /\ log'[i - 1] = log[i - 1]
        BY <1>1, <3>1, <3>3
      <4> QED
        BY <1>1, <3>1, <3>3, <4>1
    <3> QED
      BY <1>1, <3>1, <3>2, <3>3
  <2> QED
    BY <2>4, <2>5, <2>6 DEF SegmentsOrdered
<1>7. CASE OpenNext
  <2>1. /\ pc = "open" /\ log' = log /\ segIndex' = segIndex + 1 /\ segHi' = segIndex + 1
        /\ segBytes' = 0 /\ pc' = "put"
    BY <1>7 DEF OpenNext
  <2>2. segIndex = segHi
    BY <2>1 DEF IInv, SegmentInv, ControlInv, Live
  <2>3. \A n \in Nat : n > segHi => RecordsIn(n) = 0
    BY NewSegmentEmpty
  <2>4. \A n \in Nat : n > segHi => RecordsIn(n)' = 0
    BY <2>1, <2>3, RecordsInKept
  <2>5. SizeInv'
    BY <1>1, <2>1, <2>2, <2>4 DEF SizeInv
  <2> QED
    BY <1>1, <1>3, <2>1, <2>2, <2>5
<1>8. CASE OpenNextFails
  <2>1. log' = log /\ segHi' = segHi /\ broken' = "closed" /\ pc' = "idle"
    BY <1>8 DEF OpenNextFails, segmentVars
  <2> QED
    BY <1>1, <1>3, <2>1 DEF SizeInv
<1>9. CASE PowerLoss
  <2>1. pc' = "down"
    BY <1>9 DEF PowerLoss
  <2>2. PICK t \in named .. segHi, k \in 0 .. Len(log) :
          /\ \A i \in DOMAIN log : i <= k => log[i].seg <= t
          /\ DOMAIN log' = 1 .. k
          /\ \A i \in 1 .. k : log'[i] = log[i]
          /\ segHi' = t
    BY <1>9, PowerLossFacts DEF IInv
  <2>3. \A n \in 1 .. segHi' : RecordsIn(n)' <= SegmentMax
    <3>1. \A n \in Nat : RecordsIn(n)' \in Nat
      <4>1. SegmentTypes'
        BY SegmentTypesStep DEF IInv
      <4> QED
        <5> SUFFICES ASSUME NEW n \in Nat PROVE RecordsIn(n)' \in Nat
          OBVIOUS
        <5> DEFINE T == {i \in DOMAIN log' : log'[i].seg = n}
        <5>1. IsFiniteSet(1 .. Len(log)) /\ T \subseteq 1 .. Len(log)
          BY <1>1, <2>2, FS_Interval
        <5>2. IsFiniteSet(T)
          BY <5>1, FS_Subset
        <5> QED
          BY <5>2, FS_CardinalityType DEF RecordsIn
    <3>2. \A n \in Nat : RecordsIn(n)' <= RecordsIn(n)
      BY <1>9, PowerLossShrinks
    <3>3. segHi' \in Nat /\ 1 .. segHi' \subseteq 1 .. segHi
      <4>1. segHi' \in named .. segHi /\ named \in Nat /\ segHi \in Nat
        BY <2>2 DEF IInv, TypeOK, SegmentTypes
      <4> QED
        BY ONLY <4>1
    <3>4. \A n \in 1 .. segHi : RecordsIn(n) \in Nat /\ RecordsIn(n) <= SegmentMax
      BY <1>1, <1>2
    <3>5. ASSUME NEW n \in 1 .. segHi'
          PROVE  RecordsIn(n)' <= SegmentMax
      <4>1. n \in 1 .. segHi /\ n \in Nat
        BY <3>3
      <4>2. RecordsIn(n)' \in Nat /\ RecordsIn(n) \in Nat
        BY <3>1, <3>4, <4>1
      <4>3. RecordsIn(n)' <= RecordsIn(n) /\ RecordsIn(n) <= SegmentMax
        BY <3>2, <3>4, <4>1
      <4> QED
        BY <4>2, <4>3, ConstantsAssumption
    <3> QED
      BY <3>5
  <2>4. \A i \in DOMAIN log' : /\ log'[i].seg \in 1 .. segHi'
                               /\ i > 1 => log'[i - 1].seg <= log'[i].seg
    BY <1>1, <2>2, SMTT(30) DEF SegmentsOrdered
  <2> QED
    BY <2>1, <2>3, <2>4 DEF SegmentsOrdered, SizeInv, Live
<1>10. CASE UNCHANGED <<log, segHi, segIndex, segBytes>>
            /\ (pc' \in {"down", "reopen"} \/ broken' = "closed"
                 \/ (Live /\ broken' = broken) \/ (Live /\ broken = "no"))
            /\ (pc' = "put" => pc = "put")
  BY <1>1, <1>3, <1>10, RecordsInKept DEF SizeInv, Live
<1>11. CASE PutFails \/ Sync \/ SyncFails \/ Seal \/ SealFails \/ AttestSkips \/ AttestWrites
            \/ AttestDone \/ AttestFails \/ Release \/ CheckpointTimer \/ Close \/ Crash
            \/ RemoveLock \/ Repair \/ EnforceAnchor \/ EnforceUnlink \/ EnforceStops
            \/ UNCHANGED vars
  <2>1. CASE Release \/ Crash
    <3>1. UNCHANGED <<log, segHi>> /\ pc' = "down"
      BY <2>1 DEF Release, Crash, segmentVars
    <3> QED
      BY <1>1, <1>3, <3>1 DEF SizeInv, Live
  <2>2. CASE Repair
    <3>1. UNCHANGED <<log, segHi>> /\ pc' = "reopen"
      BY <2>2 DEF Repair
    <3> QED
      BY <1>1, <1>3, <3>1 DEF SizeInv, Live
  <2>3. CASE PutFails
    <3>1. /\ UNCHANGED <<log, segHi, segIndex, segBytes>> /\ pc = "put" /\ pc' = "idle"
          /\ broken' = broken \/ broken = "no"
      BY <2>3 DEF PutFails, chainVars
    <3> QED
      BY <1>1, <1>10, <3>1 DEF Live
  <2>4. CASE AttestSkips \/ AttestDone \/ AttestFails
    <3>1. /\ UNCHANGED <<log, segHi, segIndex, segBytes, broken>> /\ pc \in AttestPcs
          /\ pc' = After[pc]
      BY <2>4 DEF AttestSkips, AttestDone, AttestFails, segmentVars, chainVars, IInv, ControlInv
    <3>2. pc' # "put" /\ Live
      BY <3>1 DEF AttestPcs, After, Live
    <3> QED
      BY <1>10, <3>1, <3>2
  <2>5. CASE Sync \/ SyncFails \/ Seal \/ SealFails \/ AttestWrites \/ CheckpointTimer \/ Close
    <3>1. /\ UNCHANGED <<log, segHi, segIndex, segBytes, broken>> /\ Live
          /\ pc' = "put" => pc = "put"
      BY <2>5 DEF Sync, SyncFails, Seal, SealFails, AttestWrites, CheckpointTimer, Close, Live,
         segmentVars, chainVars, controlVars, AttestPcs
    <3> QED
      BY <1>10, <3>1
  <2>6. CASE RemoveLock \/ EnforceAnchor \/ EnforceUnlink \/ EnforceStops \/ UNCHANGED vars
    <3>1. UNCHANGED <<log, segHi, segIndex, segBytes, broken, pc>>
      BY <2>6 DEF RemoveLock, EnforceAnchor, EnforceUnlink, EnforceStops, vars,
         segmentVars, chainVars, controlVars
    <3> QED
      BY <1>1, <1>3, <3>1, RecordsInKept DEF SizeInv, Live
  <2> QED
    BY <1>11, <2>1, <2>2, <2>3, <2>4, <2>5, <2>6
<1> QED
  BY <1>4, <1>5, <1>6, <1>7, <1>8, <1>9, <1>11 DEF Next, WriterStep

\* Records sit in their segments in order and no segment outgrows its bound, also
\* when a process stops in the middle of one and the next goes on with the size
\* it finds (openSegment, rotate).
THEOREM SegmentsStayOrdered == Spec => []SegmentsOrdered
<1>1. Init => SizeInv /\ SegmentsOrdered
  BY DEF Init, SizeInv, SegmentsOrdered, Live
<1>2. IInv /\ SizeInv /\ SegmentsOrdered /\ [Next]_vars => SizeInv' /\ SegmentsOrdered'
  BY SizeStep
<1> QED
  BY <1>1, <1>2, Invariance, PTL DEF Spec

=============================================================================
