---------------------------- MODULE EvidenceStore ----------------------------
(***************************************************************************)
(* The evidence directory and the one process that writes it               *)
(* (internal/evidence: store.go, checkpoint.go, repair.go, retention.go).  *)
(*                                                                         *)
(* The directory holds segment files, checkpoints.jsonl, pruned.json and   *)
(* writer.lock.  A process opens it, recovers the chain head from it,      *)
(* writes records, rotates segments, signs checkpoints and closes it; it   *)
(* may be killed between any two of these steps, and the machine may lose  *)
(* power.  `flugschreiber repair' and `flugschreiber retention' work on    *)
(* the same directory from their own processes.                            *)
(*                                                                         *)
(* Abstractions.                                                           *)
(*  - A record hash is a fresh number.  SHA-256 covers the sequence        *)
(*    number, the time, the previous hash and the event, so two writes     *)
(*    never share one.                                                     *)
(*  - A segment's size counts records.                                     *)
(*  - `log' keeps the records of deleted segments, as history: the record  *)
(*    at log[i] is on disk exactly when its segment is.                    *)
(*  - The queue in front of the writer is the module StoreQueue; here an   *)
(*    event is taken whenever the writer is idle.                          *)
(***************************************************************************)
EXTENDS Naturals, Sequences, FiniteSets

CONSTANTS
  SegmentMax,  \* Options.SegmentMaxBytes, in records
  MaxWrites,   \* bound on the records ever written, and on failed checkpoints
  Faults       \* what the environment may do to this process

\* "power"       the machine loses power; bytes not fsynced may be gone
\* "newline"     a power loss may take just the newline of the last record
\* "entry"       a power loss may take a directory entry not yet fsynced
\* "disk"        a record is cut short by a full disk
\* "fsync"       fsync of a segment fails
\* "open"        the next segment cannot be created
\* "sign"        the signer returns an error
\* "checkpoint"  the write or the fsync of a checkpoint line fails
FaultKinds == {"power", "newline", "entry", "disk", "fsync", "open", "sign",
               "checkpoint"}

ASSUME ConstantsAssumption ==
  /\ SegmentMax \in Nat \ {0}
  /\ MaxWrites \in Nat
  /\ Faults \subseteq FaultKinds

VARIABLES
  \* The segment files.
  log,         \* every record: [seq, hash, prevHash, seg]
  tail,        \* how the newest segment ends: "clean", "torn" or "noeol"
  glued,       \* records that share a malformed line with their successor
  synced,      \* how many records an fsync has covered
  segLo,       \* oldest and newest segment file; none when segLo > segHi
  segHi,
  named,       \* newest segment whose directory entry is durable
  \* The other files.
  checks,      \* checkpoints.jsonl: [seq, recordHash, index, prev]
  checksTorn,  \* it has a line that does not parse
  anchor,      \* pruned.json: [seq, hash], or NoAnchor
  lock,        \* writer.lock exists
  \* The process that has the directory open.
  pc,          \* where its writer goroutine is; "down" when there is none
  role,        \* "server", "repair" (the command's recordRepair) or "none"
  signer,      \* it has a signing key
  attesting,   \* its checkpoint line is on disk, AppendCheckpoint not back
  segIndex, segBytes, seq, prevHash, dirty,
  checkpointSeq, checkpointIndex, prevCheckpointHash,
  writeErr,    \* Store.writeErr is set
  broken,      \* what is wrong with the open file: "no", "flush", "closed"
  \* The retention command, and history.
  pruneTo,     \* newest segment it is about to unlink, 0 when it is not running
  owed,        \* a repair removed a fragment and has not recorded it yet
  stamp        \* the last record hash given out

segmentVars    == <<log, tail, glued, synced, segLo, segHi, named>>
checkpointVars == <<checks, checksTorn>>
chainVars      == <<segIndex, segBytes, seq, prevHash, dirty>>
attestVars     == <<checkpointSeq, checkpointIndex, prevCheckpointHash>>
controlVars    == <<pc, role, signer, attesting>>
vars == <<segmentVars, checkpointVars, anchor, lock, controlVars, chainVars,
          attestVars, writeErr, broken, pruneTo, owed, stamp>>

GenesisHash == 0
NoAnchor == [seq |-> 0, hash |-> GenesisHash]
GenesisCheckpointHash == <<0, 0>>

\* The checkpoint's own claims identify it; its index is outside the preimage.
CheckpointHash(c) == <<c.seq, c.recordHash>>

Records == [seq : Nat, hash : Nat, prevHash : Nat, seg : Nat]
Checkpoints == [seq : Nat, recordHash : Nat, index : Nat, prev : Nat \X Nat]

-----------------------------------------------------------------------------
(* Reading the directory *)

\* Some segment file still holds a record.
HoldsRecords == log # <<>> /\ log[Len(log)].seg >= segLo

\* segmentHead fails on a line it cannot parse, and only the newest segment
\* with something in it is read.
HeadReadable ==
  /\ tail # "torn"
  /\ HoldsRecords =>
       \A i \in glued : log[i].seg # log[Len(log)].seg

\* Mutant of RecoveredHead: only the newest file is looked into.
RecoveredHeadNewestFile ==
  IF log # <<>> /\ log[Len(log)].seg = segHi
  THEN [seq |-> log[Len(log)].seq, hash |-> log[Len(log)].hash]
  ELSE anchor

\* recoverChainHead: the last record of the newest segment that holds one,
\* else where the prune anchor says the chain continues, else genesis.
RecoveredHead ==
  IF HoldsRecords THEN [seq |-> log[Len(log)].seq, hash |-> log[Len(log)].hash]
  ELSE anchor

\* The size of segment n, as os.Stat reports it.
RecordsIn(n) == Cardinality({i \in DOMAIN log : log[i].seg = n})

\* The sequence number a repair would leave as the last one.
Surviving == IF HoldsRecords THEN log[Len(log)].seq ELSE 0

\* refuseIfAttested: no checkpoint may cover more than what survives.
NothingAttestedBeyond == \A i \in DOMAIN checks : checks[i].seq <= Surviving

\* Open gets as far as claiming the lock; a lock left by a dead process is
\* taken.
CanOpen == HeadReadable /\ ~checksTorn

\* FindTornRecord finds a fragment and refuseIfAttested, which reads the records
\* only when there is a checkpoint, has nothing against it.
Repairable ==
  /\ tail = "torn"
  /\ ~checksTorn
  /\ checks # <<>> /\ HoldsRecords => \A i \in glued : log[i].seg # log[Len(log)].seg
  /\ NothingAttestedBeyond

\* refuseWhileWriterHolds comes first, and any lock file makes it refuse.
CanRepair == ~lock /\ Repairable

-----------------------------------------------------------------------------
(* Opening the directory *)

\* What a process that is not running remembers: nothing.
Forget ==
  /\ role' = "none"
  /\ signer' = FALSE
  /\ attesting' = FALSE
  /\ segIndex' = 0
  /\ segBytes' = 0
  /\ seq' = 0
  /\ prevHash' = GenesisHash
  /\ dirty' = FALSE
  /\ checkpointSeq' = 0
  /\ checkpointIndex' = 0
  /\ prevCheckpointHash' = GenesisCheckpointHash
  /\ writeErr' = FALSE
  /\ broken' = "no"

\* Mutant of RecoverCheckpointChain: every process starts a chain of its own.
RecoverCheckpointChainAnew ==
  /\ checkpointIndex' = 0
  /\ prevCheckpointHash' = GenesisCheckpointHash

\* recoverCheckpointChain: the position after the last checkpoint on disk.
RecoverCheckpointChain ==
  LET last == checks[Len(checks)] IN
  IF checks = <<>>
  THEN /\ checkpointIndex' = 0
       /\ prevCheckpointHash' = GenesisCheckpointHash
  ELSE /\ checkpointIndex' = last.index + 1
       /\ prevCheckpointHash' = CheckpointHash(last)

\* The newest segment is reopened for appending, or the first one created.
\* Writing the lock fsyncs the directory, new segment included.
OpenNewest ==
  LET newest == IF segLo <= segHi THEN segHi ELSE 1 IN
  /\ segIndex' = newest
  /\ segBytes' = RecordsIn(newest)
  /\ segHi' = newest
  /\ named' = newest

OpenDirectory ==
  /\ CanOpen
  /\ seq' = RecoveredHead.seq
  /\ prevHash' = RecoveredHead.hash
  /\ checkpointSeq' = RecoveredHead.seq
  /\ dirty' = FALSE
  /\ RecoverCheckpointChain
  /\ OpenNewest
  /\ lock' = TRUE
  /\ writeErr' = FALSE
  /\ broken' = "no"
  /\ attesting' = FALSE
  /\ pc' = "idle"
  /\ UNCHANGED <<log, tail, glued, synced, segLo, checkpointVars, anchor,
                 pruneTo, owed, stamp>>

\* A server starts, with signing on or off.
Open ==
  /\ pc = "down"
  /\ role' = "server"
  /\ signer' \in BOOLEAN
  /\ OpenDirectory

-----------------------------------------------------------------------------
(* Writing a record *)

\* The writer takes an event off its queue.  The repair command appends one
\* event, its account of the repair, and nothing else.
Take ==
  /\ pc = "idle"
  /\ stamp < MaxWrites
  /\ role = "repair" => owed /\ ~writeErr
  /\ pc' = IF segBytes > 0 /\ segBytes + 1 > SegmentMax THEN "seal" ELSE "put"
  /\ UNCHANGED <<segmentVars, checkpointVars, anchor, lock, role, signer,
                 attesting, chainVars, attestVars, writeErr, broken, pruneTo,
                 owed, stamp>>

\* The record is written, newline included, and flushed.  After a record that
\* lost its newline the two end up on one line.
Put ==
  /\ pc = "put"
  /\ broken = "no"
  /\ stamp' = stamp + 1
  /\ log' = Append(log, [seq |-> seq + 1, hash |-> stamp + 1,
                         prevHash |-> prevHash, seg |-> segIndex])
  /\ glued' = IF tail = "noeol" THEN glued \cup {Len(log)} ELSE glued
  /\ tail' = "clean"
  /\ seq' = seq + 1
  /\ prevHash' = stamp + 1
  /\ segBytes' = segBytes + 1
  /\ dirty' = TRUE
  /\ owed' = (owed /\ role # "repair")
  /\ pc' = "idle"
  /\ UNCHANGED <<synced, segLo, segHi, named, checkpointVars, anchor, lock,
                 role, signer, attesting, segIndex, attestVars, writeErr,
                 broken, pruneTo>>

\* The write fails: the file is already unusable, or the disk is full now and
\* takes part of the line or none of it.  bufio keeps the error from then on.
PutFails ==
  /\ pc = "put"
  /\ \/ /\ broken # "no"
        /\ UNCHANGED <<tail, broken>>
     \/ /\ broken = "no"
        /\ "disk" \in Faults
        /\ tail' \in {tail} \cup IF tail = "clean" THEN {"torn"} ELSE {}
        /\ broken' = "flush"
  /\ writeErr' = TRUE
  /\ pc' = "idle"
  /\ UNCHANGED <<log, glued, synced, segLo, segHi, named, checkpointVars,
                 anchor, lock, role, signer, attesting, chainVars, attestVars,
                 pruneTo, owed, stamp>>

-----------------------------------------------------------------------------
(* fsync, and sealing a segment *)

\* How many records are covered once segment n has been fsynced.
SyncedWith(n) ==
  IF \A i \in synced + 1 .. Len(log) : log[i].seg = n THEN Len(log) ELSE synced

\* sync, on the timer.
Sync ==
  /\ pc = "idle"
  /\ dirty
  /\ broken # "closed"
  /\ synced' = SyncedWith(segIndex)
  /\ dirty' = FALSE
  /\ UNCHANGED <<log, tail, glued, segLo, segHi, named, checkpointVars, anchor,
                 lock, controlVars, segIndex, segBytes, seq, prevHash,
                 attestVars, writeErr, broken, pruneTo, owed, stamp>>

\* The same fsync fails, here or at the start of a timed checkpoint.
SyncFails ==
  /\ pc = "idle"
  /\ dirty
  /\ broken = "closed" \/ "fsync" \in Faults
  /\ writeErr' = TRUE
  /\ UNCHANGED <<segmentVars, checkpointVars, anchor, lock, controlVars,
                 chainVars, attestVars, broken, pruneTo, owed, stamp>>

\* closeSegment: flush, fsync, close; in a rotation and at shutdown.
Seal ==
  /\ pc \in {"seal", "shut"}
  /\ broken = "no"
  /\ synced' = SyncedWith(segIndex)
  /\ pc' = IF pc = "seal" THEN "attest" ELSE "final"
  /\ UNCHANGED <<log, tail, glued, segLo, segHi, named, checkpointVars, anchor,
                 lock, role, signer, attesting, chainVars, attestVars, writeErr,
                 broken, pruneTo, owed, stamp>>

\* It fails.  The rotation gives up and the record with it; the shutdown ends
\* without a checkpoint and Close returns the error, which writeErr stands for.
SealFails ==
  /\ pc \in {"seal", "shut"}
  /\ broken # "no" \/ "fsync" \in Faults
  /\ writeErr' = TRUE
  /\ pc' = IF pc = "seal" THEN "idle" ELSE "release"
  /\ UNCHANGED <<segmentVars, checkpointVars, anchor, lock, role, signer,
                 attesting, chainVars, attestVars, broken, pruneTo, owed, stamp>>

\* The rotation opens the next segment and goes on to write the record.
OpenNext ==
  /\ pc = "open"
  /\ segIndex' = segIndex + 1
  /\ segBytes' = 0
  /\ segHi' = segIndex + 1
  /\ tail' = "clean"
  /\ pc' = "put"
  /\ UNCHANGED <<log, glued, synced, segLo, named, checkpointVars, anchor, lock,
                 role, signer, attesting, seq, prevHash, dirty, attestVars,
                 writeErr, broken, pruneTo, owed, stamp>>

\* It cannot: the writer is left with a closed file.
OpenNextFails ==
  /\ pc = "open"
  /\ "open" \in Faults
  /\ segIndex' = segIndex + 1
  /\ segBytes' = 0
  /\ broken' = "closed"
  /\ writeErr' = TRUE
  /\ pc' = "idle"
  /\ UNCHANGED <<segmentVars, checkpointVars, anchor, lock, role, signer,
                 attesting, seq, prevHash, dirty, attestVars, pruneTo, owed,
                 stamp>>

-----------------------------------------------------------------------------
(* Checkpoints *)

\* There is a key and something to attest to.
Attestable == signer /\ seq # 0 /\ seq # checkpointSeq

\* Where appendCheckpoint is called from, and what its caller does next.
AttestPcs == {"attest", "tick", "final"}
After == [attest |-> "open", tick |-> "idle", final |-> "release"]

\* Mutant of CheckpointTimer: no fsync before the checkpoint.
CheckpointTimerWithoutSync ==
  /\ pc = "idle"
  /\ Attestable
  /\ pc' = "tick"
  /\ UNCHANGED <<segmentVars, checkpointVars, anchor, lock, role, signer,
                 attesting, chainVars, attestVars, writeErr, broken, pruneTo,
                 owed, stamp>>

\* Mutant of CheckpointTimer: it returns early when there is nothing to sync.
CheckpointTimerOnlyDirty ==
  /\ pc = "idle"
  /\ Attestable
  /\ dirty
  /\ broken # "closed"
  /\ synced' = SyncedWith(segIndex)
  /\ dirty' = FALSE
  /\ pc' = "tick"
  /\ UNCHANGED <<log, tail, glued, segLo, segHi, named, checkpointVars, anchor,
                 lock, role, signer, attesting, segIndex, segBytes, seq,
                 prevHash, attestVars, writeErr, broken, pruneTo, owed, stamp>>

\* checkpoint, on the timer: fsync, then attest.
CheckpointTimer ==
  /\ pc = "idle"
  /\ Attestable
  /\ dirty => broken # "closed"
  /\ synced' = IF dirty THEN SyncedWith(segIndex) ELSE synced
  /\ dirty' = FALSE
  /\ pc' = "tick"
  /\ UNCHANGED <<log, tail, glued, segLo, segHi, named, checkpointVars, anchor,
                 lock, role, signer, attesting, segIndex, segBytes, seq,
                 prevHash, attestVars, writeErr, broken, pruneTo, owed, stamp>>

\* Mutant of NewCheckpoint: numbered one too low.
NewCheckpointOffByOne == [seq |-> seq, recordHash |-> prevHash,
                          index |-> checkpointIndex - 1,
                          prev |-> prevCheckpointHash]

\* What appendCheckpoint signs.
NewCheckpoint == [seq |-> seq, recordHash |-> prevHash,
                  index |-> checkpointIndex, prev |-> prevCheckpointHash]

AttestSkips ==
  /\ pc \in AttestPcs
  /\ ~Attestable
  /\ ~attesting
  /\ pc' = After[pc]
  /\ UNCHANGED <<segmentVars, checkpointVars, anchor, lock, role, signer,
                 attesting, chainVars, attestVars, writeErr, broken, pruneTo,
                 owed, stamp>>

\* AppendCheckpoint: the line is signed, written and fsynced ...
AttestWrites ==
  /\ pc \in AttestPcs
  /\ Attestable
  /\ ~attesting
  /\ checks' = Append(checks, NewCheckpoint)
  /\ attesting' = TRUE
  /\ UNCHANGED <<segmentVars, checksTorn, anchor, lock, pc, role, signer,
                 chainVars, attestVars, writeErr, broken, pruneTo, owed, stamp>>

\* ... then the directory is fsynced, and the store moves its position on.
AttestDone ==
  /\ attesting
  /\ named' = segHi
  /\ attesting' = FALSE
  /\ checkpointSeq' = seq
  /\ checkpointIndex' = checkpointIndex + 1
  /\ prevCheckpointHash' = CheckpointHash(NewCheckpoint)
  /\ pc' = After[pc]
  /\ UNCHANGED <<log, tail, glued, synced, segLo, segHi, checkpointVars, anchor,
                 lock, role, signer, chainVars, writeErr, broken, pruneTo,
                 owed, stamp>>

\* The signer fails, the line is cut short, or its fsync fails after the line
\* was written.  Every caller goes on, and the store keeps its old position.
AttestFails ==
  /\ pc \in AttestPcs
  /\ Attestable
  /\ ~attesting
  /\ \/ "sign" \in Faults /\ UNCHANGED checkpointVars
     \/ "checkpoint" \in Faults /\ checksTorn' = TRUE /\ UNCHANGED checks
     \/ /\ "checkpoint" \in Faults
        /\ Len(checks) < MaxWrites  \* bound: each retry adds a line
        /\ checks' = Append(checks, NewCheckpoint)
        /\ UNCHANGED checksTorn
  /\ writeErr' = TRUE
  /\ pc' = After[pc]
  /\ UNCHANGED <<segmentVars, anchor, lock, role, signer, attesting, chainVars,
                 attestVars, broken, pruneTo, owed, stamp>>

-----------------------------------------------------------------------------
(* The end of a process *)

\* Close: the queue is drained, so what follows is shutdown.
Close ==
  /\ pc = "idle"
  /\ role = "repair" => ~owed \/ writeErr
  /\ pc' = "shut"
  /\ UNCHANGED <<segmentVars, checkpointVars, anchor, lock, role, signer,
                 attesting, chainVars, attestVars, writeErr, broken, pruneTo,
                 owed, stamp>>

\* The lock is removed last.
Release ==
  /\ pc = "release"
  /\ lock' = FALSE
  /\ pc' = "down"
  /\ Forget
  /\ UNCHANGED <<segmentVars, checkpointVars, anchor, pruneTo, owed, stamp>>

\* The process is killed.  What it wrote stays in the page cache.
Crash ==
  /\ pc # "down"
  /\ pc' = "down"
  /\ Forget
  /\ UNCHANGED <<segmentVars, checkpointVars, anchor, lock, pruneTo, owed, stamp>>

\* How the newest surviving segment t may end when the first k records are
\* left: as it was, on a record boundary, inside the record that was cut or was
\* being written, or with just its last newline missing.
TailsAfter(t, k) ==
  LET untouched == k = Len(log) /\ t = segHi
      cut == k < Len(log) /\ log[k + 1].seg = t
      writing == pc = "put" /\ broken = "no" /\ segIndex = t /\ untouched
                 /\ tail = "clean"
      bare == /\ "newline" \in Faults
              /\ k > synced
              /\ log[k].seg = t
              /\ k - 1 \notin glued
  IN  {e \in {"clean", "torn", "noeol"} :
         \/ untouched /\ e = tail
         \/ e = "clean" /\ (~untouched \/ tail = "torn")
         \/ e = "torn" /\ (cut \/ writing)
         \/ e = "noeol" /\ bare}

\* The machine loses power.  Every fsynced record stays, unless its file's
\* directory entry was never fsynced; of the rest some prefix does.  No second
\* power loss splits a line that already lost its newline.
PowerLoss ==
  /\ "power" \in Faults
  /\ \E t \in named .. segHi, k \in 0 .. Len(log) :
        /\ "entry" \notin Faults => t = segHi
        /\ segLo <= segHi => segLo <= t
        /\ k \notin glued
        /\ \A i \in DOMAIN log :
              /\ i <= k => log[i].seg <= t
              /\ i <= synced /\ log[i].seg <= t => i <= k
        /\ log' = SubSeq(log, 1, k)
        /\ tail' \in TailsAfter(t, k)
        /\ glued' = {i \in glued : i < k}
        /\ synced' = k
        /\ segHi' = t
        /\ named' = t
  /\ \/ UNCHANGED checksTorn
     \/ /\ "checkpoint" \in Faults
        /\ pc \in AttestPcs /\ Attestable /\ ~attesting
        /\ checksTorn' = TRUE
  /\ pc' = "down"
  /\ pruneTo' = 0
  /\ Forget
  /\ UNCHANGED <<segLo, checks, anchor, lock, owed, stamp>>

-----------------------------------------------------------------------------
(* The repair command *)

\* An operator removes the lock of a process that is gone.
RemoveLock ==
  /\ pc = "down"
  /\ lock
  /\ lock' = FALSE
  /\ UNCHANGED <<segmentVars, checkpointVars, anchor, controlVars, chainVars,
                 attestVars, writeErr, broken, pruneTo, owed, stamp>>

\* Mutant of Repair: the last whole record goes with the fragment.
RepairOneTooMany ==
  /\ pc = "down"
  /\ CanRepair
  /\ log # <<>>
  /\ log' = SubSeq(log, 1, Len(log) - 1)
  /\ glued' = {}
  /\ tail' = "clean"
  /\ synced' = Len(log) - 1
  /\ named' = segHi
  /\ owed' = TRUE
  /\ role' = "repair"
  /\ pc' = "reopen"
  /\ UNCHANGED <<segLo, segHi, checkpointVars, anchor, lock, signer, attesting,
                 chainVars, attestVars, writeErr, broken, pruneTo, stamp>>

\* Repair truncates the fragment and fsyncs the file and the directory.
Repair ==
  /\ pc = "down"
  /\ CanRepair
  /\ tail' = "clean"
  /\ synced' = SyncedWith(segHi)
  /\ named' = segHi
  /\ owed' = TRUE
  /\ role' = "repair"
  /\ pc' = "reopen"
  /\ UNCHANGED <<log, glued, segLo, segHi, checkpointVars, anchor, lock, signer,
                 attesting, chainVars, attestVars, writeErr, broken, pruneTo,
                 stamp>>

\* recordRepair opens the store without a key; Take, Put and Close follow.  When it
\* cannot be opened the command ends as in Crash.
Reopen ==
  /\ pc = "reopen"
  /\ UNCHANGED <<role, signer>>
  /\ OpenDirectory

-----------------------------------------------------------------------------
(* The retention command, while a server may be running *)

\* classify: the newest segment is never eligible.
Prunable == segLo .. segHi - 1

\* buildAnchor: n is the last record of the segments segLo .. t.
AnchorAt(n, t) ==
  /\ log[n].seg \in segLo .. t
  /\ \A i \in DOMAIN log : log[i].seg <= t => i <= n

\* Enforce has read every segment, found segLo .. t beyond retention and no
\* legal hold, and writes the anchor: the last record of the run, if there is
\* one.  The newest segment is never in the run.
EnforceAnchor ==
  /\ pruneTo = 0
  /\ tail # "torn"
  /\ \A i \in glued : log[i].seg < segLo
  /\ \E t \in Prunable :
        /\ pruneTo' = t
        /\ \/ /\ \A i \in DOMAIN log : log[i].seg \notin segLo .. t
              /\ UNCHANGED <<anchor, named>>
           \/ \E n \in DOMAIN log :
                /\ AnchorAt(n, t)
                /\ log[n].seq >= anchor.seq
                /\ n < Len(log) => /\ log[n + 1].prevHash = log[n].hash
                                  /\ log[n + 1].seq = log[n].seq + 1
                /\ anchor' = [seq |-> log[n].seq, hash |-> log[n].hash]
                /\ named' = segHi
  /\ UNCHANGED <<log, tail, glued, synced, segLo, segHi, checkpointVars, lock,
                 controlVars, chainVars, attestVars, writeErr, broken, owed,
                 stamp>>

\* Mutant of EnforceUnlink: one segment more than the anchor covers.
EnforceUnlinkOneMore ==
  /\ pruneTo # 0
  /\ segLo <= segHi
  /\ segLo' = segLo + 1
  /\ pruneTo' = IF segLo > pruneTo THEN 0 ELSE pruneTo
  /\ UNCHANGED <<log, tail, glued, synced, segHi, named, checkpointVars, anchor,
                 lock, controlVars, chainVars, attestVars, writeErr, broken,
                 owed, stamp>>

\* Segments go one at a time, oldest first.
EnforceUnlink ==
  /\ pruneTo # 0
  /\ segLo' = segLo + 1
  /\ pruneTo' = IF segLo = pruneTo THEN 0 ELSE pruneTo
  /\ UNCHANGED <<log, tail, glued, synced, segHi, named, checkpointVars, anchor,
                 lock, controlVars, chainVars, attestVars, writeErr, broken,
                 owed, stamp>>

\* The command is killed, or an unlink fails.
EnforceStops ==
  /\ pruneTo # 0
  /\ pruneTo' = 0
  /\ UNCHANGED <<segmentVars, checkpointVars, anchor, lock, controlVars,
                 chainVars, attestVars, writeErr, broken, owed, stamp>>

-----------------------------------------------------------------------------
Init ==
  /\ log = <<>> /\ tail = "clean" /\ glued = {} /\ synced = 0
  /\ segLo = 1 /\ segHi = 0 /\ named = 0
  /\ checks = <<>> /\ checksTorn = FALSE
  /\ anchor = NoAnchor
  /\ lock = FALSE
  /\ pc = "down" /\ role = "none" /\ signer = FALSE /\ attesting = FALSE
  /\ segIndex = 0 /\ segBytes = 0 /\ seq = 0 /\ prevHash = GenesisHash
  /\ dirty = FALSE
  /\ checkpointSeq = 0 /\ checkpointIndex = 0
  /\ prevCheckpointHash = GenesisCheckpointHash
  /\ writeErr = FALSE /\ broken = "no"
  /\ pruneTo = 0 /\ owed = FALSE /\ stamp = 0

WriterStep ==
  \/ Put \/ PutFails \/ Seal \/ SealFails \/ OpenNext \/ OpenNextFails
  \/ AttestSkips \/ AttestWrites \/ AttestDone \/ AttestFails \/ Release

Next ==
  \/ Open \/ Take \/ Sync \/ SyncFails \/ CheckpointTimer \/ Close
  \/ WriterStep
  \/ Crash \/ PowerLoss
  \/ RemoveLock \/ Repair \/ Reopen
  \/ EnforceAnchor \/ EnforceUnlink \/ EnforceStops

Spec == Init /\ [][Next]_vars

-----------------------------------------------------------------------------
(* Properties *)

SegmentTypes ==
  /\ log \in Seq(Records)
  /\ tail \in {"clean", "torn", "noeol"}
  /\ glued \subseteq DOMAIN log
  /\ synced \in 0 .. Len(log)
  /\ segLo \in Nat \ {0} /\ segHi \in Nat /\ named \in 0 .. segHi

FileTypes ==
  /\ checks \in Seq(Checkpoints) /\ checksTorn \in BOOLEAN
  /\ anchor \in [seq : Nat, hash : Nat]
  /\ lock \in BOOLEAN

ProcessTypes ==
  /\ pc \in {"down", "reopen", "idle", "seal", "open", "put", "shut", "release"}
            \cup AttestPcs
  /\ role \in {"none", "server", "repair"}
  /\ signer \in BOOLEAN /\ attesting \in BOOLEAN
  /\ segIndex \in Nat /\ segBytes \in Nat /\ seq \in Nat /\ prevHash \in Nat
  /\ dirty \in BOOLEAN
  /\ checkpointSeq \in Nat /\ checkpointIndex \in Nat
  /\ prevCheckpointHash \in Nat \X Nat
  /\ writeErr \in BOOLEAN
  /\ broken \in {"no", "flush", "closed"}
  /\ pruneTo \in Nat
  /\ owed \in BOOLEAN
  /\ stamp \in Nat

\* Every variable has its type; fsync has not covered more than was written,
\* and no directory entry is durable that was not made.
TypeOK == SegmentTypes /\ FileTypes /\ ProcessTypes

\* One chain: sequence numbers run from 1 without a gap and every record links
\* to the one before it, whatever was killed, lost, repaired or pruned in
\* between, and wherever the head had to be recovered from.
ChainIntact ==
  \A i \in DOMAIN log :
    /\ log[i].seq = i
    /\ log[i].prevHash = IF i = 1 THEN GenesisHash ELSE log[i - 1].hash

\* A checkpoint is about a record the chain still has: no crash, power loss or
\* repair takes a record a signature covers, or puts another in its place.
AttestedNeverLost ==
  \A c \in DOMAIN checks :
    /\ checks[c].seq \in DOMAIN log
    /\ log[checks[c].seq].hash = checks[c].recordHash

\* checkpoint() fsyncs first, so that a checkpoint never attests to bytes a
\* power cut could still take away; a restart forgets what is dirty.
AttestedIsSynced == \A c \in DOMAIN checks : checks[c].seq <= synced

\* Checkpoints number and link themselves without a gap across restarts, so
\* that a gap means a deletion.
CheckpointChainIntact ==
  \A c \in DOMAIN checks :
    /\ checks[c].index = c - 1
    /\ checks[c].prev = IF c = 1 THEN GenesisCheckpointHash
                        ELSE CheckpointHash(checks[c - 1])

\* A log that has lost its front can prove that policy removed it: the anchor
\* names a record at or after every deleted one, by its true hash, at every
\* moment of a prune, an interrupted one included.
DeletionAccounted ==
  /\ \A i \in DOMAIN log : log[i].seg < segLo => i <= anchor.seq
  /\ anchor.seq # 0 => /\ anchor.seq \in DOMAIN log
                       /\ anchor.hash = log[anchor.seq].hash

\* Records sit in their segments in order, and no segment outgrows its bound,
\* across restarts in the middle of a segment.
SegmentsOrdered ==
  /\ \A i \in DOMAIN log :
        /\ log[i].seg \in 1 .. segHi
        /\ i > 1 => log[i - 1].seg <= log[i].seg
  /\ \A n \in 1 .. segHi : RecordsIn(n) <= SegmentMax

\* Retention never takes the segment the writer is in, nor a record that only
\* the page cache holds.
WriterSegmentKept ==
  /\ \A i \in DOMAIN log : log[i].seg < segLo => i <= synced
  /\ segHi > 0 => segLo <= segHi

-----------------------------------------------------------------------------
(* What the documents say and the code does not do *)

\* README.md: "a crash-damaged log is repairable in one command".
CrashRepairable == pc = "down" /\ tail = "torn" => CanRepair

\* README.md on repair: "Finish a write a power loss interrupted, so the server
\* can start again".  A stale lock is taken to be removed by then.
RestartPossible == pc = "down" => CanOpen \/ Repairable

\* docs/SCHEMA.md: "Checkpoints are written on every segment rotation, on a
\* timer, and on clean shutdown".
ShutdownAttestsHead ==
  pc = "release" /\ signer /\ ~writeErr /\ seq # 0 =>
    /\ checks # <<>>
    /\ checks[Len(checks)].seq = seq

-----------------------------------------------------------------------------
(* The store implements the log it promises *)

Log == INSTANCE EvidenceLog WITH
  Hash      <- 1 .. MaxWrites,
  records   <- [i \in DOMAIN log |-> log[i].hash],
  attested  <- IF checks = <<>> THEN 0 ELSE checks[Len(checks)].seq,
  accounted <- anchor.seq,
  deleted   <- Cardinality({i \in DOMAIN log : log[i].seg < segLo})

\* Every step appends, attests the head, loses only an unattested tail,
\* accounts for a prefix or deletes an accounted one.
ImplementsLog == Log!LogSpec

-----------------------------------------------------------------------------
(* Liveness *)

\* The writer goroutine never stops by itself, and its select picks any ready
\* case, so a due checkpoint is not put off for ever.
FairSpec == Spec /\ WF_vars(WriterStep) /\ SF_vars(CheckpointTimer)

Attested(n) == checks # <<>> /\ checks[Len(checks)].seq >= n

\* A record written with signing on is attested after a while, by the timer, a
\* rotation or Close, unless the process dies or has recorded an error.
WrittenIsAttested ==
  \A n \in 1 .. MaxWrites :
    (signer /\ dirty /\ seq = n)
      ~> (Attested(n) \/ writeErr \/ (pc = "down" /\ lock))
=============================================================================
