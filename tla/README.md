# Flugschreiber in TLA+

Flugschreiber is a proxy in front of language-model APIs that records every
interaction in a tamper-evident log: hash-chained records in segment files,
signed checkpoints over the head of the chain, a prune anchor that accounts for
what retention deleted, content sealed under keys that can be destroyed, and a
copy offsite. Its promises are about years of restarts, crashes, power losses,
repairs, prunes, rotations and erasures, which is what these modules are for.

## The system

| Component | State | Operations | What makes it hard |
|---|---|---|---|
| Evidence store (`evidence/store.go`) | segment files; in memory the head (`seq`, `prevHash`), the size of the open segment, `dirty`, the position of the last checkpoint, a sticky `writeErr`, a queue | `Open`, `Append`, the writer goroutine (`write`, `rotate`, `sync`, `checkpoint`, `shutdown`), `Close` | kills between any two writes, power loss, full disks, failed fsyncs, many goroutines in front of one writer |
| Checkpoints (`checkpoint.go`, `signer.go`) | `checkpoints.jsonl`, one signed line each | `AppendCheckpoint`, `recoverCheckpointChain`, `ReadCheckpoints` | order of fsync and signature, a chain of its own across restarts |
| Repair (`repair.go`, `cli/repair.go`) | none | `FindTornRecord`, `refuseIfAttested`, `Repair`, `recordRepair` | must not remove what is attested, nor run beside a writer |
| Retention (`retention.go`, `anchor.go`) | `pruned.json`, `LEGAL_HOLD` | `Inspect`, `Enforce` | runs beside a server; anchor before unlink; interrupted runs |
| Writer lock (`lock.go`) | `writer.lock`: PID, host | `claimWriterLock`, `removeWriterLock`, `refuseWhileWriterHolds` | check-then-write, stale locks, reused PIDs, shared volumes |
| Verification (`verify.go`, `scan.go`) | none | `Verify` | has to accept every state the others can leave, and nothing else; races the server |
| Signing keys (`keys.go`, `keyset.go`, `rotate.go`, `cli/keys.go`), external signer (`custody/execsigner.go`) | three key files and `keys/` | `LoadOrCreateKeyPair`, `RotateKey`, `RetirePublicKey` | several files replaced one after the other, beside starting servers |
| Content keystore (`contentkeys.go`, `contentjournal.go`, `cli/erase.go`) | a base file, a journal, tombstones | `KeyFor`, `Erase`, `MarkRecorded`, compaction | an erased key must not come back; the chain must say so in the end |
| Content capture and encryption (`content/`) | none | `Payload`, `EncryptEvent` | fails closed |
| Archiver (`archiver.go`), object stores (`archive/`) and their check (`archivecheck/`) | a bounded queue, what was sent; the bucket | `enqueueUpload`, `archiveCatchUp`, `upload`, the drain at `Close` | never blocks the writer, so it drops; has to converge over restarts |
| Timestamps (`timestamp.go`, `custody/tsa.go`) | `timestamps.jsonl`, a bounded queue | `maybeTimestamp`, `RequestTimestamp`, `stopTimestamps` | as the archiver |
| Proxy capture (`proxy/proxy.go`, `capture.go`, `intervention.go`), `cli/serve.go` | one capture per request, the set of live ones | `handleProxy`, `finish`, `errorHandler`, `handleEvents`, `AbandonInFlight` | the end of a stream, an error and the shutdown race; exactly one record |
| Routing (`proxy/router.go`, `peek.go`) | none | `globMatch`, `selectRoute`, `scanModel` | pure algorithms |
| OpenAI parsing (`openai/`) | none | `ParseResponse`, `ParseStream` | a stream cut anywhere, events in any framing |
| Audit and export (`audit/`) | none; a bundle | `Export`, `Reconstruct`, `Analyse` | `Export` reads a directory that is being written |
| Reports, PDF, site, metrics, configuration, command line, mock upstream | none that outlives a call | formatting, dispatch | out of scope |

The proxy appends events to the store; the store's writer goroutine is the only
one to touch segments and checkpoints while it runs, and hands sealed segments
to the archiver and checkpoints to the timestamper through bounded queues. The
commands `repair`, `retention`, `keys rotate`, `erase`, `verify` and `export` are
processes of their own and meet the server only in the directory: repair,
rotation and erasure refuse when `writer.lock` is there, the others do not.

What would have to be true of each part:

- store: one chain, whatever happened; attested records are on stable storage
  and never lost; what is accepted is written or the loss is reported
- checkpoints: every record of a living, signing process is attested in the
  end; the checkpoint chain has no gap that is not a deletion
- repair: never removes a whole record; always possible after a crash
- retention: deletes a prefix that is old enough, accounts for it first, never
  touches the open segment, can always be finished
- lock: never two writers; a crash never blocks a restart
- verification: no damage is reported for any state the program alone can
  reach; any deletion or change of what is attested is
- keys: after a kill at any point there is a way forward, and every checkpoint
  stays verifiable with the keys that are there
- keystore: an erased key stays erased; a key that sealed a record and was not
  erased stays readable; the keystore never claims a record of an erasure that
  is not in the chain
- archiver: a run that reported nothing left nothing behind; archive-verify
  accuses no honest archive
- capture: exactly one record per request that was relayed, marked when it is a
  fragment, with no text the mode forbids

The hazards of the code, each at its line, with the properties about it, are in
`PROJECT.json`.

## Modules

| Module | Models | Built on |
|---|---|---|
| `EvidenceLog` | the abstract store: an append-only log, a prefix attested, a prefix accounted for, a shorter prefix deleted | |
| `EvidenceStore` | the evidence directory and the processes on it | implements `EvidenceLog` |
| `StoreQueue` | `Append` from many goroutines, the bounded channel, the writer's loop, `Close` | |
| `ErasableContent` | the abstract keystore: a record is written once, its text is readable until it is erased, and then never again, unless the whole keystore locks up | |
| `ContentKeystore` | keystore file, journal, the server that mints keys, the erase command | implements `ErasableContent` |
| `WriterKeys` | processes, hosts and PIDs around `writer.lock` and the key files; rotation and retirement | |
| `ObjectStore`, `Timestamping` | what an answer of an object store means; which reply of an authority is recorded | |
| `ArchiveUpload` | the writer's offers, the queue, the upload and timestamp goroutines, the order of `Close` | extends both |
| `ArchiveVerify` | archive-verify over that state | extends `ArchiveUpload` |
| `Verification` | the verify command as a function from files to kinds of problem | |
| `Retention` | retention, a server, verify and export on one directory | extends `Verification` |
| `Routing` | the glob matcher, the choice of a route, the look at the body | |
| `ProxyCapture` | requests from arrival to record, the events endpoint, the shutdown | extends `Routing` |
| `StreamAssembly` | the text and calls recorded of a body or an event stream | |
| `Inspection` | what inspect and coverage say of a log | |
| `EvidenceStore_proofs`, `StoreQueue_proofs`, `ContentKeystore_proofs`, `WriterKeys_proofs`, `ArchiveVerify_proofs`, `Retention_proofs`, `ProxyCapture_proofs` | the theorems | each extends the module it is named after |
| `Verification_proofs` | the theorems about what verify reports | extends `Retention_proofs` |
| `MC...` | sets and model values for TLC; `MCStreamAssembly` and `MCInspection` state what holds of the pure modules as assumptions TLC evaluates | |

Every run of this table is to be started with the module and the `.cfg` named in
`PROJECT.json`:

| Run | Shows |
|---|---|
| `store` | the chain, the checkpoints and the anchor under every fault but torn checkpoint lines and lost directory entries; refinement of `EvidenceLog`; liveness of attestation |
| `queue` | order, loss and the end of `Append` and `Close` |
| `content_keys` | the keystore keeps the promise of `ErasableContent` |
| `writer_keys` | one writer, no forked chain, usable keys |
| `archive` | completeness after a clean run, no false mismatch, no damage passed |
| `retention` | pruning accounted for and resumable, verify neither too strict nor too lax, bundles that hold together |
| `proxy` | one record per request, marked fragments, no text the mode forbids; the assumptions about the pure modules |
| `queue_signing`, `store_restart`, `writer_race`, `bundle_race`, `archive_size` | the findings |

No run checks deadlock: in every one the bounds run out (writes, calls, starts,
keys, erasures), and a directory that can be neither opened nor repaired is a
state of the real system. That nobody waits for ever is said where it matters, by
the liveness properties.

## EvidenceStore

### State

The segment files are one sequence `log` of records `[seq, hash, prevHash, seg]`.
`segLo .. segHi` are the files that exist; records of deleted segments stay in
`log` as history, so that properties can speak about them, but nothing that
models reading the directory looks at them (`HoldsRecords`, `RecoveredHead`).
`tail` is how the newest file ends, `glued` the records that share a line with
their successor, `synced` how many records an fsync has covered, `named` the
newest file whose directory entry is durable. `checks`, `anchor` and `lock` are
`checkpoints.jsonl`, `pruned.json` and `writer.lock`. The fields of `Store` keep
their names, except that `checkpoints` and `file` are covered by `checks` and
`broken`. A record hash is a fresh number, because two writes never have the
same preimage; sizes are counted in records.

### Actions

| Action | Code |
|---|---|
| `Open`, `Reopen` | `Open`, called by `serve` and by `recordRepair` |
| `Take`, `Put`, `PutFails` | the queue case of `run`, `write` |
| `Sync`, `SyncFails` | `sync` on the ticker |
| `CheckpointTimer` | `checkpoint` on the ticker |
| `Seal`, `SealFails` | `closeSegment`, in `rotate` and in `shutdown` |
| `AttestSkips`, `AttestWrites`, `AttestDone`, `AttestFails` | `appendCheckpoint`, from all three callers |
| `OpenNext`, `OpenNextFails` | `openSegment` in `rotate` |
| `Close`, `Release` | `Close`, `removeWriterLock` |
| `Crash`, `PowerLoss` | the process is killed; the machine stops |
| `RemoveLock`, `Repair` | an operator; `Repair` |
| `EnforceAnchor`, `EnforceUnlink`, `EnforceStops` | `Enforce`: anchor, one unlink, an interruption |

A write of one record is one step, since it is one `write` call and its
partial outcomes are those of `PutFails` and `PowerLoss`. Writing a checkpoint
line and its return are two steps, because a kill in between leaves the line on
disk. A prune is a step for its anchor and one for each file.

The environment is the constant `Faults`. A power loss (`"power"`) keeps every
fsynced record and a prefix of the rest; with `"newline"` it may take just the
last byte, with `"entry"` a whole file whose directory entry was never fsynced.
`"disk"`, `"fsync"`, `"open"` and `"sign"` let a write, an fsync, the creation of a
segment and a signature fail. With `"checkpoint"` a checkpoint line may be cut
short or its fsync may fail. Left out: a second power loss that splits a line two
records already share, a fragment written behind a line that lost its newline, an
unlink of a prune that a power loss takes back because the directory was not synced
yet, and the loss of the directory entry of `checkpoints.jsonl`.

### Run `store`

Two records a segment, five writes, the faults `"power"`, `"newline"`, `"disk"`,
`"fsync"`, `"open"` and `"sign"`. Five writes give three segments, a prune of one or
two of them, and a repair, a restart and a power loss between any two writes.
`MaxWrites` counts writes and not surviving records, so lost ones use it up; it
also bounds how often a checkpoint whose fsync failed is tried again.

- `ChainIntact`: sequence numbers without a gap and links without a fork,
  through every recovery of the head, from segments or from the anchor.
- `AttestedNeverLost`: the record a checkpoint is about is in the log under that
  hash, on all three paths that attest.
- `CheckpointChainIntact`: checkpoints number and link themselves without a gap.
- `DeletionAccounted`: at every moment of a prune the anchor covers what is gone.
- `ImplementsLog`: refinement of `EvidenceLog`: a power loss takes only what is
  neither attested nor accounted for.
- `WrittenIsAttested`: liveness.

`SegmentsOrdered` (records sit in their segments in order, and no segment outgrows its
bound, through every `Open` that goes on with the size it finds), `AttestedIsSynced` and
`WriterSegmentKept` are stated in the module as well and proved for every instance, so
no run repeats them.

`AttestedNeverLost` and `AttestedIsSynced` are not claimed with `"entry"`: `openSegment`
does not fsync the directory, and a checkpoint over a new segment is written
before `AppendCheckpoint` does. Whether a file system loses the entry of an
fsynced file is outside the repository. `CheckpointChainIntact` is not claimed
with `"checkpoint"`: a line that was written and whose fsync failed leaves the
store at its old index, and the next checkpoint repeats it. The chain and the
deletions are proved for every set of faults, these two included, so no second
run repeats them.

Fairness (`FairSpec`): weak fairness on the steps of the writer goroutine once it
has started something: nothing in the code makes it wait for another party. The
checkpoint timer competes in a `select` with the queue and the sync timer; Go
picks a ready case at random, so a timer that is due again and again is not put
off for ever: strong fairness. There is none on requests, crashes, the operator
or the retention command.

## StoreQueue

A call of `Append` is a goroutine with one event, as in the proxy, so `call[c]` is
both. `queue`, `closed`, `done`, `writeErr`, `closeErr` have the names of the code;
`queueClosed` is the state of the channel. `lost` and `earlier` are history: the
events whose own write failed, and what had succeeded before a call began.

| Action | Code |
|---|---|
| `CheckClosed`, `CheckErr` | the two loads at the start of `Append` |
| `Send`, `SendRefused`, `SendPanics` | its `select`; a send on a closed channel panics, also when the sender was waiting |
| `Report` | what the proxy does when `Append` returned nil |
| `Receive`, `Write`, `WriteFails`, `TimerFails` | the loop of `run` |
| `Shutdown` | `shutdown`, when the closed channel is empty |
| `CloseFlag`, `CloseQueue`, `CloseDone`, `CloseReturn` | `Close`, one step for each thing another goroutine can see |
| `Kill` | the process is killed |

What a write does to the files is `EvidenceStore`: its `Take` is `Receive`, its `Put`
and `PutFails` are `Write` and `WriteFails`, its `Close` is `CloseFlag` and
`CloseQueue`, its `Release` the end of `CloseReturn`. A fault may only strike where
the code does something that can fail: a timer syncs or signs only when this
process has written something.

Run `queue`: three calls, a queue of one, every fault. One event with the writer,
one in the queue and one waiting for room is every situation a call can be in;
with three calls each of them occurs together with each step of `Close`.

- `WrittenInCallOrder`: each event once, and in an order that respects which
  `Append` returned before which began.
- `AcceptedIsWritten`: `Close` has drained the queue; an error, even one that
  makes `Append` refuse, drops nothing that was accepted.
- `LossIsReported`: what is missing shows in `Err` and in the result of `Close`.
- `NothingAfterClose`: once `Close` has returned, and the lock is free for another
  process, nothing is accepted or written.
- `EveryCallEnds`, `CloseReturns`: liveness, under weak fairness for each call that
  has begun, for the writer and for `Close` once it has begun: a goroutine that can
  run is scheduled. Beginning a call, a fault, a timer and a shutdown are not
  fair. The drain of the archive in `CloseReturn` has a time limit in the code
  (`drainWithin`).

A send on the closed channel is an end of a call here, the panic of the code; neither
property forbids it (`FullQueueNeverDrops`, further disagreements, does).

## ContentKeystore

A key is its number; a record is readable while its key is in the keystore and every
line of the journal parses (`Openable`, `ContentOf`): `readJournal` refuses the whole
file for one line that does not. `disk` is `content-keys.json` (its keys and
tombstones, replaced as a whole), `journal` the lines of `content-keys.jsonl`,
`server.mem` and `eraser.mem` what each process read into memory and writes back.
`owner` says for which session a key was minted.

| Action | Code |
|---|---|
| `ServerStart`, `ServerLoad` | `serve`: the store and its lock first, then `OpenContentKeystore` |
| `KeyForKnown`, `KeyForNew`, `JournalWrite`, `JournalSync`, `CompactSave`, `CompactUnlink` | `KeyFor`, with `appendJournal` or `compactLocked`; each failure ends in `KeyForFails` |
| `LogRecord`, `ServerStop`, `ServerKilled` | the record gets to the log; the ends of a server |
| `EraseStart`, `EraseOpen`, `EraseScan`, `EraseSave`, `EraseUnlink`, `EraseReport`, `EraseRecord`, `EraseKilled` | `erase --confirm`: the lock, the keystore, the scan, `Erase`, the event in the chain, `MarkRecorded` |

Run `content_keys`: three requests, two of one session and one of none (the
server keys the first two together and the third alone), three keys, two
starts, three runs of erase, compaction after one key so that both ways of
making a key durable happen; kills, failing I/O and torn journal lines.

- `KeepsContentPromise`: refinement of `ErasableContent`. A sealed text can be read
  from the files alone until its key is erased, whatever process died or call failed
  in between, and an erased one never again. A power loss in the middle of a journal
  line is the one exception, and a step of its own in `ErasableContent` (`LockUp`,
  allowed only with `"torn"`): from then on no text can be read, nothing is written
  or erased any more, and the keys are all still there. That the keystore opens
  again is not claimed; the code has no repair for it.
- `SealedKeyIsDurable`: before a record is in the log its key is on disk.
- `RecordedIsInChain`: a tombstone says "recorded" only when the chain does,
  across runs that died half-way.
- `ErasureIsFinal`: no rewrite of the file loses a tombstone or its note.

The refinement and `ErasureIsFinal` need that no server starts between the writer
check of `erase` and its deletion (`Faults` without `"overlap"`): see the further
disagreements. A legal hold in force refuses an erasure before anything is read and is
not a state of the model. A power loss that takes just the newline of a journal line
is left out. A partly written
line (`"partial"`) is a torn one that the server survives: its later lines share
it and are lost with it, so `SealedKeyIsDurable` is not claimed with it.

## WriterKeys

`procs[p]` is the process in a slot: its program counter, role (server, rotation,
retirement), host, PID, the key it loaded and the head it recovered. `lock` is
`writer.lock`; `priv`, `pub` and `retired` are the key files; `helper` and
`configured` the two sides of an external signer.

| Action | Code |
|---|---|
| `LoadKey`, `CreateKey`, `Reconcile` | `LoadOrCreateKeyPair`, `createKeyPair` with its exclusive link, `reconcilePublicKey` |
| `RecoverHead`, `Claim`, `WriteLock` | `Open`: `recoverChainHead`, then `claimWriterLock` |
| `AppendRecord`, `SignCheckpoint`, `Close` | the running store, `removeWriterLock` |
| `CheckLock`, `RetireOld`, `WritePublic`, `WritePrivate`, `RetireConfigured` | `keys rotate` and `keys retire` |
| `RotateHelper`, `Repoint`, `RestorePublic`, `Start`, `Kill` | the operator and the machine |

Run `writer_keys`: two processes, two hosts, two PIDs, three keys, four starts;
kills, reused PIDs, servers that start in the middle of a rotation. Two of each
are enough for a lock of a live holder, of a dead one, of another host and of a
PID somebody else has; four starts for two rotations with a server between.
Without the fault `"race"` what runs inside `Open` is not interleaved: with it
`NoForkedChain` is the finding of `writer_race`, and `OneWriter` fails as well, as two
processes can read the same stale lock and both take it.

- `OneWriter`, `NoForkedChain`: never two writers, and no record numbered from a
  head another process has moved on from.
- `CheckpointsVerifiable`: every checkpoint is signed with a key that is in the
  directory, through rotations killed between any two files, racing creators
  of the first key, and a server that loaded its key before a rotation.
- `KeysRecoverable`: a rotation that died between the key files can be undone.
- `KeyNeverLost`: a private key gives way only to a rotation that filed its
  public half.

## ArchiveUpload, ArchiveVerify, ObjectStore, Timestamping

Files only grow, so a file or an object is a number: a segment its last record,
`checkpoints.jsonl` its lines, a key file its key. `ends`, `pruned`, `cks`, `stamps`, `pub`
are the directory; `pc` and `ckSeq` the writer; `queue`, `job`, `sent` the upload
goroutine; `tsq` the checkpoints waiting for an anchor; `arch` the bucket.

| Action | Code |
|---|---|
| `Open`, `Write`, `Seal`, `Rotate`, `Tick` | the store, reduced to what it offers: `archiveVerificationKeys`, `archiveCatchUp`, `archiveSealedSegment` and the snapshots, all through `Offer` (`enqueueUpload`) |
| `Take`, `AskExists`, `Put` | `archiveLoop`, `upload`, `Client.Exists` and `Client.Put` with the retries of `do`; `Dir.Put` is the case without failures |
| `Anchor` | `timestampLoop` |
| `Shutdown`, `StopTimestamps`, `StopArchive` | the order of `Close`: last offers, `stopTimestamps`, the anchors once more, `drainWithin` |
| `Kill`, `RotateKey`, `Prune` | a kill, `keys rotate` with the server down, retention |

`ObjectStore` says what an answer means: which failures `do` repeats, when an object
that is not found is absent rather than behind a missing bucket (`confirmBucket`), which
bodies are taken at all. `Timestamping` says which token of which reply is recorded.
Their assumptions are evaluated with the run. `ArchiveVerify` derives the keys
archive-verify asks for from the directory and gives each its status.

Run `archive`: two records in up to two segments, two keys, two starts, one anchor, two
failing requests with two attempts each, a queue of four; kills, failing requests and
signatures. Two segments are one sealed and one open; two starts are a run and its
catch-up; the queue overflows at a shutdown that offers five files. Kills inside a
rotation (`"rotate"`) are left out of this run: see the further
disagreements (`SealedIsFinal`). A catch-up offers its keys in one step, with the
queue as it is then: the code's upload goroutine may take from the queue in between,
so that fewer of them are dropped. The record a key rotation writes never fills its
segment. The timestamp queue has room for every checkpoint; of a full one the code
counts what it drops.

- `ShutdownComplete`: a run that closed and counted no failure left the key of every
  sealed segment, the open one at its head, the whole checkpoint file, every anchor
  and every retired key in the archive; and, when no rotation died between its two
  halves, every sealed segment as long as its file. The object `public-key.pem`
  may be older than the file (`ArchivedKeysSuffice`, further disagreements).
- `NoFalseMismatch`: archive-verify accuses no honest archive.
- `DamageReported`: an object that no longer serves the purpose its key names is
  never passed.
- `NothingShrinks`: a repeated or doubtful upload never removes or shortens anything.

## Verification and Retention

In `Verification` a hash is the sequence of all it covers, so equal hashes mean equal
contents, and a signature is what was signed. A directory is a record of anchor,
keys, checkpoints, stamps and segments; `Problems(d)` is the set of problem kinds that
`Verify` reports of it, in the parts of the code: the anchor and its signature, the
checkpoints and their linkage, the time stamps, the walk over the records with the
anchor watch, and what the walk did not see.

`Retention` puts it to use: a server (`Write`, `Rotate`, `Attest`), time (`Age`), the
operator (`SetHold`), `Enforce` as `Start`, `Scan`, `Check`, `WriteAnchor`, `Unlink`,
`Kill`, the verify command as `ReadAnchor`, `ReadCheckpoints`, `ReadSegments`, and the
export as `Collect`, `VerifyForManifest`, `CopySegment`, `CopyCheckpoints`, `CopyAnchor`,
`FileGrew`. Records leave the retention period in any order, because their time
stamps come from a clock that may step back.

Run `retention`: three records, three segments, three checkpoints of which the first is
from before checkpoints were chained, one enforcement run at a time. Three segments
are one pruned, one that survives and the open one, or one of two records that is
pruned with an empty one behind it; two chained checkpoints can lose the first. Verify and export do not run at the same time (they only read). A
`pruned.json` that is replaced by one of the same length between the digest and the
copy of an export is left out, and every growth of a file during its copy is `FileGrew`.

- `NoFalseAlarm`: of a log nobody touched verify reports at most an interrupted prune,
  however appends, checkpoints and kills fall between the files it reads. A prune
  that deletes while verify reads is excluded (`raced`): verify then does report
  damage, and nothing says it may be run beside one.
- `ChangeReported`: any change of a record, any rewriting, removal or cut of what is
  attested, any changed checkpoint, any removed one but the last, any other anchor is
  damage. A checkpoint that was removed counts only if a chained one is behind it: of
  those from before checkpoints were chained nothing commits to how many there were.
  Changes of the anchor are tried where records are left behind it; an anchor without a
  signature and lines that do not parse are left out.
- `PruneAccounted`: what is gone was old enough, and the anchor counts it once.
- `PruneResumes`: an interrupted prune can be finished by a second run.
- `BundleHoldsTogether`: an exported bundle verifies, unless a checkpoint or the
  anchor in it is about records written after the segments were copied. The
  exception is finding 4.

## Routing, ProxyCapture, StreamAssembly, Inspection

Each request is a goroutine: `Arrive`, `Unroutable` or `Forward`, `SendBody`, `Answered` or
`Failed`, `RelayBlock`, `ReadFails`, `CloseBody`, then `Finish`, `Untrack`, `Assemble` and
`AppendRecord`, the steps of `finish` and `record` between which others can act.
`PostEvent` is the events endpoint. `Signal`, `GraceOver`, `TakeLive`, `Abandon`,
`MarkAbandoned`, `CloseStore`, `Exit` are `serve` and `AbandonInFlight`. Bodies are counted in
blocks; a text is whether it is there and in which form. `Append1` is the interface to
`StoreQueue`: the store takes an event while it is open and its writer has met no error;
`StoreFails` is the first such error, which `Append` returns from then on.
`PostEvent` records what has the token and passes `validateEvent`. The request body is
read block by block, as far as the upstream takes it.

Run `proxy`: two requests, a look and a tap of one block, bodies of one and two blocks,
answers with a body of two blocks and an error without one, redaction with encryption
and hash mode without, one route and no default. Plain and stored text and the other
routes are left to the theorems `TextFollowsItsMode` and `RouteIsFirstMatch`, which are
about every configuration; one is enough for a request to find a route or none. Two
requests are one
that ends and one that is abandoned at each moment of the other; two blocks are
the least that can be cut. Which block limit is which does not matter beyond that.

- `EveryCaptureAccounted`: recorded at most once, recorded or counted as lost, lost
  only to a store that was closed or whose writer had failed; nothing that was being
  relayed at the end of the grace period is forgotten: it is recorded, in the hands
  of its own goroutine, or counted as lost to a writer that had failed. A request
  tracked after `AbandonInFlight` took its list is in the model and outside this
  property.
- `FragmentsAreMarked`: a record of less than the response says so.
- `TextFollowsMode`: hash mode keeps no text, redaction nothing unredacted, and
  with encryption on nothing readable, also when sealing fails.

The pure modules are checked by assumptions evaluated with this run: the glob matcher
against its definition on every pattern of up to four and name of up to three
characters (`GlobMatchIsMatches`); the assembly of event streams against the body they
stand for, over every interleaving of two choices, several framings, and cuts
(`StreamIsBody`, `CutStreamIsBeginning`, `ResponsesStreamIsBody`); the single pass of a
session query against the session (`SessionIsWhole`), sealed content against absent
content (`SealedIsNotEmpty`), and the gaps, counts and shares of coverage
(`GapsAreQuiet`, `CountsAddUp`, `SharesAreFair`).

## Findings

Each is a run that TLC refutes, with the shortest history in its trace.

1. `store_restart`: README.md says repair finishes a write a power loss interrupted so
   the server can start again. For a checkpoint line it does not.
2. `queue_signing`: store.go calls the loss of later records the one thing a failed
   signature must never cause. The rotation goes on, but the error is sticky and
   `Append` refuses from then on.
3. `writer_race`: lock.go says a second server on a directory is refused. `Open` recovers
   the head before it claims the lock; a server that recovers while another still
   writes, and claims when that one has closed, forks the chain.
4. `bundle_race`: an export beside a running server copies the segments first and the
   checkpoints and the anchor later; a bundle whose manifest says the chain verified can
   hold a checkpoint about a record it lacks, which the recipient's verify takes for
   a removal. The example deployment exports from the running pod.
5. `archive_size`: s3.go says its memory limit does not concern files. The store hands
   files over behind a limited reader that cannot be rewound, so a segment above
   32 MiB never reaches an S3 archive, and segments rotate at 64.

### Further disagreements

These properties are in the modules and TLC refutes them with the run and faults
named; they are not runs of their own.

| Property | Run, changed constants | What the code does |
|---|---|---|
| `CrashRepairable` | `store_restart` with `Faults = {"power"}` | README.md calls a crash-damaged log repairable in one command; `Repair` refuses on the lock of the dead process (repair.go:189), and `Open`, which would take it over, fails on the torn record first |
| `ShutdownAttestsHead` | the same | docs/SCHEMA.md:251 says a checkpoint is written on clean shutdown; after a crash and a restart without traffic none is, `Open` takes the head as attested (store.go:240) |
| `ReportedSurvivesKill` | `queue_signing` with `Faults = {"kill"}` | an event is reported as captured when it is queued (store.go:544 says a crash cannot lose one) |
| `FullQueueNeverDrops` | `queue_signing` with `Faults = {}` | ARCHITECTURE.md:106; a call that waits for room when `Close` closes the channel panics |
| `SealedIsFinal`, `NoFalseMismatch` | `archive` with `"rotate"` | store.go:574 and archiver.go:96 say a sealed segment never changes again, so that it may be uploaded under its final name; a server that dies, or cannot create the next segment, right after it offered the sealed one reopens that one at the next start; a record short enough to fit goes into it, is never in the object, whose key is present, and archive-verify takes the honest archive for a changed one |
| `ArchivedKeysSuffice` | `archive` | docs/SCHEMA.md says a directory reassembled from the archive verifies; the object of the public key is never replaced after a rotation, so the key in force is missing until it is retired |
| `RelayedAtStopIsRecorded` | `proxy` | serve.go:352-355; a handler that takes its capture just before `AbandonInFlight` can find the store closed |
| `AnchorNeverRewinds` | `retention` with two enforcement runs | the check and the write of the anchor are two steps |
| `HeldIsKept` | `retention` | a hold placed during a run does not stop it (retention.go:271) |
| `MediumIsIntact` | `retention` | verify.go says of medium problems that what is present is intact; `Intact` is false of an interrupted prune all the same |
| `ErasureIsFinal` | `content_keys` with `"overlap"` | a server that starts during an erase writes the keys it read back at its next compaction |
| `ReportedIsGone` | `content_keys` | a run that finds a key "already erased" reports it while an unfinished earlier run left it in the journal |
| `SealedKeyIsDurable` | `content_keys` with `"partial"` | the line after a partly written one shares it |
| `OneWriter` | `writer_keys` with `"race"` | two starts read the lock before either writes it |
| `ReplacedNeverSigns` | `writer_keys` | keyset.go says a retired key never signs again; a server that loaded it before the rotation does |
| `CrashIsNoOutage` | `writer_keys` | lock.go says a crash must not cost an outage; a reused PID keeps the lock |
| `RotatedHelperStarts` | `writer_keys` | after the documented rotation of a helper's key the old `public-key.pem` stops the start |

Seen while translating, without a property:

- an intervention posted while its request is still being answered is recorded before
  it, and a session query, being one pass, does not find it (`inspect.go:213`; a query by
  request does). `SessionIsWhole` is about logs in order.
- where a name has a literal `*`, a `*` of the pattern matches just that character and
  is no wildcard any more (`router.go:78`): `GlobMatch` and the reference agree on
  names without one.
- an upstream that answers before it has read the request leaves a digest of a part
  of it that is not marked truncated; a request without a route is recorded with the
  prefix that was read; a failed write to the client ends a relay without a read
  error (`clientLost` in `FragmentsAreMarked`); a request tracked after
  `AbandonInFlight` took its list is in nobody's list.
- a stream's tool calls are merged by index alone, over all choices; those of a cut
  Responses stream are numbered by output position.
- `RequestTimestamp` does not compare the nonce of a reply.
- a clock that steps back makes coverage report a gap over a stretch with records.

## Proofs

Eight modules hold the theorems. Each is about its module's `Spec` for every value of
the constants: any number of records, segments, processes, keys, requests or runs, and
any bound. What a theorem needs beyond the assumption its module makes of the constants
is in the column "Assumes"; most need nothing and hold under every fault. A fault that
is excluded is one under which TLC refutes the property, or the invariant it rests on. The assumptions on the
constants say that bounds are numbers and that limits (queue depth, attempts, segment
size, tap, look, the limit for a body) are not zero, as the code's defaults ensure.

None of the properties is inductive. The module's inductive invariant is what the code
relies on without saying it, and was checked by TLC on the run's instance first.

### `EvidenceStore_proofs`

| Theorem | Property | Assumes |
|---|---|---|
| `TypeCorrectness` | `TypeOK` | |
| `ChainIsIntact` | `ChainIntact` | |
| `DeletionsAreAccounted` | `DeletionAccounted` | |
| `WriterSegmentIsKept` | `WriterSegmentKept` | |
| `SegmentsStayOrdered` | `SegmentsOrdered` | |
| `AttestedIsNeverLost` | `AttestedNeverLost` | `"entry"` is not in `Faults` |
| `AttestedIsAlwaysSynced` | `AttestedIsSynced` | `"entry"` is not in `Faults` |
| `StoreImplementsLog` | `ImplementsLog` | `"entry"` is not in `Faults` |
| `CheckpointsAreChained` | `CheckpointChainIntact` | `"checkpoint"` is not in `Faults` |

`ChainIntact` survives a write only if the process
remembers the head (`HeadInv`), and it does after `Open` only if the recovered
head is the head; when retention has taken every segment with a record, that
rests on the anchor, which has to name the last record exactly
(`RecoveredHeadIsHead`): this is where `DeletionAccounted` is needed. That in turn
survives a power loss only if the record the anchor names is durable
(`PruneInv`), which holds because retention spares the newest segment and
everything unsynced is in it (`SyncInv`), which a rotation keeps because it
fsyncs before it opens the next file, in a file that is good (`ControlInv`,
`SegmentInv`). `IInv` is the conjunction. `AttestInv` and `CheckpointInv` are
added on top of it for the checkpoints, `SizeInv` for the segments: the process knows
the size of the file it writes.

The refinement is proved action by action. A write, an attestation, a power loss, the
anchor of a prune and one unlink are the steps of `EvidenceLog`, and every other action
stutters. A power loss is a legal step because what it takes is neither attested
(`AttestInv`) nor accounted for (`PruneInv`).

### `StoreQueue_proofs`

| Theorem | Property |
|---|---|
| `QueueTypes` | `TypeOK` |
| `ChainFollowsCalls` | `WrittenInCallOrder` |
| `CloseWritesAccepted` | `AcceptedIsWritten` |
| `LossesAreReported` | `LossIsReported` |
| `NothingHappensAfterClose` | `NothingAfterClose` |

The order in the chain is only inductive together with the order of what is not in
it yet: `OrderInv` is about the chain, the event the writer holds and the channel,
one after the other. `EventsInv` says that these and `lost` are exactly the accepted
events, which is what makes a new one come last. `CloseInv` ties `Close` to the
writer: when it is past its wait, the channel is closed and empty.

### `ContentKeystore_proofs`

| Theorem | Property | Assumes |
|---|---|---|
| `TypeCorrect` | `TypeOK` | |
| `RecordedIsTrue` | `RecordedIsInChain` | |
| `ErasureStaysFinal` | `ErasureIsFinal` | no `"overlap"` |
| `ErasedKeysSealNothing` | `NoSealAfterErasure` | no `"overlap"` |
| `DocumentedStaysGone` | `DocumentedIsGone` | no `"overlap"` |
| `SealedKeyStaysDurable` | `SealedKeyIsDurable` | no `"overlap"`, no `"partial"` |
| `ContentPromiseKept` | `KeepsContentPromise` | no `"overlap"`, no `"partial"` |

What goes wrong here goes wrong because each process writes back what it read, so the
invariants tie the memory of a process to the files. `RecordedInv`: no copy of the
keystore, on disk or in memory, claims a record the chain lacks. `FinalInv`: without a
server beside the erase command there is one writer at a time (`AloneInv`), it has every
tombstone of the file and no key that has one (`TombInv`), and only minted keys are
anywhere (`MintedInv`). `DurableInv`: what the server holds it could load again, but for
the key it is minting (`MemoryInv`), which is nobody's before its file is safe
(`MintingInv`), and what seals a record is in the files and in every copy
(`KeptInv`). The refinement follows from both; a torn line, and nothing else, is its
step `LockUp`, and stays, since what opens the keystore is what could compact it away.

### `WriterKeys_proofs`

| Theorem | Property | Assumes |
|---|---|---|
| `TypeCorrect` | `TypeOK` | |
| `SignaturesStayCheckable` | `CheckpointsVerifiable` | |
| `RotationRecoverable` | `KeysRecoverable` | |
| `KeyFilesKept` | `KeyNeverLost` | |
| `WritersExclude` | `OneWriter` | no `"race"` |
| `ChainNeverForks` | `NoForkedChain` | no `"race"` |

`KInv` says where a rotation is among its three files: the old key is filed before the
public file names the new one, and that before the private file does (`RotationInv`), so
what a process remembers or has signed with is the private key or was filed
(`BuiltinInv`); with a helper, the public file is written once (`ExternalInv`). `WInv` adds
the lock: it names the process that writes, nobody writes while another is about to put
its name there, and a head once recovered stays the head (`HolderInv`, `HeadInv`).
Without `"race"` no two processes are inside `Open` together (`OpenAlone`); that they can
be is the finding of `writer_race`.

### `ArchiveVerify_proofs`

| Theorem | Property | Assumes |
|---|---|---|
| `TypeCorrect` | `TypeOK` | |
| `UploadsShrinkNothing` | `NothingShrinks` | |
| `DamageIsReported` | `DamageReported` | |
| `ShutdownIsComplete` | `ShutdownComplete` | |
| `HonestArchiveMatches` | `NoFalseMismatch` | no `"rotate"` |
| `SealedSegmentsAreFinal` | `SealedIsFinal` | no `"rotate"` |

`ObjectInv`: what is queued, under way or stored has a name the directory accounts for,
no object is longer than its file or shorter than its name promises, and an upload under
way is no shorter than what it replaces, although its file was read when the request
began and a lost answer may have stored it already. It needs the order of checkpoints and
that the newest segment is never pruned (`DiskInv`). For `ShutdownComplete`, what a run
that has counted no failure still owes the archive is stored, under way or queued
(`DueInv`), one stage of `Close` after the other, and what such a run leaves behind is
stored (`CleanInv`). For `NoFalseMismatch`, what is offered as a sealed segment is never
written to again (`ExactInv`); with a rotation that dies before it created the next
segment (`"rotate"`) it is, which is the disagreement `SealedIsFinal`. The other theorems hold with it.

`RecordedTokensAreAnswers` is about `Timestamping`: of any reply, the token that is
recorded claims the hash asked about and no other, the reply does not decline, and reading
the token back gives the same.

### `Retention_proofs`

| Theorem | Property | Assumes |
|---|---|---|
| `TypeCorrect` | `TypeOK` | |
| `InterruptedPruneResumes` | `PruneResumes` | |
| `DeletionsAreNamed` | the first half of `PruneAccounted`: what is deleted is old enough and named | |
| `PrunesAreAccounted` | `PruneAccounted` | `Alone` |
| `AnchorStaysForward` | `AnchorNeverRewinds` | `Alone` |

`LogInv`: segments follow each other, and a sealed one is not empty. `PruneInv`: what is
gone, and what `pruned.json` names, are sealed segments from the front that are beyond the
period, and the anchor is at the end of one of them. `RunInv`: a run that has a plan has
one of segments in a row behind what is gone, and deletes only what the anchor names.
These survive any number of enforcement runs that overlap. The exact count does not:
the check and the write of the anchor are two steps, and a run that was overtaken counts
anew or moves the anchor back (see the further disagreements). `Alone` says that there is
one run at a time: the deployment forbids concurrent ones because "two enforcers deleting
from the same directory at once is a race nobody needs"
(deploy/helm/flugschreiber/templates/cronjob-retention.yaml:20). `CountInv` then says that the
anchor is the end of the last segment it names and its count all records up to there.

### `Verification_proofs`

| Theorem | Property | Assumes |
|---|---|---|
| `ReadersInvariant` | what verify and export have in hand fits the directory | `Alone` |
| `VerifyRaisesNoFalseAlarm` | `NoFalseAlarm` | `Alone` |
| `BundlesHoldTogether` | `BundleHoldsTogether` | `Alone` |
| `ChangesAreReported` | `ChangeReported` | |

These are about directories of any length. What `Verify` computes by folding over the
records is reasoned about with `CountingUp`, an induction over the numbers up to n for
a set, got from the well-foundedness of the finite subsets: a recursive function has a
witness, and what holds of it at k goes on to k + 1. So `Chain(n)`, the list of the first
n entries, is the hash of record n of an honest log, and `Walk(d, w, n)` says that w is
the walk.

No false alarm: `FileInv` says that the anchor is signed and at the hash of the record it
names and that checkpoints are of records that exist, `ViewInv` that the anchor verify
read covers what is gone (`AnchorFits`) unless a prune deleted since, `BundleInv` the same
of what an export has collected and copied. Of such an anchor, such checkpoints and
segments in a row the walk finds nothing, or an interrupted prune (`HonestDirectory`).
Both are lost when enforcement runs overlap, because one that was overtaken can move the
anchor back to before what the other deleted.

Every change is found: a directory in which verify finds nothing is the anchor, the
checkpoints and one stretch of records behind the anchor (`CleanSource`). A changed record
has another hash than it names; with all hashes after it recomputed, the record at the
last checkpoint has another hash than that names (`RewrittenFound`); a removed one leaves
a gap or another start, a cut a checkpoint that is never seen; a checkpoint and an
anchor have a signature over every field, and a chained checkpoint over its position and
predecessor. A problem once found stays in the list (`ProblemStays`). Of the invariants
this needs only `IInv` and `FileInv`, and these hold of overlapping runs too.

### `ProxyCapture_proofs`

| Theorem | Property |
|---|---|
| `TypeCorrect` | `TypeOK` |
| `CapturesAreAccounted` | `EveryCaptureAccounted` |
| `FragmentsMarked` | `FragmentsAreMarked` |
| `TextFollowsItsMode` | `TextFollowsMode` |
| `GlobMatchIsRight` | `GlobMatch` is `Matches`, of names without a star |
| `RouteIsFirstMatch` | the first route that fits, else the default, else none |

The invariant is about one request at a time: who has claimed the capture and where its
goroutine is meanwhile (`ClaimInv`), whose list it is in (`ListInv`: until the shutdown
takes the list, all that is relayed is in it), that what is done with is in the log or
was counted (`LogInv`), that the end of an exchange is marked (`ExchangeInv`), and that
the record under construction says so (`EventInv`) and holds text only as the
configuration allows (`TextInv`).

The glob matcher of `Routing` has one star to come back to, not all. It is right because
what the loop has still to find out (`Open`: whether the rest fits from here, or from the
last star when that takes more) is the same after each round; an earlier star never has
to take more, as all between it and the last one would only end further on
(`LaterIsFurther`, which needs that the stretch since the last star has none,
`SinceStar`). The loop ends because in each round the last star moves on in the name, or
stays and less is left (`Left`), which also is why the recursive function exists
(`LoopExists`).

### Model-checked only

- Liveness: `WrittenIsAttested`, `EveryCallEnds`, `CloseReturns`. Fairness and `ENABLED` are out of
  the prover's reach.
- `StreamAssembly` and `Inspection`: folds over events and records with maps as
  accumulators. An induction of the kind of `CountingUp` would do for a single one of
  their claims, but they keep no state and decide nothing about what is recorded or kept,
  so the bounded check was left at that.
- `ObjectStore`: tables of cases, which the check goes through.

## Not modelled

- Formatting: reports, PDF, site, the tables of the commands, the instructions in a
  bundle. They keep no state and decide nothing.
- Metrics, configuration, flags and dispatch, the mock upstream.
- Cryptography: a signature is what was signed, sealing is what it allows, a time stamp
  token its imprint. Certificates inside a token, the nonce and the claimed time, and the
  signature of S3 requests are left out.
- The redaction patterns; the parsing of requests beyond whether their text is kept.
- Latencies, headers, the wording of errors.
- What a file system does after a failed fsync (a later fsync that succeeds is
  taken to cover everything in the file); an operator who edits files; two commands of
  one kind at once, but for key processes and the enforcement runs of `Retention`.

## Plan

1. `Reconstruct` of `Inspection` for a log of any length: the single pass finds the whole
   session when no record comes before the one it refers to.
2. The hazards without a property, each with its reason in `PROJECT.json`; first an fsync
   that failed and is tried again, which needs a model of the page cache.
3. Liveness for every value of the constants, once the prover has `ENABLED`.
