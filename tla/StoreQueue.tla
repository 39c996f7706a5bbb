----------------------------- MODULE StoreQueue -----------------------------
(***************************************************************************)
(* Store.Append and Store.Close (evidence/store.go): request goroutines    *)
(* put events on a bounded channel, one writer goroutine takes them off    *)
(* and writes them, and a shutdown closes the channel under both.          *)
(*                                                                         *)
(* A request goroutine appends one event, so a call stands for its event.  *)
(* What a write does to the files is in EvidenceStore; here it succeeds or *)
(* fails.  A step of Append is one of its loads or its select, since any   *)
(* other goroutine may run between them.                                   *)
(***************************************************************************)
EXTENDS Naturals, Sequences, Functions

CONSTANTS
  Calls,       \* calls of Append, each by a goroutine of its own
  QueueDepth,  \* the capacity of the channel, 4096 in the code
  Faults       \* what may go wrong: see FaultKinds

\* "write", "sync", "sign": a write, an fsync, a signature fails.
\* "kill": the process is killed.
FaultKinds == {"write", "sync", "sign", "kill"}

ASSUME QueueDepthAssumption == QueueDepth \in Nat \ {0}
ASSUME FaultsAssumption == Faults \subseteq FaultKinds

VARIABLES
  call,         \* where each call is
  queue,        \* the channel of events
  queueClosed,  \* close(s.queue) happened
  done,         \* close(s.done) happened
  closed,       \* the flag Append looks at first
  writeErr,     \* the first error of the writer, "none" before it
  held,         \* the event the writer has received and not yet written
  writer,       \* the writer goroutine
  closer,       \* the goroutine in Close
  closeErr,     \* Close reports an error
  written,      \* the events written, in the order of the chain
  alive,        \* the process has not been killed
  lost,         \* history: events whose own write failed
  earlier       \* history: the calls that had succeeded when a call began

appendVars == <<call, earlier>>
writerVars == <<writeErr, held, writer, closeErr, written, lost>>
closeVars == <<queueClosed, done, closed, closer>>
vars == <<appendVars, queue, writerVars, closeVars, alive>>

Accepted == {c \in Calls : call[c] \in {"accepted", "reported"}}
Ended == {"reported", "refused", "failed", "panicked"}

CallPcs == {"new", "open", "sending", "accepted"} \cup Ended
Errors == {"none", "write", "sync", "sign"}

TypeOK ==
  /\ call \in [Calls -> CallPcs]
  /\ queue \in Seq(Calls) /\ Len(queue) <= QueueDepth
  /\ queueClosed \in BOOLEAN /\ done \in BOOLEAN /\ closed \in BOOLEAN
  /\ writeErr \in Errors
  /\ held \subseteq Calls
  /\ writer \in {"running", "exited"}
  /\ closer \in {"idle", "flagged", "waiting", "drained", "returned"}
  /\ closeErr \in BOOLEAN
  /\ written \in Seq(Calls)
  /\ alive \in BOOLEAN
  /\ lost \subseteq Calls
  /\ earlier \in [Calls -> SUBSET Calls]

Init ==
  /\ call = [c \in Calls |-> "new"]
  /\ queue = <<>>
  /\ queueClosed = FALSE /\ done = FALSE /\ closed = FALSE
  /\ writeErr = "none"
  /\ held = {}
  /\ writer = "running"
  /\ closer = "idle"
  /\ closeErr = FALSE
  /\ written = <<>>
  /\ alive = TRUE
  /\ lost = {}
  /\ earlier = [c \in Calls |-> {}]

Move(c, to) == call' = [call EXCEPT ![c] = to]

-----------------------------------------------------------------------------
(* Append.                                                                 *)

\* The call begins, and is refused on a store that is closed.
CheckClosed(c) ==
  /\ call[c] = "new"
  /\ Move(c, IF closed THEN "refused" ELSE "open")
  /\ earlier' = [earlier EXCEPT ![c] = Accepted]
  /\ UNCHANGED <<queue, writerVars, closeVars>>

\* A store that has once failed to write refuses every event.
CheckErr(c) ==
  /\ call[c] = "open"
  /\ Move(c, IF writeErr = "none" THEN "sending" ELSE "failed")
  /\ UNCHANGED <<earlier, queue, writerVars, closeVars>>

\* Mutant: one event too many fits.
SendOverDepth(c) ==
  /\ call[c] = "sending"
  /\ ~queueClosed
  /\ Len(queue) <= QueueDepth
  /\ queue' = Append(queue, c)
  /\ Move(c, "accepted")
  /\ UNCHANGED <<earlier, writerVars, closeVars>>

\* Mutant: the send is left to a goroutine, and Append returns before it.
SendAsync(c) ==
  \/ /\ call[c] = "sending"
     /\ Move(c, "accepted")
     /\ UNCHANGED <<earlier, queue, writerVars, closeVars>>
  \/ /\ c \in Accepted \ (Range(queue) \cup held \cup Range(written) \cup lost)
     /\ ~queueClosed
     /\ Len(queue) < QueueDepth
     /\ queue' = Append(queue, c)
     /\ UNCHANGED <<appendVars, writerVars, closeVars>>

\* The select of Append: the event goes onto the queue, once there is room ...
Send(c) ==
  /\ call[c] = "sending"
  /\ ~queueClosed
  /\ Len(queue) < QueueDepth
  /\ queue' = Append(queue, c)
  /\ Move(c, "accepted")
  /\ UNCHANGED <<earlier, writerVars, closeVars>>

\* ... or the store is done ...
SendRefused(c) ==
  /\ call[c] = "sending"
  /\ done
  /\ Move(c, "refused")
  /\ UNCHANGED <<earlier, queue, writerVars, closeVars>>

\* ... or the channel has been closed, also under a sender that is waiting for
\* room: Go panics, net/http recovers it, and the request goroutine ends.
SendPanics(c) ==
  /\ call[c] = "sending"
  /\ queueClosed
  /\ Move(c, "panicked")
  /\ UNCHANGED <<earlier, queue, writerVars, closeVars>>

\* The proxy counts the event as appended, or answers 202 with "recorded".
Report(c) ==
  /\ call[c] = "accepted"
  /\ Move(c, "reported")
  /\ UNCHANGED <<earlier, queue, writerVars, closeVars>>

CallStep(c) ==
  \/ CheckClosed(c)
  \/ CheckErr(c)
  \/ Send(c)
  \/ SendRefused(c)
  \/ SendPanics(c)
  \/ Report(c)

-----------------------------------------------------------------------------
(* The writer goroutine: run.                                              *)

\* writeErr.CompareAndSwap(nil, &err): the first error stays.
FirstErr(e) == IF writeErr = "none" THEN e ELSE writeErr

\* appendCheckpoint cannot sign.  It asks for no signature as long as this
\* process has written nothing.
SignFails ==
  /\ "sign" \in Faults
  /\ written # <<>>
  /\ writeErr' = FirstErr("sign")

Receive ==
  /\ writer = "running"
  /\ held = {}
  /\ queue # <<>>
  /\ held' = {Head(queue)}
  /\ queue' = Tail(queue)
  /\ UNCHANGED <<appendVars, writeErr, writer, closeErr, written, lost, closeVars>>

\* The record is in the chain.  A rotation on the way may have failed to sign
\* its checkpoint, which is noted and does not stop the write.
Write ==
  /\ held # {}
  /\ \E c \in held : written' = Append(written, c)
  /\ held' = {}
  /\ \/ UNCHANGED writeErr
     \/ SignFails
  /\ UNCHANGED <<appendVars, queue, writer, closeErr, lost, closeVars>>

\* Mutant: the loop forgets to note the error.
WriteFailsSilently ==
  /\ held # {}
  /\ "write" \in Faults
  /\ lost' = lost \cup held
  /\ held' = {}
  /\ UNCHANGED <<appendVars, queue, writeErr, writer, closeErr, written, closeVars>>

\* Mutant: the loop returns on an error.
WriteFailsAndStops ==
  /\ held # {}
  /\ "write" \in Faults
  /\ writeErr' = FirstErr("write")
  /\ lost' = lost \cup held
  /\ held' = {}
  /\ writer' = "exited"
  /\ UNCHANGED <<appendVars, queue, closeErr, written, closeVars>>

WriteFails ==
  /\ held # {}
  /\ "write" \in Faults
  /\ writeErr' = FirstErr("write")
  /\ lost' = lost \cup held
  /\ held' = {}
  /\ UNCHANGED <<appendVars, queue, writer, closeErr, written, closeVars>>

\* The sync timer, or the fsync of the checkpoint timer, finds something to
\* sync.
SyncFails ==
  /\ "sync" \in Faults
  /\ written # <<>>
  /\ writeErr' = FirstErr("sync")

\* A timer that succeeds changes nothing here.  Whether an earlier one has left
\* nothing to sync or to sign is not kept.
TimerFails ==
  /\ writer = "running"
  /\ held = {}
  /\ SyncFails \/ SignFails
  /\ UNCHANGED <<appendVars, queue, held, writer, closeErr, written, lost, closeVars>>

\* Mutant: the writer leaves as soon as the channel is closed.
ShutdownUndrained ==
  /\ writer = "running"
  /\ held = {}
  /\ queueClosed
  /\ writer' = "exited"
  /\ \/ /\ closeErr' = (writeErr # "none")
        /\ UNCHANGED writeErr
     \/ /\ "sync" \in Faults
        /\ closeErr' = TRUE
        /\ UNCHANGED writeErr
     \/ /\ SignFails
        /\ closeErr' = TRUE
  /\ UNCHANGED <<appendVars, queue, held, written, lost, closeVars>>

\* A closed channel still delivers what is in it.  Then shutdown seals the
\* segment, which may fail, signs, which may fail, and returns the first error
\* there ever was.
Shutdown ==
  /\ writer = "running"
  /\ held = {}
  /\ queueClosed /\ queue = <<>>
  /\ writer' = "exited"
  /\ \/ /\ closeErr' = (writeErr # "none")
        /\ UNCHANGED writeErr
     \/ /\ "sync" \in Faults
        /\ closeErr' = TRUE
        /\ UNCHANGED writeErr
     \/ /\ SignFails
        /\ closeErr' = TRUE
  /\ UNCHANGED <<appendVars, queue, held, written, lost, closeVars>>

WriterStep == Receive \/ Write \/ WriteFails \/ Shutdown

-----------------------------------------------------------------------------
(* Close.  closeOnce makes it one goroutine's.                             *)

CloseFlag ==
  /\ closer = "idle"
  /\ closed' = TRUE
  /\ closer' = "flagged"
  /\ UNCHANGED <<appendVars, queue, writerVars, queueClosed, done>>

\* Mutant: Close tells the writer nothing.
CloseQueueForgotten ==
  /\ closer = "flagged"
  /\ closer' = "waiting"
  /\ UNCHANGED <<appendVars, queue, writerVars, queueClosed, done, closed>>

CloseQueue ==
  /\ closer = "flagged"
  /\ queueClosed' = TRUE
  /\ closer' = "waiting"
  /\ UNCHANGED <<appendVars, queue, writerVars, done, closed>>

\* Mutant: Close does not wait for the writer.
CloseDoneAtOnce ==
  /\ closer = "waiting"
  /\ done' = TRUE
  /\ closer' = "drained"
  /\ UNCHANGED <<appendVars, queue, writerVars, queueClosed, closed>>

\* wg.Wait returns when the writer has.
CloseDone ==
  /\ closer = "waiting"
  /\ writer = "exited"
  /\ done' = TRUE
  /\ closer' = "drained"
  /\ UNCHANGED <<appendVars, queue, writerVars, queueClosed, closed>>

\* The archive and the timestamps are drained, each within its time limit, the
\* writer lock is removed, and closeErr is returned.
CloseReturn ==
  /\ closer = "drained"
  /\ closer' = "returned"
  /\ UNCHANGED <<appendVars, queue, writerVars, queueClosed, done, closed>>

CloserStep == CloseFlag \/ CloseQueue \/ CloseDone \/ CloseReturn

-----------------------------------------------------------------------------

Kill ==
  /\ alive /\ "kill" \in Faults
  /\ alive' = FALSE
  /\ UNCHANGED <<appendVars, queue, writerVars, closeVars>>

Running == alive /\ UNCHANGED alive

Next ==
  \/ Running /\ \E c \in Calls : CallStep(c)
  \/ Running /\ (WriterStep \/ TimerFails)
  \/ Running /\ CloserStep
  \/ Kill

Spec == Init /\ [][Next]_vars

\* No goroutine here waits for anything but the others, so the scheduler gets to
\* each of them.  Nothing makes a call begin, a fault happen or Close be called.
FairSpec ==
  /\ Spec
  /\ \A c \in Calls : WF_vars(Running /\ ~(call[c] = "new") /\ CallStep(c))
  /\ WF_vars(Running /\ WriterStep)
  /\ WF_vars(Running /\ closer # "idle" /\ CloserStep)

-----------------------------------------------------------------------------
(* Properties.                                                             *)

\* The chain holds each event once, and in an order in which no event comes
\* before another whose Append had already returned when its own was called:
\* what one client did after the other is recorded after it.
WrittenInCallOrder ==
  \A i, j \in DOMAIN written :
    i < j => written[i] # written[j] /\ written[j] \notin earlier[written[i]]

\* When Close returns, every event that Append accepted has been written,
\* except those whose own write failed: an error, or a shutdown in the middle,
\* drops nothing that is still queued (the promise in the comment of Close).
AcceptedIsWritten ==
  closer = "returned" => Accepted \subseteq Range(written) \cup lost

\* An accepted event is missing only if the store says so: through Err, which
\* the health endpoint reports, from the moment it is lost, and as the result
\* of Close.
LossIsReported ==
  /\ lost # {} => writeErr # "none"
  /\ closer = "returned" /\ ~closeErr => Accepted \subseteq Range(written)

\* Once Close has returned, which gives up the lock on the directory, no call
\* is accepted any more and nothing is written any more, whatever calls are
\* still on their way.
NothingAfterClose ==
  [][closer = "returned" => UNCHANGED <<queue, held, written, Accepted>>]_vars

\* No call waits for ever, not for room in the queue and not across a shutdown.
EveryCallEnds ==
  \A c \in Calls : call[c] = "open" ~> (call[c] \in Ended \/ ~alive)

\* Close always returns, however many calls are waiting when it starts.
CloseReturns == (closer = "flagged") ~> (closer = "returned" \/ ~alive)

\* What rotate says of itself: a signature that fails must never cost a record.
SigningCostsNoRecord ==
  writeErr = "sign" => \A c \in Calls : call[c] # "failed"

\* What write says of itself: a crash cannot lose an event the proxy has
\* reported as captured.
ReportedSurvivesKill ==
  ~alive => {c \in Calls : call[c] = "reported"} \subseteq Range(written) \cup lost

\* What ARCHITECTURE.md says (and DECISIONS.md, D7): a full queue slows the proxy,
\* and never drops a record.
FullQueueNeverDrops ==
  [][\A c \in Calls :
       call[c] = "sending" /\ Len(queue) = QueueDepth => call'[c] # "panicked"]_vars
=============================================================================
