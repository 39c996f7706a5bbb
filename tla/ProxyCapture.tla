---------------------------- MODULE ProxyCapture ----------------------------
(***************************************************************************)
(* What the recording proxy writes down (proxy/proxy.go, capture.go): each *)
(* request runs on its own goroutine, from the look at its body through    *)
(* the relayed response to the record that finish or the shutdown makes of *)
(* it, and cli/serve.go stops the process around them.  Bodies are counted *)
(* in blocks.  The record's text is what content/content.go keeps of it in *)
(* the configured mode and content/encrypt.go seals.                       *)
(***************************************************************************)
EXTENDS Routing

CONSTANTS
  Requests,   \* request goroutines
  Bodies,     \* the bodies a client sends
  Kinds,      \* endpoint kinds that are recorded
  Configs,    \* mode, encrypt and routes the process may be started with
  Events,     \* bodies posted to the events endpoint
  PeekCap,    \* blocks read to find the model (modelPeekCap)
  TapCap,     \* blocks a tap keeps (prefixBytes)
  Answers     \* statuses and lengths of the responses upstreams send

ASSUME ProxyCaptureAssumption ==
  /\ PeekCap \in Nat \ {0} /\ TapCap \in Nat \ {0}
  /\ \A conf \in Configs :
       /\ conf.mode \in {"hash", "redact", "store"} /\ conf.encrypt \in BOOLEAN
       /\ conf.encrypt => conf.mode # "hash"
  /\ \A body \in Bodies : body.len \in Nat
  /\ \A a \in Answers : a.status \in Nat \ {0} /\ a.length \in Nat

VARIABLES
  config,   \* the configuration of the process
  pc,       \* where the goroutine of each request is
  capture,  \* the capture of each request
  live,     \* captures registered as in flight
  stage,    \* how far the recording of each capture is
  owner,    \* who won the right to record it: "handler" or "shutdown"
  event,    \* the record being put together
  log,      \* how many records of each request the store accepted
  errors,   \* per request: the capture errors counted for it
  open,     \* the store is not closed
  broken,   \* a write of the store has failed; it takes no event from then on
  main,     \* where Serve is
  pending,  \* what AbandonInFlight still has to look at
  atStop    \* what was being relayed when the grace period ended

captures == <<pc, capture, live>>
recording == <<stage, owner, event, log, errors>>
serving == <<open, broken, main, pending, atStop>>
vars == <<config, captures, recording, serving>>

Fresh == [kind |-> "none", body |-> [len |-> 0, modelAt |-> 0, model |-> NoModel],
          route |-> NoRoute, peekTrunc |-> FALSE, status |-> 0,
          abandoned |-> FALSE, finished |-> FALSE, in |-> 0, out |-> 0,
          length |-> 0, resp |-> FALSE, err |-> "none", clientLost |-> FALSE]
\* A capture that is recorded and that no goroutine reads any more.
Forgotten == [Fresh EXCEPT !.finished = TRUE]
NoEvent == [err |-> "none"]

Init ==
  /\ config \in Configs
  /\ pc = [r \in Requests |-> "off"]
  /\ capture = [r \in Requests |-> Fresh]
  /\ live = {}
  /\ stage = [r \in Requests |-> "free"]
  /\ owner = [r \in Requests |-> "none"]
  /\ event = [r \in Requests |-> NoEvent]
  /\ log = [r \in Requests |-> 0]
  /\ errors = [r \in Requests |-> {}]
  /\ open = TRUE
  /\ broken = FALSE
  /\ main = "serving"
  /\ pending = {}
  /\ atStop = {}

Running == main # "exited"
Lesser(a, b) == IF a < b THEN a ELSE b

-----------------------------------------------------------------------------
(* The goroutine of one request.                                           *)

Arrive(r) ==
  /\ main = "serving" /\ pc[r] = "off"
  /\ \E kind \in Kinds, body \in Bodies :
       capture' = [capture EXCEPT ![r].kind = kind, ![r].body = body]
  /\ pc' = [pc EXCEPT ![r] = "peeking"]
  /\ UNCHANGED <<config, live, recording, serving>>

\* What the look at the body tells, and the route it selects.
Peeked(c) ==
  [c EXCEPT !.peekTrunc = PeekTruncated(c.body, PeekCap),
            !.route = SelectRoute(config.routes, ScanModel(c.body, PeekCap), c.kind)]

track(r) == live' = live \cup {r}
\* Mutant: a recorded capture stays registered.
untrackLater(r) == UNCHANGED live
untrack(r) == live' = live \ {r}

\* No route and no default: the attempt is recorded with the prefix that was read.
Unroutable(r) ==
  /\ Running /\ pc[r] = "peeking"
  /\ Peeked(capture[r]).route = NoRoute
  /\ capture' = [capture EXCEPT ![r] =
       [Peeked(@) EXCEPT !.status = 502, !.in = Lesser(capture[r].body.len, PeekCap), !.err = "no route"]]
  /\ pc' = [pc EXCEPT ![r] = "finishing"]
  /\ UNCHANGED <<config, live, recording, serving>>

Forward(r) ==
  /\ Running /\ pc[r] = "peeking"
  /\ Peeked(capture[r]).route # NoRoute
  /\ capture' = [capture EXCEPT ![r] = Peeked(@)]
  /\ track(r)
  /\ pc' = [pc EXCEPT ![r] = "forwarding"]
  /\ UNCHANGED <<config, recording, serving>>

\* The transport reads one more block of the request body through its tap, as far
\* as the upstream takes it.
SendBody(r) ==
  /\ Running /\ pc[r] \in {"forwarding", "relaying"}
  /\ capture[r].in < capture[r].body.len
  /\ capture' = [capture EXCEPT ![r].in = @ + 1]
  /\ UNCHANGED <<config, pc, live, recording, serving>>

setStatus(c, status) == [c EXCEPT !.status = status]

\* modifyResponse: the upstream answered; its body is read through a tap.
Answered(r) ==
  /\ Running /\ pc[r] = "forwarding"
  /\ \E a \in Answers :
       capture' = [capture EXCEPT ![r] =
         [setStatus(@, a.status) EXCEPT !.length = a.length, !.resp = TRUE]]
  /\ pc' = [pc EXCEPT ![r] = "relaying"]
  /\ UNCHANGED <<config, live, recording, serving>>

\* errorHandler: the upstream cannot be reached, or the client hung up.
Failed(r) ==
  /\ Running /\ pc[r] = "forwarding"
  /\ \E why \in {"upstream", "canceled"} :
       capture' = [capture EXCEPT ![r] =
         [setStatus(@, IF why = "canceled" THEN 499 ELSE 502) EXCEPT !.err = why]]
  /\ pc' = [pc EXCEPT ![r] = "finishing"]
  /\ UNCHANGED <<config, live, recording, serving>>

\* teeReadCloser.Read: one more block of the response, the read error of a
\* response cut short, or its end.
RelayBlock(r) ==
  /\ Running /\ pc[r] = "relaying"
  /\ capture[r].out < capture[r].length
  /\ capture' = [capture EXCEPT ![r].out = @ + 1]
  /\ UNCHANGED <<config, pc, live, recording, serving>>

ReadFails(r) ==
  /\ Running /\ pc[r] = "relaying"
  /\ capture' = [capture EXCEPT ![r].err = "read"]
  /\ pc' = [pc EXCEPT ![r] = "finishing"]
  /\ UNCHANGED <<config, live, recording, serving>>

\* The body is closed: at its end, or because writing to the client failed, in
\* which case no read error was seen.
CloseBody(r) ==
  /\ Running /\ pc[r] = "relaying"
  /\ \/ capture[r].out = capture[r].length /\ UNCHANGED capture
     \/ capture' = [capture EXCEPT ![r].clientLost = TRUE]
  /\ pc' = [pc EXCEPT ![r] = "finishing"]
  /\ UNCHANGED <<config, live, recording, serving>>

-----------------------------------------------------------------------------
(* Recording: whoever sets finished first does it, once.                   *)

Claimed(c) == [c EXCEPT !.finished = TRUE]

\* finish, on the goroutine of the request.
Finish(r) ==
  /\ Running /\ pc[r] = "finishing" /\ owner[r] # "handler"
  /\ IF capture[r].finished
     THEN /\ pc' = [pc EXCEPT ![r] = "returned"]
          /\ capture' = [capture EXCEPT ![r] = IF stage[r] = "done" THEN Forgotten ELSE @]
          /\ UNCHANGED <<stage, owner>>
     ELSE /\ capture' = [capture EXCEPT ![r] = Claimed(@)]
          /\ stage' = [stage EXCEPT ![r] = "claimed"]
          /\ owner' = [owner EXCEPT ![r] = "handler"]
          /\ UNCHANGED pc
  /\ UNCHANGED <<config, live, event, log, errors, serving>>

Untrack(r) ==
  /\ Running /\ stage[r] = "claimed" /\ owner[r] = "handler"
  /\ untrack(r)
  /\ stage' = [stage EXCEPT ![r] = "ready"]
  /\ UNCHANGED <<config, pc, capture, owner, event, log, errors, serving>>

\* What the request and the response hold as text is what their kept prefix still
\* parses to.
TapTruncated(n) == n > TapCap
HoldsRequest(c) == c.in = c.body.len /\ ~TapTruncated(c.in) /\ c.body.modelAt # 0
HoldsResponse(c, byHandler) == byHandler /\ c.resp /\ c.out > 0 /\ c.status < 400

\* content.Payload and ToolArguments: what a mode keeps of a text.
Payload(text) ==
  CASE ~text -> "none"
    [] text /\ config.mode = "hash" -> "none"
    [] text /\ config.mode = "redact" -> "redacted"
    [] text /\ config.mode = "store" -> "plain"

\* EncryptEvent: tool text cannot be sealed and goes first; then a key, then
\* both sides; whatever fails, no text stays.
dropToolText(e) == [e EXCEPT !.tools = "none"]
stripText(e) == [dropToolText(e) EXCEPT !.inText = "none", !.outText = "none"]
holdsText(e) == e.inText # "none" \/ e.outText # "none"
sealPayload(p) == IF p = "none" THEN p ELSE "sealed"
\* Mutant: the tool text stays when the rest is sealed.
SealedButTools(e) == [e EXCEPT !.inText = sealPayload(@), !.outText = sealPayload(@)]
Sealed(e) == [dropToolText(e) EXCEPT !.inText = sealPayload(@), !.outText = sealPayload(@)]

EncryptFails(e) == stripText(e)

\* record: the taps, the outcome and the content.
Assembled(r) ==
  LET c == capture[r]
      inText == HoldsRequest(c)
      outText == HoldsResponse(c, owner[r] = "handler")
  IN  [in |-> c.in, out |-> c.out, status |-> c.status,
       inTruncated |-> TapTruncated(c.in) \/ c.peekTrunc,
       outTruncated |-> TapTruncated(c.out) \/ c.abandoned,
       err |-> IF owner[r] = "shutdown" THEN "stopped" ELSE c.err,
       inText |-> Payload(inText), outText |-> Payload(outText),
       tools |-> Payload(inText \/ outText)]

Count(r, kind) == errors' = [errors EXCEPT ![r] = @ \cup kind]

Assemble(r) ==
  /\ Running /\ stage[r] = "ready"
  /\ LET e == Assembled(r)
         cut == IF capture[r].abandoned THEN {"abandoned"} ELSE {}
     IN  \/ /\ ~config.encrypt
            /\ event' = [event EXCEPT ![r] = e] /\ Count(r, cut)
         \/ /\ config.encrypt
            /\ event' = [event EXCEPT ![r] = Sealed(e)] /\ Count(r, cut)
         \/ /\ config.encrypt /\ holdsText(e)
            /\ event' = [event EXCEPT ![r] = EncryptFails(e)]
            /\ Count(r, cut \cup {"encrypt"})
  /\ stage' = [stage EXCEPT ![r] = "built"]
  /\ UNCHANGED <<config, captures, owner, log, serving>>

\* The store takes an event, or it is closed or keeps returning the first error its
\* writer met, and the loss is counted.
Append1(r) ==
  IF open /\ ~broken THEN log' = [log EXCEPT ![r] = @ + 1] /\ UNCHANGED errors
                     ELSE Count(r, {"append"}) /\ UNCHANGED log

\* The writer of the store meets an error: a full disk, a rotation or a signature
\* that fails.  StoreQueue models what becomes of the events it had accepted.
StoreFails ==
  /\ open /\ ~broken /\ broken' = TRUE
  /\ UNCHANGED <<config, captures, recording, open, main, pending, atStop>>

AppendRecord(r) ==
  /\ Running /\ stage[r] = "built"
  /\ Append1(r)
  /\ stage' = [stage EXCEPT ![r] = "done"]
  /\ event' = [event EXCEPT ![r] = NoEvent]
  /\ pc' = [pc EXCEPT ![r] = IF owner[r] = "handler" THEN "returned" ELSE @]
  /\ capture' = [capture EXCEPT ![r] = IF pc'[r] = "returned" THEN Forgotten ELSE @]
  /\ UNCHANGED <<config, live, owner, serving>>

-----------------------------------------------------------------------------
(* The events endpoint (proxy/intervention.go).                            *)

HumanTypes == {"human_intervention", "incident"}
\* validateEvent: a record of a person's act names the person and what was
\* decided, an incident how severe it is, and no one else sets a severity.
Acceptable(e) ==
  /\ e.type \notin {"none", "inference", "unknown"}
  /\ e.type \in HumanTypes => e.actor
  /\ e.type = "human_intervention" => e.decision
  /\ e.type = "incident" <=> e.severity
  /\ e.fits

\* The endpoint is enabled, the bearer token is right and the event can be recorded.
Allowed(e) == e.authorised /\ Acceptable(e)

\* One request to the endpoint, as of its answer, which may come after the grace
\* period.
PostEvent(r) ==
  /\ Running /\ pc[r] = "off"
  /\ \/ (\E e \in Events : Allowed(e)) /\ Append1(r)
     \/ (\E e \in Events : ~Allowed(e)) /\ UNCHANGED <<log, errors>>
  /\ pc' = [pc EXCEPT ![r] = "posted"]
  /\ UNCHANGED <<config, capture, live, stage, owner, event, serving>>

-----------------------------------------------------------------------------
(* The end of the process (cli/serve.go) and AbandonInFlight.              *)

Signal ==
  /\ main = "serving" /\ main' = "draining"
  /\ UNCHANGED <<config, captures, recording, open, broken, pending, atStop>>

\* http.Server.Shutdown returns: every handler has, or the grace period is over.
Relaying == {r \in Requests : pc[r] \in {"forwarding", "relaying"}}
GraceOver ==
  /\ main = "draining" /\ main' = "stopping"
  /\ atStop' = Relaying
  /\ UNCHANGED <<config, captures, recording, open, broken, pending>>

TakeLive ==
  /\ main = "stopping" /\ main' = "abandoning"
  /\ pending' = live
  /\ live' = {}
  /\ UNCHANGED <<config, pc, capture, recording, open, broken, atStop>>

\* AbandonInFlight records one capture after the other.
Busy == \E r \in Requests : owner[r] = "shutdown" /\ stage[r] # "done"

\* Mutant: the shutdown marks the capture and does not take it first.
MayAbandonAny(c) == TRUE
MayAbandon(c) == ~c.finished

Abandon(r) ==
  /\ main = "abandoning" /\ ~Busy /\ r \in pending
  /\ pending' = pending \ {r}
  /\ IF MayAbandon(capture[r])
     THEN /\ capture' = [capture EXCEPT ![r] = Claimed(@)]
          /\ stage' = [stage EXCEPT ![r] = "claimed"]
          /\ owner' = [owner EXCEPT ![r] = "shutdown"]
     ELSE UNCHANGED <<capture, stage, owner>>
  /\ UNCHANGED <<config, pc, live, event, log, errors, open, broken, main, atStop>>

\* Mutant: a capture whose response had begun is not marked.
AbandonedUnanswered(c) ==
  IF c.status = 0 THEN [c EXCEPT !.abandoned = TRUE, !.status = 499] ELSE c
Abandoned(c) ==
  [c EXCEPT !.abandoned = TRUE, !.status = IF @ = 0 THEN 499 ELSE @]

MarkAbandoned(r) ==
  /\ Running /\ stage[r] = "claimed" /\ owner[r] = "shutdown"
  /\ capture' = [capture EXCEPT ![r] = Abandoned(@)]
  /\ stage' = [stage EXCEPT ![r] = "ready"]
  /\ UNCHANGED <<config, pc, live, owner, event, log, errors, serving>>

CloseStore ==
  /\ main = "abandoning" /\ ~Busy /\ pending = {}
  /\ main' = "closed" /\ open' = FALSE
  /\ UNCHANGED <<config, captures, recording, broken, pending, atStop>>

Exit ==
  /\ main = "closed" /\ main' = "exited"
  /\ UNCHANGED <<config, captures, recording, open, broken, pending, atStop>>

Handler(r) ==
  \/ Arrive(r) \/ PostEvent(r) \/ Unroutable(r) \/ Forward(r) \/ SendBody(r)
  \/ Answered(r) \/ Failed(r) \/ RelayBlock(r) \/ ReadFails(r) \/ CloseBody(r)
  \/ Finish(r) \/ Untrack(r)
Recorder(r) == Assemble(r) \/ AppendRecord(r)
Shutdown(r) == Abandon(r) \/ MarkAbandoned(r)

Next ==
  \/ \E r \in Requests : Handler(r) \/ Recorder(r) \/ Shutdown(r)
  \/ StoreFails \/ Signal \/ GraceOver \/ TakeLive \/ CloseStore \/ Exit

Spec == Init /\ [][Next]_vars

-----------------------------------------------------------------------------
Recorded(r) == log[r] > 0

TypeOK ==
  /\ config \in Configs
  /\ \A r \in Requests :
       /\ capture[r].in \in 0 .. capture[r].body.len
       /\ capture[r].out \in 0 .. capture[r].length
       /\ capture[r].status \in {0, 499, 502} \cup {a.status : a \in Answers}
       /\ errors[r] \subseteq {"abandoned", "encrypt", "append"}
       /\ stage[r] \in {"free", "claimed", "ready", "built", "done"}
       /\ (stage[r] = "free") = (owner[r] = "none")
       /\ (event[r] # NoEvent) = (stage[r] = "built")
  /\ live \cup pending \cup atStop \subseteq Requests
  /\ open = (main \notin {"closed", "exited"}) /\ broken \in BOOLEAN
  /\ \A r \in live : pc[r] # "returned"

\* A response that ends, an upstream error and the shutdown race to finish one
\* capture: it is recorded once at most; once its recording is over the store took
\* the record or its loss was counted, and it is lost only to a store that was
\* closed or whose writer had failed; and when AbandonInFlight is through, what was
\* being relayed when the grace period ended is recorded, or its own goroutine had
\* taken it to record, or it was counted as lost to a writer that had failed.
EveryCaptureAccounted ==
  /\ \A r \in Requests :
       /\ log[r] <= 1
       /\ stage[r] = "done" => Recorded(r) \/ "append" \in errors[r]
       /\ "append" \in errors[r] => ~Recorded(r) /\ (~open \/ broken)
       /\ pc[r] = "returned" => stage[r] # "free"
  /\ ~open => \A r \in atStop : \/ Recorded(r) \/ owner[r] = "handler"
                                \/ broken /\ "append" \in errors[r]

\* A record of less than the response the upstream sent says so: it is marked
\* truncated, counted and names the interruption when the shutdown made it, and
\* carries an error when the response broke off or never came.  The exception is
\* a write to the client that fails: the relay ends there with no read error.
FragmentsAreMarked ==
  \A r \in Requests : stage[r] = "built" =>
    LET e == event[r]
        c == capture[r]
    IN  /\ owner[r] = "shutdown" =>
             e.outTruncated /\ e.err = "stopped" /\ e.status # 0
             /\ "abandoned" \in errors[r]
        /\ e.out > TapCap => e.outTruncated
        /\ ~c.resp \/ e.out < c.length =>
             e.outTruncated \/ e.err # "none" \/ c.clientLost

\* A record goes to the log with text only in the form the configuration allows:
\* none in hash mode, redacted in redact mode, and with encryption on nothing
\* readable, tool text included and also when there was no key or sealing failed.
TextFollowsMode ==
  \A r \in Requests : stage[r] = "built" =>
    LET texts == {event[r].inText, event[r].outText}
    IN  /\ config.mode = "hash" => texts \cup {event[r].tools} = {"none"}
        /\ config.mode = "redact" => "plain" \notin texts \cup {event[r].tools}
        /\ config.encrypt => texts \subseteq {"none", "sealed"} /\ event[r].tools = "none"

\* What was being relayed when the grace period ended is in the log when the
\* process has stopped (cli/serve.go:352-355).  Not so when its goroutine takes
\* the capture just before AbandonInFlight does and the store is closed first.
RelayedAtStopIsRecorded == main = "exited" => \A r \in atStop : Recorded(r)
=============================================================================
