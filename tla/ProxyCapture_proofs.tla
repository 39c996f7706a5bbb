------------------------- MODULE ProxyCapture_proofs -------------------------
(***************************************************************************)
(* Proofs about ProxyCapture: for any number of requests, any bodies,      *)
(* responses and configurations, and any size of the look at a body and of *)
(* a tap, whoever gets to a capture first records it, once, as what it is. *)
(* And about the route it takes: the matcher of the globs, with its single *)
(* star to come back to, is right, and the first route that fits is taken. *)
(***************************************************************************)
EXTENDS ProxyCapture, FiniteSetTheorems, WellFoundedInduction, TLAPS

-----------------------------------------------------------------------------
(* Types *)

Before == {"off", "peeking", "posted"}         \* nothing is relayed for it
Relay == {"forwarding", "relaying"}
Pcs == Before \cup Relay \cup {"finishing", "returned"}
Stages == {"free", "claimed", "ready", "built", "done"}
Losses == {"abandoned", "encrypt", "append"}
TextForms == {"none", "redacted", "plain", "sealed"}
Stopped == {"closed", "exited"}                \* the store is closed
Mains == {"serving", "draining", "stopping", "abandoning"} \cup Stopped
Statuses == {0, 499, 502} \cup {a.status : a \in Answers}
Errs == {"none", "no route", "upstream", "canceled", "read", "stopped"}
Selected ==
  {SelectRoute(conf.routes, ScanModel(b, PeekCap), k) :
     conf \in Configs, b \in Bodies \cup {Fresh.body}, k \in Kinds \cup {"none"}}
Chosen == {NoRoute} \cup Selected

Captures ==
  [kind : Kinds \cup {"none"}, body : Bodies \cup {Fresh.body}, route : Chosen,
   peekTrunc : BOOLEAN, status : Statuses, abandoned : BOOLEAN, finished : BOOLEAN,
   in : Nat, out : Nat, length : Nat, resp : BOOLEAN, err : Errs, clientLost : BOOLEAN]

EventRecords ==
  [in : Nat, out : Nat, status : Statuses, inTruncated : BOOLEAN, outTruncated : BOOLEAN,
   err : Errs, inText : TextForms, outText : TextForms, tools : TextForms]

Types ==
  /\ config \in Configs
  /\ pc \in [Requests -> Pcs] /\ capture \in [Requests -> Captures] /\ live \in SUBSET Requests
  /\ stage \in [Requests -> Stages] /\ owner \in [Requests -> {"none", "handler", "shutdown"}]
  /\ event \in [Requests -> EventRecords \cup {NoEvent}]
  /\ log \in [Requests -> Nat] /\ errors \in [Requests -> SUBSET Losses]
  /\ open \in BOOLEAN /\ broken \in BOOLEAN /\ main \in Mains
  /\ pending \in SUBSET Requests /\ atStop \in SUBSET Requests

-----------------------------------------------------------------------------
(* The inductive invariant, one request at a time *)

\* Who records the capture, and where its goroutine is meanwhile.
ClaimInv(r) ==
  /\ (owner[r] = "none") = (stage[r] = "free")
  /\ capture[r].finished = (owner[r] # "none")
  /\ pc[r] \in Before => owner[r] = "none"
  /\ pc[r] = "returned" => owner[r] # "none"
  /\ owner[r] = "handler" =>
       pc[r] \in {"finishing", "returned"} /\ (stage[r] = "done") = (pc[r] = "returned")
  /\ owner[r] = "shutdown" => main \in {"abandoning"} \cup Stopped

\* Who still has the capture in his list: until the shutdown takes the list,
\* everything that is relayed is in it.
ListInv(r) ==
  /\ r \in live =>
       /\ pc[r] \notin Before \cup {"returned"} /\ r \notin pending
       /\ owner[r] = "none" \/ (owner[r] = "handler" /\ stage[r] = "claimed")
  /\ r \in pending => main = "abandoning" /\ pc[r] \notin Before /\ owner[r] # "shutdown"
  /\ main \notin {"abandoning"} \cup Stopped /\ pc[r] \in Relay => r \in live
  /\ r \in atStop =>
       /\ main \in {"stopping", "abandoning"} \cup Stopped /\ pc[r] \notin Before
       /\ main = "stopping" => r \in live \/ owner[r] = "handler"
       /\ main = "abandoning" => r \in pending \/ owner[r] # "none"
       /\ main \in Stopped => \/ log[r] > 0 \/ owner[r] = "handler"
                              \/ broken /\ "append" \in errors[r]

\* The capture is in the log, or its loss was counted, when it is done with.
LogInv(r) ==
  /\ log[r] \in {0, 1}
  /\ "append" \in errors[r] => log[r] = 0 /\ (~open \/ broken)
  /\ stage[r] = "done" => log[r] = 1 \/ "append" \in errors[r]
  /\ stage[r] # "done" /\ pc[r] # "posted" => log[r] = 0 /\ "append" \notin errors[r]

\* How far the exchange is, and that its end is marked.
ExchangeInv(r) ==
  /\ pc[r] = "off" => capture[r] = Fresh
  /\ pc[r] \in Before \cup {"forwarding"} => capture[r].out = 0
  /\ capture[r].in <= capture[r].body.len /\ capture[r].out <= capture[r].length
  /\ pc[r] = "relaying" => capture[r].resp
  /\ pc[r] = "finishing" => \/ capture[r].err # "none" \/ capture[r].clientLost
                            \/ capture[r].resp /\ capture[r].out = capture[r].length
  /\ owner[r] = "shutdown" /\ stage[r] \in {"ready", "built"} =>
       capture[r].abandoned /\ capture[r].status # 0

\* What the record being put together says of the exchange.
EventInv(r) ==
  /\ (event[r] # NoEvent) = (stage[r] = "built")
  /\ stage[r] = "built" =>
       /\ owner[r] = "shutdown" =>
            /\ event[r].outTruncated /\ event[r].err = "stopped" /\ event[r].status # 0
            /\ "abandoned" \in errors[r]
       /\ event[r].out > TapCap => event[r].outTruncated
       /\ owner[r] = "handler" =>
            \/ event[r].err # "none" \/ capture[r].clientLost
            \/ capture[r].resp /\ event[r].out = capture[r].length

\* What the record being put together holds as text.
TextInv(r) ==
  stage[r] = "built" =>
    LET texts == {event[r].inText, event[r].outText}
    IN  /\ config.mode = "hash" => texts \cup {event[r].tools} = {"none"}
        /\ config.mode = "redact" => "plain" \notin texts \cup {event[r].tools}
        /\ config.encrypt => texts \subseteq {"none", "sealed"} /\ event[r].tools = "none"

PInv(r) == ClaimInv(r) /\ ListInv(r) /\ LogInv(r) /\ ExchangeInv(r) /\ EventInv(r)

StoreInv == open = (main \notin Stopped)

IInv == Types /\ StoreInv /\ \A r \in Requests : PInv(r) /\ TextInv(r)

-----------------------------------------------------------------------------
(* What the actions change *)

LEMMA ProxyFacts ==
  /\ PeekCap \in Nat \ {0} /\ TapCap \in Nat \ {0}
  /\ \A conf \in Configs : /\ conf.mode \in {"hash", "redact", "store"}
                           /\ conf.encrypt \in BOOLEAN /\ (conf.encrypt => conf.mode # "hash")
  /\ \A body \in Bodies : body.len \in Nat
  /\ \A a \in Answers : a.status \in Nat \ {0} /\ a.length \in Nat
BY ProxyCaptureAssumption

\* The places and stages the actions name.
LEMMA Places ==
  /\ {"off", "peeking", "posted"} = Before /\ {"forwarding", "relaying"} = Relay
  /\ Before \cup Relay \cup {"finishing", "returned"} = Pcs
  /\ Before \cap Relay = {} /\ "finishing" \notin Before \cup Relay /\ "returned" \notin Before \cup Relay
  /\ {"free", "claimed", "ready", "built", "done"} = Stages
  /\ {"abandoned", "encrypt", "append"} = Losses
  /\ {"closed", "exited"} = Stopped
  /\ {"serving", "draining", "stopping", "abandoning", "closed", "exited"} = Mains
  /\ {"none", "no route", "upstream", "canceled", "read", "stopped"} = Errs
  /\ {0, 499, 502} \subseteq Statuses
BY DEF Before, Relay, Pcs, Stages, Losses, Stopped, Mains, Errs, Statuses

LEMMA PlaceTypes ==
  /\ "peeking" \in Pcs /\ "posted" \in Pcs /\ "forwarding" \in Pcs /\ "relaying" \in Pcs
  /\ "finishing" \in Pcs /\ "returned" \in Pcs
  /\ "claimed" \in Stages /\ "ready" \in Stages /\ "built" \in Stages /\ "done" \in Stages
  /\ "none" \in Errs /\ "read" \in Errs /\ "stopped" \in Errs
  /\ "upstream" \in Errs /\ "canceled" \in Errs
BY DEF Pcs, Before, Relay, Stages, Errs

\* A status is the code of an answer, or one the proxy gives itself.
LEMMA StatusType == \A n \in Statuses : n \in Nat /\ (n = 0 \/ n > 0)
BY ProxyFacts DEF Statuses

LEMMA FreshFacts ==
  /\ Fresh \in Captures /\ Fresh.finished = FALSE /\ Fresh.in = 0 /\ Fresh.out = 0 /\ Fresh.length = 0
  /\ Fresh.body.len = 0
  /\ Forgotten \in Captures /\ Forgotten.finished = TRUE /\ Forgotten.in = 0 /\ Forgotten.out = 0
  /\ Forgotten.length = 0 /\ Forgotten.body.len = 0
<1>1. /\ Fresh.finished = FALSE /\ Fresh.in = 0 /\ Fresh.out = 0 /\ Fresh.length = 0
      /\ Fresh.body.len = 0 /\ Fresh.kind = "none" /\ Fresh.route = NoRoute
  BY DEF Fresh
<1> DEFINE body == Fresh.body
<1>2. Fresh = [kind |-> "none", body |-> body, route |-> NoRoute, peekTrunc |-> FALSE,
               status |-> 0, abandoned |-> FALSE, finished |-> FALSE, in |-> 0, out |-> 0,
               length |-> 0, resp |-> FALSE, err |-> "none", clientLost |-> FALSE]
  BY DEF Fresh
<1>3. NoRoute \in Chosen /\ body \in Bodies \cup {Fresh.body} /\ 0 \in Statuses /\ "none" \in Errs
  <2>1. NoRoute \in Chosen
    BY DEF Chosen
  <2> QED
    BY <2>1, Places, ZenonT(60)
<1> HIDE DEF body
<1>4. Fresh \in Captures
  BY <1>2, <1>3 DEF Captures
<1>5. /\ Forgotten \in Captures /\ Forgotten.finished = TRUE /\ Forgotten.in = Fresh.in
      /\ Forgotten.out = Fresh.out /\ Forgotten.length = Fresh.length
      /\ Forgotten.body = Fresh.body
  BY <1>4 DEF Forgotten, Captures
<1> QED
  BY <1>1, <1>4, <1>5

LEMMA BodyType ==
  ASSUME NEW c \in Captures
  PROVE  c.body.len \in Nat
BY ProxyFacts, FreshFacts DEF Captures

LEMMA PeekedFacts ==
  ASSUME config \in Configs, NEW c \in Captures
  PROVE  /\ Peeked(c) \in Captures
         /\ Peeked(c).body = c.body /\ Peeked(c).in = c.in /\ Peeked(c).out = c.out
         /\ Peeked(c).length = c.length /\ Peeked(c).resp = c.resp
         /\ Peeked(c).finished = c.finished /\ Peeked(c).abandoned = c.abandoned
<1>1. PeekTruncated(c.body, PeekCap) \in BOOLEAN
  BY DEF PeekTruncated, ModelFound
<1>2. SelectRoute(config.routes, ScanModel(c.body, PeekCap), c.kind) \in Chosen
  BY DEF Chosen, Selected, Captures
<1> QED
  BY <1>1, <1>2 DEF Peeked, Captures

\* A capture takes a status, an error and a count of what went in.
LEMMA UpdatedType ==
  ASSUME NEW c \in Captures, NEW status \in Statuses, NEW err \in Errs, NEW n \in Nat
  PROVE  /\ [c EXCEPT !.status = status] \in Captures
         /\ [c EXCEPT !.status = status, !.err = err] \in Captures
         /\ [c EXCEPT !.status = status, !.in = n, !.err = err] \in Captures
<1> DEFINE c1 == [c EXCEPT !.status = status]
           c2 == [c1 EXCEPT !.in = n]
<1>1. c1 \in Captures /\ [c EXCEPT !.status = status, !.err = err] \in Captures
  BY DEF Captures
<1>2. [c EXCEPT !.status = status, !.in = n, !.err = err] = [c2 EXCEPT !.err = err]
  OBVIOUS
<1> HIDE DEF c1
<1>3. c2 \in Captures
  BY <1>1 DEF Captures
<1> HIDE DEF c2
<1>4. [c2 EXCEPT !.err = err] \in Captures
  BY <1>3 DEF Captures
<1> QED
  BY <1>1, <1>2, <1>4 DEF c1

\* An action of one request leaves the others alone.
Elsewhere(r) ==
  /\ \A q \in Requests \ {r} :
       /\ pc'[q] = pc[q] /\ capture'[q] = capture[q] /\ stage'[q] = stage[q]
       /\ owner'[q] = owner[q] /\ event'[q] = event[q] /\ log'[q] = log[q]
       /\ errors'[q] = errors[q]
       /\ (q \in live') = (q \in live) /\ (q \in pending') = (q \in pending)
  /\ UNCHANGED <<config, open, broken, main, atStop>>

LEMMA ElsewhereHolds ==
  ASSUME Types, NEW r \in Requests, Handler(r) \/ Recorder(r) \/ Shutdown(r)
  PROVE  Elsewhere(r)
<1> USE DEF Types, Elsewhere, recording, captures, serving
<1>1. CASE Arrive(r)
  BY <1>1 DEF Arrive
<1>2. CASE PostEvent(r)
  BY <1>2 DEF PostEvent, Append1, Count
<1>3. CASE Unroutable(r)
  BY <1>3 DEF Unroutable
<1>4. CASE Forward(r)
  BY <1>4 DEF Forward, track
<1>5. CASE SendBody(r) \/ RelayBlock(r)
  BY <1>5 DEF SendBody, RelayBlock
<1>6. CASE Answered(r)
  BY <1>6 DEF Answered
<1>14. CASE Failed(r)
  BY <1>14 DEF Failed
<1>7. CASE ReadFails(r)
  BY <1>7 DEF ReadFails
<1>15. CASE CloseBody(r)
  BY <1>15 DEF CloseBody
<1>8. CASE Finish(r)
  BY <1>8 DEF Finish
<1>9. CASE Untrack(r)
  BY <1>9 DEF Untrack, untrack
<1>10. CASE Assemble(r)
  BY <1>10 DEF Assemble, Count
<1>11. CASE AppendRecord(r)
  BY <1>11 DEF AppendRecord, Append1, Count
<1>12. CASE Abandon(r)
  BY <1>12 DEF Abandon
<1>13. CASE MarkAbandoned(r)
  BY <1>13 DEF MarkAbandoned
<1> QED
  BY <1>1, <1>2, <1>3, <1>4, <1>5, <1>6, <1>7, <1>8, <1>9, <1>10, <1>11, <1>12, <1>13,
     <1>14, <1>15 DEF Handler, Recorder, Shutdown

\* What holds of a request still holds after an action of another.
LEMMA ElsewhereKeeps ==
  ASSUME NEW r \in Requests, Elsewhere(r), NEW q \in Requests, q # r
  PROVE  /\ PInv(q) => PInv(q)'
         /\ TextInv(q) => TextInv(q)'
<1>1. /\ pc'[q] = pc[q] /\ capture'[q] = capture[q] /\ stage'[q] = stage[q]
      /\ owner'[q] = owner[q] /\ event'[q] = event[q] /\ log'[q] = log[q] /\ errors'[q] = errors[q]
      /\ (q \in live') = (q \in live) /\ (q \in pending') = (q \in pending)
      /\ UNCHANGED <<config, open, broken, main, atStop>>
  BY DEF Elsewhere
<1>2. ClaimInv(q) => ClaimInv(q)'
  BY <1>1 DEF ClaimInv
<1>3. ListInv(q) => ListInv(q)'
  BY <1>1 DEF ListInv
<1>4. LogInv(q) => LogInv(q)'
  BY <1>1 DEF LogInv
<1>5. ExchangeInv(q) => ExchangeInv(q)'
  BY <1>1 DEF ExchangeInv
<1>6. EventInv(q) => EventInv(q)'
  BY <1>1 DEF EventInv
<1>7. TextInv(q) => TextInv(q)'
  BY <1>1 DEF TextInv
<1> QED
  BY <1>2, <1>3, <1>4, <1>5, <1>6, <1>7 DEF PInv

\* A request arrives.
LEMMA ArriveStep ==
  ASSUME Types, StoreInv, NEW r \in Requests, PInv(r), Arrive(r)
  PROVE  Types' /\ PInv(r)'
<1>1. /\ main = "serving" /\ pc[r] = "off" /\ pc' = [pc EXCEPT ![r] = "peeking"]
      /\ UNCHANGED <<config, live, stage, owner, event, log, errors, open, broken, main, pending, atStop>>
  BY DEF Arrive, recording, serving
<1>2. capture' \in [Requests -> Captures] /\ capture'[r].in = 0 /\ capture'[r].out = 0
      /\ capture'[r].length = 0 /\ capture'[r].finished = FALSE
  <2>1. PICK kind \in Kinds, body \in Bodies :
          capture' = [capture EXCEPT ![r].kind = kind, ![r].body = body]
    BY DEF Arrive
  <2>2. capture[r] = Fresh /\ Fresh \in Captures
    BY <1>1, FreshFacts DEF PInv, ExchangeInv
  <2>3. capture' = [capture EXCEPT ![r] = [Fresh EXCEPT !.kind = kind, !.body = body]]
    BY <2>1, <2>2 DEF Types
  <2>4. /\ [Fresh EXCEPT !.kind = kind, !.body = body] \in Captures
        /\ [Fresh EXCEPT !.kind = kind, !.body = body].in = Fresh.in
        /\ [Fresh EXCEPT !.kind = kind, !.body = body].out = Fresh.out
        /\ [Fresh EXCEPT !.kind = kind, !.body = body].length = Fresh.length
        /\ [Fresh EXCEPT !.kind = kind, !.body = body].finished = Fresh.finished
    BY <2>2 DEF Captures
  <2> QED
    BY <2>3, <2>4, FreshFacts DEF Types
<1>3. Types' /\ pc'[r] = "peeking"
  BY <1>1, <1>2, Places, ZenonT(60) DEF Types
<1>4. capture'[r].body.len \in Nat
  BY <1>2, BodyType
<1>5. ClaimInv(r)' /\ ListInv(r)'
  BY <1>1, <1>2, <1>3 DEF Before, Relay, Stopped, PInv, ClaimInv, ListInv
<1>6. LogInv(r)' /\ EventInv(r)'
  BY <1>1, <1>3 DEF Before, Relay, Stopped, PInv, LogInv, EventInv, ClaimInv
<1>7. ExchangeInv(r)'
  BY <1>1, <1>2, <1>3, <1>4 DEF Before, Relay, Stopped, PInv, ExchangeInv, ClaimInv
<1> QED
  BY <1>3, <1>5, <1>6, <1>7 DEF PInv

\* The events endpoint appends an event, or its loss is counted.
LEMMA PostEventStep ==
  ASSUME Types, StoreInv, NEW r \in Requests, PInv(r), PostEvent(r)
  PROVE  Types' /\ PInv(r)'
<1>1. /\ pc[r] = "off" /\ pc' = [pc EXCEPT ![r] = "posted"]
      /\ UNCHANGED <<config, capture, live, stage, owner, event, open, broken, main, pending, atStop>>
      /\ \/ log' = [log EXCEPT ![r] = @ + 1] /\ errors' = errors
         \/ UNCHANGED <<log, errors>>
         \/ /\ log' = log /\ errors' = [errors EXCEPT ![r] = @ \cup {"append"}]
            /\ ~open \/ broken
  BY DEF PostEvent, Append1, Count, serving
<1>2. /\ Types' /\ pc'[r] = "posted"
      /\ \/ log'[r] \in {log[r], log[r] + 1} /\ errors'[r] = errors[r]
         \/ log'[r] = log[r] /\ (~open \/ broken)
  <2>1. /\ log' \in [Requests -> Nat] /\ errors' \in [Requests -> SUBSET Losses]
        /\ \/ log'[r] \in {log[r], log[r] + 1} /\ errors'[r] = errors[r]
           \/ log'[r] = log[r] /\ (~open \/ broken)
    BY <1>1 DEF Types, Losses
  <2>2. pc' \in [Requests -> Pcs] /\ pc'[r] = "posted"
    <3>1. pc' = [pc EXCEPT ![r] = "posted"] /\ pc \in [Requests -> Pcs]
      BY <1>1 DEF Types
    <3>2. "posted" \in Pcs
      BY DEF Pcs, Before
    <3> QED
      BY <3>1, <3>2
  <2> QED
    BY <1>1, <2>1, <2>2 DEF Types
<1>3. owner[r] = "none" /\ stage[r] = "free" /\ log[r] = 0 /\ "append" \notin errors[r]
  BY <1>1 DEF Before, Relay, Stopped, PInv, ClaimInv, LogInv
<1>4. ClaimInv(r)' /\ ListInv(r)'
  BY <1>1, <1>2, <1>3 DEF Before, Relay, Stopped, PInv, ClaimInv, ListInv
<1>5. LogInv(r)' /\ EventInv(r)'
  BY <1>1, <1>2, <1>3 DEF Before, Relay, Stopped, PInv, LogInv, EventInv
<1>6. ExchangeInv(r)'
  BY <1>1, <1>2, <1>3 DEF Before, Relay, Stopped, PInv, ExchangeInv
<1> QED
  BY <1>2, <1>4, <1>5, <1>6 DEF PInv

\* A request no route serves.
LEMMA UnroutableStep ==
  ASSUME Types, StoreInv, NEW r \in Requests, PInv(r), Unroutable(r)
  PROVE  Types' /\ PInv(r)'
<1>1. /\ pc[r] = "peeking" /\ pc' = [pc EXCEPT ![r] = "finishing"]
      /\ UNCHANGED <<config, live, stage, owner, event, log, errors, open, broken, main, pending, atStop>>
  BY DEF Unroutable, recording, serving
<1> DEFINE c == capture[r]
           n == Lesser(c.body.len, PeekCap)
<1>2. /\ c \in Captures /\ c.body.len \in Nat /\ n \in Nat /\ n <= c.body.len
      /\ "no route" \in Errs /\ 502 \in Statuses
  <2>1. c \in Captures /\ c.body.len \in Nat
    BY BodyType DEF Types
  <2> QED
    <3>1. n \in Nat /\ n <= c.body.len
      BY <2>1, ProxyFacts DEF Lesser
    <3> QED
      BY <2>1, <3>1, Places, ZenonT(60)
<1>3. /\ capture' \in [Requests -> Captures] /\ capture'[r].in = n
      /\ capture'[r].body = c.body /\ capture'[r].out = c.out /\ capture'[r].length = c.length
      /\ capture'[r].finished = c.finished /\ capture'[r].err = "no route"
  <2> DEFINE d == Peeked(c)
             f == [d EXCEPT !.status = 502, !.in = n, !.err = "no route"]
  <2>1. capture' = [capture EXCEPT ![r] = f]
    BY DEF Unroutable, Types
  <2>2. /\ d \in Captures /\ d.body = c.body /\ d.out = c.out /\ d.length = c.length
        /\ d.finished = c.finished
    BY <1>2, PeekedFacts DEF Types
  <2> HIDE DEF c, d, n
  <2>3. f \in Captures
    <3>1. n \in Nat /\ "no route" \in Errs /\ 502 \in Statuses /\ d \in Captures
      BY <1>2, <2>2
    <3>2. \A status \in Statuses, err \in Errs, m \in Nat :
            [d EXCEPT !.status = status, !.in = m, !.err = err] \in Captures
      BY <3>1, UpdatedType
    <3> QED
      BY <3>1, <3>2, ZenonT(60)
  <2>4. /\ f.in = n /\ f.body = d.body /\ f.out = d.out /\ f.length = d.length
        /\ f.finished = d.finished /\ f.err = "no route"
    BY <2>2 DEF Captures
  <2> HIDE DEF f
  <2> QED
    BY <2>1, <2>2, <2>3, <2>4 DEF Types
<1>4. Types' /\ pc'[r] = "finishing"
  BY <1>1, <1>3, Places, ZenonT(60) DEF Types
<1>5. ClaimInv(r)' /\ ListInv(r)'
  BY <1>1, <1>3, <1>4 DEF Before, Relay, Stopped, PInv, ClaimInv, ListInv
<1>6. LogInv(r)' /\ EventInv(r)'
  BY <1>1, <1>4 DEF Before, Relay, Stopped, PInv, LogInv, EventInv, ClaimInv
<1>7. ExchangeInv(r)'
  BY <1>1, <1>2, <1>3, <1>4 DEF Before, Relay, Stopped, PInv, ExchangeInv, ClaimInv
<1> QED
  BY <1>4, <1>5, <1>6, <1>7 DEF PInv

\* A request is forwarded, and registered as in flight.
LEMMA ForwardStep ==
  ASSUME Types, StoreInv, NEW r \in Requests, PInv(r), Forward(r)
  PROVE  Types' /\ PInv(r)'
<1>1. /\ pc[r] = "peeking" /\ pc' = [pc EXCEPT ![r] = "forwarding"] /\ live' = live \cup {r}
      /\ UNCHANGED <<config, stage, owner, event, log, errors, open, broken, main, pending, atStop>>
      /\ capture' = [capture EXCEPT ![r] = Peeked(capture[r])]
  BY DEF Forward, track, recording, serving, Types
<1>2. /\ capture' \in [Requests -> Captures] /\ capture'[r].in = capture[r].in
      /\ capture'[r].body = capture[r].body /\ capture'[r].out = capture[r].out
      /\ capture'[r].length = capture[r].length /\ capture'[r].finished = capture[r].finished
  BY <1>1, PeekedFacts DEF Types
<1>3. Types' /\ pc'[r] = "forwarding" /\ r \in live'
  BY <1>1, <1>2, Places, ZenonT(60) DEF Types
<1>4. ClaimInv(r)' /\ ListInv(r)'
  BY <1>1, <1>2, <1>3 DEF Before, Relay, Stopped, PInv, ClaimInv, ListInv
<1>5. LogInv(r)' /\ EventInv(r)'
  BY <1>1, <1>3 DEF Before, Relay, Stopped, PInv, LogInv, EventInv, ClaimInv
<1>6. ExchangeInv(r)'
  BY <1>1, <1>2, <1>3 DEF Before, Relay, Stopped, PInv, ExchangeInv, ClaimInv
<1> QED
  BY <1>3, <1>4, <1>5, <1>6 DEF PInv

\* The request body is read through its tap.
LEMMA SendBodyStep ==
  ASSUME Types, StoreInv, NEW r \in Requests, PInv(r), SendBody(r)
  PROVE  Types' /\ PInv(r)'
<1>1. /\ pc[r] \in Relay /\ pc' = pc
      /\ UNCHANGED <<config, live, stage, owner, event, log, errors, open, broken, main, pending, atStop>>
      /\ capture[r].in < capture[r].body.len
      /\ capture' = [capture EXCEPT ![r] = [capture[r] EXCEPT !.in = capture[r].in + 1]]
  BY DEF SendBody, recording, serving, Relay, Types
<1>2. /\ capture' \in [Requests -> Captures] /\ capture'[r].in = capture[r].in + 1
      /\ capture'[r].body = capture[r].body /\ capture'[r].out = capture[r].out
      /\ capture'[r].length = capture[r].length /\ capture'[r].finished = capture[r].finished
      /\ capture'[r].resp = capture[r].resp /\ capture'[r].err = capture[r].err
      /\ capture'[r].clientLost = capture[r].clientLost /\ capture'[r].status = capture[r].status
      /\ capture'[r].abandoned = capture[r].abandoned /\ capture[r].body.len \in Nat
      /\ capture[r].in \in Nat
  <2> DEFINE d == [capture[r] EXCEPT !.in = capture[r].in + 1]
  <2>1. capture[r] \in Captures /\ capture[r].body.len \in Nat /\ capture[r].in \in Nat
    BY BodyType DEF Types, Captures
  <2>2. /\ d \in Captures /\ d.in = capture[r].in + 1 /\ d.body = capture[r].body
        /\ d.out = capture[r].out /\ d.length = capture[r].length
        /\ d.finished = capture[r].finished /\ d.resp = capture[r].resp
        /\ d.err = capture[r].err /\ d.clientLost = capture[r].clientLost
        /\ d.status = capture[r].status /\ d.abandoned = capture[r].abandoned
    BY <2>1 DEF Captures
  <2>3. capture' = [capture EXCEPT ![r] = d]
    BY <1>1
  <2> HIDE DEF d
  <2> QED
    BY <2>1, <2>2, <2>3 DEF Types
<1>3. Types'
  BY <1>1, <1>2 DEF Types
<1>4. ClaimInv(r)' /\ ListInv(r)'
  BY <1>1, <1>2, <1>3 DEF Before, Relay, Stopped, PInv, ClaimInv, ListInv
<1>5. LogInv(r)' /\ EventInv(r)'
  BY <1>1, <1>2, <1>3 DEF Before, Relay, Stopped, PInv, LogInv, EventInv, ClaimInv
<1>6. ExchangeInv(r)'
  BY <1>1, <1>2, <1>3, StatusType DEF Before, Relay, Stopped, PInv, ExchangeInv, ClaimInv
<1> QED
  BY <1>3, <1>4, <1>5, <1>6 DEF PInv

\* The upstream answers.
LEMMA AnsweredStep ==
  ASSUME Types, StoreInv, NEW r \in Requests, PInv(r), Answered(r)
  PROVE  Types' /\ PInv(r)'
<1>1. /\ pc[r] = "forwarding" /\ pc' = [pc EXCEPT ![r] = "relaying"]
      /\ UNCHANGED <<config, live, stage, owner, event, log, errors, open, broken, main, pending, atStop>>
      /\ \E a \in Answers : capture' = [capture EXCEPT ![r] =
           [setStatus(capture[r], a.status) EXCEPT !.length = a.length, !.resp = TRUE]]
  BY DEF Answered, recording, serving, Types
<1>2. /\ capture' \in [Requests -> Captures] /\ capture'[r].in = capture[r].in
      /\ capture'[r].body = capture[r].body /\ capture'[r].out = capture[r].out
      /\ capture'[r].length \in Nat /\ capture'[r].finished = capture[r].finished
      /\ capture'[r].resp /\ capture'[r].abandoned = capture[r].abandoned
      /\ capture'[r].status # 0
  <2>1. PICK a \in Answers : capture' = [capture EXCEPT ![r] =
          [setStatus(capture[r], a.status) EXCEPT !.length = a.length, !.resp = TRUE]]
    BY <1>1
  <2>2. capture[r] \in Captures /\ a.status \in Statuses /\ a.status # 0 /\ a.length \in Nat
    BY ProxyFacts DEF Types, Statuses
  <2> DEFINE d == setStatus(capture[r], a.status)
  <2>3. /\ d \in Captures /\ d.status = a.status
        /\ d.in = capture[r].in /\ d.body = capture[r].body /\ d.out = capture[r].out
        /\ d.finished = capture[r].finished /\ d.abandoned = capture[r].abandoned
    BY <2>2 DEF Captures, setStatus
  <2> HIDE DEF d
  <2>4. /\ [d EXCEPT !.length = a.length, !.resp = TRUE] \in Captures
        /\ [d EXCEPT !.length = a.length, !.resp = TRUE].length = a.length
        /\ [d EXCEPT !.length = a.length, !.resp = TRUE].resp
        /\ [d EXCEPT !.length = a.length, !.resp = TRUE].status = d.status
        /\ [d EXCEPT !.length = a.length, !.resp = TRUE].in = d.in
        /\ [d EXCEPT !.length = a.length, !.resp = TRUE].out = d.out
        /\ [d EXCEPT !.length = a.length, !.resp = TRUE].body = d.body
        /\ [d EXCEPT !.length = a.length, !.resp = TRUE].finished = d.finished
        /\ [d EXCEPT !.length = a.length, !.resp = TRUE].abandoned = d.abandoned
    BY <2>2, <2>3 DEF Captures
  <2> QED
    BY <2>1, <2>2, <2>3, <2>4 DEF Types, d
<1>3. Types' /\ pc'[r] = "relaying" /\ capture[r].out = 0
  <2>1. pc' \in [Requests -> Pcs] /\ pc'[r] = "relaying"
    <3>1. pc' = [pc EXCEPT ![r] = "relaying"] /\ pc \in [Requests -> Pcs] /\ "relaying" \in Pcs
      BY <1>1, PlaceTypes DEF Types
    <3> QED
      BY <3>1
  <2>2. capture' \in [Requests -> Captures]
    BY <1>2
  <2>3. Types'
    BY <1>1, <2>1, <2>2 DEF Types
  <2>4. capture[r].out = 0
    BY <1>1 DEF PInv, ExchangeInv, Before
  <2> QED
    BY <2>1, <2>3, <2>4
<1>4. ClaimInv(r)' /\ ListInv(r)'
  BY <1>1, <1>2, <1>3 DEF Before, Relay, Stopped, PInv, ClaimInv, ListInv
<1>5. LogInv(r)' /\ EventInv(r)'
  BY <1>1, <1>2, <1>3 DEF Before, Relay, Stopped, PInv, LogInv, EventInv, ClaimInv
<1>6. ExchangeInv(r)'
  BY <1>1, <1>2, <1>3, StatusType DEF Before, Relay, Stopped, PInv, ExchangeInv, ClaimInv
<1> QED
  BY <1>3, <1>4, <1>5, <1>6 DEF PInv

\* The upstream cannot be reached, or the client hung up.
LEMMA FailedStep ==
  ASSUME Types, StoreInv, NEW r \in Requests, PInv(r), Failed(r)
  PROVE  Types' /\ PInv(r)'
<1>1. PICK why \in {"upstream", "canceled"} :
        capture' = [capture EXCEPT ![r] =
          [setStatus(@, IF why = "canceled" THEN 499 ELSE 502) EXCEPT !.err = why]]
  BY DEF Failed
<1> DEFINE status == IF why = "canceled" THEN 499 ELSE 502
           d == [capture[r] EXCEPT !.status = status, !.err = why]
<1>2. /\ pc[r] = "forwarding" /\ pc' = [pc EXCEPT ![r] = "finishing"]
      /\ UNCHANGED <<config, live, stage, owner, event, log, errors, open, broken, main, pending, atStop>>
      /\ capture' = [capture EXCEPT ![r] = d]
  BY <1>1 DEF Failed, recording, serving, setStatus, Types
<1>3. /\ capture' \in [Requests -> Captures] /\ capture'[r].in = capture[r].in
      /\ capture'[r].body = capture[r].body /\ capture'[r].out = capture[r].out
      /\ capture'[r].length = capture[r].length /\ capture'[r].finished = capture[r].finished
      /\ capture'[r].abandoned = capture[r].abandoned
      /\ capture'[r].status # 0 /\ capture'[r].err # "none"
  <2>1. status \in {499, 502} /\ status # 0
    OBVIOUS
  <2>2. 499 \in Statuses /\ 502 \in Statuses
    BY DEF Statuses
  <2>3. capture[r] \in Captures /\ why \in Errs /\ why # "none"
    BY PlaceTypes DEF Types
  <2>4. status \in Statuses
    BY <2>1, <2>2
  <2> HIDE DEF status
  <2>5. d \in Captures
    BY <2>3, <2>4 DEF Captures
  <2>6. /\ d.in = capture[r].in /\ d.body = capture[r].body /\ d.out = capture[r].out
        /\ d.length = capture[r].length /\ d.finished = capture[r].finished
        /\ d.abandoned = capture[r].abandoned /\ d.status = status /\ d.err = why
    BY <2>3 DEF Captures
  <2> HIDE DEF d
  <2> QED
    BY <1>2, <2>1, <2>3, <2>5, <2>6 DEF Types
<1> HIDE DEF d, status
<1>4. Types' /\ pc'[r] = "finishing"
  BY <1>2, <1>3, PlaceTypes DEF Types
<1>5. ClaimInv(r)' /\ ListInv(r)'
  BY <1>2, <1>3, <1>4 DEF Before, Relay, Stopped, PInv, ClaimInv, ListInv
<1>6. LogInv(r)' /\ EventInv(r)'
  BY <1>2, <1>3, <1>4 DEF Before, Relay, Stopped, PInv, LogInv, EventInv, ClaimInv
<1>7. ExchangeInv(r)'
  BY <1>2, <1>3, <1>4, StatusType DEF Before, Relay, Stopped, PInv, ExchangeInv, ClaimInv
<1> QED
  BY <1>4, <1>5, <1>6, <1>7 DEF PInv

\* One more block of the response is relayed.
LEMMA RelayBlockStep ==
  ASSUME Types, StoreInv, NEW r \in Requests, PInv(r), RelayBlock(r)
  PROVE  Types' /\ PInv(r)'
<1>1. /\ pc[r] = "relaying" /\ pc' = pc /\ capture[r].out < capture[r].length
      /\ UNCHANGED <<config, live, stage, owner, event, log, errors, open, broken, main, pending, atStop>>
      /\ capture' = [capture EXCEPT ![r] = [capture[r] EXCEPT !.out = capture[r].out + 1]]
  BY DEF RelayBlock, recording, serving, Types
<1>2. /\ capture' \in [Requests -> Captures] /\ capture'[r].in = capture[r].in
      /\ capture'[r].body = capture[r].body /\ capture'[r].out = capture[r].out + 1
      /\ capture'[r].length = capture[r].length /\ capture'[r].finished = capture[r].finished
      /\ capture'[r].resp = capture[r].resp /\ capture'[r].status = capture[r].status
      /\ capture'[r].abandoned = capture[r].abandoned
      /\ capture[r].length \in Nat /\ capture[r].out \in Nat
  <2> DEFINE d == [capture[r] EXCEPT !.out = capture[r].out + 1]
  <2>1. capture[r] \in Captures /\ capture[r].out \in Nat /\ capture[r].length \in Nat
    BY DEF Types, Captures
  <2>2. d \in Captures
    BY <2>1 DEF Captures
  <2>3. /\ d.in = capture[r].in /\ d.body = capture[r].body /\ d.out = capture[r].out + 1
        /\ d.length = capture[r].length /\ d.finished = capture[r].finished
        /\ d.abandoned = capture[r].abandoned /\ d.status = capture[r].status
        /\ d.resp = capture[r].resp
    BY <2>1 DEF Captures
  <2> HIDE DEF d
  <2>4. capture' = [capture EXCEPT ![r] = d]
    BY <1>1 DEF d
  <2> QED
    BY <2>1, <2>2, <2>3, <2>4 DEF Types
<1>3. Types'
  BY <1>1, <1>2 DEF Types
<1>4. ClaimInv(r)' /\ ListInv(r)'
  BY <1>1, <1>2, <1>3 DEF Before, Relay, Stopped, PInv, ClaimInv, ListInv
<1>5. LogInv(r)' /\ EventInv(r)'
  BY <1>1, <1>2, <1>3 DEF Before, Relay, Stopped, PInv, LogInv, EventInv, ClaimInv
<1>6. ExchangeInv(r)'
  BY <1>1, <1>2, <1>3, StatusType DEF Before, Relay, Stopped, PInv, ExchangeInv, ClaimInv
<1> QED
  BY <1>3, <1>4, <1>5, <1>6 DEF PInv

\* The relay ends, at the end of the response or before it.
LEMMA RelayEndStep ==
  ASSUME Types, StoreInv, NEW r \in Requests, PInv(r), ReadFails(r) \/ CloseBody(r)
  PROVE  Types' /\ PInv(r)'
<1>1. /\ pc[r] = "relaying" /\ pc' = [pc EXCEPT ![r] = "finishing"]
      /\ UNCHANGED <<config, live, stage, owner, event, log, errors, open, broken, main, pending, atStop>>
      /\ \/ capture' = capture /\ capture[r].out = capture[r].length
         \/ capture' = [capture EXCEPT ![r] = [capture[r] EXCEPT !.err = "read"]]
         \/ capture' = [capture EXCEPT ![r] = [capture[r] EXCEPT !.clientLost = TRUE]]
  BY DEF ReadFails, CloseBody, recording, serving, Types
<1>2. /\ capture' \in [Requests -> Captures] /\ capture'[r].in = capture[r].in
      /\ capture'[r].body = capture[r].body /\ capture'[r].out = capture[r].out
      /\ capture'[r].length = capture[r].length /\ capture'[r].finished = capture[r].finished
      /\ capture'[r].resp = capture[r].resp /\ capture'[r].status = capture[r].status
      /\ capture'[r].abandoned = capture[r].abandoned
      /\ \/ capture'[r].err # "none" \/ capture'[r].clientLost
         \/ capture[r].out = capture[r].length
  <2>1. capture[r] \in Captures /\ "read" \in Errs
    BY PlaceTypes DEF Types
  <2>2. CASE capture' = capture /\ capture[r].out = capture[r].length
    BY <2>2 DEF Types
  <2>3. CASE capture' = [capture EXCEPT ![r] = [capture[r] EXCEPT !.err = "read"]]
    BY <2>1, <2>3 DEF Types, Captures
  <2>4. CASE capture' = [capture EXCEPT ![r] = [capture[r] EXCEPT !.clientLost = TRUE]]
    BY <2>1, <2>4 DEF Types, Captures
  <2> QED
    BY <1>1, <2>2, <2>3, <2>4
<1>3. Types' /\ pc'[r] = "finishing"
  BY <1>1, <1>2, PlaceTypes DEF Types
<1>4. ClaimInv(r)' /\ ListInv(r)'
  BY <1>1, <1>2, <1>3 DEF Before, Relay, Stopped, PInv, ClaimInv, ListInv
<1>5. LogInv(r)' /\ EventInv(r)'
  BY <1>1, <1>2, <1>3 DEF Before, Relay, Stopped, PInv, LogInv, EventInv, ClaimInv
<1>6. ExchangeInv(r)'
  BY <1>1, <1>2, <1>3, StatusType DEF Before, Relay, Stopped, PInv, ExchangeInv, ClaimInv
<1> QED
  BY <1>3, <1>4, <1>5, <1>6 DEF PInv

\* Whoever claims a capture leaves the rest of it alone.
LEMMA ClaimedFacts ==
  ASSUME NEW c \in Captures
  PROVE  /\ Claimed(c) \in Captures /\ Claimed(c).finished = TRUE
         /\ Claimed(c).in = c.in /\ Claimed(c).out = c.out /\ Claimed(c).body = c.body
         /\ Claimed(c).length = c.length /\ Claimed(c).resp = c.resp /\ Claimed(c).err = c.err
         /\ Claimed(c).clientLost = c.clientLost /\ Claimed(c).status = c.status
         /\ Claimed(c).abandoned = c.abandoned
BY DEF Claimed, Captures

LEMMA AbandonedFacts ==
  ASSUME NEW c \in Captures
  PROVE  /\ Abandoned(c) \in Captures /\ Abandoned(c).finished = c.finished
         /\ Abandoned(c).in = c.in /\ Abandoned(c).out = c.out /\ Abandoned(c).body = c.body
         /\ Abandoned(c).length = c.length /\ Abandoned(c).resp = c.resp
         /\ Abandoned(c).err = c.err /\ Abandoned(c).clientLost = c.clientLost
         /\ Abandoned(c).status # 0 /\ Abandoned(c).abandoned = TRUE
<1> DEFINE n == IF c.status = 0 THEN 499 ELSE c.status
<1>1. n \in Statuses /\ n # 0
  <2>1. c.status \in Statuses
    BY DEF Captures
  <2>2. 499 \in Statuses
    BY DEF Statuses
  <2> QED
    BY <2>1, <2>2
<1>2. Abandoned(c) = [c EXCEPT !.abandoned = TRUE, !.status = n]
  BY DEF Abandoned, Captures
<1> HIDE DEF n
<1>3. [c EXCEPT !.abandoned = TRUE, !.status = n] \in Captures
  BY <1>1 DEF Captures
<1> QED
  BY <1>1, <1>2, <1>3 DEF Captures

\* The handler finishes: it records the capture, or finds the shutdown has.
LEMMA FinishStep ==
  ASSUME Types, StoreInv, NEW r \in Requests, PInv(r), Finish(r)
  PROVE  Types' /\ PInv(r)'
<1>1. /\ pc[r] = "finishing" /\ owner[r] # "handler"
      /\ UNCHANGED <<config, live, event, log, errors, open, broken, main, pending, atStop>>
      /\ \/ /\ capture[r].finished /\ pc' = [pc EXCEPT ![r] = "returned"]
            /\ UNCHANGED <<stage, owner>>
            /\ \/ stage[r] = "done" /\ capture' = [capture EXCEPT ![r] = Forgotten]
               \/ stage[r] # "done" /\ capture' = capture
         \/ /\ ~capture[r].finished /\ pc' = pc
            /\ capture' = [capture EXCEPT ![r] = Claimed(capture[r])]
            /\ stage' = [stage EXCEPT ![r] = "claimed"]
            /\ owner' = [owner EXCEPT ![r] = "handler"]
  BY DEF Finish, serving, Types
<1>2. CASE capture[r].finished
  <2>1. Types' /\ pc'[r] = "returned" /\ owner' = owner /\ stage' = stage
    BY <1>1, <1>2, PlaceTypes, FreshFacts DEF Types
  <2>2. owner[r] = "shutdown"
    BY <1>1, <1>2 DEF Types, PInv, ClaimInv
  <2>3. \/ capture' = capture
        \/ /\ stage[r] = "done" /\ capture'[r].finished = TRUE
           /\ capture'[r].in = 0 /\ capture'[r].out = 0 /\ capture'[r].length = 0
           /\ capture'[r].body.len = 0
    BY <1>1, <1>2, FreshFacts DEF Types
  <2>4. ClaimInv(r)'
    BY <1>1, <2>1, <2>2, <2>3 DEF Before, Relay, Stopped, PInv, ClaimInv
  <2>5. ListInv(r)'
    BY <1>1, <2>1, <2>2 DEF Before, Relay, Stopped, PInv, ListInv
  <2>6. LogInv(r)' /\ EventInv(r)'
    BY <1>1, <2>1, <2>2, <2>3 DEF PInv, LogInv, EventInv
  <2>7. ExchangeInv(r)'
    BY <1>1, <2>1, <2>2, <2>3 DEF Before, Relay, Stopped, PInv, ExchangeInv
  <2> QED
    BY <2>1, <2>4, <2>5, <2>6, <2>7 DEF PInv
<1>3. CASE ~capture[r].finished
  <2> DEFINE d == Claimed(capture[r])
  <2>1. /\ d \in Captures /\ d.finished = TRUE /\ d.in = capture[r].in /\ d.out = capture[r].out
        /\ d.body = capture[r].body /\ d.length = capture[r].length /\ d.resp = capture[r].resp
        /\ d.err = capture[r].err /\ d.clientLost = capture[r].clientLost
    BY ClaimedFacts DEF Types
  <2> HIDE DEF d
  <2>2. capture' = [capture EXCEPT ![r] = d]
    BY <1>1, <1>3 DEF d
  <2>3. /\ Types' /\ pc'[r] = "finishing" /\ owner'[r] = "handler" /\ stage'[r] = "claimed"
        /\ capture'[r] = d
    BY <1>1, <1>3, <2>1, <2>2, PlaceTypes DEF Types
  <2>4. owner[r] = "none" /\ stage[r] = "free"
    BY <1>1, <1>3 DEF PInv, ClaimInv
  <2>5. ClaimInv(r)'
    BY <2>1, <2>3 DEF Before, ClaimInv
  <2>6. ListInv(r)'
    BY <1>1, <2>3, <2>4 DEF Before, Relay, Stopped, PInv, ListInv
  <2>7. LogInv(r)' /\ EventInv(r)'
    BY <1>1, <2>3, <2>4 DEF PInv, LogInv, EventInv
  <2>8. ExchangeInv(r)'
    BY <1>1, <2>1, <2>3, <2>4 DEF Before, Relay, Stopped, PInv, ExchangeInv
  <2> QED
    BY <2>3, <2>5, <2>6, <2>7, <2>8 DEF PInv
<1> QED
  BY <1>2, <1>3

\* The handler takes its capture off the list.
LEMMA UntrackStep ==
  ASSUME Types, StoreInv, NEW r \in Requests, PInv(r), Untrack(r)
  PROVE  Types' /\ PInv(r)'
<1>1. /\ stage[r] = "claimed" /\ owner[r] = "handler" /\ live' = live \ {r}
      /\ stage' = [stage EXCEPT ![r] = "ready"]
      /\ UNCHANGED <<config, pc, capture, owner, event, log, errors, open, broken, main, pending, atStop>>
  BY DEF Untrack, untrack, serving
<1>2. Types' /\ stage'[r] = "ready" /\ r \notin live'
  BY <1>1, PlaceTypes DEF Types
<1>3. ClaimInv(r)'
  BY <1>1, <1>2 DEF Before, Relay, Stopped, PInv, ClaimInv, ListInv
<1>4. ListInv(r)'
  BY <1>1, <1>2 DEF Before, Relay, Stopped, PInv, ClaimInv, ListInv, LogInv
<1>5. LogInv(r)'
  BY <1>1, <1>2 DEF Before, Relay, Stopped, PInv, LogInv, EventInv, ClaimInv
<1>6. EventInv(r)'
  BY <1>1, <1>2 DEF Before, Relay, Stopped, PInv, LogInv, EventInv, ClaimInv, ExchangeInv
<1>7. ExchangeInv(r)'
  BY <1>1, <1>2, StatusType DEF Before, Relay, Stopped, PInv, ExchangeInv, ClaimInv
<1> QED
  BY <1>2, <1>3, <1>4, <1>5, <1>6, <1>7 DEF PInv

\* The shutdown takes a capture, unless its handler has.
LEMMA AbandonStep ==
  ASSUME Types, StoreInv, NEW r \in Requests, PInv(r), Abandon(r)
  PROVE  Types' /\ PInv(r)'
<1>1. /\ main = "abandoning" /\ r \in pending /\ pending' = pending \ {r}
      /\ UNCHANGED <<config, pc, live, event, log, errors, open, broken, main, atStop>>
      /\ \/ capture[r].finished /\ UNCHANGED <<capture, stage, owner>>
         \/ /\ ~capture[r].finished
            /\ capture' = [capture EXCEPT ![r] = Claimed(capture[r])]
            /\ stage' = [stage EXCEPT ![r] = "claimed"]
            /\ owner' = [owner EXCEPT ![r] = "shutdown"]
  BY DEF Abandon, MayAbandon, Types
<1>2. /\ pc[r] \notin Before /\ owner[r] # "shutdown" /\ r \notin live
      /\ owner[r] = "none" => pc[r] # "returned" /\ stage[r] = "free"
      /\ capture[r].finished = (owner[r] # "none")
  BY <1>1 DEF PInv, ListInv, ClaimInv
<1>3. CASE capture[r].finished
  <2>1. Types' /\ UNCHANGED <<capture, stage, owner>> /\ r \notin pending' /\ owner[r] # "none"
    BY <1>1, <1>2, <1>3 DEF Types
  <2>2. ClaimInv(r)' /\ LogInv(r)' /\ ExchangeInv(r)' /\ EventInv(r)'
    BY <1>1, <2>1 DEF PInv, ClaimInv, LogInv, ExchangeInv, EventInv
  <2>3. ListInv(r)'
    BY <1>1, <1>2, <2>1 DEF Before, Relay, Stopped, PInv, ListInv
  <2> QED
    BY <2>1, <2>2, <2>3 DEF PInv
<1>4. CASE ~capture[r].finished
  <2> DEFINE d == Claimed(capture[r])
  <2>1. /\ d \in Captures /\ d.finished = TRUE /\ d.in = capture[r].in /\ d.out = capture[r].out
        /\ d.body = capture[r].body /\ d.length = capture[r].length /\ d.resp = capture[r].resp
        /\ d.err = capture[r].err /\ d.clientLost = capture[r].clientLost
    BY ClaimedFacts DEF Types
  <2> HIDE DEF d
  <2>2. capture' = [capture EXCEPT ![r] = d]
    BY <1>1, <1>4 DEF d
  <2>3. /\ Types' /\ owner'[r] = "shutdown" /\ stage'[r] = "claimed"
        /\ capture'[r] = d /\ r \notin pending'
    BY <1>1, <1>4, <2>1, <2>2, PlaceTypes DEF Types
  <2>4. owner[r] = "none" /\ stage[r] = "free" /\ pc[r] # "returned"
    BY <1>2, <1>4
  <2>5. ClaimInv(r)'
    BY <1>1, <1>2, <2>1, <2>3, <2>4 DEF ClaimInv, Stopped
  <2>6. ListInv(r)'
    BY <1>1, <1>2, <2>3, <2>4 DEF Stopped, PInv, ListInv
  <2>7. LogInv(r)' /\ EventInv(r)'
    BY <1>1, <2>3, <2>4 DEF PInv, LogInv, EventInv
  <2>8. ExchangeInv(r)'
    BY <1>1, <1>2, <2>1, <2>3, <2>4 DEF Before, PInv, ExchangeInv
  <2> QED
    BY <2>3, <2>5, <2>6, <2>7, <2>8 DEF PInv
<1> QED
  BY <1>3, <1>4

\* The shutdown marks the capture it took as abandoned.
LEMMA MarkStep ==
  ASSUME Types, StoreInv, NEW r \in Requests, PInv(r), MarkAbandoned(r)
  PROVE  Types' /\ PInv(r)'
<1> DEFINE d == Abandoned(capture[r])
<1>1. /\ stage[r] = "claimed" /\ owner[r] = "shutdown" /\ capture' = [capture EXCEPT ![r] = d]
      /\ stage' = [stage EXCEPT ![r] = "ready"]
      /\ UNCHANGED <<config, pc, live, owner, event, log, errors, open, broken, main, pending, atStop>>
  BY DEF MarkAbandoned, serving, Types
<1>2. /\ d \in Captures /\ d.finished = capture[r].finished /\ d.in = capture[r].in
      /\ d.out = capture[r].out /\ d.body = capture[r].body /\ d.length = capture[r].length
      /\ d.resp = capture[r].resp /\ d.err = capture[r].err /\ d.clientLost = capture[r].clientLost
      /\ d.status # 0 /\ d.abandoned = TRUE
  BY AbandonedFacts DEF Types
<1> HIDE DEF d
<1>3. Types' /\ stage'[r] = "ready" /\ capture'[r] = d
  BY <1>1, <1>2, PlaceTypes DEF Types
<1>4. ClaimInv(r)'
  BY <1>1, <1>2, <1>3 DEF Before, Relay, Stopped, PInv, ClaimInv, ListInv
<1>5. ListInv(r)'
  BY <1>1, <1>2, <1>3 DEF Before, Relay, Stopped, PInv, ClaimInv, ListInv, LogInv
<1>6. LogInv(r)'
  BY <1>1, <1>2, <1>3 DEF Before, Relay, Stopped, PInv, LogInv, EventInv, ClaimInv
<1>7. EventInv(r)'
  BY <1>1, <1>2, <1>3 DEF Before, Relay, Stopped, PInv, LogInv, EventInv, ClaimInv, ExchangeInv
<1>8. ExchangeInv(r)'
  BY <1>1, <1>2, <1>3, StatusType DEF Before, Relay, Stopped, PInv, ExchangeInv, ClaimInv
<1> QED
  BY <1>3, <1>4, <1>5, <1>6, <1>7, <1>8 DEF PInv

\* A mode keeps no text, a redacted one, or all of it; nothing it keeps is sealed.
LEMMA PayloadFacts ==
  ASSUME config \in Configs, NEW text \in BOOLEAN
  PROVE  /\ Payload(text) \in TextForms
         /\ config.mode = "hash" => Payload(text) = "none"
         /\ config.mode = "redact" => Payload(text) # "plain"
<1>1. config.mode \in {"hash", "redact", "store"}
  BY ProxyFacts
<1>2. CASE ~text
  BY <1>2 DEF Payload, TextForms
<1>3. CASE text
  BY <1>1, <1>3 DEF Payload, TextForms
<1> QED
  BY <1>2, <1>3

\* What sealing and its failure leave of a record.
SameExchange(e, f) ==
  /\ f.in = e.in /\ f.out = e.out /\ f.status = e.status /\ f.err = e.err
  /\ f.inTruncated = e.inTruncated /\ f.outTruncated = e.outTruncated

LEMMA SealFacts ==
  ASSUME NEW e \in EventRecords
  PROVE  /\ Sealed(e) \in EventRecords /\ SameExchange(e, Sealed(e))
         /\ {Sealed(e).inText, Sealed(e).outText} \subseteq {"none", "sealed"}
         /\ Sealed(e).tools = "none"
         /\ EncryptFails(e) \in EventRecords /\ SameExchange(e, EncryptFails(e))
         /\ EncryptFails(e).inText = "none" /\ EncryptFails(e).outText = "none"
         /\ EncryptFails(e).tools = "none"
<1> DEFINE d == dropToolText(e)
<1>1. "none" \in TextForms /\ "sealed" \in TextForms
  BY DEF TextForms
<1>2. /\ d \in EventRecords /\ SameExchange(e, d) /\ d.tools = "none"
  BY <1>1 DEF dropToolText, EventRecords, SameExchange
<1>3. \A t \in TextForms : sealPayload(t) \in {"none", "sealed"}
  BY DEF sealPayload
<1>4. /\ d.inText \in TextForms /\ d.outText \in TextForms
  BY <1>2 DEF EventRecords
<1>5. /\ Sealed(e) = [d EXCEPT !.inText = sealPayload(d.inText), !.outText = sealPayload(d.outText)]
      /\ EncryptFails(e) = [d EXCEPT !.inText = "none", !.outText = "none"]
  BY <1>2 DEF Sealed, EncryptFails, stripText, EventRecords
<1> HIDE DEF d
<1>6. \A x, y \in {"none", "sealed"} :
        /\ [d EXCEPT !.inText = x, !.outText = y] \in EventRecords
        /\ SameExchange(d, [d EXCEPT !.inText = x, !.outText = y])
        /\ [d EXCEPT !.inText = x, !.outText = y].inText = x
        /\ [d EXCEPT !.inText = x, !.outText = y].outText = y
        /\ [d EXCEPT !.inText = x, !.outText = y].tools = d.tools
  BY <1>1, <1>2 DEF EventRecords, SameExchange
<1> DEFINE s == sealPayload(d.inText)
           t == sealPayload(d.outText)
<1>7. s \in {"none", "sealed"} /\ t \in {"none", "sealed"}
  BY <1>3, <1>4
<1> HIDE DEF s, t
<1>8. Sealed(e) = [d EXCEPT !.inText = s, !.outText = t]
  BY <1>5 DEF s, t
<1>9. /\ Sealed(e) \in EventRecords /\ SameExchange(d, Sealed(e)) /\ Sealed(e).tools = "none"
      /\ Sealed(e).inText = s /\ Sealed(e).outText = t
  <2> DEFINE f == [d EXCEPT !.inText = s, !.outText = t]
  <2>1. /\ f \in EventRecords /\ SameExchange(d, f) /\ f.inText = s /\ f.outText = t
        /\ f.tools = d.tools
    BY <1>6, <1>7
  <2>2. Sealed(e) = f
    BY <1>8
  <2> HIDE DEF f
  <2> QED
    BY <1>2, <2>1, <2>2
<1>10. /\ EncryptFails(e) \in EventRecords /\ SameExchange(d, EncryptFails(e))
       /\ EncryptFails(e).tools = "none"
       /\ EncryptFails(e).inText = "none" /\ EncryptFails(e).outText = "none"
  BY <1>2, <1>5, <1>6
<1> QED
  BY <1>2, <1>7, <1>9, <1>10 DEF SameExchange

\* What the record made of a capture says.
LEMMA AssembledFacts ==
  ASSUME Types, NEW r \in Requests
  PROVE  /\ Assembled(r) \in EventRecords
         /\ Assembled(r).out = capture[r].out /\ Assembled(r).status = capture[r].status
         /\ Assembled(r).outTruncated = (capture[r].out > TapCap \/ capture[r].abandoned)
         /\ Assembled(r).err = IF owner[r] = "shutdown" THEN "stopped" ELSE capture[r].err
         /\ config.mode = "hash" =>
              /\ Assembled(r).inText = "none" /\ Assembled(r).outText = "none"
              /\ Assembled(r).tools = "none"
         /\ config.mode = "redact" =>
              /\ Assembled(r).inText # "plain" /\ Assembled(r).outText # "plain"
              /\ Assembled(r).tools # "plain"
<1> DEFINE c == capture[r]
           inText == HoldsRequest(c)
           outText == HoldsResponse(c, owner[r] = "handler")
           pi == Payload(inText)
           po == Payload(outText)
           pt == Payload(inText \/ outText)
           ti == TapTruncated(c.in) \/ c.peekTrunc
           to == TapTruncated(c.out) \/ c.abandoned
           err == IF owner[r] = "shutdown" THEN "stopped" ELSE c.err
<1>1. Assembled(r) = [in |-> c.in, out |-> c.out, status |-> c.status, inTruncated |-> ti,
                      outTruncated |-> to, err |-> err, inText |-> pi, outText |-> po, tools |-> pt]
  BY DEF Assembled
<1>2. /\ c.in \in Nat /\ c.out \in Nat /\ c.status \in Statuses /\ c.err \in Errs
      /\ c.abandoned \in BOOLEAN /\ c.peekTrunc \in BOOLEAN
  BY DEF Types, Captures
<1>3. inText \in BOOLEAN /\ outText \in BOOLEAN /\ (inText \/ outText) \in BOOLEAN
  BY DEF HoldsRequest, HoldsResponse
<1>4. ti \in BOOLEAN /\ to \in BOOLEAN
  BY DEF TapTruncated
<1>5. err \in Errs
  BY <1>2, PlaceTypes
<1>6. to = (c.out > TapCap \/ c.abandoned)
  BY DEF TapTruncated
<1>7. \A p \in {pi, po, pt} : /\ p \in TextForms /\ (config.mode = "hash" => p = "none")
                               /\ (config.mode = "redact" => p # "plain")
  BY <1>3, PayloadFacts DEF Types
<1> HIDE DEF pi, po, pt, ti, to
<1>8. err = IF owner[r] = "shutdown" THEN "stopped" ELSE capture[r].err
  OBVIOUS
<1> HIDE DEF err
<1>9. Assembled(r) \in EventRecords
  BY <1>1, <1>2, <1>4, <1>5, <1>7 DEF EventRecords
<1>10. /\ Assembled(r).out = c.out /\ Assembled(r).status = c.status
       /\ Assembled(r).outTruncated = to /\ Assembled(r).err = err
       /\ Assembled(r).inText = pi /\ Assembled(r).outText = po /\ Assembled(r).tools = pt
  BY <1>1
<1> QED
  BY <1>6, <1>7, <1>8, <1>9, <1>10

LEMMA NoEventIsNone == NoEvent \notin EventRecords
<1>1. DOMAIN NoEvent = {"err"}
  BY DEF NoEvent
<1>2. \A e \in EventRecords : "in" \in DOMAIN e
  BY DEF EventRecords
<1> QED
  BY <1>1, <1>2

\* The record of a capture is put together.
LEMMA AssembleStep ==
  ASSUME Types, StoreInv, NEW r \in Requests, PInv(r), Assemble(r)
  PROVE  Types' /\ PInv(r)' /\ TextInv(r)'
<1> DEFINE a == Assembled(r)
           c == capture[r]
           cut == IF c.abandoned THEN {"abandoned"} ELSE {}
<1>1. /\ stage[r] = "ready" /\ stage' = [stage EXCEPT ![r] = "built"]
      /\ UNCHANGED <<config, pc, capture, live, owner, log, open, broken, main, pending, atStop>>
      /\ \/ ~config.encrypt /\ event' = [event EXCEPT ![r] = a]
         \/ config.encrypt /\ event' = [event EXCEPT ![r] = Sealed(a)]
         \/ config.encrypt /\ event' = [event EXCEPT ![r] = EncryptFails(a)]
      /\ \/ errors' = [errors EXCEPT ![r] = @ \cup cut]
         \/ errors' = [errors EXCEPT ![r] = @ \cup (cut \cup {"encrypt"})]
  BY DEF Assemble, Count, captures, serving
<1>2. /\ a \in EventRecords
      /\ a.out = c.out /\ a.status = c.status
      /\ a.outTruncated = (c.out > TapCap \/ c.abandoned)
      /\ a.err = IF owner[r] = "shutdown" THEN "stopped" ELSE c.err
      /\ config.mode = "hash" => a.inText = "none" /\ a.outText = "none" /\ a.tools = "none"
      /\ config.mode = "redact" => a.inText # "plain" /\ a.outText # "plain" /\ a.tools # "plain"
  BY AssembledFacts
<1>3. config.encrypt => config.mode # "hash"
  BY ProxyFacts DEF Types
<1> HIDE DEF a
<1>4. PICK e \in EventRecords :
        /\ event' = [event EXCEPT ![r] = e] /\ SameExchange(a, e)
        /\ config.mode = "hash" => e.inText = "none" /\ e.outText = "none" /\ e.tools = "none"
        /\ config.mode = "redact" => e.inText # "plain" /\ e.outText # "plain" /\ e.tools # "plain"
        /\ config.encrypt => {e.inText, e.outText} \subseteq {"none", "sealed"} /\ e.tools = "none"
  <2>1. CASE ~config.encrypt /\ event' = [event EXCEPT ![r] = a]
    BY <1>2, <2>1 DEF SameExchange
  <2>2. CASE config.encrypt /\ event' = [event EXCEPT ![r] = Sealed(a)]
    BY <1>2, <1>3, <2>2, SealFacts
  <2>3. CASE config.encrypt /\ event' = [event EXCEPT ![r] = EncryptFails(a)]
    <3> DEFINE f == EncryptFails(a)
    <3>1. /\ f \in EventRecords /\ SameExchange(a, f) /\ f.inText = "none"
          /\ f.outText = "none" /\ f.tools = "none"
      BY <1>2, SealFacts
    <3> QED
      BY <1>3, <2>3, <3>1
  <2> QED
    BY <1>1, <2>1, <2>2, <2>3
<1>5. PICK more \in SUBSET Losses :
        /\ errors' = [errors EXCEPT ![r] = @ \cup more] /\ "append" \notin more
        /\ c.abandoned => "abandoned" \in more
  BY <1>1 DEF Losses
<1>6. Types' /\ stage'[r] = "built" /\ event'[r] = e /\ errors'[r] = errors[r] \cup more
  BY <1>1, <1>4, <1>5, PlaceTypes DEF Types
<1>7. e # NoEvent /\ e.out = c.out /\ e.status = c.status
      /\ e.outTruncated = (c.out > TapCap \/ c.abandoned)
      /\ e.err = IF owner[r] = "shutdown" THEN "stopped" ELSE c.err
  BY <1>2, <1>4, NoEventIsNone DEF SameExchange
<1>8. ClaimInv(r)'
  BY <1>1, <1>6 DEF Before, Relay, Stopped, PInv, ClaimInv
<1>9. ListInv(r)'
  BY <1>1, <1>6 DEF Before, Relay, Stopped, PInv, ClaimInv, ListInv
<1>10. LogInv(r)'
  BY <1>1, <1>5, <1>6 DEF Before, Relay, Stopped, PInv, LogInv
<1>11. ExchangeInv(r)'
  BY <1>1, <1>6 DEF Before, Relay, Stopped, PInv, ExchangeInv
<1>12. EventInv(r)'
  <2>1. owner[r] = "shutdown" => c.abandoned /\ c.status # 0
    BY <1>1 DEF PInv, ExchangeInv
  <2>2. owner[r] = "handler" =>
          \/ c.err # "none" \/ c.clientLost
          \/ c.resp /\ c.out = c.length
    BY <1>1 DEF PInv, ExchangeInv, ClaimInv
  <2>3. owner[r] # "none"
    BY <1>1 DEF PInv, ClaimInv
  <2> QED
    BY <1>1, <1>5, <1>6, <1>7, <2>1, <2>2, <2>3 DEF EventInv
<1>13. TextInv(r)'
  BY <1>1, <1>4, <1>6 DEF TextInv
<1> QED
  BY <1>6, <1>8, <1>9, <1>10, <1>11, <1>12, <1>13 DEF PInv

\* The record is appended, or its loss counted.
LEMMA AppendStep ==
  ASSUME Types, StoreInv, NEW r \in Requests, PInv(r), AppendRecord(r)
  PROVE  Types' /\ PInv(r)'
<1>1. /\ stage[r] = "built" /\ stage' = [stage EXCEPT ![r] = "done"]
      /\ event' = [event EXCEPT ![r] = NoEvent]
      /\ UNCHANGED <<config, live, owner, open, broken, main, pending, atStop>>
      /\ pc' = [pc EXCEPT ![r] = IF owner[r] = "handler" THEN "returned" ELSE @]
      /\ capture' = [capture EXCEPT ![r] = IF pc'[r] = "returned" THEN Forgotten ELSE @]
      /\ \/ log' = [log EXCEPT ![r] = log[r] + 1] /\ errors' = errors
         \/ /\ ~open \/ broken
            /\ errors' = [errors EXCEPT ![r] = errors[r] \cup {"append"}] /\ log' = log
  BY DEF AppendRecord, Append1, Count, serving, Types
<1>2. log[r] = 0 /\ "append" \notin errors[r] /\ owner[r] # "none"
  BY <1>1 DEF Before, PInv, LogInv, ClaimInv
<1>3. /\ Types' /\ stage'[r] = "done" /\ event'[r] = NoEvent
      /\ (log'[r] = 1 /\ errors' = errors) \/ (log'[r] = 0 /\ "append" \in errors'[r] /\ (~open \/ broken))
      /\ pc'[r] = (IF owner[r] = "handler" THEN "returned" ELSE pc[r])
      /\ capture'[r] = (IF pc'[r] = "returned" THEN Forgotten ELSE capture[r])
  <2>1. /\ log' \in [Requests -> Nat] /\ errors' \in [Requests -> SUBSET Losses]
        /\ (log'[r] = 1 /\ errors' = errors) \/ (log'[r] = 0 /\ "append" \in errors'[r] /\ (~open \/ broken))
    BY <1>1, <1>2 DEF Types, Losses
  <2>2. /\ pc' \in [Requests -> Pcs]
        /\ pc'[r] = (IF owner[r] = "handler" THEN "returned" ELSE pc[r])
    BY <1>1, PlaceTypes DEF Types
  <2>3. /\ capture' \in [Requests -> Captures]
        /\ capture'[r] = (IF pc'[r] = "returned" THEN Forgotten ELSE capture[r])
    BY <1>1, FreshFacts DEF Types
  <2> QED
    BY <1>1, <2>1, <2>2, <2>3, PlaceTypes DEF Types
<1>4. capture'[r] = capture[r] \/
        /\ capture'[r].finished = TRUE /\ capture'[r].in = 0 /\ capture'[r].out = 0
        /\ capture'[r].length = 0 /\ capture'[r].body.len = 0 /\ pc'[r] = "returned"
  BY <1>3, FreshFacts
<1>5. ClaimInv(r)'
  BY <1>1, <1>2, <1>3, <1>4 DEF Before, Relay, Stopped, PInv, ClaimInv
<1>6. ListInv(r)'
  BY <1>1, <1>2, <1>3, <1>4 DEF Before, Relay, Stopped, PInv, ClaimInv, ListInv, LogInv
<1>7. LogInv(r)'
  BY <1>1, <1>2, <1>3 DEF PInv, LogInv
<1>8. ExchangeInv(r)'
  BY <1>1, <1>2, <1>3, <1>4 DEF Before, Relay, PInv, ExchangeInv, ClaimInv
<1>9. EventInv(r)'
  BY <1>3 DEF EventInv
<1> QED
  BY <1>3, <1>5, <1>6, <1>7, <1>8, <1>9 DEF PInv

\* Only Assemble puts text in a record.
LEMMA TextKept ==
  ASSUME Types, NEW r \in Requests, TextInv(r),
         Handler(r) \/ AppendRecord(r) \/ Shutdown(r)
  PROVE  TextInv(r)'
<1>1. config' = config
  BY DEF Handler, Shutdown, Arrive, PostEvent, Unroutable, Forward, SendBody, Answered, Failed,
         RelayBlock, ReadFails, CloseBody, Finish, Untrack, AppendRecord, Abandon, MarkAbandoned
<1>2. stage'[r] # "built" \/ (stage' = stage /\ event' = event)
  <2>1. CASE Finish(r) \/ Untrack(r)
    BY <2>1 DEF Finish, Untrack, Types
  <2>2. CASE AppendRecord(r)
    BY <2>2 DEF AppendRecord, Types
  <2>3. CASE Shutdown(r)
    BY <2>3 DEF Shutdown, Abandon, MarkAbandoned, Types
  <2>4. CASE Handler(r) /\ ~(Finish(r) \/ Untrack(r))
    BY <2>4 DEF Handler, Arrive, PostEvent, Unroutable, Forward, SendBody, Answered, Failed,
                RelayBlock, ReadFails, CloseBody, recording
  <2> QED
    BY <2>1, <2>2, <2>3, <2>4
<1> QED
  BY <1>1, <1>2 DEF TextInv

\* An action of one request keeps the invariant of all.
LEMMA RequestStep ==
  ASSUME IInv, NEW r \in Requests, Handler(r) \/ Recorder(r) \/ Shutdown(r)
  PROVE  IInv'
<1>1. Types /\ StoreInv /\ \A q \in Requests : PInv(q) /\ TextInv(q)
  BY DEF IInv
<1>2. Types' /\ PInv(r)' /\ TextInv(r)'
  <2>1. CASE Assemble(r)
    BY <1>1, <2>1, AssembleStep
  <2>2. CASE AppendRecord(r)
    BY <1>1, <2>2, AppendStep, TextKept
  <2>3. CASE Shutdown(r)
    <3>1. Types' /\ PInv(r)'
      BY <1>1, <2>3, AbandonStep, MarkStep DEF Shutdown
    <3> QED
      BY <1>1, <2>3, <3>1, TextKept
  <2>4. CASE Handler(r)
    <3>1. Types' /\ PInv(r)'
      BY <1>1, <2>4, ArriveStep, PostEventStep, UnroutableStep, ForwardStep, SendBodyStep,
         AnsweredStep, FailedStep, RelayBlockStep, RelayEndStep, FinishStep, UntrackStep
         DEF Handler
    <3> QED
      BY <1>1, <2>4, <3>1, TextKept
  <2> QED
    BY <2>1, <2>2, <2>3, <2>4 DEF Recorder
<1>3. Elsewhere(r)
  BY <1>1, ElsewhereHolds
<1>4. StoreInv'
  BY <1>1, <1>3 DEF StoreInv, Elsewhere
<1>5. \A q \in Requests : (PInv(q) /\ TextInv(q))'
  BY <1>1, <1>2, <1>3, ElsewhereKeeps
<1> QED
  BY <1>2, <1>4, <1>5 DEF IInv

\* The error of the writer, the signal, the end of the grace period, the list of the
\* shutdown, the end of the store and of the process: only Serve, the store and what
\* they hold move on.
LEMMA ServeStep ==
  ASSUME IInv, StoreFails \/ Signal \/ GraceOver \/ TakeLive \/ CloseStore \/ Exit
  PROVE  IInv'
<1>1. /\ Types /\ StoreInv /\ \A q \in Requests : PInv(q) /\ TextInv(q)
      /\ UNCHANGED <<config, pc, capture, stage, owner, event, log, errors>>
  BY DEF IInv, StoreFails, Signal, GraceOver, TakeLive, CloseStore, Exit, captures, recording
<1>2. Types' /\ StoreInv'
  BY <1>1 DEF Types, StoreInv, Mains, Stopped, Relaying,
              StoreFails, Signal, GraceOver, TakeLive, CloseStore, Exit, captures, recording
<1> SUFFICES ASSUME NEW r \in Requests
             PROVE  PInv(r)' /\ TextInv(r)'
  BY <1>2 DEF IInv
<1>3. TextInv(r)' /\ EventInv(r)' /\ ExchangeInv(r)'
  BY <1>1 DEF PInv, TextInv, EventInv, ExchangeInv
<1>4. ClaimInv(r)'
  BY <1>1 DEF PInv, ClaimInv, Stopped, StoreFails, Signal, GraceOver, TakeLive, CloseStore, Exit
<1>5. LogInv(r)'
  <2>1. (open' => open) /\ (broken => broken')
    BY DEF StoreFails, Signal, GraceOver, TakeLive, CloseStore, Exit
  <2> QED
    BY <1>1, <2>1 DEF PInv, LogInv, Types
<1>6. ListInv(r)'
  <2>1. CASE StoreFails \/ Signal \/ Exit
    BY <1>1, <2>1 DEF StoreFails, Signal, Exit, captures, recording, PInv, ListInv, Stopped, Before, Relay
  <2>2. CASE GraceOver
    BY <1>1, <2>2 DEF GraceOver, captures, recording, PInv, ListInv, Stopped, Before, Relay, Relaying
  <2>3. CASE TakeLive
    BY <1>1, <2>3 DEF TakeLive, captures, recording, PInv, ListInv, ClaimInv, Stopped, Before, Relay
  <2>4. CASE CloseStore
    <3>1. /\ main = "abandoning" /\ pending = {} /\ main' = "closed" /\ open
          /\ UNCHANGED <<live, broken, pending, atStop>>
          /\ owner[r] = "shutdown" => stage[r] = "done"
      BY <1>1, <2>4 DEF CloseStore, Busy, captures, StoreInv, Stopped
    <3>2. owner[r] = "shutdown" => log[r] = 1 \/ (broken /\ "append" \in errors[r])
      BY <1>1, <3>1 DEF PInv, LogInv
    <3>3. r \in atStop => \/ log[r] > 0 \/ owner[r] = "handler"
                          \/ broken /\ "append" \in errors[r]
      <4>1. owner[r] \in {"none", "handler", "shutdown"}
        BY <1>1 DEF Types
      <4> QED
        BY <1>1, <3>1, <3>2, <4>1 DEF PInv, ListInv
    <3> QED
      BY <1>1, <3>1, <3>3 DEF PInv, ListInv, Stopped, Before, Relay
  <2> QED
    BY <2>1, <2>2, <2>3, <2>4
<1> QED
  BY <1>3, <1>4, <1>5, <1>6 DEF PInv

LEMMA InitHolds == Init => IInv
<1> SUFFICES ASSUME Init PROVE IInv
  OBVIOUS
<1>1. Types
  <2>1. "off" \in Pcs /\ "free" \in Stages /\ "serving" \in Mains
    BY DEF Pcs, Before, Stages, Mains
  <2> QED
    BY <2>1, FreshFacts DEF Init, Types
<1>2. StoreInv
  BY DEF Init, StoreInv, Stopped
<1>3. ASSUME NEW r \in Requests PROVE PInv(r) /\ TextInv(r)
  <2>1. /\ pc[r] = "off" /\ capture[r] = Fresh /\ stage[r] = "free" /\ owner[r] = "none"
        /\ event[r] = NoEvent /\ log[r] = 0 /\ errors[r] = {}
        /\ live = {} /\ pending = {} /\ atStop = {} /\ main = "serving"
    BY DEF Init
  <2>2. /\ Fresh.finished = FALSE /\ Fresh.in = 0 /\ Fresh.out = 0 /\ Fresh.length = 0
        /\ Fresh.body.len = 0
    BY FreshFacts
  <2>3. ClaimInv(r)
    BY <2>1, <2>2 DEF ClaimInv, Before
  <2>4. ListInv(r) /\ LogInv(r) /\ TextInv(r)
    BY <2>1 DEF ListInv, LogInv, TextInv, Relay
  <2>5. ExchangeInv(r)
    BY <2>1, <2>2 DEF ExchangeInv
  <2>6. EventInv(r)
    BY <2>1 DEF EventInv
  <2> QED
    BY <2>3, <2>4, <2>5, <2>6 DEF PInv
<1> QED
  BY <1>1, <1>2, <1>3 DEF IInv

LEMMA StepKeeps == IInv /\ [Next]_vars => IInv'
<1> SUFFICES ASSUME IInv, [Next]_vars PROVE IInv'
  OBVIOUS
<1>1. CASE Next
  BY <1>1, RequestStep, ServeStep DEF Next
<1>2. CASE UNCHANGED vars
  <2>1. /\ UNCHANGED <<config, pc, capture, live, stage, owner, event, log, errors>>
        /\ UNCHANGED <<open, broken, main, pending, atStop>>
    BY <1>2 DEF vars, captures, recording, serving
  <2>2. Types' /\ StoreInv'
    BY <2>1 DEF IInv, Types, StoreInv
  <2>3. ASSUME NEW r \in Requests PROVE (PInv(r) /\ TextInv(r))'
    <3>1. ClaimInv(r)' /\ ListInv(r)'
      BY <2>1 DEF IInv, PInv, ClaimInv, ListInv
    <3>2. LogInv(r)' /\ ExchangeInv(r)'
      BY <2>1 DEF IInv, PInv, LogInv, ExchangeInv
    <3>3. EventInv(r)' /\ TextInv(r)'
      BY <2>1 DEF IInv, PInv, EventInv, TextInv
    <3> QED
      BY <3>1, <3>2, <3>3 DEF PInv
  <2> QED
    BY <2>2, <2>3 DEF IInv
<1> QED
  BY <1>1, <1>2

-----------------------------------------------------------------------------
(* Theorems *)

\* How far a capture has come determines what is read of it, who records it and
\* whether it is in flight, and the log has room only while the store is open
\* (proxy/proxy.go handleProxy, finish, record, AbandonInFlight).
THEOREM CapturesInvariant == Spec => []IInv
<1>1. Init => IInv
  BY InitHolds
<1>2. IInv /\ [Next]_vars => IInv'
  BY StepKeeps
<1> QED
  BY <1>1, <1>2, PTL DEF Spec

\* No counter of a capture runs past what was sent, no status is one that neither
\* the upstream nor the proxy gives, and a capture whose handler returned is not
\* registered as in flight (proxy/proxy.go track and finish, proxy/capture.go tap).
THEOREM TypeCorrect == Spec => []TypeOK
<1>1. IInv => TypeOK
  <2> SUFFICES ASSUME IInv PROVE TypeOK
    OBVIOUS
  <2>1. Types /\ StoreInv /\ \A q \in Requests : PInv(q)
    BY DEF IInv
  <2>2. ASSUME NEW r \in Requests
        PROVE  /\ capture[r].in \in 0 .. capture[r].body.len
               /\ capture[r].out \in 0 .. capture[r].length
               /\ capture[r].status \in {0, 499, 502} \cup {a.status : a \in Answers}
               /\ errors[r] \subseteq {"abandoned", "encrypt", "append"}
               /\ stage[r] \in {"free", "claimed", "ready", "built", "done"}
               /\ (stage[r] = "free") = (owner[r] = "none")
               /\ (event[r] # NoEvent) = (stage[r] = "built")
    <3>1. capture[r] \in Captures /\ errors[r] \subseteq Losses /\ stage[r] \in Stages
      BY <2>1 DEF Types
    <3>2. capture[r].body.len \in Nat
      BY <3>1, BodyType
    <3>3. /\ capture[r].in \in Nat /\ capture[r].out \in Nat /\ capture[r].length \in Nat
          /\ capture[r].status \in Statuses
      BY <3>1 DEF Captures
    <3>4. capture[r].in <= capture[r].body.len /\ capture[r].out <= capture[r].length
      BY <2>1 DEF PInv, ExchangeInv
    <3>5. capture[r].in \in 0 .. capture[r].body.len /\ capture[r].out \in 0 .. capture[r].length
      BY <3>2, <3>3, <3>4
    <3>6. (stage[r] = "free") = (owner[r] = "none") /\ (event[r] # NoEvent) = (stage[r] = "built")
      BY <2>1 DEF PInv, ClaimInv, EventInv
    <3> QED
      BY <3>1, <3>3, <3>5, <3>6 DEF Statuses, Losses, Stages
  <2>3. live \cup pending \cup atStop \subseteq Requests /\ config \in Configs
    BY <2>1 DEF Types
  <2>4. open = (main \notin {"closed", "exited"}) /\ broken \in BOOLEAN
    BY <2>1 DEF Types, StoreInv, Stopped
  <2>5. \A r \in live : pc[r] # "returned"
    BY <2>1 DEF PInv, ListInv, Types
  <2> QED
    BY <2>2, <2>3, <2>4, <2>5 DEF TypeOK
<1> QED
  BY <1>1, CapturesInvariant, PTL

\* A response that ends, an upstream error and the shutdown race to finish one
\* capture: it is recorded once at most; the store took the record of what is done
\* with, or its loss was counted, and that only once the store was closed or its
\* writer had failed; and what was being relayed when the grace period ended is
\* recorded when the store closes, or its handler has taken it, or its loss to a
\* failed writer was counted (proxy/proxy.go finish, record, AbandonInFlight;
\* evidence/store.go Append; cli/serve.go:339-358).
THEOREM CapturesAreAccounted == Spec => []EveryCaptureAccounted
<1>1. IInv => EveryCaptureAccounted
  <2> SUFFICES ASSUME IInv PROVE EveryCaptureAccounted
    OBVIOUS
  <2>1. Types /\ StoreInv /\ \A q \in Requests : PInv(q)
    BY DEF IInv
  <2>2. ASSUME NEW r \in Requests
        PROVE  /\ log[r] <= 1
               /\ stage[r] = "done" => Recorded(r) \/ "append" \in errors[r]
               /\ "append" \in errors[r] => ~Recorded(r) /\ (~open \/ broken)
               /\ pc[r] = "returned" => stage[r] # "free"
    BY <2>1 DEF PInv, LogInv, ClaimInv, Recorded
  <2>3. ASSUME ~open, NEW r \in atStop
        PROVE  \/ Recorded(r) \/ owner[r] = "handler"
               \/ broken /\ "append" \in errors[r]
    BY <2>1, <2>3 DEF Types, StoreInv, PInv, ListInv, Recorded
  <2> QED
    BY <2>2, <2>3 DEF EveryCaptureAccounted
<1> QED
  BY <1>1, CapturesInvariant, PTL

\* A record of less than the response the upstream sent says so, however the
\* shutdown and the relay interleave (proxy/proxy.go record and abandon, proxy/capture.go snapshot).
THEOREM FragmentsMarked == Spec => []FragmentsAreMarked
<1>1. IInv => FragmentsAreMarked
  <2> SUFFICES ASSUME IInv, NEW r \in Requests, stage[r] = "built"
               PROVE  /\ owner[r] = "shutdown" =>
                           event[r].outTruncated /\ event[r].err = "stopped" /\ event[r].status # 0
                           /\ "abandoned" \in errors[r]
                      /\ event[r].out > TapCap => event[r].outTruncated
                      /\ ~capture[r].resp \/ event[r].out < capture[r].length =>
                           event[r].outTruncated \/ event[r].err # "none" \/ capture[r].clientLost
    BY DEF FragmentsAreMarked
  <2>1. Types /\ PInv(r)
    BY DEF IInv
  <2>2. owner[r] \in {"handler", "shutdown"}
    BY <2>1 DEF Types, PInv, ClaimInv
  <2>3. capture[r].length \in Nat
    BY <2>1 DEF Types, Captures
  <2> QED
    BY <2>1, <2>2, <2>3 DEF PInv, EventInv
<1> QED
  BY <1>1, CapturesInvariant, PTL

\* A record goes to the log with text only in the form the configured mode and
\* encryption allow (content/content.go Payload, content/encrypt.go EncryptEvent).
THEOREM TextFollowsItsMode == Spec => []TextFollowsMode
<1>1. IInv => TextFollowsMode
  BY DEF IInv, TextInv, TextFollowsMode
<1> QED
  BY <1>1, CapturesInvariant, PTL

-----------------------------------------------------------------------------
(* Numbers *)

\* What holds of 0 and goes on from each number to the next holds of every number.
LEMMA CountingUp ==
  ASSUME NEW n \in Nat, NEW S, 0 \in S, \A k \in 0 .. n - 1 : k \in S => k + 1 \in S
  PROVE  \A k \in 0 .. n : k \in S
<1> SUFFICES ASSUME NEW m \in 0 .. n, m \notin S PROVE FALSE
  OBVIOUS
<1> DEFINE UpTo(i) == 1 .. i
           T == {UpTo(i) : i \in {k \in 0 .. n : k \notin S}}
<1>1. T \subseteq FiniteSubsetsOf(1 .. n) /\ T # {}
  <2>1. IsFiniteSet(1 .. n) /\ \A i \in 0 .. n : UpTo(i) \in SUBSET (1 .. n)
    BY FS_Interval
  <2>2. T \subseteq SUBSET (1 .. n) /\ T # {}
    BY <2>1
  <2> HIDE DEF T
  <2> QED
    BY <2>1, <2>2, FS_FiniteSubsetsOfFinite
<1>2. PICK x \in T : \A y \in T : <<y, x>> \notin StrictSubsetOrdering(1 .. n)
  <2> HIDE DEF T
  <2> QED
    BY <1>1, FS_StrictSubsetOrderingWellFounded, WFMin
<1>3. PICK i \in 0 .. n : x = UpTo(i) /\ i \notin S
  OBVIOUS
<1>4. i # 0 /\ i - 1 \in 0 .. n - 1 /\ i - 1 \in 0 .. n /\ (i - 1) + 1 = i
  BY <1>3
<1>5. i - 1 \notin S
  BY <1>3, <1>4
<1>6. UpTo(i - 1) \in T
  BY <1>4, <1>5
<1>7. UpTo(i - 1) \subseteq UpTo(i) /\ UpTo(i) \subseteq 1 .. n /\ i \in UpTo(i) /\ i \notin UpTo(i - 1)
  BY <1>4
<1> HIDE DEF UpTo, T
<1>8. <<UpTo(i - 1), x>> \notin StrictSubsetOrdering(1 .. n)
  BY <1>2, <1>6
<1> QED
  BY <1>3, <1>7, <1>8 DEF StrictSubsetOrdering

\* Counting in places: the higher place decides.
LEMMA HigherPlace ==
  ASSUME NEW a \in Nat, NEW b \in Nat, NEW w \in Nat, NEW x \in 0 .. w - 1, NEW y \in 0 .. w - 1,
         a < b \/ (a = b /\ x < y)
  PROVE  a * w + x < b * w + y
<1>1. a * w \in Nat
  OBVIOUS
<1>2. CASE a = b /\ x < y
  BY <1>1, <1>2
<1>3. CASE a < b
  <2>1. b * w = a * w + (b - a) * w
    OBVIOUS
  <2>2. (b - a) * w = w + (b - a - 1) * w /\ b - a - 1 \in Nat
    BY <1>3
  <2>3. (b - a - 1) * w \in Nat
    BY <2>2
  <2> QED
    BY <1>1, <2>1, <2>2, <2>3
<1> QED
  BY <1>1, <1>2, <1>3

-----------------------------------------------------------------------------
(* The glob matcher *)

\* The characters of the pattern after the first p take those of the name after the
\* first n.
Rest(pattern, name, p, n) ==
  \E upTo \in [p .. Len(pattern) -> 0 .. Len(name)] :
    /\ upTo[p] = n /\ upTo[Len(pattern)] = Len(name)
    /\ \A i \in p + 1 .. Len(pattern) : Takes(pattern, name, i, upTo[i - 1], upTo[i])

LEMMA RestEnds ==
  ASSUME NEW pattern, NEW name, Len(pattern) \in Nat, Len(name) \in Nat, NEW n \in 0 .. Len(name)
  PROVE  Rest(pattern, name, Len(pattern), n) <=> n = Len(name)
<1> DEFINE P == Len(pattern)
           u == [i \in P .. P |-> Len(name)]
<1>1. u \in [P .. P -> 0 .. Len(name)] /\ u[P] = Len(name) /\ P + 1 .. P = {}
  OBVIOUS
<1> QED
  BY <1>1 DEF Rest

LEMMA RestGoesOn ==
  ASSUME NEW pattern, NEW name, Len(pattern) \in Nat, Len(name) \in Nat,
         NEW p \in 0 .. Len(pattern) - 1, NEW n \in 0 .. Len(name)
  PROVE  Rest(pattern, name, p, n)
           <=> \E k \in 0 .. Len(name) : Takes(pattern, name, p + 1, n, k) /\ Rest(pattern, name, p + 1, k)
<1> DEFINE P == Len(pattern)
           N == Len(name)
<1>1. p + 1 \in p .. P /\ p + 1 \in p + 1 .. P /\ p \in p .. P /\ P \in p + 1 .. P /\ P \in p .. P /\ (p + 1) - 1 = p
  OBVIOUS
<1>2. ASSUME Rest(pattern, name, p, n)
      PROVE  \E k \in 0 .. N : Takes(pattern, name, p + 1, n, k) /\ Rest(pattern, name, p + 1, k)
  <2>1. PICK u \in [p .. P -> 0 .. N] :
          u[p] = n /\ u[P] = N /\ \A i \in p + 1 .. P : Takes(pattern, name, i, u[i - 1], u[i])
    BY <1>2 DEF Rest
  <2> DEFINE v == [i \in p + 1 .. P |-> u[i]]
  <2>2. v \in [p + 1 .. P -> 0 .. N] /\ v[P] = N /\ v[p + 1] = u[p + 1] /\ u[p + 1] \in 0 .. N
    BY <1>1, <2>1
  <2>3. \A i \in (p + 1) + 1 .. P : v[i - 1] = u[i - 1] /\ v[i] = u[i] /\ i \in p + 1 .. P
    OBVIOUS
  <2> HIDE DEF v
  <2>4. \A i \in (p + 1) + 1 .. P : Takes(pattern, name, i, v[i - 1], v[i])
    BY <2>1, <2>3
  <2>5. Rest(pattern, name, p + 1, u[p + 1])
    BY <2>2, <2>4 DEF Rest
  <2>6. Takes(pattern, name, p + 1, n, u[p + 1])
    BY <1>1, <2>1
  <2> QED
    BY <2>2, <2>5, <2>6
<1>3. ASSUME NEW k \in 0 .. N, Takes(pattern, name, p + 1, n, k), Rest(pattern, name, p + 1, k)
      PROVE  Rest(pattern, name, p, n)
  <2>1. PICK v \in [p + 1 .. P -> 0 .. N] :
          /\ v[p + 1] = k /\ v[P] = N
          /\ \A i \in (p + 1) + 1 .. P : Takes(pattern, name, i, v[i - 1], v[i])
    BY <1>3 DEF Rest
  <2> DEFINE u == [i \in p .. P |-> IF i = p THEN n ELSE v[i]]
  <2>2. u \in [p .. P -> 0 .. N] /\ u[p] = n /\ u[P] = N /\ u[p + 1] = k
    BY <1>1, <2>1
  <2>3. \A i \in (p + 1) + 1 .. P : u[i - 1] = v[i - 1] /\ u[i] = v[i]
    OBVIOUS
  <2>4. \A i \in p + 1 .. P : i = p + 1 \/ i \in (p + 1) + 1 .. P
    OBVIOUS
  <2> HIDE DEF u
  <2>5. \A i \in p + 1 .. P : Takes(pattern, name, i, u[i - 1], u[i])
    BY <1>1, <1>3, <2>1, <2>2, <2>3, <2>4
  <2> QED
    BY <2>2, <2>5 DEF Rest
<1> QED
  BY <1>2, <1>3

\* Without a star, each character of the pattern takes one of the name.
LEMMA RestWithoutStar ==
  ASSUME NEW pattern, NEW name, Len(pattern) \in Nat, Len(name) \in Nat,
         NEW q \in 0 .. Len(pattern), NEW p \in q .. Len(pattern),
         \A i \in q + 1 .. p : pattern[i] # "*",
         NEW k \in 0 .. Len(name), Rest(pattern, name, q, k)
  PROVE  k + (p - q) <= Len(name) /\ Rest(pattern, name, p, k + (p - q))
<1> DEFINE P == Len(pattern)
           N == Len(name)
           S == {j \in 0 .. p - q : k + j <= N /\ Rest(pattern, name, q + j, k + j)}
<1>1. p - q \in Nat /\ p - q \in 0 .. p - q /\ q + (p - q) = p
  OBVIOUS
<1>2. 0 \in S
  <2>1. q + 0 = q /\ k + 0 = k /\ k <= N
    OBVIOUS
  <2> QED
    BY <1>1, <2>1
<1>3. ASSUME NEW j \in 0 .. (p - q) - 1, j \in S PROVE j + 1 \in S
  <2>1. k + j <= N /\ Rest(pattern, name, q + j, k + j)
    BY <1>3
  <2>2. q + j \in 0 .. P - 1 /\ k + j \in 0 .. N /\ (q + j) + 1 \in q + 1 .. p
    BY <2>1
  <2>3. PICK m \in 0 .. N : Takes(pattern, name, (q + j) + 1, k + j, m) /\ Rest(pattern, name, (q + j) + 1, m)
    BY <2>1, <2>2, RestGoesOn
  <2>4. m = (k + j) + 1
    BY <2>2, <2>3 DEF Takes
  <2>5. (k + j) + 1 = k + (j + 1) /\ (q + j) + 1 = q + (j + 1) /\ j + 1 \in 0 .. p - q
    OBVIOUS
  <2>6. k + (j + 1) <= N /\ Rest(pattern, name, q + (j + 1), k + (j + 1))
    BY <2>3, <2>4, <2>5
  <2> QED
    BY <2>5, <2>6
<1>4. \A j \in 0 .. p - q : j \in S
  <2> HIDE DEF S
  <2> QED
    BY <1>1, <1>2, <1>3, CountingUp
<1>5. p - q \in S
  BY <1>1, <1>4
<1>6. k + (p - q) <= N /\ Rest(pattern, name, q + (p - q), k + (p - q))
  BY <1>5
<1> QED
  BY <1>1, <1>6

\* At the end of the name, only stars may be left.
LEMMA RestOfNothing ==
  ASSUME NEW pattern, NEW name, Len(pattern) \in Nat, Len(name) \in Nat, NEW p \in 0 .. Len(pattern)
  PROVE  Rest(pattern, name, p, Len(name)) <=> \A i \in p + 1 .. Len(pattern) : pattern[i] = "*"
<1> DEFINE P == Len(pattern)
           N == Len(name)
<1>1. ASSUME Rest(pattern, name, p, N), NEW i \in p + 1 .. P PROVE pattern[i] = "*"
  <2>1. PICK u \in [p .. P -> 0 .. N] :
          u[p] = N /\ u[P] = N /\ \A x \in p + 1 .. P : Takes(pattern, name, x, u[x - 1], u[x])
    BY <1>1 DEF Rest
  <2> DEFINE S == {j \in 0 .. P - p : u[p + j] = N}
  <2>2. 0 \in S /\ P - p \in Nat
    <3>1. p + 0 = p /\ 0 \in 0 .. P - p
      OBVIOUS
    <3> QED
      BY <2>1, <3>1
  <2>3. ASSUME NEW x \in p + 1 .. P, u[x - 1] = N PROVE u[x] = N /\ pattern[x] = "*"
    <3>1. u[x] \in 0 .. N /\ Takes(pattern, name, x, N, u[x])
      BY <2>1, <2>3
    <3> QED
      BY <3>1 DEF Takes
  <2>4. ASSUME NEW j \in 0 .. (P - p) - 1, j \in S PROVE j + 1 \in S
    <3>1. p + (j + 1) \in p + 1 .. P /\ (p + (j + 1)) - 1 = p + j /\ j + 1 \in 0 .. P - p
      OBVIOUS
    <3>2. u[p + j] = N
      BY <2>4
    <3> QED
      BY <2>3, <3>1, <3>2
  <2>5. \A j \in 0 .. P - p : j \in S
    <3> HIDE DEF S
    <3> QED
      BY <2>2, <2>4, CountingUp
  <2>6. (i - 1) - p \in 0 .. P - p /\ p + ((i - 1) - p) = i - 1
    OBVIOUS
  <2>7. u[i - 1] = N
    BY <2>5, <2>6
  <2> QED
    BY <2>3, <2>7
<1>2. ASSUME \A i \in p + 1 .. P : pattern[i] = "*" PROVE Rest(pattern, name, p, N)
  <2> DEFINE u == [i \in p .. P |-> N]
  <2>1. u \in [p .. P -> 0 .. N] /\ u[p] = N /\ u[P] = N
    OBVIOUS
  <2>2. \A i \in p + 1 .. P : u[i - 1] = N /\ u[i] = N
    OBVIOUS
  <2> HIDE DEF u
  <2>3. \A i \in p + 1 .. P : Takes(pattern, name, i, u[i - 1], u[i])
    BY <1>2, <2>2 DEF Takes
  <2> QED
    BY <2>1, <2>3 DEF Rest
<1> QED
  BY <1>1, <1>2

\* The loop, one round: it ends, with an answer, or goes on.
Fits(pattern, name, s) == s.p < Len(pattern) /\ pattern[s.p + 1] \in {"?", name[s.n + 1]}
OnStar(pattern, s) == s.p < Len(pattern) /\ pattern[s.p + 1] = "*"
Ended(pattern, name, s) ==
  s.n = Len(name) \/ (~Fits(pattern, name, s) /\ ~OnStar(pattern, s) /\ s.star < 0)
Answer(pattern, name, s) == s.n = Len(name) /\ \A i \in s.p + 1 .. Len(pattern) : pattern[i] = "*"
Round(pattern, name, s) ==
  IF Fits(pattern, name, s) THEN [s EXCEPT !.p = @ + 1, !.n = @ + 1]
  ELSE IF OnStar(pattern, s) THEN [s EXCEPT !.p = @ + 1, !.star = s.p, !.starN = s.n]
  ELSE [s EXCEPT !.p = s.star + 1, !.n = s.starN + 1, !.starN = @ + 1]
Rounds(pattern, name, f) ==
  f = [s \in GlobStates(Len(pattern), Len(name)) |->
         IF Ended(pattern, name, s) THEN Answer(pattern, name, s) ELSE f[Round(pattern, name, s)]]
Started == [p |-> 0, n |-> 0, star |-> -1, starN |-> 0]

LEMMA GlobMatchIsLoop ==
  ASSUME NEW pattern, NEW name
  PROVE  GlobMatch(pattern, name) = (CHOOSE f : Rounds(pattern, name, f))[Started]
<1> DEFINE P == Len(pattern)
           N == Len(name)
           body(f, s) ==
             IF s.n = N THEN \A i \in s.p + 1 .. P : pattern[i] = "*"
             ELSE IF s.p < P /\ pattern[s.p + 1] \in {"?", name[s.n + 1]}
             THEN f[[s EXCEPT !.p = @ + 1, !.n = @ + 1]]
             ELSE IF s.p < P /\ pattern[s.p + 1] = "*"
             THEN f[[s EXCEPT !.p = @ + 1, !.star = s.p, !.starN = s.n]]
             ELSE IF s.star >= 0
             THEN f[[s EXCEPT !.p = s.star + 1, !.n = s.starN + 1, !.starN = @ + 1]]
             ELSE FALSE
<1>1. GlobMatch(pattern, name) = (CHOOSE f : f = [s \in GlobStates(P, N) |-> body(f, s)])[Started]
  BY DEF GlobMatch, Started
<1>2. \A f : \A s \in GlobStates(P, N) :
        body(f, s) = IF Ended(pattern, name, s) THEN Answer(pattern, name, s) ELSE f[Round(pattern, name, s)]
  <2> TAKE f
  <2> TAKE s \in GlobStates(P, N)
  <2>1. (s.star < 0) <=> ~(s.star >= 0)
    BY DEF GlobStates
  <2> DEFINE fits == s.p < P /\ pattern[s.p + 1] \in {"?", name[s.n + 1]}
             star == s.p < P /\ pattern[s.p + 1] = "*"
  <2>2. fits <=> Fits(pattern, name, s)
    BY DEF Fits
  <2>3. star <=> OnStar(pattern, s)
    BY DEF OnStar
  <2>4. CASE s.n = N
    BY <2>4 DEF Ended, Answer
  <2>5. CASE s.n # N /\ fits
    BY <2>2, <2>5 DEF Ended, Round
  <2>6. CASE s.n # N /\ ~fits /\ star
    BY <2>2, <2>3, <2>6 DEF Ended, Round
  <2>7. CASE s.n # N /\ ~fits /\ ~star /\ s.star >= 0
    BY <2>1, <2>2, <2>3, <2>7 DEF Ended, Round
  <2>8. CASE s.n # N /\ ~fits /\ ~star /\ ~(s.star >= 0)
    BY <2>1, <2>2, <2>3, <2>8 DEF Ended, Answer
  <2> QED
    BY <2>4, <2>5, <2>6, <2>7, <2>8
<1>3. \A f : (f = [s \in GlobStates(P, N) |-> body(f, s)]) <=> Rounds(pattern, name, f)
  <2> HIDE DEF body
  <2> QED
    BY <1>2 DEF Rounds
<1> HIDE DEF body
<1>4. (CHOOSE f : f = [s \in GlobStates(P, N) |-> body(f, s)]) = CHOOSE f : Rounds(pattern, name, f)
  BY <1>3
<1> QED
  BY <1>1, <1>4

\* A round that goes on comes closer to the end: the last star moves on in the name, or
\* it stays and the rest of the pattern and of the name gets shorter.
Base(pattern, name) == Len(pattern) + Len(name) + 1
Left(pattern, name, s) ==
  (Len(name) - s.starN) * Base(pattern, name) + ((Len(pattern) - s.p) + (Len(name) - s.n))
MostLeft(pattern, name) == Len(name) * Base(pattern, name) + (Len(pattern) + Len(name))

LEMMA RoundComesCloser ==
  ASSUME NEW pattern, NEW name, Len(pattern) \in Nat, Len(name) \in Nat,
         NEW s \in GlobStates(Len(pattern), Len(name))
  PROVE  /\ Left(pattern, name, s) \in 0 .. MostLeft(pattern, name)
         /\ ~Ended(pattern, name, s) =>
              /\ Round(pattern, name, s) \in GlobStates(Len(pattern), Len(name))
              /\ Left(pattern, name, Round(pattern, name, s)) < Left(pattern, name, s)
<1> DEFINE P == Len(pattern)
           N == Len(name)
           w == P + N + 1
           t == Round(pattern, name, s)
<1>1. /\ s.p \in 0 .. P /\ s.n \in 0 .. N /\ s.star \in -1 .. P - 1 /\ s.starN \in 0 .. N /\ s.starN <= s.n
      /\ DOMAIN s = {"p", "n", "star", "starN"} /\ w \in Nat
  BY DEF GlobStates
<1>2. Left(pattern, name, s) \in 0 .. MostLeft(pattern, name)
  <2> DEFINE a == N - s.starN
             x == (P - s.p) + (N - s.n)
             y == P + N
  <2>1. a \in Nat /\ N \in Nat /\ x \in 0 .. w - 1 /\ y \in 0 .. w - 1 /\ a <= N /\ x <= y
    BY <1>1
  <2>2. a * w \in Nat /\ N * w \in Nat
    <3> HIDE DEF a, w
    <3> QED
      BY <1>1, <2>1
  <2>3. a * w + x <= N * w + y
    <3>1. CASE a < N \/ (a = N /\ x < y)
      <4> HIDE DEF a, x, y, w
      <4>1. a * w + x < N * w + y
        BY <1>1, <2>1, <3>1, HigherPlace
      <4> QED
        BY <2>1, <2>2, <4>1
    <3>2. CASE a = N /\ x = y
      <4> HIDE DEF a, x, y, w
      <4> QED
        BY <2>1, <2>2, <3>2
    <3> QED
      BY <2>1, <3>1, <3>2
  <2>4. Left(pattern, name, s) = a * w + x /\ MostLeft(pattern, name) = N * w + y
    BY DEF Left, MostLeft, Base
  <2> HIDE DEF a, x, y, w
  <2> QED
    BY <1>1, <2>1, <2>2, <2>3, <2>4
<1>3. ASSUME ~Ended(pattern, name, s)
      PROVE  /\ t \in GlobStates(P, N)
             /\ \/ N - t.starN < N - s.starN
                \/ N - t.starN = N - s.starN /\ (P - t.p) + (N - t.n) < (P - s.p) + (N - s.n)
  <2>1. s.n < N
    BY <1>1, <1>3 DEF Ended
  <2>2. CASE Fits(pattern, name, s)
    <3>1. t = [s EXCEPT !.p = @ + 1, !.n = @ + 1] /\ s.p < P
      BY <2>2 DEF Round, Fits
    <3> HIDE DEF t
    <3>2. t = [p |-> s.p + 1, n |-> s.n + 1, star |-> s.star, starN |-> s.starN]
      BY <3>1 DEF GlobStates
    <3>3. /\ s.p + 1 \in 0 .. P /\ s.n + 1 \in 0 .. N /\ s.starN <= s.n + 1
          /\ (P - (s.p + 1)) + (N - (s.n + 1)) < (P - s.p) + (N - s.n)
      <4>1. s.p < P
        BY <3>1
      <4>2. s.p + 1 \in 0 .. P /\ s.n + 1 \in 0 .. N /\ s.starN <= s.n + 1
        BY <1>1, <2>1, <4>1
      <4>3. P - (s.p + 1) < P - s.p /\ N - (s.n + 1) < N - s.n
        BY <1>1
      <4>4. \A a, b, c, e \in Int : a < b /\ c < e => a + c < b + e
        OBVIOUS
      <4>5. P - (s.p + 1) \in Int /\ P - s.p \in Int /\ N - (s.n + 1) \in Int /\ N - s.n \in Int
        BY <1>1, SMTT(30)
      <4> QED
        BY <4>2, <4>3, <4>4, <4>5
    <3>4. t \in GlobStates(P, N)
      BY <1>1, <3>2, <3>3 DEF GlobStates
    <3>5. t.starN = s.starN /\ t.p = s.p + 1 /\ t.n = s.n + 1
      BY <3>2
    <3> QED
      BY <3>3, <3>4, <3>5
  <2>3. CASE ~Fits(pattern, name, s) /\ OnStar(pattern, s)
    <3>1. t = [s EXCEPT !.p = @ + 1, !.star = s.p, !.starN = s.n] /\ s.p < P
      BY <2>3 DEF Round, OnStar
    <3> HIDE DEF t
    <3>2. t = [p |-> s.p + 1, n |-> s.n, star |-> s.p, starN |-> s.n]
      BY <3>1 DEF GlobStates
    <3>3. s.p < P /\ s.p + 1 \in 0 .. P /\ s.p \in -1 .. P - 1
      BY <1>1, <3>1, SMTT(30)
    <3>4. t \in GlobStates(P, N)
      BY <1>1, <3>2, <3>3 DEF GlobStates
    <3>5. t.p = s.p + 1 /\ t.n = s.n /\ t.starN = s.n
      BY <3>2
    <3>6. N - s.n < N - s.starN \/ (N - s.n = N - s.starN /\ P - (s.p + 1) < P - s.p)
      BY <1>1, SMTT(30)
    <3>7. \A a, b, c \in Int : a < b => a + c < b + c
      OBVIOUS
    <3>8. P - (s.p + 1) \in Int /\ P - s.p \in Int /\ N - s.n \in Int
      BY <1>1, SMTT(30)
    <3> QED
      BY <3>4, <3>5, <3>6, <3>7, <3>8
  <2>4. CASE ~Fits(pattern, name, s) /\ ~OnStar(pattern, s)
    <3>1. t = [s EXCEPT !.p = s.star + 1, !.n = s.starN + 1, !.starN = @ + 1] /\ s.star >= 0
      BY <1>1, <1>3, <2>4 DEF Round, Ended
    <3> HIDE DEF t
    <3>2. t = [p |-> s.star + 1, n |-> s.starN + 1, star |-> s.star, starN |-> s.starN + 1]
      BY <3>1 DEF GlobStates
    <3>3. s.star + 1 \in 0 .. P /\ s.starN + 1 \in 0 .. N /\ N - (s.starN + 1) < N - s.starN
      BY <1>1, <2>1, <3>1, SMTT(30)
    <3>4. t \in GlobStates(P, N)
      BY <1>1, <3>2, <3>3 DEF GlobStates
    <3>5. t.starN = s.starN + 1
      BY <3>2
    <3> QED
      BY <3>3, <3>4, <3>5
  <2> QED
    BY <2>2, <2>3, <2>4
<1>4. ASSUME ~Ended(pattern, name, s) PROVE Left(pattern, name, t) < Left(pattern, name, s)
  <2> DEFINE a == N - t.starN
             b == N - s.starN
             x == (P - t.p) + (N - t.n)
             y == (P - s.p) + (N - s.n)
  <2>1. t \in GlobStates(P, N) /\ (a < b \/ (a = b /\ x < y))
    BY <1>3, <1>4
  <2>2. t.p \in 0 .. P /\ t.n \in 0 .. N /\ t.starN \in 0 .. N
    <3> HIDE DEF t
    <3> QED
      BY <2>1 DEF GlobStates
  <2>3. a \in Nat /\ b \in Nat /\ x \in 0 .. w - 1 /\ y \in 0 .. w - 1
    <3>1. P \in Nat /\ N \in Nat /\ P - t.p \in 0 .. P /\ N - t.n \in 0 .. N /\ N - t.starN \in Nat
      <4> HIDE DEF t
      <4> QED
        BY <2>2
    <3>2. P - s.p \in 0 .. P /\ N - s.n \in 0 .. N /\ N - s.starN \in Nat
      BY <1>1
    <3>3. \A c \in 0 .. P, e \in 0 .. N : c + e \in 0 .. w - 1
      BY <3>1
    <3> HIDE DEF t, P, N, w
    <3> QED
      BY <3>1, <3>2, <3>3
  <2>4. Left(pattern, name, t) = a * w + x /\ Left(pattern, name, s) = b * w + y
    BY DEF Left, Base
  <2> HIDE DEF a, b, x, y, w
  <2>5. a * w + x < b * w + y
    BY <1>1, <2>1, <2>3, HigherPlace
  <2> QED
    BY <2>4, <2>5
<1> QED
  BY <1>2, <1>3, <1>4

LEMMA LoopExists ==
  ASSUME NEW pattern, NEW name, Len(pattern) \in Nat, Len(name) \in Nat
  PROVE  \E f : Rounds(pattern, name, f)
<1> DEFINE States == GlobStates(Len(pattern), Len(name))
           left(s) == Left(pattern, name, s)
           ended(s) == Ended(pattern, name, s)
           next(s) == Round(pattern, name, s)
           value(f, s) == IF ended(s) THEN Answer(pattern, name, s) ELSE f[next(s)]
           n == MostLeft(pattern, name) + 1
           S == {k \in 0 .. n : \E f : \A s \in States : left(s) < k => f[s] = value(f, s)}
<1>1. \A s \in States : /\ left(s) \in Nat /\ left(s) < n
                        /\ ~ended(s) => next(s) \in States /\ left(next(s)) < left(s)
  <2> TAKE s \in States
  <2>1. /\ left(s) \in 0 .. MostLeft(pattern, name)
        /\ ~ended(s) => next(s) \in States /\ left(next(s)) < left(s)
    BY RoundComesCloser
  <2>2. MostLeft(pattern, name) \in Int
    <3>1. Len(name) * (Len(pattern) + Len(name) + 1) \in Nat
      OBVIOUS
    <3> QED
      BY <3>1 DEF MostLeft, Base
  <2> HIDE DEF left, ended, next
  <2> QED
    BY <2>1, <2>2
<1>2. n \in Nat
  <2>1. Len(name) * (Len(pattern) + Len(name) + 1) \in Nat
    OBVIOUS
  <2> QED
    BY <2>1 DEF MostLeft, Base
<1> HIDE DEF States, left, ended, next, n
<1>3. 0 \in S
  <2>1. \A s \in States : ~(left(s) < 0)
    BY <1>1
  <2> QED
    BY <1>2, <2>1
<1>4. ASSUME NEW k \in 0 .. n - 1, k \in S PROVE k + 1 \in S
  <2>1. PICK f : \A s \in States : left(s) < k => f[s] = value(f, s)
    BY <1>4
  <2> DEFINE g == [s \in States |-> IF left(s) < k THEN f[s] ELSE value(f, s)]
  <2>2. ASSUME NEW s \in States, left(s) < k + 1 PROVE g[s] = value(g, s)
    <3>1. g[s] = value(f, s)
      <4>1. g[s] = IF left(s) < k THEN f[s] ELSE value(f, s)
        OBVIOUS
      <4> HIDE DEF g, value
      <4> QED
        BY <2>1, <4>1
    <3>2. value(g, s) = value(f, s)
      <4>1. CASE ended(s)
        BY <4>1
      <4>2. CASE ~ended(s)
        <5>1. next(s) \in States /\ left(next(s)) < k
          BY <1>1, <1>2, <2>2, <4>2
        <5>2. g[next(s)] = f[next(s)]
          BY <5>1
        <5> HIDE DEF g
        <5> QED
          BY <4>2, <5>2
      <4> QED
        BY <4>1, <4>2
    <3> QED
      BY <3>1, <3>2
  <2>3. k + 1 \in 0 .. n
    BY <1>2
  <2> HIDE DEF g, value
  <2> QED
    BY <2>2, <2>3
<1>5. n \in S
  <2>1. n \in 0 .. n
    BY <1>2
  <2> HIDE DEF S
  <2> QED
    BY <1>2, <1>3, <1>4, <2>1, CountingUp
<1>6. PICK f : \A s \in States : f[s] = value(f, s)
  BY <1>1, <1>5
<1> DEFINE g == [s \in States |-> f[s]]
<1>7. ASSUME NEW s \in States PROVE f[s] = value(g, s)
  <2>1. CASE ended(s)
    BY <1>6, <2>1
  <2>2. CASE ~ended(s)
    <3>1. g[next(s)] = f[next(s)]
      BY <1>1, <2>2
    <3> HIDE DEF g
    <3> QED
      BY <1>6, <2>2, <3>1
  <2> QED
    BY <2>1, <2>2
<1>8. g = [s \in States |-> value(g, s)]
  BY <1>7
<1> HIDE DEF g
<1> QED
  BY <1>8 DEF States, ended, next, Rounds

\* Between the last star and where the pattern is, there is no other, and the name has
\* come as far.
SinceStar(pattern, s) ==
  s.star >= 0 =>
    /\ s.star + 1 <= s.p /\ s.p - (s.star + 1) = s.n - s.starN
    /\ \A i \in s.star + 2 .. s.p : pattern[i] # "*"
\* What the loop still finds out: whether the rest fits from here, or from the last star
\* when that takes more.
Open(pattern, name, s) ==
  \/ Rest(pattern, name, s.p, s.n)
  \/ s.star >= 0 /\ \E k \in s.starN + 1 .. Len(name) : Rest(pattern, name, s.star + 1, k)

\* What fits when the last star takes more also fits from here when the next one does.
LEMMA LaterIsFurther ==
  ASSUME NEW pattern, NEW name, Len(pattern) \in Nat, Len(name) \in Nat,
         NEW s \in GlobStates(Len(pattern), Len(name)), SinceStar(pattern, s), s.star >= 0,
         NEW k \in s.starN + 1 .. Len(name), Rest(pattern, name, s.star + 1, k)
  PROVE  \E m \in s.n + 1 .. Len(name) : Rest(pattern, name, s.p, m)
<1> DEFINE P == Len(pattern)
           N == Len(name)
           q == s.star + 1
<1>1. s.p \in 0 .. P /\ s.n \in 0 .. N /\ s.star \in 0 .. P - 1 /\ s.starN \in 0 .. N
  BY DEF GlobStates
<1>2. q \in 0 .. P /\ s.p \in q .. P /\ s.p - q = s.n - s.starN /\ k \in 0 .. N
      /\ \A i \in q + 1 .. s.p : pattern[i] # "*"
  <2>1. s.star + 1 <= s.p /\ s.p - (s.star + 1) = s.n - s.starN
        /\ \A i \in s.star + 2 .. s.p : pattern[i] # "*"
    BY DEF SinceStar
  <2>2. (s.star + 1) + 1 = s.star + 2 /\ q \in 0 .. P /\ k \in 0 .. N
    BY <1>1, SMTT(30)
  <2>3. s.p \in q .. P
    BY <1>1, <2>1, <2>2
  <2> QED
    BY <2>1, <2>2, <2>3
<1> HIDE DEF q
<1>3. Rest(pattern, name, q, k)
  BY DEF q
<1>4. k + (s.p - q) <= N /\ Rest(pattern, name, s.p, k + (s.p - q))
  BY <1>2, <1>3, RestWithoutStar
<1>5. k + (s.p - q) \in s.n + 1 .. N
  <2>1. k + (s.n - s.starN) >= s.n + 1 /\ k + (s.n - s.starN) \in Int
    BY <1>1, SMTT(30)
  <2>2. s.p - q = s.n - s.starN
    BY <1>2
  <2> QED
    BY <1>1, <1>4, <2>1, <2>2
<1> QED
  BY <1>4, <1>5

LEMMA EndAnswers ==
  ASSUME NEW pattern, NEW name, Len(pattern) \in Nat, Len(name) \in Nat,
         NEW s \in GlobStates(Len(pattern), Len(name)), SinceStar(pattern, s), Ended(pattern, name, s)
  PROVE  Answer(pattern, name, s) <=> Open(pattern, name, s)
<1> DEFINE P == Len(pattern)
           N == Len(name)
<1>1. s.p \in 0 .. P /\ s.n \in 0 .. N /\ s.star \in -1 .. P - 1 /\ s.starN \in 0 .. N
  BY DEF GlobStates
<1>2. CASE s.n = N
  <2>1. ~(s.star >= 0 /\ \E k \in s.starN + 1 .. N : Rest(pattern, name, s.star + 1, k))
    <3> SUFFICES ASSUME s.star >= 0, NEW k \in s.starN + 1 .. N, Rest(pattern, name, s.star + 1, k)
                 PROVE  FALSE
      OBVIOUS
    <3>1. \E m \in s.n + 1 .. N : Rest(pattern, name, s.p, m)
      BY LaterIsFurther
    <3>2. s.n + 1 .. N = {}
      BY <1>1, <1>2
    <3> QED
      BY <3>1, <3>2
  <2>2. Rest(pattern, name, s.p, N) <=> \A i \in s.p + 1 .. P : pattern[i] = "*"
    BY <1>1, RestOfNothing
  <2> QED
    BY <1>2, <2>1, <2>2 DEF Answer, Open
<1>3. CASE s.n # N
  <2>1. ~Fits(pattern, name, s) /\ ~OnStar(pattern, s) /\ ~(s.star >= 0)
    BY <1>1, <1>3 DEF Ended
  <2>2. ~Rest(pattern, name, s.p, s.n)
    <3>1. CASE s.p = P
      BY <1>1, <1>3, <3>1, RestEnds
    <3>2. CASE s.p # P
      <4>1. s.p \in 0 .. P - 1 /\ s.p < P
        BY <1>1, <3>2
      <4>2. \A k \in 0 .. N : ~Takes(pattern, name, s.p + 1, s.n, k)
        BY <2>1, <4>1 DEF Takes, Fits, OnStar
      <4> QED
        BY <1>1, <4>1, <4>2, RestGoesOn
    <3> QED
      BY <3>1, <3>2
  <2> QED
    BY <1>3, <2>1, <2>2 DEF Answer, Open
<1> QED
  BY <1>2, <1>3

LEMMA RoundKeepsQuestion ==
  ASSUME NEW pattern, NEW name, Len(pattern) \in Nat, Len(name) \in Nat,
         \A i \in 1 .. Len(name) : name[i] # "*",
         NEW s \in GlobStates(Len(pattern), Len(name)), SinceStar(pattern, s), ~Ended(pattern, name, s),
         NEW t, t = Round(pattern, name, s)
  PROVE  SinceStar(pattern, t) /\ (Open(pattern, name, t) <=> Open(pattern, name, s))
<1> DEFINE P == Len(pattern)
           N == Len(name)
           later == \E k \in s.starN + 1 .. N : Rest(pattern, name, s.star + 1, k)
<1>1. /\ s.p \in 0 .. P /\ s.n \in 0 .. N /\ s.star \in -1 .. P - 1 /\ s.starN \in 0 .. N /\ s.starN <= s.n
      /\ s.n < N
  BY DEF GlobStates, Ended
<1>2. CASE Fits(pattern, name, s)
  <2>1. t.p = s.p + 1 /\ t.n = s.n + 1 /\ t.star = s.star /\ t.starN = s.starN
    BY <1>2 DEF Round, GlobStates
  <2>2. s.p \in 0 .. P - 1 /\ s.n + 1 \in 1 .. N /\ s.n + 1 \in 0 .. N
    BY <1>1, <1>2 DEF Fits
  <2>3. pattern[s.p + 1] # "*" /\ pattern[s.p + 1] \in {"?", name[s.n + 1]}
    BY <1>2, <2>2 DEF Fits
  <2>4. Rest(pattern, name, s.p, s.n) <=> Rest(pattern, name, s.p + 1, s.n + 1)
    <3>1. \A k \in 0 .. N : Takes(pattern, name, s.p + 1, s.n, k) <=> k = s.n + 1
      BY <2>3 DEF Takes
    <3>2. Rest(pattern, name, s.p, s.n)
            <=> \E k \in 0 .. N : Takes(pattern, name, s.p + 1, s.n, k) /\ Rest(pattern, name, s.p + 1, k)
      BY <1>1, <2>2, RestGoesOn
    <3> QED
      BY <2>2, <3>1, <3>2
  <2>5. SinceStar(pattern, t)
    <3> SUFFICES ASSUME s.star >= 0 PROVE SinceStar(pattern, t)
      BY <2>1 DEF SinceStar
    <3>1. s.star + 1 <= s.p /\ s.p - (s.star + 1) = s.n - s.starN
          /\ \A i \in s.star + 2 .. s.p : pattern[i] # "*"
      BY DEF SinceStar
    <3>2. \A i \in s.star + 2 .. s.p + 1 : pattern[i] # "*"
      <4>1. \A i \in s.star + 2 .. s.p + 1 : i \in s.star + 2 .. s.p \/ i = s.p + 1
        BY <1>1
      <4> QED
        BY <2>3, <3>1, <4>1
    <3>3. s.star + 1 <= s.p + 1 /\ (s.p + 1) - (s.star + 1) = (s.n + 1) - s.starN
      <4>1. s.star + 1 <= s.p /\ s.p - (s.star + 1) = s.n - s.starN
        BY <3>1
      <4>2. \A a, b, c, e \in Int : a - b = c - e => (a + 1) - b = (c + 1) - e
        OBVIOUS
      <4>3. s.p \in Int /\ s.n \in Int /\ s.starN \in Int /\ s.star + 1 \in Int
        BY <1>1
      <4> QED
        BY <4>1, <4>2, <4>3, SMTT(30)
    <3> QED
      BY <2>1, <3>2, <3>3 DEF SinceStar
  <2> QED
    BY <2>1, <2>4, <2>5 DEF Open
<1>3. CASE ~Fits(pattern, name, s) /\ OnStar(pattern, s)
  <2>1. t.p = s.p + 1 /\ t.n = s.n /\ t.star = s.p /\ t.starN = s.n
    BY <1>3 DEF Round, GlobStates
  <2>2. s.p \in 0 .. P - 1 /\ pattern[s.p + 1] = "*"
    BY <1>1, <1>3 DEF OnStar
  <2>3. ASSUME NEW n \in 0 .. N
        PROVE  Rest(pattern, name, s.p, n) <=> \E k \in n .. N : Rest(pattern, name, s.p + 1, k)
    <3>1. \A k \in 0 .. N : Takes(pattern, name, s.p + 1, n, k) <=> k \in n .. N
      BY <2>2 DEF Takes
    <3>2. \A k \in n .. N : k \in 0 .. N
      OBVIOUS
    <3> QED
      BY <2>2, <3>1, <3>2, RestGoesOn
  <2>4. Open(pattern, name, t) <=> Rest(pattern, name, s.p, s.n)
    <3>1. \A k : k \in s.n .. N <=> k = s.n \/ k \in s.n + 1 .. N
      BY <1>1
    <3> QED
      BY <1>1, <2>1, <2>3, <3>1 DEF Open
  <2>5. ASSUME s.star >= 0, later PROVE Rest(pattern, name, s.p, s.n)
    <3>1. PICK m \in s.n + 1 .. N : Rest(pattern, name, s.p, m)
      BY <2>5, LaterIsFurther
    <3>2. PICK k \in m .. N : Rest(pattern, name, s.p + 1, k)
      BY <1>1, <2>3, <3>1
    <3>3. k \in s.n .. N
      BY <1>1
    <3> QED
      BY <1>1, <2>3, <3>2, <3>3
  <2>6. SinceStar(pattern, t)
    <3>1. s.p + 2 .. s.p + 1 = {} /\ (s.p + 1) - (s.p + 1) = s.n - s.n /\ s.p + 1 <= s.p + 1
      BY <1>1
    <3> QED
      BY <2>1, <3>1 DEF SinceStar
  <2> QED
    BY <2>4, <2>5, <2>6 DEF Open
<1>4. CASE ~Fits(pattern, name, s) /\ ~OnStar(pattern, s)
  <2>1. s.star >= 0
    BY <1>1, <1>4 DEF Ended
  <2>2. t.p = s.star + 1 /\ t.n = s.starN + 1 /\ t.star = s.star /\ t.starN = s.starN + 1
    BY <1>4 DEF Round, GlobStates
  <2>3. ~Rest(pattern, name, s.p, s.n)
    <3>1. CASE s.p = P
      BY <1>1, <3>1, RestEnds
    <3>2. CASE s.p # P
      <4>1. s.p \in 0 .. P - 1 /\ s.p < P
        BY <1>1, <3>2
      <4>2. \A k \in 0 .. N : ~Takes(pattern, name, s.p + 1, s.n, k)
        BY <1>4, <4>1 DEF Takes, Fits, OnStar
      <4> QED
        BY <1>1, <4>1, <4>2, RestGoesOn
    <3> QED
      BY <3>1, <3>2
  <2>4. Open(pattern, name, t) <=> later
    <3>1. \A k : k \in s.starN + 1 .. N <=> k = s.starN + 1 \/ k \in (s.starN + 1) + 1 .. N
      BY <1>1
    <3> QED
      BY <2>1, <2>2, <3>1 DEF Open
  <2>5. SinceStar(pattern, t)
    <3>1. s.star + 2 .. s.star + 1 = {} /\ (s.star + 1) - (s.star + 1) = (s.starN + 1) - (s.starN + 1)
          /\ s.star + 1 <= s.star + 1
      BY <1>1
    <3> QED
      BY <2>2, <3>1 DEF SinceStar
  <2> QED
    BY <2>1, <2>3, <2>4, <2>5 DEF Open
<1> QED
  BY <1>2, <1>3, <1>4

LEMMA LoopAnswers ==
  ASSUME NEW pattern, NEW name, Len(pattern) \in Nat, Len(name) \in Nat,
         \A i \in 1 .. Len(name) : name[i] # "*"
  PROVE  GlobMatch(pattern, name) = Matches(pattern, name)
<1> DEFINE P == Len(pattern)
           N == Len(name)
           States == GlobStates(P, N)
           From == CHOOSE f : Rounds(pattern, name, f)
           n == MostLeft(pattern, name) + 1
           S == {k \in 0 .. n : \A s \in States :
                   SinceStar(pattern, s) /\ Left(pattern, name, s) < k => From[s] = Open(pattern, name, s)}
<1>1. Rounds(pattern, name, From)
  BY LoopExists
<1> HIDE DEF From
<1>2. \A s \in States :
        From[s] = IF Ended(pattern, name, s) THEN Answer(pattern, name, s)
                  ELSE From[Round(pattern, name, s)]
  BY <1>1 DEF Rounds
<1>3. n \in Nat /\ \A s \in States : Left(pattern, name, s) \in 0 .. n - 1
  <2>1. Len(name) * (Len(pattern) + Len(name) + 1) \in Nat
    OBVIOUS
  <2>2. MostLeft(pattern, name) \in Nat
    BY <2>1 DEF MostLeft, Base
  <2>3. \A s \in States : Left(pattern, name, s) \in 0 .. MostLeft(pattern, name)
    BY RoundComesCloser
  <2> QED
    BY <2>2, <2>3
<1> HIDE DEF n
<1>4. 0 \in S
  <2>1. \A s \in States : ~(Left(pattern, name, s) < 0)
    BY <1>3
  <2> QED
    BY <1>3, <2>1
<1>5. ASSUME NEW k \in 0 .. n - 1, k \in S PROVE k + 1 \in S
  <2> SUFFICES ASSUME NEW s \in States, SinceStar(pattern, s), Left(pattern, name, s) < k + 1
               PROVE  From[s] = Open(pattern, name, s)
    BY <1>3
  <2>1. CASE Ended(pattern, name, s)
    <3>1. Answer(pattern, name, s) <=> Open(pattern, name, s)
      BY <2>1, EndAnswers
    <3>2. Answer(pattern, name, s) = Open(pattern, name, s)
      BY <3>1 DEF Answer, Open
    <3> QED
      BY <1>2, <2>1, <3>2
  <2>2. CASE ~Ended(pattern, name, s)
    <3> DEFINE t == Round(pattern, name, s)
    <3>1. t \in States /\ Left(pattern, name, t) < Left(pattern, name, s)
      BY <2>2, RoundComesCloser
    <3>2. SinceStar(pattern, t) /\ (Open(pattern, name, t) <=> Open(pattern, name, s))
      BY <2>2, RoundKeepsQuestion
    <3>3. Left(pattern, name, t) < k
      BY <1>3, <3>1
    <3>4. From[s] = From[t]
      BY <1>2, <2>2
    <3> HIDE DEF t
    <3>5. From[t] = Open(pattern, name, t)
      BY <1>5, <3>1, <3>2, <3>3
    <3>6. Open(pattern, name, t) = Open(pattern, name, s)
      BY <3>2 DEF Open
    <3> QED
      BY <3>4, <3>5, <3>6
  <2> QED
    BY <2>1, <2>2
<1>6. n \in S
  <2>1. n \in 0 .. n
    BY <1>3
  <2> HIDE DEF S
  <2> QED
    BY <1>3, <1>4, <1>5, <2>1, CountingUp
<1>7. Started \in States /\ SinceStar(pattern, Started)
  BY DEF Started, SinceStar, GlobStates
<1>8. From[Started] = Open(pattern, name, Started)
  <2>1. Left(pattern, name, Started) < n
    BY <1>3, <1>7
  <2> QED
    BY <1>6, <1>7, <2>1
<1>9. Open(pattern, name, Started) = Rest(pattern, name, 0, 0)
  <2>1. Started.p = 0 /\ Started.n = 0 /\ ~(Started.star >= 0)
    BY DEF Started
  <2>2. Open(pattern, name, Started) <=> Rest(pattern, name, 0, 0)
    BY <2>1 DEF Open
  <2> QED
    BY <2>2 DEF Open, Rest
<1>10. Rest(pattern, name, 0, 0) = Matches(pattern, name)
  <2>1. 0 + 1 = 1
    OBVIOUS
  <2> QED
    BY <2>1 DEF Rest, Matches
<1> QED
  BY <1>8, <1>9, <1>10, GlobMatchIsLoop DEF From

\* globMatch answers what a glob means, for every pattern and every name without a
\* star: one pass with one star to come back to is enough (router.go).
THEOREM GlobMatchIsRight ==
  ASSUME NEW Letters, NEW pattern \in Seq(Letters), NEW name \in Seq(Letters \ {"*"})
  PROVE  GlobMatch(pattern, name) = Matches(pattern, name)
<1>1. Len(pattern) \in Nat /\ Len(name) \in Nat /\ \A i \in 1 .. Len(name) : name[i] \in Letters \ {"*"}
  OBVIOUS
<1>2. \A i \in 1 .. Len(name) : name[i] # "*"
  BY <1>1
<1> QED
  BY <1>1, <1>2, LoopAnswers

-----------------------------------------------------------------------------
(* The choice of a route *)

LEMMA FirstOf ==
  ASSUME NEW n \in Nat, NEW S \in SUBSET (1 .. n), S # {}
  PROVE  \E i \in S : \A j \in S : i <= j
<1> SUFFICES ASSUME \A i \in S : \E j \in S : ~(i <= j) PROVE FALSE
  OBVIOUS
<1> DEFINE T == {k \in 0 .. n : \A j \in 1 .. k : j \notin S}
<1>1. 0 \in T
  OBVIOUS
<1>2. ASSUME NEW k \in 0 .. n - 1, k \in T PROVE k + 1 \in T
  <2>1. \A j \in 1 .. k : j \notin S
    BY <1>2
  <2>2. k + 1 \notin S
    <3> SUFFICES ASSUME k + 1 \in S PROVE FALSE
      OBVIOUS
    <3>1. PICK j \in S : ~(k + 1 <= j)
      OBVIOUS
    <3>2. j \in 1 .. k
      BY <3>1
    <3> QED
      BY <2>1, <3>2
  <2>3. \A j \in 1 .. k + 1 : j \in 1 .. k \/ j = k + 1
    OBVIOUS
  <2> QED
    BY <2>1, <2>2, <2>3
<1>3. n \in 0 .. n
  OBVIOUS
<1>4. n \in T
  <2> HIDE DEF T
  <2> QED
    BY <1>1, <1>2, <1>3, CountingUp
<1> QED
  BY <1>4

LEMMA LastOf ==
  ASSUME NEW n \in Nat, NEW S \in SUBSET (1 .. n), S # {}
  PROVE  \E i \in S : \A j \in S : j <= i
<1> DEFINE R == {i \in 1 .. n : (n + 1) - i \in S}
<1>1. PICK i \in S : TRUE
  OBVIOUS
<1>2. (n + 1) - i \in R
  <2>1. (n + 1) - i \in 1 .. n /\ (n + 1) - ((n + 1) - i) = i
    OBVIOUS
  <2> QED
    BY <2>1
<1>3. PICK m \in R : \A j \in R : m <= j
  <2> HIDE DEF R
  <2>1. R \in SUBSET (1 .. n) /\ R # {}
    BY <1>2 DEF R
  <2> QED
    BY <2>1, FirstOf
<1>4. ASSUME NEW j \in S PROVE j <= (n + 1) - m
  <2>1. (n + 1) - j \in 1 .. n /\ (n + 1) - ((n + 1) - j) = j
    OBVIOUS
  <2>2. (n + 1) - j \in R
    BY <2>1
  <2>3. m <= (n + 1) - j /\ m \in 1 .. n /\ j \in 1 .. n
    BY <1>3, <2>2
  <2> QED
    BY <2>3
<1> QED
  BY <1>3, <1>4

\* A route by what its globs mean.
Serves(route, model, kind) == AllowsKind(route, kind) /\ \E g \in route.models : Matches(g, model)

\* A request is sent to the first route that takes its kind and has a glob its model
\* fits; when there is none to the route marked default last, whatever kinds that names;
\* and without one it is refused (router.go: selectRoute, route.matches).
THEOREM RouteIsFirstMatch ==
  ASSUME NEW Letters, NEW AnyKinds,
         NEW routes \in Seq([models : SUBSET Seq(Letters), kinds : SUBSET AnyKinds, default : BOOLEAN]),
         NEW model \in Seq(Letters \ {"*"}), NEW kind,
         NEW r, r = SelectRoute(routes, model, kind)
  PROVE  \/ /\ r \in DOMAIN routes /\ Serves(routes[r], model, kind)
            /\ \A j \in 1 .. r - 1 : ~Serves(routes[j], model, kind)
         \/ /\ \A j \in DOMAIN routes : ~Serves(routes[j], model, kind)
            /\ \/ /\ r \in DOMAIN routes /\ routes[r].default
                  /\ \A j \in r + 1 .. Len(routes) : ~routes[j].default
               \/ r = NoRoute /\ \A j \in DOMAIN routes : ~routes[j].default
<1> DEFINE n == Len(routes)
           matching == {i \in DOMAIN routes : RouteMatches(routes[i], model, kind)}
           marked == {i \in DOMAIN routes : routes[i].default}
<1>0. Len(routes) \in Nat /\ DOMAIN routes = 1 .. Len(routes)
      /\ \A i \in DOMAIN routes : routes[i].models \in SUBSET Seq(Letters)
  <2> DEFINE R == [models : SUBSET Seq(Letters), kinds : SUBSET AnyKinds, default : BOOLEAN]
  <2>1. \A x \in R : x.models \in SUBSET Seq(Letters)
    OBVIOUS
  <2> HIDE DEF R
  <2>2. routes \in Seq(R)
    BY DEF R
  <2> QED
    BY <2>1, <2>2
<1>1. \A i \in DOMAIN routes : i \in matching <=> Serves(routes[i], model, kind)
  <2> TAKE i \in DOMAIN routes
  <2>1. \A g \in routes[i].models : GlobMatch(g, model) = Matches(g, model)
    BY <1>0, GlobMatchIsRight
  <2>2. RouteMatches(routes[i], model, kind) <=> Serves(routes[i], model, kind)
    BY <2>1 DEF RouteMatches, Serves
  <2> QED
    BY <2>2
<1>2. r = IF matching = {} THEN Default(routes) ELSE CHOOSE i \in matching : \A j \in matching : i <= j
  BY DEF SelectRoute
<1>3. Default(routes) = IF marked = {} THEN NoRoute ELSE CHOOSE i \in marked : \A j \in marked : j <= i
  BY DEF Default
<1>4. matching \in SUBSET (1 .. n) /\ marked \in SUBSET (1 .. n)
      /\ DOMAIN routes = 1 .. n /\ n \in Nat
      /\ \A i \in DOMAIN routes : i \in marked <=> routes[i].default
  BY <1>0
<1> HIDE DEF matching, marked
<1>5. CASE matching # {}
  <2>1. r \in matching /\ \A j \in matching : r <= j
    BY <1>2, <1>4, <1>5, FirstOf
  <2>2. \A j \in 1 .. r - 1 : j \in 1 .. n /\ j \notin matching
    BY <1>4, <2>1
  <2> QED
    BY <1>1, <1>4, <2>1, <2>2
<1>6. CASE matching = {} /\ marked # {}
  <2>1. r \in marked /\ \A j \in marked : j <= r
    BY <1>2, <1>3, <1>4, <1>6, LastOf
  <2>2. \A j \in r + 1 .. n : j \in 1 .. n /\ j \notin marked
    BY <1>4, <2>1
  <2> QED
    BY <1>1, <1>4, <1>6, <2>1, <2>2
<1>7. CASE matching = {} /\ marked = {}
  BY <1>1, <1>2, <1>3, <1>4, <1>7
<1> QED
  BY <1>5, <1>6, <1>7

=============================================================================
