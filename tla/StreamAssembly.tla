--------------------------- MODULE StreamAssembly ---------------------------
(***************************************************************************)
(* What is recorded of a response (openai/response.go): one JSON body, or  *)
(* the message that the frames of an event stream add up to.  A text is a  *)
(* sequence of pieces, "nl" the newline between two of them; a number of   *)
(* tokens is only present, zero or absent.                                 *)
(***************************************************************************)
EXTENDS Integers, Sequences, FiniteSets, SequencesExt

Join(texts) ==
  FoldLeft(LAMBDA acc, t : IF t = <<>> THEN acc ELSE IF acc = <<>> THEN t ELSE acc \o <<"nl">> \o t,
           <<>>, texts)
\* A map from numbers that is extended, and its values by ascending key.
Put(f, k, v) == [x \in DOMAIN f \cup {k} |-> IF x = k THEN v ELSE f[x]]
At(f, k, default) == IF k \in DOMAIN f THEN f[k] ELSE default
sortedKeys(f) == SetToSortSeq(DOMAIN f, <)
Values(f) == [i \in DOMAIN sortedKeys(f) |-> f[sortedKeys(f)[i]]]

convert(usage) == IF usage = "zero" THEN "none" ELSE usage
deltaText(c) == IF c.content # <<>> THEN c.content ELSE c.text

------------------------------------------------------------------------------
\* Chat completions

NoIndex == -1
IndexOf(tc, i) == IF tc.index = NoIndex THEN i - 1 ELSE tc.index

ParseResponse(raw) ==
  LET each(op(_)) == [i \in DOMAIN raw.choices |-> op(raw.choices[i])]
      calls(c) == [i \in DOMAIN c.tools |-> [c.tools[i] EXCEPT !.index = IndexOf(c.tools[i], i)]]
  IN  [id |-> raw.id, usage |-> convert(raw.usage), choices |-> Len(raw.choices),
       text |-> Join(each(deltaText)),
       finish |-> SelectSeq(each(LAMBDA c : c.finish), LAMBDA f : f # ""),
       tools |-> FlattenSeq(each(calls))]

\* One call of a chunk: known by its index alone.
WithCall(tools, tc, i) ==
  LET idx == IndexOf(tc, i)
      cur == At(tools, idx, [index |-> idx, id |-> "", name |-> "", args |-> <<>>])
  IN  Put(tools, idx, [cur EXCEPT !.id = IF tc.id # "" THEN tc.id ELSE @,
                                  !.name = IF tc.name # "" THEN tc.name ELSE @,
                                  !.args = @ \o tc.args])
WithChoice(acc, c) ==
  [acc EXCEPT !.texts = Put(@, c.index, At(@, c.index, <<>>) \o deltaText(c)),
              !.finish = IF c.finish # "" THEN Put(@, c.index, c.finish) ELSE @,
              !.tools = FoldLeftDomain(LAMBDA tools, i : WithCall(tools, c.tools[i], i), @, c.tools)]
WithChunk(acc, chunk) ==
  FoldLeft(WithChoice,
           [acc EXCEPT !.id = IF chunk.id # "" THEN chunk.id ELSE @,
                       !.usage = IF convert(chunk.usage) # "none" THEN chunk.usage ELSE @],
           chunk.choices)

\* sseData: the payloads of the data fields, each a sequence of its lines.
Line(field, value) == [field |-> field, value |-> value]
Flush(acc) == IF acc.cur = <<>> THEN acc ELSE [out |-> Append(acc.out, acc.cur), cur |-> <<>>]
sseData(lines) ==
  Flush(FoldLeft(LAMBDA acc, l : CASE l.field = "blank" -> Flush(acc)
                                   [] l.field = "data" -> [acc EXCEPT !.cur = Append(@, l.value)]
                                   [] OTHER -> acc,
                 [out |-> <<>>, cur |-> <<>>], lines)).out

\* A value is part p of the frame n; frame 0 is [DONE] or garbage, and a payload that
\* is not exactly the parts of one frame does not parse.
Part(n, p, of) == [n |-> n, p |-> p, of |-> of]
Parses(payload) ==
  /\ payload[1].n # 0 /\ Len(payload) = payload[1].of
  /\ \A i \in DOMAIN payload : payload[i] = Part(payload[1].n, i, payload[1].of)
Frames(lines) ==
  LET good == SelectSeq(sseData(lines), Parses) IN [i \in DOMAIN good |-> good[i][1].n]

ParseStream(lines, chunks) ==
  LET acc == FoldLeft(LAMBDA a, n : WithChunk(a, chunks[n]),
                      [id |-> "", usage |-> "none", texts |-> <<>>, tools |-> <<>>, finish |-> <<>>],
                      Frames(lines))
  IN  [id |-> acc.id, usage |-> acc.usage, choices |-> Cardinality(DOMAIN acc.texts),
       text |-> Join(Values(acc.texts)), finish |-> Values(acc.finish), tools |-> Values(acc.tools)]

------------------------------------------------------------------------------
\* The Responses API

responsesFinish(status, reason) ==
  CASE status = "" -> <<>>
    [] status = "incomplete" -> <<IF reason # "" THEN reason ELSE "incomplete">>
    [] OTHER -> <<status>>

CallOf(item) ==
  [id |-> IF item.callId # "" THEN item.callId ELSE item.id, name |-> item.name, args |-> item.args]
responseFromResponsesBody(raw) ==
  LET messages == SelectSeq(raw.output, LAMBDA o : o.type = "message")
      calls == SelectSeq(raw.output, LAMBDA o : o.type = "function_call")
  IN  [id |-> raw.id, text |-> Join([i \in DOMAIN messages |-> FlattenSeq(messages[i].parts)]),
       finish |-> responsesFinish(raw.status, raw.reason),
       tools |-> [i \in DOMAIN calls |-> Put(CallOf(calls[i]), "index", i - 1)]]

toolAt(tools, idx) == At(tools, idx, [index |-> idx, id |-> "", name |-> "", args |-> <<>>])
WithEvent(acc, e) ==
  CASE e.type = "terminal" -> [acc EXCEPT !.completed = <<responseFromResponsesBody(e.body)>>]
    [] e.type = "created" -> [acc EXCEPT !.id = e.id]
    [] e.type = "added" ->
         IF e.item.type # "function_call" THEN acc
         ELSE [acc EXCEPT !.tools = Put(@, e.index,
                 [toolAt(@, e.index) EXCEPT !.id = CallOf(e.item).id, !.name = e.item.name,
                                            !.args = @ \o e.item.args])]
    [] e.type = "text" -> [acc EXCEPT !.texts = Put(@, e.index, Append(At(@, e.index, <<>>), e.delta))]
    [] e.type = "args" ->
         [acc EXCEPT !.tools = Put(@, e.index, [toolAt(@, e.index) EXCEPT !.args = Append(@, e.delta)])]
    [] OTHER -> acc

\* The terminal event holds the whole response; without it the deltas add up.
parseResponsesStream(events) ==
  LET acc == FoldLeft(WithEvent, [completed |-> <<>>, id |-> "", texts |-> <<>>, tools |-> <<>>], events)
  IN  IF acc.completed # <<>> THEN acc.completed[1]
      ELSE [id |-> acc.id, text |-> Join(Values(acc.texts)), finish |-> <<>>, tools |-> Values(acc.tools)]
=============================================================================
