-------------------------- MODULE MCStreamAssembly --------------------------
(* The assembly of a stream against the parse of the body it stands for, on  *)
(* every message of up to two choices, every order in which an upstream may  *)
(* send their pieces, and several ways to frame them.                        *)
EXTENDS StreamAssembly

Call(id, args) == [index |-> NoIndex, id |-> id, name |-> "f", args |-> args]
CallLists == {<<>>, <<Call("c1", <<>>)>>, <<Call("c1", <<"x", "y">>), Call("c2", <<"z">>)>>}
Choice(i, text, tools) ==
  [index |-> i, content |-> text, text |-> <<>>, finish |-> "stop", tools |-> tools]
Texts == {<<>>, <<"a">>, <<"a", "b">>}
Messages ==
  {<<Choice(0, t, tools)>> : t \in Texts, tools \in CallLists}
    \cup {<<Choice(0, t, tools), Choice(1, u, <<>>)>> : t \in Texts, u \in Texts, tools \in CallLists}
BodyOf(choices, usage) == [id |-> "r1", usage |-> usage, choices |-> choices]

\* The pieces of one choice in their order: text, calls by index, the end.
Delta(c, text, tools, finish) ==
  [index |-> c.index, content |-> text, text |-> <<>>, finish |-> finish, tools |-> tools]
CallPieces(c, i) ==
  LET tc == c.tools[i]
  IN  <<Delta(c, <<>>, <<[tc EXCEPT !.index = i - 1, !.args = <<>>]>>, "")>>
        \o [k \in DOMAIN tc.args |->
              Delta(c, <<>>, <<[index |-> i - 1, id |-> "", name |-> "", args |-> <<tc.args[k]>>]>>, "")]
Pieces(c) ==
  [k \in DOMAIN c.content |-> Delta(c, <<c.content[k]>>, <<>>, "")]
    \o FlattenSeq([i \in DOMAIN c.tools |-> CallPieces(c, i)])
    \o <<Delta(c, <<>>, <<>>, c.finish)>>
\* Every interleaving of two sequences: the places of the first one's elements.
Merged(s, t, places) ==
  [k \in 1 .. Len(s) + Len(t) |->
     LET before == Cardinality({p \in places : p <= k})
     IN  IF k \in places THEN s[before] ELSE t[k - before]]
Orders(choices) ==
  IF Len(choices) = 1 THEN {Pieces(choices[1])}
  ELSE LET s == Pieces(choices[1])
           t == Pieces(choices[2])
       IN  {Merged(s, t, P) : P \in {Q \in SUBSET (1 .. Len(s) + Len(t)) : Cardinality(Q) = Len(s)}}
Chunks(pieces, usage) ==
  [k \in DOMAIN pieces |-> [id |-> "r1", usage |-> "none", choices |-> <<pieces[k]>>]]
    \o <<[id |-> "", usage |-> usage, choices |-> <<>>]>>

\* A frame on one line, on two, between comments and frames that do not parse,
\* and without the blank line at the end.
Styles == {"plain", "split", "noisy", "open"}
Blank == Line("blank", "")
FrameLines(style, n) ==
  CASE style = "split" -> <<Line("data", Part(n, 1, 2)), Line("data", Part(n, 2, 2)), Blank>>
    [] style = "noisy" -> <<Line("comment", ""), Line("event", ""), Line("data", Part(n, 1, 1)), Blank,
                            Line("data", Part(0, 1, 1)), Line("data", Part(n, 1, 1)), Blank>>
    [] OTHER -> <<Line("data", Part(n, 1, 1)), Blank>>
Framed(style, chunks) ==
  LET all == FlattenSeq([n \in DOMAIN chunks |-> FrameLines(style, n)])
  IN  IF style = "open" THEN SubSeq(all, 1, Len(all) - 1) ELSE all

ASSUME StreamIsBody ==
  \A m \in Messages, usage \in {"some", "zero"} :
    \A pieces \in Orders(m), style \in IF Len(m) = 1 THEN Styles ELSE {"plain"} :
    LET chunks == Chunks(pieces, usage)
    IN  ParseStream(Framed(style, chunks), chunks) = ParseResponse(BodyOf(m, usage))

\* What is kept of a stream that was cut adds up to a beginning of each text.
ASSUME CutStreamIsBeginning ==
  \A m \in {n \in Messages : Len(n) = 1} :
    LET chunks == Chunks(Pieces(m[1]), "some")
        lines == Framed("split", chunks)
    IN  \A k \in 0 .. Len(lines) :
          IsPrefix(ParseStream(SubSeq(lines, 1, k), chunks).text, m[1].content)

\* The Responses API: with its terminal event a stream is the body; cut before it, it
\* has the text and the calls, numbered by their place in the output.
Item(type, parts, args) ==
  [type |-> type, parts |-> parts, callId |-> "c1", id |-> "i1", name |-> "f", args |-> args]
Outputs ==
  LET items == {Item("reasoning", <<>>, <<>>), Item("message", <<<<"a">>, <<"b">>>>, <<>>),
                Item("message", <<<<>>>>, <<>>), Item("function_call", <<>>, <<"x", "y">>)}
  IN  UNION {[1 .. k -> items] : k \in 0 .. 3}
EventsOf(raw) ==
  LET one(i) ==
        LET o == raw.output[i] IN
        CASE o.type = "message" ->
               LET text == FlattenSeq(o.parts)
               IN  [k \in DOMAIN text |-> [type |-> "text", index |-> i - 1, delta |-> text[k]]]
          [] OTHER ->
               <<[type |-> "added", index |-> i - 1, item |-> [o EXCEPT !.args = <<>>]]>>
                 \o [k \in DOMAIN o.args |-> [type |-> "args", index |-> i - 1, delta |-> o.args[k]]]
  IN  <<[type |-> "created", id |-> raw.id]>> \o FlattenSeq([i \in DOMAIN raw.output |-> one(i)])
Unnumbered(tools) == [i \in DOMAIN tools |-> [tools[i] EXCEPT !.index = 0]]
ASSUME ResponsesStreamIsBody ==
  \A output \in Outputs, status \in {"completed", "incomplete"} :
    LET raw == [id |-> "r1", output |-> output, status |-> status, reason |-> ""]
        body == responseFromResponsesBody(raw)
        cut == parseResponsesStream(EventsOf(raw))
    IN  /\ parseResponsesStream(Append(EventsOf(raw), [type |-> "terminal", body |-> raw])) = body
        /\ cut.text = body.text /\ Unnumbered(cut.tools) = Unnumbered(body.tools)
=============================================================================
