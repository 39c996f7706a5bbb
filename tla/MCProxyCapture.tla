--------------------------- MODULE MCProxyCapture ---------------------------
(* ProxyCapture for model checking, with what MCStreamAssembly checks of the *)
(* text of a response and MCInspection of the reports about a log, and the   *)
(* glob matcher on every pattern of up to four and every name of up to three *)
(* characters.                                                               *)
EXTENDS ProxyCapture, MCStreamAssembly, MCInspection, TLC

Symmetry == Permutations(Requests)

Words(letters, n) == UNION {[1 .. k -> letters] : k \in 0 .. n}
ASSUME GlobMatchIsMatches ==
  \A pattern \in Words({"a", "b", "*", "?"}, 4), name \in Words({"a", "b"}, 3) :
    GlobMatch(pattern, name) = Matches(pattern, name)

Routed == << [models |-> {<<"a", "*">>}, kinds |-> {"chat"}, default |-> FALSE] >>

MCConfigs ==
  {[mode |-> "redact", encrypt |-> TRUE, routes |-> Routed],
   [mode |-> "hash", encrypt |-> FALSE, routes |-> Routed]}

\* A body that names its model at once, and one that names it behind the look
\* at it and is longer than a tap keeps.
MCBodies ==
  {[len |-> 1, modelAt |-> 1, model |-> <<"a", "b">>],
   [len |-> 2, modelAt |-> 2, model |-> <<"a">>]}

MCAnswers == {[status |-> 200, length |-> 2], [status |-> 400, length |-> 0]}

MCEvents ==
  [type : {"none", "inference", "human_intervention", "incident", "system_event"},
   authorised : BOOLEAN, actor : BOOLEAN, decision : BOOLEAN, severity : BOOLEAN, fits : BOOLEAN]
=============================================================================
