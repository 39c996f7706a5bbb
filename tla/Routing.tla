------------------------------- MODULE Routing -------------------------------
(***************************************************************************)
(* How a recorded request finds its upstream: the bounded look at the body *)
(* for the model (proxy/peek.go) and the choice of a route by model glob   *)
(* and endpoint kind (proxy/router.go).  A name or a pattern is a sequence *)
(* of characters, a body is its length in blocks and where its model is.   *)
(***************************************************************************)
EXTENDS Integers, Sequences, FiniteSets

NoModel == << >>

\* The matcher of the code: one pass over the name, with the last star, and where
\* the name was then, to come back to.
GlobStates(P, N) ==
  {s \in [p : 0 .. P, n : 0 .. N, star : -1 .. P - 1, starN : 0 .. N] : s.starN <= s.n}
GlobMatch(pattern, name) ==
  LET P == Len(pattern)
      N == Len(name)
      From[s \in GlobStates(P, N)] ==
        IF s.n = N THEN \A i \in s.p + 1 .. P : pattern[i] = "*"
        ELSE IF s.p < P /\ pattern[s.p + 1] \in {"?", name[s.n + 1]}
        THEN From[[s EXCEPT !.p = @ + 1, !.n = @ + 1]]
        ELSE IF s.p < P /\ pattern[s.p + 1] = "*"
        THEN From[[s EXCEPT !.p = @ + 1, !.star = s.p, !.starN = s.n]]
        ELSE IF s.star >= 0
        THEN From[[s EXCEPT !.p = s.star + 1, !.n = s.starN + 1, !.starN = @ + 1]]
        ELSE FALSE
  IN  From[[p |-> 0, n |-> 0, star |-> -1, starN |-> 0]]

\* What a glob means: the name falls into pieces, one for each character of the
\* pattern, and the first i of them are its first upTo[i] characters.  A star takes
\* any run, a question mark one character.
Takes(pattern, name, i, m, n) ==
  IF pattern[i] = "*" THEN m <= n ELSE n = m + 1 /\ pattern[i] \in {"?", name[n]}
Matches(pattern, name) ==
  \E upTo \in [0 .. Len(pattern) -> 0 .. Len(name)] :
    /\ upTo[0] = 0 /\ upTo[Len(pattern)] = Len(name)
    /\ \A i \in 1 .. Len(pattern) : Takes(pattern, name, i, upTo[i - 1], upTo[i])

\* A route: the globs of its models, the endpoint kinds it serves (none named
\* means all), and whether it is the default.
AllowsKind(route, kind) == route.kinds = {} \/ kind \in route.kinds

RouteMatches(route, model, kind) ==
  AllowsKind(route, kind) /\ \E g \in route.models : GlobMatch(g, model)

NoRoute == 0

Default(routes) ==
  LET marked == {i \in DOMAIN routes : routes[i].default}
  IN  IF marked = {} THEN NoRoute ELSE CHOOSE i \in marked : \A j \in marked : j <= i

SelectRoute(routes, model, kind) ==
  LET matching == {i \in DOMAIN routes : RouteMatches(routes[i], model, kind)}
  IN  IF matching = {} THEN Default(routes)
      ELSE CHOOSE i \in matching : \A j \in matching : i <= j

\* The top-level model of a body, if it lies within its first cap blocks.
ModelFound(body, cap) == body.modelAt \in 1 .. cap
ScanModel(body, cap) == IF ModelFound(body, cap) THEN body.model ELSE NoModel

PeekTruncated(body, cap) == ~ModelFound(body, cap) /\ body.len >= cap
=============================================================================
