---------------------------- MODULE MCInspection ----------------------------
(* The single pass of a session query against the session it stands for, on  *)
(* every log of three records, and what coverage says of quiet stretches and *)
(* of shares.                                                                *)
EXTENDS Inspection

Named(i) == <<"r1", "r2", "r3">>[i]
RecordAt(i, x) ==
  [seq |-> i, request |-> Named(i), session |-> x.session, ref |-> x.ref, sealedBy |-> x.sealedBy, text |-> x.text]
LinkedLogs ==
  {[i \in 1 .. 3 |-> RecordAt(i, x[i])] :
     x \in [1 .. 3 -> [session : {"", "s1", "s2"}, ref : {"", "r1", "r2", "r3"}, sealedBy : {""}, text : {FALSE}]]}
NoKeystore == [keys |-> {}, erased |-> {}]
Ask(session, request, limit) == [session |-> session, request |-> request, limit |-> limit]
Seqs(entries) == [i \in DOMAIN entries |-> entries[i].seq]

\* What the session is: its records, what refers to them, what refers to that.
RefersTo(log, i, S) == \E j \in S : log[i].ref = log[j].request
Session(log, s) ==
  LET own == {i \in DOMAIN log : log[i].session = s}
      near == own \cup {i \in DOMAIN log : RefersTo(log, i, own)}
      more == near \cup {i \in DOMAIN log : RefersTo(log, i, near)}
  IN  SetToSortSeq(more, <)
\* Whatever is referred to comes first.  (An intervention posted while its
\* request is being answered does not: the request is recorded at its end.  The
\* session then lacks the intervention, see the README.)
InOrder(log) == \A i \in DOMAIN log : \A j \in i .. Len(log) : log[i].ref # log[j].request
ASSUME SessionIsWhole ==
  \A log \in LinkedLogs :
    InOrder(log) =>
      LET all == Seqs(Reconstruct(log, Ask("s1", "", 0), NoKeystore))
      IN  /\ all = Session(log, "s1")
          /\ Seqs(Reconstruct(log, Ask("s1", "", 1), NoKeystore)) = SubSeq(all, 1, IF all = <<>> THEN 0 ELSE 1)
          /\ \A r \in {"r1", "r2", "r3"} :
               \A i \in DOMAIN log : r \in {log[i].request, log[i].ref}
                 <=> i \in ToSet(Seqs(Reconstruct(log, Ask("", r, 0), NoKeystore)))

\* Content that cannot be opened is counted as erased or as encrypted, and never
\* passes for a record without content.
ASSUME SealedIsNotEmpty ==
  \A x \in [1 .. 2 -> [session : {"s1"}, ref : {""}, sealedBy : {"", "k1", "k2"}, text : BOOLEAN]],
     keys, erased \in SUBSET {"k1", "k2"} :
    keys \cap erased = {} =>
      LET log == [i \in 1 .. 2 |-> RecordAt(i, x[i])]
          entries == Reconstruct(log, Ask("s1", "", 0), [keys |-> keys, erased |-> erased])
          closed == {i \in 1 .. 2 : log[i].sealedBy # "" /\ log[i].sealedBy \notin keys}
      IN  /\ Erased(entries) + Encrypted(entries) = Cardinality(closed)
          /\ ContentAvailable(entries) <=> \E i \in (1 .. 2) \ closed : log[i].text

\* While the clock does not step back, the gaps are the stretches of at least
\* the threshold without a record.
TimedLogs == {[i \in 1 .. 4 |-> [seq |-> i, at |-> t[i]]] : t \in [1 .. 4 -> NoTime .. 6]}
Timed(log) == {i \in DOMAIN log : log[i].at # NoTime}
Quiet(log, a, b) == \A i \in Timed(log) : log[i].at <= a \/ log[i].at >= b
ASSUME GapsAreQuiet ==
  \A log \in TimedLogs, threshold \in 1 .. 3 :
    (\A i, j \in Timed(log) : i < j => log[i].at <= log[j].at) =>
      {<<g.after, g.before>> : g \in ToSet(Gaps(log, threshold))}
        = {<<log[i].at, log[j].at>> : <<i, j>> \in
             {p \in Timed(log) \X Timed(log) :
                /\ log[p[2]].at - log[p[1]].at >= threshold
                /\ Quiet(log, log[p[1]].at, log[p[2]].at)}}

\* What coverage counts by model and by status adds up, and comes largest first.
Rank == [m1 |-> 1, m2 |-> 2] @@ ("2xx" :> 3) @@ ("4xx" :> 4) @@ ("5xx" :> 5) @@ ("other" :> 6)
CountedLogs ==
  [1 .. 3 -> [seq : {1}, at : {NoTime}, type : {"inference", "incident"}, served : {"", "m1"},
              requested : {"", "m2"}, status : {0, 200, 502}, error : {FALSE}]]
Total(tallies) == FoldSeq(LAMBDA t, n : t.count + n, 0, tallies)
ASSUME CountsAddUp ==
  \A log \in CountedLogs :
    LET c == Analyse(log, 1, Rank)
        inference == {i \in DOMAIN log : log[i].type = "inference"}
    IN  /\ Total(c.byModel) = Cardinality({i \in inference : servedOrRequested(log[i]) # ""})
        /\ Total(c.byStatusClass) = Cardinality({i \in inference : log[i].status # 0})
        /\ c.records = c.inference + Len(c.lifecycle)
        /\ \A t \in {c.byModel, c.byStatusClass} : \A i, j \in DOMAIN t : i < j => t[i].count >= t[j].count

\* Of up to sixty records a share is nothing only of none and everything only of
\* all, and no larger count has a smaller share.
ASSUME SharesAreFair ==
  \A total \in 1 .. 60 : \A part \in 0 .. total :
    /\ Percent(part, total) = 0 <=> part = 0
    /\ Percent(part, total) = 1000 <=> part = total
    /\ part > 0 => Percent(part - 1, total) <= Percent(part, total)
=============================================================================
