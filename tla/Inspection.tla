----------------------------- MODULE Inspection -----------------------------
(***************************************************************************)
(* What a reader is told of a log: the records of one session or request   *)
(* in chain order (audit/inspect.go) and how complete the log is           *)
(* (audit/coverage.go).  A log is a sequence of records with an identifier *)
(* of their own, "" where a field is empty; time is a number.              *)
(***************************************************************************)
EXTENDS Integers, Sequences, FiniteSets, SequencesExt

\* A query selects a session, or a request, or everything.
matches(e, q, seen) ==
  CASE q.session # "" -> e.session = q.session \/ (e.ref # "" /\ e.ref \in seen)
    [] q.request # "" -> q.request \in {e.request, e.ref}
    [] OTHER -> TRUE

\* The keystore as the reader has it: the keys that open and those erased, none
\* of either without the file.
decrypt(e, keystore) ==
  CASE e.sealedBy = "" -> "plain"
    [] e.sealedBy \in keystore.keys -> "opened"
    [] e.sealedBy \in keystore.erased -> "erased"
    [] OTHER -> "encrypted"
Entry(e, keystore) ==
  [seq |-> e.seq, content |-> decrypt(e, keystore),
   readable |-> e.text /\ decrypt(e, keystore) \in {"plain", "opened"}]

\* One pass: a request that was matched pulls in what refers to it, even past
\* the limit.
WithRecord(acc, e, q, keystore) ==
  IF ~matches(e, q, acc.seen) THEN acc
  ELSE [acc EXCEPT !.seen = @ \cup ({e.request} \ {""}),
                   !.entries = IF q.limit > 0 /\ Len(@) >= q.limit THEN @
                               ELSE Append(@, Entry(e, keystore))]
Reconstruct(log, q, keystore) ==
  FoldLeft(LAMBDA acc, e : WithRecord(acc, e, q, keystore), [seen |-> {}, entries |-> <<>>], log).entries

Erased(entries) == Cardinality({i \in DOMAIN entries : entries[i].content = "erased"})
Encrypted(entries) == Cardinality({i \in DOMAIN entries : entries[i].content = "encrypted"})
ContentAvailable(entries) == \E i \in DOMAIN entries : entries[i].readable

------------------------------------------------------------------------------
\* A time stamp that does not parse is not compared.
NoTime == -1
Gap(after, before, seq) == [after |-> after, before |-> before, afterSeq |-> seq]
WithTime(acc, e, threshold) ==
  IF e.at = NoTime THEN [acc EXCEPT !.prevSeq = e.seq]
  ELSE [gaps |-> IF acc.prevTime # NoTime /\ e.at - acc.prevTime >= threshold
                 THEN Append(acc.gaps, Gap(acc.prevTime, e.at, acc.prevSeq)) ELSE acc.gaps,
        prevTime |-> e.at, prevSeq |-> e.seq]
Gaps(log, threshold) ==
  FoldLeft(LAMBDA acc, e : WithTime(acc, e, threshold),
           [gaps |-> <<>>, prevTime |-> NoTime, prevSeq |-> 0], log).gaps

servedOrRequested(e) == IF e.served # "" THEN e.served ELSE e.requested
statusClass(status) ==
  IF status >= 500 THEN "5xx" ELSE IF status >= 400 THEN "4xx"
  ELSE IF status >= 300 THEN "3xx" ELSE IF status >= 200 THEN "2xx" ELSE "other"

\* In tenths of a percent, rounded half up.
Percent(part, total) == IF total = 0 THEN 0 ELSE (2000 * part + total) \div (2 * total)
\* By descending count, then by name; rank orders the names.
tally(counts, total, rank) ==
  LET above(a, b) == counts[a] > counts[b] \/ (counts[a] = counts[b] /\ rank[a] < rank[b])
      names == SetToSortSeq(DOMAIN counts, above)
  IN  [i \in DOMAIN names |->
         [name |-> names[i], count |-> counts[names[i]], percent |-> Percent(counts[names[i]], total)]]

\* How often each name occurs, "" counting for none.
Counts(names) ==
  [n \in ToSet(names) \ {""} |-> Cardinality({i \in DOMAIN names : names[i] = n})]
Lifecycle(log) ==
  SelectSeq(log, LAMBDA e : e.type \in {"system_event", "config_change", "incident"})
Analyse(log, threshold, rank) ==
  LET inference == SelectSeq(log, LAMBDA e : e.type = "inference")
      tallied(names) == tally(Counts(names), Len(inference), rank)
  IN  [records |-> Len(log), inference |-> Len(inference),
       failed |-> Len(SelectSeq(inference, LAMBDA e : e.status >= 400 \/ e.error)),
       lifecycle |-> Lifecycle(log), gaps |-> Gaps(log, threshold),
       byModel |-> tallied([i \in DOMAIN inference |-> servedOrRequested(inference[i])]),
       byStatusClass |-> tallied([i \in DOMAIN inference |->
         IF inference[i].status = 0 THEN "" ELSE statusClass(inference[i].status)])]
=============================================================================
