--------------------------- MODULE WriterKeys_proofs ---------------------------
(***************************************************************************)
(* Proofs about WriterKeys, for any processes, hosts and PIDs and any      *)
(* number of keys, starts and records.                                     *)
(*                                                                         *)
(* What is proved of the key files holds under every fault.  The inductive *)
(* invariant KInv says where a rotation is among its three files           *)
(* (RotationInv) and which keys may have signed (BuiltinInv, ExternalInv).  *)
(* That two processes never write at once holds as long as no two of them  *)
(* are inside Open together: WInv adds what the lock says of its holder.   *)
(***************************************************************************)
EXTENDS WriterKeys, TLAPS

-----------------------------------------------------------------------------
(* Types *)

Pcs == {"off", "check", "load", "create", "reconcile", "retire", "pub", "priv",
        "file", "recover", "claim", "own", "writing"}
Roles == {"none", "serve", "rotate", "retire"}
Processes ==
  [pc : Pcs, role : Roles, host : Hosts \cup {None}, pid : Pids \cup {None},
   start : Nat, key : Keys \cup {None}, next : Keys \cup {None},
   head : 0 .. MaxLog, force : BOOLEAN]

\* A process that lives has a host, a PID and the number of its start.
ProcessTypes ==
  /\ procs \in [Procs -> Processes]
  /\ starts \in Nat
  /\ \A p \in Procs : Live(p) =>
       procs[p].host \in Hosts /\ procs[p].pid \in Pids /\ procs[p].start \in 1 .. starts

FileTypes ==
  /\ lock \in {NoLock} \cup [host : Hosts, pid : Pids, start : 1 .. starts]
  /\ priv \in Keys \cup {None} /\ pub \in Keys \cup {None}
  /\ generated \in 0 .. MaxKeys
  /\ retired \in SUBSET Keys /\ signed \in SUBSET Keys
  /\ replaced \in SUBSET Keys /\ undead \in SUBSET Keys
  /\ log \in [len : 0 .. MaxLog, forked : BOOLEAN]

CustodyTypes ==
  /\ custody \in {"builtin", "external"}
  /\ helper \in Keys \cup {None} /\ configured \in Keys \cup {None}
  /\ custody = "external" => helper \in Keys /\ configured \in Keys

\* The process has made sure that public-key.pem names its key.
Reconciled == {"retire", "pub", "priv"} \cup Opening \cup {"writing"}

\* Only the built-in custody creates and rotates keys, one rotation at a time.
\* A record is never numbered beyond the log.
RoleOf(p) ==
  /\ procs[p].pc \in {"load", "create"} \/ Is(p, "rotate") => custody = "builtin"
  /\ procs[p].pc \in {"retire", "pub", "priv"} => Is(p, "rotate")
  /\ procs[p].pc = "check" => Is(p, "rotate") \/ custody = "external"
  /\ procs[p].pc = "file" => custody = "external"
  /\ procs[p].pc \in {"create", "pub", "priv"} => procs[p].next \in Keys
  /\ procs[p].pc \in {"reconcile"} \cup Reconciled => procs[p].key \in Keys
  /\ procs[p].head <= log.len
  /\ custody = "external" /\ Is(p, "serve") => procs[p].key \in Keys

RoleInv ==
  /\ \A p \in Procs : RoleOf(p)
  /\ \A p, q \in Procs : Is(p, "rotate") /\ Is(q, "rotate") => p = q

-----------------------------------------------------------------------------
(* The key files *)

\* Where a rotation is: the old key is filed before the public file names the
\* new one, and that before the private file does.
RotationOf(p) ==
  /\ Is(p, "rotate") /\ procs[p].pc \in {"reconcile", "retire", "pub", "priv"}
       => priv = procs[p].key
  /\ procs[p].pc \in {"retire", "pub"} => pub = procs[p].key
  /\ procs[p].pc \in {"pub", "priv"} => procs[p].key \in retired
  /\ procs[p].pc = "priv" => pub = procs[p].next

RotationInv == \A p \in Procs : RotationOf(p)

\* The built-in key: what a process remembers or has signed with is the private
\* key or was filed, and nothing is filed or signed before there is a public key.
BuiltinInv ==
  custody = "builtin" =>
    /\ \A p \in Procs : procs[p].key \in retired \cup {priv, None}
    /\ signed \subseteq retired \cup {priv}
    /\ priv = None => pub = None
    /\ pub = None => retired = {} /\ signed = {}
    /\ \A p \in Procs : procs[p].pc \in Reconciled => pub # None

\* The external key: the public file is written once.
ExternalInv ==
  custody = "external" =>
    /\ priv = None
    /\ \A p \in Procs : procs[p].pc \in Reconciled => procs[p].key = pub
    /\ signed \subseteq {pub}

KInv ==
  /\ ProcessTypes /\ FileTypes /\ CustodyTypes /\ RoleInv
  /\ RotationInv /\ BuiltinInv /\ ExternalInv /\ KeysRecoverable

-----------------------------------------------------------------------------
(* The writer lock *)

\* Two processes that live were started at different times.
StartsDiffer ==
  \A p, q \in Procs : Live(p) /\ Live(q) /\ procs[p].start = procs[q].start => p = q

\* One process at a time is inside Open, and one that was forced is alone until
\* it writes.
OpenAlone ==
  /\ \A p, q \in Procs : procs[p].pc \in Opening /\ procs[q].pc \in Opening => p = q
  /\ \A p, q \in Procs : procs[p].force /\ procs[p].pc # "writing" /\ Live(q) => p = q

\* The lock names the process that writes, and nobody writes while another is
\* about to put its name there.
HolderInv ==
  /\ \A p \in Procs : procs[p].pc = "writing" =>
       lock = [host |-> procs[p].host, pid |-> procs[p].pid, start |-> procs[p].start]
  /\ \A p, q \in Procs : ~(procs[p].pc = "own" /\ procs[q].pc = "writing")

\* A head once recovered is still the head.
HeadInv ==
  /\ \A p \in Procs : procs[p].pc \in {"claim", "own", "writing"} => procs[p].head = log.len
  /\ ~log.forked

WInv == StartsDiffer /\ OpenAlone /\ HolderInv /\ HeadInv

-----------------------------------------------------------------------------
(* Types are kept *)

\* Every place a step goes to is one of the places.
LEMMA Places ==
  /\ "off" \in Pcs /\ "check" \in Pcs /\ "load" \in Pcs /\ "create" \in Pcs
  /\ "reconcile" \in Pcs /\ "retire" \in Pcs /\ "pub" \in Pcs /\ "priv" \in Pcs
  /\ "file" \in Pcs /\ "recover" \in Pcs /\ "claim" \in Pcs /\ "own" \in Pcs
  /\ "writing" \in Pcs
BY DEF Pcs

LEMMA GoneType == Gone \in Processes
<1>1. 0 \in 0 .. MaxLog
  BY WriterKeysAssumption
<1> QED
  BY <1>1, Places DEF Gone, Processes, Roles, None

LEMMA TypesInit == Init => ProcessTypes /\ FileTypes /\ CustodyTypes
<1> SUFFICES ASSUME Init PROVE ProcessTypes /\ FileTypes /\ CustodyTypes
  OBVIOUS
<1>1. MaxKeys \in Nat /\ MaxKeys > 0 /\ MaxLog \in Nat
  BY WriterKeysAssumption
<1>2. ProcessTypes
  BY GoneType DEF Init, ProcessTypes, Live, Gone
<1>3. FileTypes /\ CustodyTypes
  BY <1>1 DEF Init, FileTypes, CustodyTypes, Keys, None
<1> QED
  BY <1>2, <1>3

\* The log is never longer than its bound.
LEMMA LogType ==
  ASSUME FileTypes
  PROVE  log.len \in 0 .. MaxLog /\ log.len \in Nat /\ log.forked \in BOOLEAN /\ MaxLog \in Nat
<1>1. log \in [len : 0 .. MaxLog, forked : BOOLEAN]
  BY DEF FileTypes
<1> QED
  BY <1>1, WriterKeysAssumption

\* What a start changes.
LEMMA StartFacts ==
  ASSUME ProcessTypes, CustodyTypes, NEW p \in Procs,
         NEW role \in {"serve", "rotate", "retire"}, NEW f \in BOOLEAN, Start(p, role, f)
  PROVE  \E x \in Processes :
           /\ procs' = [procs EXCEPT ![p] = x]
           /\ x.pc = IF role # "serve" THEN "check"
                     ELSE IF custody = "external" THEN "reconcile" ELSE "load"
           /\ x.role = role /\ x.host \in Hosts /\ x.pid \in Pids /\ x.start = starts + 1
           /\ x.key = IF custody = "external" THEN configured ELSE None
           /\ x.next = None /\ x.head = 0 /\ x.force = f
           /\ \A q \in Procs : Live(q) => procs[q].host # x.host \/ procs[q].pid # x.pid
<1> DEFINE c == IF role # "serve" THEN "check"
                ELSE IF custody = "external" THEN "reconcile" ELSE "load"
           k == IF custody = "external" THEN configured ELSE None
<1>1. PICK h \in Hosts, n \in Pids :
        /\ \A q \in Procs : Live(q) => procs[q].host # h \/ procs[q].pid # n
        /\ procs' = [procs EXCEPT ![p] =
             [Gone EXCEPT !.pc = c, !.role = role, !.host = h, !.pid = n,
                          !.start = starts + 1, !.key = k, !.force = f]]
  BY DEF Start
<1>2. c \in Pcs /\ role \in Roles /\ starts + 1 \in Nat
  BY Places DEF Roles, ProcessTypes
<1>3. k \in Keys \cup {None}
  BY DEF CustodyTypes
<1> HIDE DEF c, k
<1>4. PICK x : x = [Gone EXCEPT !.pc = c, !.role = role, !.host = h, !.pid = n,
                                !.start = starts + 1, !.key = k, !.force = f]
  OBVIOUS
<1>5. /\ x \in Processes
      /\ x.pc = c /\ x.role = role /\ x.host = h /\ x.pid = n /\ x.start = starts + 1
      /\ x.key = k /\ x.next = None /\ x.head = 0 /\ x.force = f
  <2>1. 0 \in 0 .. MaxLog
    BY WriterKeysAssumption
  <2> QED
    BY <1>2, <1>3, <1>4, <2>1 DEF Gone, Processes, None
<1>6. procs' = [procs EXCEPT ![p] = x]
  BY <1>1, <1>4
<1>7. \A q \in Procs : Live(q) => procs[q].host # x.host \/ procs[q].pid # x.pid
  BY <1>1, <1>5
<1> QED
  BY <1>5, <1>6, <1>7 DEF c, k

\* A step of a process that stays where it runs keeps the types.
LEMMA MovedType ==
  ASSUME ProcessTypes, NEW p \in Procs, Live(p), UNCHANGED starts,
         NEW c \in Pcs, NEW k \in Keys \cup {None}, NEW h \in 0 .. MaxLog,
         \/ procs' = [procs EXCEPT ![p].pc = c]
         \/ procs' = [procs EXCEPT ![p].pc = c, ![p].key = k]
         \/ procs' = [procs EXCEPT ![p].pc = c, ![p].next = k]
         \/ procs' = [procs EXCEPT ![p].pc = c, ![p].head = h]
         \/ procs' = [procs EXCEPT ![p].head = h]
  PROVE  ProcessTypes'
<1>1. procs \in [Procs -> Processes]
  BY DEF ProcessTypes
<1>2. procs' \in [Procs -> Processes]
  BY <1>1 DEF Processes
<1>3. \A q \in Procs : /\ procs'[q].host = procs[q].host
                       /\ procs'[q].pid = procs[q].pid
                       /\ procs'[q].start = procs[q].start
                       /\ q # p => procs'[q].pc = procs[q].pc
  BY <1>1 DEF Processes
<1> QED
  BY <1>2, <1>3 DEF ProcessTypes, Live

LEMMA ExitType ==
  ASSUME ProcessTypes, NEW p \in Procs, Exit(p), UNCHANGED starts
  PROVE  ProcessTypes'
BY GoneType DEF Exit, ProcessTypes, Live, Gone

\* Every step keeps the types of the processes.
LEMMA ProcessTypesStep ==
  ASSUME ProcessTypes, FileTypes, CustodyTypes, RoleInv, [Next]_vars
  PROVE  ProcessTypes'
<1>1. ASSUME NEW p \in Procs, NEW role \in {"serve", "rotate", "retire"},
             NEW f \in BOOLEAN, Start(p, role, f)
      PROVE  ProcessTypes'
  <2>1. PICK x \in Processes :
          /\ procs' = [procs EXCEPT ![p] = x]
          /\ x.host \in Hosts /\ x.pid \in Pids /\ x.start = starts + 1
    BY <1>1, StartFacts
  <2>2. starts \in Nat /\ starts' = starts + 1
    BY <1>1 DEF Start, ProcessTypes
  <2> QED
    BY <2>1, <2>2 DEF ProcessTypes, Live
<1>2. ASSUME NEW p \in Procs, Kill(p) \/ Close(p) \/ RetireConfigured(p)
      PROVE  ProcessTypes'
  BY <1>2, ExitType DEF Kill, Close, RetireConfigured
<1>3. ASSUME NEW p \in Procs, LoadKey(p)
      PROVE  ProcessTypes'
  <2>1. priv \in Keys \cup {None} /\ generated \in 0 .. MaxKeys /\ MaxKeys \in Nat
    BY WriterKeysAssumption DEF FileTypes
  <2>2. generated < MaxKeys => generated + 1 \in Keys
    BY <2>1 DEF Keys
  <2>3. Live(p) /\ 0 \in 0 .. MaxLog
    BY <1>3, WriterKeysAssumption DEF LoadKey, At, Live
  <2> QED
    BY <1>3, <2>1, <2>2, <2>3, MovedType, ExitType, Places DEF LoadKey
<1>4. ASSUME NEW p \in Procs,
             \/ CreateKey(p) \/ Reconcile(p) \/ Claim(p) \/ WriteLock(p)
             \/ WritePublic(p) \/ CheckLock(p)
      PROVE  ProcessTypes'
  <2>1. Live(p) /\ starts' = starts
    BY <1>4 DEF CreateKey, Reconcile, Claim, WriteLock, WritePublic, CheckLock, At, Live
  <2>2. Exit(p) \/ \E c \in Pcs : procs' = [procs EXCEPT ![p].pc = c]
    BY <1>4, Places DEF CreateKey, Reconcile, Claim, WriteLock, WritePublic, CheckLock, Goto
  <2>3. 0 \in 0 .. MaxLog /\ None \in Keys \cup {None}
    BY WriterKeysAssumption
  <2> QED
    BY <2>1, <2>2, <2>3, MovedType, ExitType
<1>5. ASSUME NEW p \in Procs, RecoverHead(p)
      PROVE  ProcessTypes'
  BY <1>5, LogType, MovedType, Places DEF RecoverHead, ChainHead, At, Live
<1>6. ASSUME NEW p \in Procs, AppendRecord(p)
      PROVE  ProcessTypes'
  <2>1. procs[p].head + 1 \in 0 .. MaxLog
    BY <1>6, LogType DEF AppendRecord, RoleInv, RoleOf, ProcessTypes, Processes
  <2> QED
    BY <1>6, <2>1, MovedType, Places DEF AppendRecord, At, Live
<1>7. ASSUME NEW p \in Procs, RetireOld(p) \/ WritePrivate(p)
      PROVE  ProcessTypes'
  <2>1. procs[p].next \in Keys \cup {None}
    BY DEF ProcessTypes, Processes
  <2>2. RetireOld(p) => generated + 1 \in Keys
    BY WriterKeysAssumption DEF RetireOld, FileTypes, Keys
  <2>3. Live(p) /\ 0 \in 0 .. MaxLog
    BY <1>7, WriterKeysAssumption DEF RetireOld, WritePrivate, At, Live
  <2> QED
    BY <1>7, <2>1, <2>2, <2>3, MovedType, Places DEF RetireOld, WritePrivate
<1>8. CASE \/ UNCHANGED vars \/ RotateHelper \/ Repoint \/ RestorePublic
           \/ \E p \in Procs : SignCheckpoint(p)
  BY <1>8 DEF vars, RotateHelper, Repoint, RestorePublic, SignCheckpoint, ProcessTypes, Live
<1> QED
  BY <1>1, <1>2, <1>3, <1>4, <1>5, <1>6, <1>7, <1>8 DEF Next, Step

-----------------------------------------------------------------------------
(* What a step changes of the processes, field by field *)

\* Only p changes, and it stays the process it is.
Moves(p, c, k, n, h) ==
  /\ \A q \in Procs : q # p => procs'[q] = procs[q]
  /\ procs'[p].pc = c /\ procs'[p].key = k /\ procs'[p].next = n /\ procs'[p].head = h
  /\ procs'[p].role = procs[p].role /\ procs'[p].force = procs[p].force
  /\ procs'[p].host = procs[p].host /\ procs'[p].pid = procs[p].pid
  /\ procs'[p].start = procs[p].start

Leaves(p) ==
  /\ \A q \in Procs : q # p => procs'[q] = procs[q]
  /\ procs'[p].pc = "off" /\ procs'[p].role = "none" /\ procs'[p].key = None
  /\ procs'[p].next = None /\ procs'[p].head = 0 /\ procs'[p].force = FALSE

Goes(p, c) == Moves(p, c, procs[p].key, procs[p].next, procs[p].head)

LEMMA GotoMoves ==
  ASSUME ProcessTypes, NEW p \in Procs, NEW c, Goto(p, c)
  PROVE  Goes(p, c)
<1>1. procs \in [Procs -> Processes]
  BY DEF ProcessTypes
<1> QED
  BY <1>1 DEF Goto, Goes, Moves, Processes

LEMMA ExitLeaves ==
  ASSUME ProcessTypes, NEW p \in Procs, Exit(p)
  PROVE  Leaves(p)
<1>1. procs \in [Procs -> Processes]
  BY DEF ProcessTypes
<1>2. procs'[p] = Gone /\ \A q \in Procs : q # p => procs'[q] = procs[q]
  BY <1>1 DEF Exit
<1>3. /\ Gone.pc = "off" /\ Gone.role = "none" /\ Gone.key = None /\ Gone.next = None
      /\ Gone.head = 0 /\ Gone.force = FALSE
  BY DEF Gone, None
<1> QED
  BY <1>2, <1>3 DEF Leaves

LEMMA FieldMoves ==
  ASSUME ProcessTypes, NEW p \in Procs, NEW c, NEW x
  PROVE  /\ procs' = [procs EXCEPT ![p].pc = c, ![p].key = x]
              => Moves(p, c, x, procs[p].next, procs[p].head)
         /\ procs' = [procs EXCEPT ![p].pc = c, ![p].next = x]
              => Moves(p, c, procs[p].key, x, procs[p].head)
         /\ procs' = [procs EXCEPT ![p].pc = c, ![p].head = x]
              => Moves(p, c, procs[p].key, procs[p].next, x)
         /\ procs' = [procs EXCEPT ![p].head = x]
              => Moves(p, procs[p].pc, procs[p].key, procs[p].next, x)
<1>1. procs \in [Procs -> Processes]
  BY DEF ProcessTypes
<1> QED
  BY <1>1 DEF Moves, Processes

\* The steps of one process.
LEMMA StepMoves ==
  ASSUME ProcessTypes, NEW p \in Procs
  PROVE  /\ Kill(p) \/ Close(p) \/ RetireConfigured(p) => Leaves(p)
         /\ LoadKey(p) =>
              \/ priv # None /\ Moves(p, "reconcile", priv, procs[p].next, procs[p].head)
              \/ Leaves(p) /\ UNCHANGED generated
              \/ /\ ~Is(p, "rotate") /\ generated < MaxKeys /\ generated' = generated + 1
                 /\ Moves(p, "create", procs[p].key, generated + 1, procs[p].head)
         /\ CreateKey(p) => Goes(p, "load")
         /\ Reconcile(p) =>
              \/ /\ pub \in {None, procs[p].key} /\ pub' = procs[p].key
                 /\ Goes(p, IF Is(p, "rotate") THEN "retire" ELSE "recover")
              \/ Leaves(p) /\ pub' = pub
         /\ RecoverHead(p) => Moves(p, "claim", procs[p].key, procs[p].next, log.len)
         /\ Claim(p) => \/ MayTake(p) /\ Goes(p, "own") /\ lock' = lock
                        \/ Leaves(p) /\ lock' = lock
         /\ WriteLock(p) => Goes(p, "writing")
         /\ AppendRecord(p) =>
              Moves(p, procs[p].pc, procs[p].key, procs[p].next, procs[p].head + 1)
         /\ CheckLock(p) =>
              \/ Leaves(p) \/ Goes(p, IF Is(p, "rotate") THEN "load" ELSE "file")
         /\ RetireOld(p) => Moves(p, "pub", procs[p].key, generated + 1, procs[p].head)
         /\ WritePublic(p) => Goes(p, "priv")
         /\ WritePrivate(p) =>
              Moves(p, "recover", procs[p].next, procs[p].next, procs[p].head)
<1>1. Kill(p) \/ Close(p) \/ RetireConfigured(p) => Leaves(p)
  BY ExitLeaves DEF Kill, Close, RetireConfigured
<1>2. LoadKey(p) =>
        \/ priv # None /\ Moves(p, "reconcile", priv, procs[p].next, procs[p].head)
        \/ Leaves(p) /\ UNCHANGED generated
        \/ /\ ~Is(p, "rotate") /\ generated < MaxKeys /\ generated' = generated + 1
           /\ Moves(p, "create", procs[p].key, generated + 1, procs[p].head)
  BY ExitLeaves, FieldMoves DEF LoadKey
<1>3. CreateKey(p) => Goes(p, "load")
  BY GotoMoves DEF CreateKey
<1>4. Reconcile(p) =>
        \/ /\ pub \in {None, procs[p].key} /\ pub' = procs[p].key
           /\ Goes(p, IF Is(p, "rotate") THEN "retire" ELSE "recover")
        \/ Leaves(p) /\ pub' = pub
  BY GotoMoves, ExitLeaves DEF Reconcile
<1>5. RecoverHead(p) => Moves(p, "claim", procs[p].key, procs[p].next, log.len)
  BY FieldMoves DEF RecoverHead, ChainHead
<1>6. Claim(p) => \/ MayTake(p) /\ Goes(p, "own") /\ lock' = lock
                  \/ Leaves(p) /\ lock' = lock
  BY GotoMoves, ExitLeaves DEF Claim, AfterRefusal
<1>7. WriteLock(p) => Goes(p, "writing")
  BY GotoMoves DEF WriteLock
<1>8. AppendRecord(p) =>
        Moves(p, procs[p].pc, procs[p].key, procs[p].next, procs[p].head + 1)
  <2> SUFFICES ASSUME AppendRecord(p)
               PROVE  Moves(p, procs[p].pc, procs[p].key, procs[p].next, procs[p].head + 1)
    OBVIOUS
  <2>1. procs' = [procs EXCEPT ![p].head = procs[p].head + 1]
    BY DEF AppendRecord
  <2> QED
    BY <2>1, FieldMoves
<1>9. CheckLock(p) => Leaves(p) \/ Goes(p, IF Is(p, "rotate") THEN "load" ELSE "file")
  BY GotoMoves, ExitLeaves DEF CheckLock
<1>10. RetireOld(p) => Moves(p, "pub", procs[p].key, generated + 1, procs[p].head)
  BY FieldMoves DEF RetireOld
<1>11. WritePublic(p) => Goes(p, "priv")
  BY GotoMoves DEF WritePublic
<1>12. WritePrivate(p) =>
         Moves(p, "recover", procs[p].next, procs[p].next, procs[p].head)
  BY FieldMoves DEF WritePrivate
<1> QED
  BY <1>1, <1>2, <1>3, <1>4, <1>5, <1>6, <1>7, <1>8, <1>9, <1>10, <1>11, <1>12

-----------------------------------------------------------------------------
(* Types of the files, and which process does what *)

\* Every step keeps the types of the files.
LEMMA FileTypesStep ==
  ASSUME ProcessTypes, FileTypes, CustodyTypes, RoleInv, RotationInv, [Next]_vars
  PROVE  FileTypes'
<1>1. /\ MaxKeys \in Nat /\ None \notin Keys
      /\ \A n \in Nat : n < MaxKeys => n + 1 \in Keys /\ n + 1 \in 0 .. MaxKeys
  BY WriterKeysAssumption DEF Keys, None
<1>2. /\ generated \in Nat /\ starts \in Nat
      /\ \A p \in Procs : procs[p].key \in Keys \cup {None} /\ procs[p].next \in Keys \cup {None}
  BY <1>1 DEF FileTypes, ProcessTypes, Processes
<1>3. ASSUME NEW p \in Procs, NEW role \in {"serve", "rotate", "retire"},
             NEW f \in BOOLEAN, Start(p, role, f)
      PROVE  FileTypes'
  BY <1>2, <1>3 DEF Start, KeyFiles, External, Written, FileTypes
<1>4. ASSUME NEW p \in Procs, Kill(p) \/ RecoverHead(p) \/ Claim(p) \/ CheckLock(p)
      PROVE  FileTypes'
  BY <1>4 DEF Kill, RecoverHead, Claim, CheckLock, AfterRefusal, KeyFiles, External, Written,
     FileTypes
<1>5. ASSUME NEW p \in Procs, LoadKey(p) \/ CreateKey(p)
      PROVE  FileTypes'
  BY <1>1, <1>2, <1>5 DEF LoadKey, CreateKey, LinkNewFile, At, External, Written, FileTypes
<1>6. ASSUME NEW p \in Procs, Reconcile(p)
      PROVE  FileTypes'
  BY <1>2, <1>6 DEF Reconcile, External, Written, FileTypes
<1>7. ASSUME NEW p \in Procs, WriteLock(p) \/ Close(p)
      PROVE  FileTypes'
  BY <1>7 DEF WriteLock, Close, At, Live, ProcessTypes, KeyFiles, External, Written, FileTypes
<1>8. ASSUME NEW p \in Procs, AppendRecord(p)
      PROVE  FileTypes'
  <2>1. log' \in [len : 0 .. MaxLog, forked : BOOLEAN]
    BY <1>8, LogType DEF AppendRecord
  <2> QED
    BY <1>8, <2>1 DEF AppendRecord, KeyFiles, External, FileTypes
<1>9. ASSUME NEW p \in Procs, SignCheckpoint(p)
      PROVE  FileTypes'
  BY <1>2, <1>9 DEF SignCheckpoint, SignsAs, KeyFiles, External, FileTypes
<1>10. ASSUME NEW p \in Procs, RetireOld(p)
      PROVE  FileTypes'
  BY <1>1, <1>2, <1>10 DEF RetireOld, RetireFirst, At, RoleInv, RoleOf, Reconciled, External, Written,
     FileTypes
<1>11. ASSUME NEW p \in Procs, WritePublic(p)
      PROVE  FileTypes'
  BY <1>2, <1>11 DEF WritePublic, External, Written, FileTypes
<1>12. ASSUME NEW p \in Procs, WritePrivate(p)
      PROVE  FileTypes'
  BY <1>2, <1>12 DEF WritePrivate, At, RoleInv, RoleOf, RotationInv, RotationOf, Reconciled, External, Written, FileTypes
<1>13. ASSUME NEW p \in Procs, RetireConfigured(p)
      PROVE  FileTypes'
  BY <1>13 DEF RetireConfigured, At, RoleInv, RoleOf, CustodyTypes, External, Written, FileTypes
<1>14. CASE UNCHANGED vars \/ RotateHelper \/ Repoint \/ RestorePublic
  BY <1>1, <1>2, <1>14 DEF vars, RotateHelper, Repoint, RestorePublic, KeyFiles, External,
     Written, FileTypes
<1> QED
  BY <1>3, <1>4, <1>5, <1>6, <1>7, <1>8, <1>9, <1>10, <1>11, <1>12, <1>13, <1>14
  DEF Next, Step

\* Only the operator changes who holds the key.
LEMMA CustodyFrame ==
  ASSUME [Next]_vars
  PROVE  UNCHANGED custody /\ (UNCHANGED <<helper, configured>> \/ RotateHelper \/ Repoint)
<1>1. ASSUME NEW p \in Procs, Step(p)
      PROVE  UNCHANGED External
  <2>1. CASE \E role \in {"serve", "rotate", "retire"}, f \in BOOLEAN : Start(p, role, f)
    BY <2>1 DEF Start
  <2> QED
    BY <1>1, <2>1 DEF Step, Kill, LoadKey, CreateKey, Reconcile, RecoverHead,
       Claim, WriteLock, AppendRecord, SignCheckpoint, Close, CheckLock, RetireOld,
       WritePublic, WritePrivate, RetireConfigured
<1>2. CASE RotateHelper \/ Repoint \/ RestorePublic \/ UNCHANGED vars
  BY <1>2 DEF RotateHelper, Repoint, RestorePublic, External, vars
<1> QED
  BY <1>1, <1>2 DEF Next, External

LEMMA CustodyTypesStep ==
  ASSUME FileTypes, CustodyTypes, [Next]_vars
  PROVE  CustodyTypes'
<1>1. CASE UNCHANGED <<custody, helper, configured>>
  BY <1>1 DEF CustodyTypes
<1>2. CASE RotateHelper
  BY <1>2, WriterKeysAssumption DEF RotateHelper, FileTypes, CustodyTypes, Keys
<1>3. CASE Repoint
  BY <1>3 DEF Repoint, CustodyTypes
<1> QED
  BY <1>1, <1>2, <1>3, CustodyFrame

\* A step of p is judged by what becomes of p.
LEMMA RoleFrame ==
  ASSUME RoleInv, NEW p \in Procs, \A q \in Procs : q # p => procs'[q] = procs[q],
         custody' = custody, log.len' = log.len,
         \/ procs'[p].role \in {procs[p].role, "none", "serve", "retire"}
         \/ \A q \in Procs : ~Is(q, "rotate"),
         RoleOf(p)'
  PROVE  RoleInv'
<1>1. \A q \in Procs : q # p => RoleOf(q)'
  BY DEF RoleInv, RoleOf, Is
<1>2. ASSUME NEW q \in Procs, NEW r \in Procs, Is(q, "rotate")', Is(r, "rotate")'
      PROVE  q = r
  BY <1>2 DEF RoleInv, Is
<1> QED
  BY <1>1, <1>2 DEF RoleInv

\* Every step keeps who does what.
LEMMA RoleStep ==
  ASSUME ProcessTypes, FileTypes, CustodyTypes, RoleInv, RotationInv, [Next]_vars
  PROVE  RoleInv'
<1>1. /\ custody' = custody /\ None \notin Keys /\ log.len \in Nat
      /\ \A n \in Nat : n < MaxKeys => n + 1 \in Keys
      /\ generated \in Nat /\ priv \in Keys \cup {None}
      /\ custody # "external" => custody = "builtin"
  BY CustodyFrame, LogType, WriterKeysAssumption DEF Keys, None, FileTypes, CustodyTypes
<1>2. ASSUME NEW p \in Procs, NEW role \in {"serve", "rotate", "retire"},
             NEW f \in BOOLEAN, Start(p, role, f)
      PROVE  RoleInv'
  <2>1. PICK x \in Processes :
          /\ procs' = [procs EXCEPT ![p] = x]
          /\ x.pc = IF role # "serve" THEN "check"
                    ELSE IF custody = "external" THEN "reconcile" ELSE "load"
          /\ x.role = role /\ x.head = 0
          /\ x.key = IF custody = "external" THEN configured ELSE None
    BY <1>2, StartFacts
  <2>2. procs'[p] = x /\ \A q \in Procs : q # p => procs'[q] = procs[q]
    BY <2>1 DEF ProcessTypes
  <2>3. /\ log' = log
        /\ role = "rotate" => custody = "builtin"
        /\ role = "retire" => custody = "external"
        /\ role = "rotate" => \A q \in Procs : ~Is(q, "rotate")
    BY <1>2 DEF Start, Written
  <2>4. custody = "external" => configured \in Keys
    BY DEF CustodyTypes
  <2>5. RoleOf(p)'
    BY <1>1, <2>1, <2>2, <2>3, <2>4 DEF RoleOf, Reconciled, Opening, Is
  <2> QED
    BY <1>1, <2>1, <2>2, <2>3, <2>5, RoleFrame
<1>3. ASSUME NEW p \in Procs, Leaves(p), log' = log
      PROVE  RoleInv'
  <2>1. RoleOf(p)'
    BY <1>1, <1>3 DEF Leaves, RoleOf, Reconciled, Opening, Is
  <2> QED
    BY <1>1, <1>3, <2>1, RoleFrame DEF Leaves
<1>4. ASSUME NEW p \in Procs, NEW c, NEW k, NEW n, NEW h,
             Moves(p, c, k, n, h), log' = log, h <= log.len,
             c \in {"load", "create"} => custody = "builtin",
             c \in {"retire", "pub", "priv"} => Is(p, "rotate"),
             c # "check", c = "file" => custody = "external",
             c \in {"create", "pub", "priv"} => n \in Keys,
             c \in {"reconcile"} \cup Reconciled => k \in Keys,
             k = procs[p].key \/ k \in Keys
      PROVE  RoleInv'
  <2>1. RoleOf(p)'
    BY <1>1, <1>4 DEF Moves, RoleInv, RoleOf, Is
  <2> QED
    BY <1>1, <1>4, <2>1, RoleFrame DEF Moves
<1>5. ASSUME NEW p \in Procs, LoadKey(p)
      PROVE  RoleInv'
  <2>1. RoleOf(p) /\ procs[p].pc = "load" /\ log' = log
    BY <1>5 DEF RoleInv, LoadKey, At, Written
  <2> QED
    BY <1>1, <1>3, <1>4, <1>5, <2>1, StepMoves DEF RoleOf, Reconciled, Opening
<1>6. ASSUME NEW p \in Procs, CreateKey(p)
      PROVE  RoleInv'
  <2>1. RoleOf(p) /\ procs[p].pc = "create" /\ log' = log
    BY <1>6 DEF RoleInv, CreateKey, At, Written
  <2> QED
    BY <1>1, <1>4, <1>6, <2>1, StepMoves DEF Goes, RoleOf, Reconciled, Opening
<1>7. ASSUME NEW p \in Procs, RecoverHead(p)
      PROVE  RoleInv'
  <2>1. RoleOf(p) /\ procs[p].pc = "recover" /\ log' = log
    BY <1>7 DEF RoleInv, RecoverHead, At, Written
  <2> QED
    BY <1>1, <1>4, <1>7, <2>1, StepMoves DEF RoleOf, Reconciled, Opening
<1>8. ASSUME NEW p \in Procs, WriteLock(p)
      PROVE  RoleInv'
  <2>1. RoleOf(p) /\ procs[p].pc = "own" /\ log' = log
    BY <1>8 DEF RoleInv, WriteLock, At, Written
  <2> QED
    BY <1>1, <1>4, <1>8, <2>1, StepMoves DEF Goes, RoleOf, Reconciled, Opening
<1>9. ASSUME NEW p \in Procs, WritePublic(p)
      PROVE  RoleInv'
  <2>1. RoleOf(p) /\ procs[p].pc = "pub" /\ log' = log
    BY <1>9 DEF RoleInv, WritePublic, At, Written
  <2> QED
    BY <1>1, <1>4, <1>9, <2>1, StepMoves DEF Goes, RoleOf, Reconciled, Opening
<1>10. ASSUME NEW p \in Procs, Reconcile(p)
      PROVE  RoleInv'
  <2>1. RoleOf(p) /\ procs[p].pc = "reconcile" /\ log' = log
    BY <1>10 DEF RoleInv, Reconcile, At, Written
  <2> QED
    BY <1>1, <1>3, <1>4, <1>10, <2>1, StepMoves DEF Goes, RoleOf, Reconciled, Opening
<1>11. ASSUME NEW p \in Procs, Claim(p)
      PROVE  RoleInv'
  <2>1. RoleOf(p) /\ procs[p].pc = "claim" /\ log' = log
    BY <1>11 DEF RoleInv, Claim, At, Written
  <2> QED
    BY <1>1, <1>3, <1>4, <1>11, <2>1, StepMoves DEF Goes, RoleOf, Reconciled, Opening
<1>12. ASSUME NEW p \in Procs, CheckLock(p)
      PROVE  RoleInv'
  <2>1. RoleOf(p) /\ procs[p].pc = "check" /\ log' = log
    BY <1>12 DEF RoleInv, CheckLock, At, Written
  <2> QED
    BY <1>1, <1>3, <1>4, <1>12, <2>1, StepMoves DEF Goes, RoleOf, Reconciled, Opening
<1>13. ASSUME NEW p \in Procs, RetireOld(p)
      PROVE  RoleInv'
  <2>1. RoleOf(p) /\ procs[p].pc = "retire" /\ log' = log /\ generated < MaxKeys
    BY <1>13 DEF RoleInv, RetireOld, At, Written
  <2> QED
    BY <1>1, <1>4, <1>13, <2>1, StepMoves DEF RoleOf, Reconciled, Opening
<1>14. ASSUME NEW p \in Procs, WritePrivate(p)
      PROVE  RoleInv'
  <2>1. RoleOf(p) /\ procs[p].pc = "priv" /\ log' = log
    BY <1>14 DEF RoleInv, WritePrivate, At, Written
  <2> QED
    BY <1>1, <1>4, <1>14, <2>1, StepMoves DEF RoleOf, Reconciled, Opening
<1>15. ASSUME NEW p \in Procs, AppendRecord(p)
      PROVE  RoleInv'
  <2>1. /\ \A q \in Procs : q # p => procs'[q] = procs[q]
        /\ procs'[p].pc = procs[p].pc /\ procs'[p].key = procs[p].key
        /\ procs'[p].next = procs[p].next /\ procs'[p].role = procs[p].role
        /\ procs'[p].head = procs[p].head + 1
    BY <1>15, StepMoves DEF Moves
  <2>2. log.len' = log.len + 1
    BY <1>15 DEF AppendRecord
  <2>3. \A q \in Procs : procs[q].head \in Nat
    BY WriterKeysAssumption DEF ProcessTypes, Processes
  <2>4. \A q \in Procs : RoleOf(q)'
    BY <1>1, <2>1, <2>2, <2>3 DEF RoleInv, RoleOf, Is
  <2> QED
    BY <2>1, <2>4 DEF RoleInv, Is
<1>16. ASSUME NEW p \in Procs, Kill(p) \/ Close(p) \/ RetireConfigured(p)
      PROVE  RoleInv'
  BY <1>3, <1>16, StepMoves DEF Kill, Close, RetireConfigured, Written
<1>17. CASE \/ UNCHANGED vars \/ RotateHelper \/ Repoint \/ RestorePublic
            \/ \E p \in Procs : SignCheckpoint(p)
  <2>1. procs' = procs /\ log' = log
    BY <1>17 DEF vars, RotateHelper, Repoint, RestorePublic, SignCheckpoint, Written
  <2> QED
    BY <1>1, <2>1 DEF RoleInv, RoleOf, Is
<1> QED
  BY <1>2, <1>5, <1>6, <1>7, <1>8, <1>9, <1>10, <1>11, <1>12, <1>13, <1>14, <1>15, <1>16,
     <1>17 DEF Next, Step

-----------------------------------------------------------------------------
(* The key files are kept in order *)

\* What the steps of one process do to the key files.
LEMMA FilesFrame ==
  ASSUME NEW p \in Procs, Step(p)
  PROVE  /\ UNCHANGED priv \/ CreateKey(p) \/ WritePrivate(p)
         /\ UNCHANGED pub \/ Reconcile(p) \/ WritePublic(p)
         /\ UNCHANGED retired \/ RetireOld(p) \/ RetireConfigured(p)
         /\ UNCHANGED signed \/ SignCheckpoint(p)
         /\ UNCHANGED log \/ AppendRecord(p)
<1>1. CASE \E role \in {"serve", "rotate", "retire"}, f \in BOOLEAN : Start(p, role, f)
  BY <1>1 DEF Start, KeyFiles, Written
<1>2. CASE Kill(p) \/ LoadKey(p) \/ CreateKey(p) \/ Reconcile(p) \/ RecoverHead(p) \/ Claim(p)
  BY <1>2 DEF Kill, LoadKey, CreateKey, Reconcile, RecoverHead, Claim, KeyFiles, Written
<1>3. CASE WriteLock(p) \/ AppendRecord(p) \/ SignCheckpoint(p) \/ Close(p) \/ CheckLock(p)
  BY <1>3 DEF WriteLock, AppendRecord, SignCheckpoint, Close, CheckLock, KeyFiles, Written
<1>4. CASE RetireOld(p) \/ WritePublic(p) \/ WritePrivate(p) \/ RetireConfigured(p)
  BY <1>4 DEF RetireOld, WritePublic, WritePrivate, RetireConfigured, Written
<1> QED
  BY <1>1, <1>2, <1>3, <1>4 DEF Step

\* A step of p changes no other process.
LEMMA OthersStay ==
  ASSUME ProcessTypes, NEW p \in Procs, Step(p), NEW q \in Procs, q # p
  PROVE  procs'[q] = procs[q]
<1>1. procs \in [Procs -> Processes]
  BY DEF ProcessTypes
<1>2. ASSUME NEW role \in {"serve", "rotate", "retire"}, NEW f \in BOOLEAN, Start(p, role, f)
      PROVE  procs'[q] = procs[q]
  BY <1>1, <1>2 DEF Start
<1>3. CASE \/ Kill(p) \/ Close(p) \/ RetireConfigured(p) \/ LoadKey(p) \/ CreateKey(p)
           \/ Reconcile(p) \/ RecoverHead(p) \/ Claim(p) \/ WriteLock(p) \/ AppendRecord(p)
           \/ CheckLock(p) \/ RetireOld(p) \/ WritePublic(p) \/ WritePrivate(p)
  BY <1>3, StepMoves DEF Leaves, Goes, Moves
<1>4. CASE SignCheckpoint(p)
  BY <1>4 DEF SignCheckpoint
<1> QED
  BY <1>2, <1>3, <1>4 DEF Step

\* One rotation is not disturbed by what another process does.
LEMMA RotationStays ==
  ASSUME ProcessTypes, FileTypes, RoleInv, RotationInv,
         NEW p \in Procs, Step(p), NEW q \in Procs, q # p
  PROVE  RotationOf(q)'
<1>1. /\ procs'[q] = procs[q] /\ RoleOf(q) /\ RotationOf(q) /\ RoleOf(p) /\ None \notin Keys
      /\ Is(p, "rotate") => ~Is(q, "rotate")
  BY OthersStay DEF RoleInv, RotationInv, Keys, None
<1>2. retired \subseteq retired'
  BY FilesFrame DEF RetireOld, RetireFirst, RetireConfigured
<1>3. Is(q, "rotate") => priv' = priv \/ priv = None
  <2>1. WritePrivate(p) => Is(p, "rotate")
    BY <1>1 DEF WritePrivate, At, RoleOf
  <2>2. CreateKey(p) => priv' = priv \/ priv = None
    BY DEF CreateKey, LinkNewFile
  <2> QED
    BY <1>1, <2>1, <2>2, FilesFrame
<1>4. Is(q, "rotate") => pub' = pub \/ pub = None
  <2>1. WritePublic(p) => Is(p, "rotate")
    BY <1>1 DEF WritePublic, At, RoleOf
  <2>2. Reconcile(p) => pub' = pub \/ pub = None
    BY DEF Reconcile
  <2> QED
    BY <1>1, <2>1, <2>2, FilesFrame
<1> QED
  BY <1>1, <1>2, <1>3, <1>4 DEF RoleOf, RotationOf, Reconciled, Is

\* Every step leaves each rotation where its files say it is.
LEMMA RotationStep ==
  ASSUME ProcessTypes, FileTypes, CustodyTypes, RoleInv, RotationInv, [Next]_vars
  PROVE  RotationInv'
<1>1. ASSUME NEW p \in Procs, Step(p)
      PROVE  RotationOf(p)'
  <2>1. RoleOf(p) /\ RotationOf(p)
    BY DEF RoleInv, RotationInv
  <2>2. ASSUME NEW role \in {"serve", "rotate", "retire"}, NEW f \in BOOLEAN, Start(p, role, f)
        PROVE  RotationOf(p)'
    <3>1. PICK x \in Processes :
            /\ procs' = [procs EXCEPT ![p] = x]
            /\ x.pc = IF role # "serve" THEN "check"
                      ELSE IF custody = "external" THEN "reconcile" ELSE "load"
            /\ x.role = role
      BY <2>2, StartFacts
    <3>2. procs'[p] = x
      BY <3>1 DEF ProcessTypes
    <3> QED
      BY <3>1, <3>2 DEF RotationOf, Is
  <2>3. ASSUME \/ Leaves(p)
               \/ procs'[p].pc \in {"load", "create", "recover", "claim", "own", "writing", "file"}
        PROVE  RotationOf(p)'
    BY <2>3 DEF Leaves, RotationOf
  <2>4. CASE \/ Kill(p) \/ Close(p) \/ RetireConfigured(p) \/ CreateKey(p) \/ RecoverHead(p)
             \/ Claim(p) \/ WriteLock(p) \/ CheckLock(p) \/ WritePrivate(p)
    BY <2>3, <2>4, StepMoves DEF Goes, Moves
  <2>5. CASE LoadKey(p)
    <3>1. \/ Leaves(p) \/ procs'[p].pc = "create"
          \/ procs'[p].pc = "reconcile" /\ procs'[p].key = priv
      BY <2>5, StepMoves DEF Moves
    <3>2. priv' = priv
      BY <2>5 DEF LoadKey
    <3> QED
      BY <2>3, <3>1, <3>2 DEF RotationOf
  <2>6. CASE Reconcile(p)
    <3>1. procs[p].pc = "reconcile" /\ priv' = priv
      BY <2>6 DEF Reconcile, At
    <3>2. \/ Leaves(p)
          \/ /\ procs'[p].pc \in {"retire", "recover"} /\ pub' = procs[p].key
             /\ procs'[p].key = procs[p].key /\ procs'[p].role = procs[p].role
      BY <2>6, StepMoves DEF Goes, Moves
    <3> QED
      BY <2>1, <2>3, <3>1, <3>2 DEF RotationOf, Is
  <2>7. CASE RetireOld(p)
    <3>1. procs[p].pc = "retire" /\ UNCHANGED <<priv, pub>> /\ procs[p].key \in retired'
      BY <2>7 DEF RetireOld, RetireFirst, At
    <3>2. /\ procs'[p].pc = "pub" /\ procs'[p].key = procs[p].key
          /\ procs'[p].role = procs[p].role
      BY <2>7, StepMoves DEF Moves
    <3> QED
      BY <2>1, <3>1, <3>2 DEF RotationOf, Is
  <2>8. CASE WritePublic(p)
    <3>1. procs[p].pc = "pub" /\ UNCHANGED <<priv, retired>> /\ pub' = procs[p].next
      BY <2>8 DEF WritePublic, At
    <3>2. /\ procs'[p].pc = "priv" /\ procs'[p].key = procs[p].key
          /\ procs'[p].next = procs[p].next /\ procs'[p].role = procs[p].role
      BY <2>8, StepMoves DEF Goes, Moves
    <3> QED
      BY <2>1, <3>1, <3>2 DEF RotationOf, Is
  <2>9. CASE AppendRecord(p) \/ SignCheckpoint(p)
    <3>1. procs[p].pc = "writing"
      BY <2>9 DEF AppendRecord, SignCheckpoint, At
    <3>2. procs'[p].pc = procs[p].pc
      BY <2>9, StepMoves DEF SignCheckpoint, Moves
    <3> QED
      BY <2>3, <3>1, <3>2
  <2> QED
    BY <1>1, <2>2, <2>4, <2>5, <2>6, <2>7, <2>8, <2>9 DEF Step
<1>2. ASSUME NEW p \in Procs, Step(p)
      PROVE  RotationInv'
  BY <1>1, <1>2, RotationStays DEF RotationInv
<1>3. CASE UNCHANGED vars \/ RotateHelper \/ Repoint
  BY <1>3 DEF vars, RotateHelper, Repoint, KeyFiles, RotationInv, RotationOf, Is
<1>4. CASE RestorePublic
  BY <1>4 DEF RestorePublic, Live, RotationInv, RotationOf, Is
<1> QED
  BY <1>2, <1>3, <1>4 DEF Next

-----------------------------------------------------------------------------
(* The keys that may have signed stay known *)

\* The key a process has after a step, and how it gets past reconciling.
LEMMA KeyAfter ==
  ASSUME ProcessTypes, FileTypes, CustodyTypes, RoleInv, RotationInv, NEW p \in Procs, Step(p)
  PROVE  /\ custody = "builtin" => procs'[p].key \in {procs[p].key, None, priv'}
         /\ procs'[p].pc \in Reconciled =>
              \/ procs[p].pc \in Reconciled
              \/ Reconcile(p) /\ procs'[p].key = procs[p].key /\ pub' = procs'[p].key
         /\ procs'[p].pc \in Reconciled /\ custody = "external" => procs'[p].key = procs[p].key
<1>1. RoleOf(p) /\ RotationOf(p)
  BY DEF RoleInv, RotationInv
<1>2. ASSUME NEW role \in {"serve", "rotate", "retire"}, NEW f \in BOOLEAN, Start(p, role, f)
      PROVE  /\ custody = "builtin" => procs'[p].key = None
             /\ procs'[p].pc \notin Reconciled
  <2>1. PICK x \in Processes :
          /\ procs' = [procs EXCEPT ![p] = x]
          /\ x.pc = IF role # "serve" THEN "check"
                    ELSE IF custody = "external" THEN "reconcile" ELSE "load"
          /\ x.key = IF custody = "external" THEN configured ELSE None
    BY <1>2, StartFacts
  <2>2. procs'[p] = x
    BY <2>1 DEF ProcessTypes
  <2> QED
    BY <2>1, <2>2 DEF Reconciled, Opening
<1>3. ASSUME Leaves(p) PROVE procs'[p].key = None /\ procs'[p].pc \notin Reconciled
  BY <1>3 DEF Leaves, Reconciled, Opening
<1>4. CASE Kill(p) \/ Close(p) \/ RetireConfigured(p)
  BY <1>3, <1>4, StepMoves
<1>5. CASE LoadKey(p)
  <2>1. priv' = priv
    BY <1>5 DEF LoadKey
  <2> QED
    BY <1>3, <1>5, <2>1, StepMoves DEF Moves, Reconciled, Opening
<1>6. CASE CreateKey(p) \/ CheckLock(p)
  BY <1>3, <1>6, StepMoves DEF Goes, Moves, Reconciled, Opening
<1>7. CASE Reconcile(p)
  BY <1>3, <1>7, StepMoves DEF Goes, Moves
<1>8. CASE \/ RecoverHead(p) \/ Claim(p) \/ WriteLock(p) \/ RetireOld(p) \/ WritePublic(p)
           \/ AppendRecord(p) \/ SignCheckpoint(p)
  <2>1. Leaves(p) \/ procs'[p].key = procs[p].key
    BY <1>8, StepMoves DEF Goes, Moves, SignCheckpoint
  <2>2. procs[p].pc \in Reconciled
    BY <1>8 DEF RecoverHead, Claim, WriteLock, RetireOld, WritePublic, AppendRecord,
       SignCheckpoint, At, Reconciled, Opening
  <2> QED
    BY <1>3, <2>1, <2>2
<1>9. CASE WritePrivate(p)
  <2>1. procs[p].pc = "priv" /\ priv' = procs[p].next
    BY <1>9 DEF WritePrivate, At
  <2>2. procs'[p].key = procs[p].next
    BY <1>9, StepMoves DEF Moves
  <2>3. custody = "builtin"
    BY <1>1, <2>1 DEF RoleOf
  <2> QED
    BY <2>1, <2>2, <2>3 DEF Reconciled
<1> QED
  BY <1>2, <1>4, <1>5, <1>6, <1>7, <1>8, <1>9 DEF Step

\* How the private key changes.
LEMMA PrivateAfter ==
  ASSUME RoleInv, RotationInv, FileTypes, NEW p \in Procs, Step(p)
  PROVE  \/ priv' = priv
         \/ custody = "builtin" /\ priv = None /\ priv' \in Keys /\ CreateKey(p)
         \/ /\ custody = "builtin" /\ priv \in retired /\ priv' \in Keys
            /\ pub = priv' /\ WritePrivate(p)
<1>1. RoleOf(p) /\ RotationOf(p)
  BY DEF RoleInv, RotationInv
<1>2. ASSUME CreateKey(p)
      PROVE  priv' = priv \/ (custody = "builtin" /\ priv = None /\ priv' \in Keys)
  BY <1>1, <1>2 DEF CreateKey, LinkNewFile, At, RoleOf
<1>3. ASSUME WritePrivate(p)
      PROVE  custody = "builtin" /\ priv \in retired /\ priv' \in Keys /\ pub = priv'
  BY <1>1, <1>3 DEF WritePrivate, At, RoleOf, RotationOf
<1> QED
  BY <1>2, <1>3, FilesFrame

\* A checkpoint is signed with the key of a process that writes.
LEMMA SignedWith ==
  ASSUME RoleInv, NEW p \in Procs, SignCheckpoint(p)
  PROVE  /\ signed' = signed \cup {procs[p].key} /\ procs[p].key \in Keys
         /\ procs[p].pc = "writing"
<1>1. RoleOf(p) /\ None \notin Keys
  BY DEF RoleInv, Keys, None
<1> QED
  BY <1>1 DEF SignCheckpoint, SignsAs, At, RoleOf, Reconciled

\* Every step keeps the built-in keys known.
LEMMA BuiltinStep ==
  ASSUME ProcessTypes, FileTypes, CustodyTypes, RoleInv, RotationInv, BuiltinInv,
         KeysRecoverable, custody = "builtin", [Next]_vars
  PROVE  BuiltinInv' /\ KeysRecoverable'
<1>1. /\ None \notin Keys /\ custody' = "builtin" /\ signed \subseteq Keys
      /\ retired \subseteq Keys
      /\ \A p \in Procs : procs[p].key \in retired \cup {priv, None}
      /\ signed \subseteq retired \cup {priv}
      /\ priv = None => pub = None
      /\ pub = None => retired = {} /\ signed = {}
      /\ \A p \in Procs : procs[p].pc \in Reconciled => pub # None
      /\ priv # None /\ pub \notin {None, priv} => priv \in retired
  BY CustodyFrame DEF Keys, None, FileTypes, BuiltinInv, KeysRecoverable
<1>2. ASSUME NEW p \in Procs, Step(p)
      PROVE  BuiltinInv' /\ KeysRecoverable'
  <2>1. RoleOf(p) /\ RotationOf(p)
    BY DEF RoleInv, RotationInv
  <2>2. /\ \A q \in Procs : q # p => procs'[q] = procs[q]
        /\ procs'[p].key \in {procs[p].key, None, priv'}
        /\ procs'[p].pc \in Reconciled =>
             procs[p].pc \in Reconciled \/ (pub' = procs[p].key /\ Reconcile(p))
    BY <1>2, OthersStay, KeyAfter
  <2>3. priv' = priv \/ (priv' \in Keys /\ (priv = None \/ (priv \in retired /\ pub = priv')))
    BY <1>2, PrivateAfter
  <2>4. Reconcile(p) => procs[p].key \in Keys
    BY <2>1 DEF Reconcile, At, RoleOf
  <2>5. pub' = pub \/ (pub' \in Keys /\ priv \in Keys /\ UNCHANGED <<priv, retired>>
                      /\ (pub' = priv \/ priv \in retired \/ pub' = pub))
    <3>1. ASSUME Reconcile(p), pub' # pub
          PROVE  /\ pub' \in Keys /\ priv \in Keys /\ UNCHANGED <<priv, retired>> /\ pub' = priv
      <4>1. pub' = procs[p].key /\ pub = None /\ UNCHANGED <<priv, retired>>
        BY <3>1 DEF Reconcile
      <4> QED
        BY <1>1, <2>4, <3>1, <4>1
    <3>2. ASSUME WritePublic(p)
          PROVE  /\ pub' \in Keys /\ priv \in Keys /\ UNCHANGED <<priv, retired>>
                 /\ priv \in retired
      <4>1. procs[p].pc = "pub" /\ pub' = procs[p].next /\ UNCHANGED <<priv, retired>>
        BY <3>2 DEF WritePublic, At
      <4> QED
        BY <1>1, <2>1, <4>1 DEF RoleOf, RotationOf
    <3> QED
      BY <1>2, <3>1, <3>2, FilesFrame
  <2>6. retired' = retired \/ (retired \subseteq retired' /\ pub # None /\ pub' = pub /\ priv' = priv)
    <3>1. RetireOld(p) => retired \subseteq retired' /\ pub # None /\ pub' = pub /\ priv' = priv
      BY <1>1 DEF RetireOld, RetireFirst, At, Reconciled
    <3>2. ~RetireConfigured(p)
      BY <2>1 DEF RetireConfigured, At, RoleOf
    <3> QED
      BY <1>2, <3>1, <3>2, FilesFrame
  <2>7. \/ signed' = signed
        \/ /\ signed' = signed \cup {procs[p].key} /\ procs[p].key \in Keys /\ pub # None
           /\ UNCHANGED <<priv, pub, retired>>
    <3>1. SignCheckpoint(p) => /\ signed' = signed \cup {procs[p].key} /\ procs[p].key \in Keys
                               /\ pub # None
      BY <1>1, SignedWith DEF Reconciled
    <3>2. SignCheckpoint(p) => UNCHANGED <<priv, pub, retired>>
      BY DEF SignCheckpoint, KeyFiles
    <3> QED
      BY <1>2, <3>1, <3>2, FilesFrame
  <2>8. \A q \in Procs : procs'[q].key \in retired' \cup {priv', None}
    BY <1>1, <2>2, <2>3, <2>5, <2>6
  <2>9. signed' \subseteq retired' \cup {priv'}
    BY <1>1, <2>3, <2>6, <2>7
  <2>10. /\ priv' = None => pub' = None
         /\ pub' = None => retired' = {} /\ signed' = {}
    BY <1>1, <2>3, <2>5, <2>6, <2>7
  <2>11. \A q \in Procs : procs'[q].pc \in Reconciled => pub' # None
    BY <1>1, <2>2, <2>4, <2>5
  <2>12. priv' # None /\ pub' \notin {None, priv'} => priv' \in retired'
    BY <1>1, <2>3, <2>5, <2>6
  <2> QED
    BY <2>8, <2>9, <2>10, <2>11, <2>12 DEF BuiltinInv, KeysRecoverable
<1>3. CASE UNCHANGED vars
  BY <1>1, <1>3 DEF vars, BuiltinInv, KeysRecoverable
<1>4. CASE RestorePublic
  BY <1>1, <1>4 DEF RestorePublic, Written, BuiltinInv, KeysRecoverable
<1>5. CASE RotateHelper \/ Repoint
  BY <1>5 DEF RotateHelper, Repoint
<1> QED
  BY <1>2, <1>3, <1>4, <1>5 DEF Next

\* Every step keeps the external key known.
LEMMA ExternalStep ==
  ASSUME ProcessTypes, FileTypes, CustodyTypes, RoleInv, RotationInv, ExternalInv,
         custody = "external", [Next]_vars
  PROVE  ExternalInv'
<1>1. /\ None \notin Keys /\ custody' = "external" /\ signed \subseteq Keys /\ priv = None
      /\ \A p \in Procs : procs[p].pc \in Reconciled => procs[p].key = pub /\ procs[p].key \in Keys
      /\ signed \subseteq {pub}
  BY CustodyFrame DEF Keys, None, FileTypes, RoleInv, RoleOf, ExternalInv
<1>2. ASSUME NEW p \in Procs, Step(p)
      PROVE  ExternalInv'
  <2>1. RoleOf(p)
    BY DEF RoleInv
  <2>2. /\ \A q \in Procs : q # p => procs'[q] = procs[q]
        /\ procs'[p].pc \in Reconciled =>
             /\ procs'[p].key = procs[p].key
             /\ procs[p].pc \in Reconciled \/ pub' = procs[p].key
    BY <1>1, <1>2, OthersStay, KeyAfter
  <2>3. priv' = None
    BY <1>1, <1>2, PrivateAfter
  <2>4. pub' = pub \/ (pub = None /\ signed' = signed)
    <3>1. Reconcile(p) => pub' = pub \/ (pub = None /\ signed' = signed)
      BY DEF Reconcile, Written
    <3>2. ~WritePublic(p)
      BY <1>1, <2>1 DEF WritePublic, At, RoleOf
    <3> QED
      BY <1>2, <3>1, <3>2, FilesFrame
  <2>5. signed' \subseteq signed \cup {pub}
    <3>1. SignCheckpoint(p) => signed' = signed \cup {procs[p].key} /\ procs[p].key = pub
      BY <1>1, SignedWith DEF Reconciled
    <3> QED
      BY <1>2, <3>1, FilesFrame
  <2>6. signed' \subseteq {pub'}
    BY <1>1, <2>4, <2>5
  <2>7. \A q \in Procs : procs'[q].pc \in Reconciled => procs'[q].key = pub'
    BY <1>1, <2>2, <2>4
  <2> QED
    BY <2>3, <2>6, <2>7 DEF ExternalInv
<1>3. CASE UNCHANGED vars \/ RotateHelper \/ Repoint
  BY <1>1, <1>3 DEF vars, RotateHelper, Repoint, KeyFiles, Written, ExternalInv
<1>4. CASE RestorePublic
  BY <1>4 DEF RestorePublic
<1> QED
  BY <1>2, <1>3, <1>4 DEF Next

-----------------------------------------------------------------------------
(* What is proved of the keys, under every fault *)

LEMMA KInit == Init => KInv
<1> SUFFICES ASSUME Init PROVE KInv
  OBVIOUS
<1>1. \A p \in Procs : /\ procs[p].pc = "off" /\ procs[p].role = "none" /\ procs[p].key = None
                       /\ procs[p].head = 0
  BY DEF Init, Gone, None
<1>2. log.len = 0 /\ priv = None /\ pub = None /\ retired = {} /\ signed = {}
  BY DEF Init
<1>3. RoleInv
  BY <1>1, <1>2 DEF RoleInv, RoleOf, Reconciled, Opening, Is
<1>4. RotationInv
  BY <1>1 DEF RotationInv, RotationOf, Is
<1>5. BuiltinInv /\ ExternalInv /\ KeysRecoverable
  BY <1>1, <1>2 DEF BuiltinInv, ExternalInv, KeysRecoverable, Reconciled, Opening
<1> QED
  BY <1>3, <1>4, <1>5, TypesInit DEF KInv

LEMMA KStep == KInv /\ [Next]_vars => KInv'
<1> SUFFICES ASSUME KInv, [Next]_vars PROVE KInv'
  OBVIOUS
<1> USE DEF KInv
<1>1. ProcessTypes' /\ FileTypes' /\ CustodyTypes' /\ RoleInv' /\ RotationInv'
  BY ProcessTypesStep, FileTypesStep, CustodyTypesStep, RoleStep, RotationStep
<1>2. custody' = custody
  BY CustodyFrame
<1>3. CASE custody = "builtin"
  <2>1. BuiltinInv' /\ KeysRecoverable'
    BY <1>3, BuiltinStep
  <2>2. ExternalInv'
    BY <1>2, <1>3 DEF ExternalInv
  <2> QED
    BY <1>1, <2>1, <2>2
<1>4. CASE custody = "external"
  <2>1. ExternalInv'
    BY <1>4, ExternalStep
  <2>2. BuiltinInv' /\ KeysRecoverable'
    BY <1>2, <1>4 DEF BuiltinInv, KeysRecoverable
  <2> QED
    BY <1>1, <2>1, <2>2
<1> QED
  BY <1>3, <1>4 DEF CustodyTypes

\* The inductive invariant holds in every reachable state, with any faults: a
\* rotation is where its three files say it is, and no key that has signed is
\* forgotten (keys.go, rotate.go, execsigner.go).
THEOREM KeysInvariant == Spec => []KInv
<1> QED
  BY KInit, KStep, PTL DEF Spec

\* Every variable holds a value of its kind, whatever was killed, reused or
\* raced: a process has a key or none, the lock names a start that happened.
THEOREM TypeCorrect == Spec => []TypeOK
<1>1. ASSUME KInv PROVE TypeOK
  <2>1. ASSUME NEW p \in Procs
        PROVE  /\ procs[p].pc \in Pcs
               /\ procs[p].key \in Keys \cup {None} /\ procs[p].next \in Keys \cup {None}
               /\ procs[p].head \in 0 .. MaxLog
    BY <1>1 DEF KInv, ProcessTypes, Processes
  <2> QED
    BY <1>1, <2>1 DEF KInv, FileTypes, Pcs, TypeOK
<1> QED
  BY <1>1, KeysInvariant, PTL

\* A rotation killed between any two of its files can be undone: the key that
\* the private file still holds was filed (RotateKey).
THEOREM RotationRecoverable == Spec => []KeysRecoverable
<1>1. KInv => KeysRecoverable
  BY DEF KInv
<1> QED
  BY <1>1, KeysInvariant, PTL

\* Every checkpoint on disk is signed with a key whose public half is in the
\* directory, with either custody and through every crash of a rotation.
THEOREM SignaturesStayCheckable == Spec => []CheckpointsVerifiable
<1>1. ASSUME KInv PROVE CheckpointsVerifiable
  <2>1. CASE custody = "builtin"
    <3>1. /\ signed \subseteq retired \cup {priv} /\ (pub = None => signed = {})
          /\ signed \subseteq Keys /\ None \notin Keys
          /\ priv # None /\ pub \notin {None, priv} => priv \in retired
      BY <1>1, <2>1 DEF KInv, BuiltinInv, KeysRecoverable, FileTypes, Keys, None
    <3> QED
      BY <3>1 DEF CheckpointsVerifiable
  <2>2. CASE custody = "external"
    BY <1>1, <2>2 DEF KInv, ExternalInv, CheckpointsVerifiable
  <2> QED
    BY <1>1, <2>1, <2>2 DEF KInv, CustodyTypes
<1> QED
  BY <1>1, KeysInvariant, PTL

\* A step of the program or of the operator never loses a key file, and the
\* private key gives way only when its public half is filed
\* (LoadOrCreateKeyPair, RotateKey).
THEOREM KeyFilesKept == Spec => KeyNeverLost
<1> DEFINE Kept == /\ \/ priv = None
                      \/ priv' = priv
                      \/ priv' # None /\ priv \in retired
                   /\ pub # None => pub' # None
                   /\ retired \subseteq retired'
<1>1. ASSUME KInv, Next PROVE Kept
  <2>1. None \notin Keys
    BY DEF Keys, None
  <2>2. ASSUME NEW p \in Procs, Step(p) PROVE Kept
    <3>1. RoleOf(p)
      BY <1>1 DEF KInv, RoleInv
    <3>2. \/ priv = None \/ priv' = priv
          \/ priv' # None /\ priv \in retired
      BY <1>1, <2>1, <2>2, PrivateAfter DEF KInv
    <3>3. pub # None => pub' # None
      <4>1. Reconcile(p) => pub' \in Keys \/ pub' = pub
        BY <3>1 DEF Reconcile, At, RoleOf
      <4>2. WritePublic(p) => pub' \in Keys
        BY <3>1 DEF WritePublic, At, RoleOf
      <4> QED
        BY <2>1, <2>2, <4>1, <4>2, FilesFrame
    <3>4. retired \subseteq retired'
      BY <2>2, FilesFrame DEF RetireOld, RetireFirst, RetireConfigured
    <3> QED
      BY <3>2, <3>3, <3>4
  <2>3. CASE RotateHelper \/ Repoint \/ RestorePublic
    BY <2>3 DEF RotateHelper, Repoint, RestorePublic, KeyFiles
  <2> QED
    BY <1>1, <2>2, <2>3 DEF Next
<1>2. KInv /\ [Next]_vars => [Kept]_vars
  BY <1>1
<1> QED
  BY <1>2, KeysInvariant, PTL DEF Spec, KeyNeverLost

-----------------------------------------------------------------------------
(* One writer, when no two processes are inside Open together *)

\* What is the same about a process for as long as it runs.
SameProcess(p) ==
  /\ procs'[p].host = procs[p].host /\ procs'[p].pid = procs[p].pid
  /\ procs'[p].start = procs[p].start /\ procs'[p].force = procs[p].force

\* Where a step of p leads, and what it needs and changes on the way.
LEMMA PlaceAfter ==
  ASSUME ProcessTypes, CustodyTypes, NEW p \in Procs, Step(p)
  PROVE  \/ Leaves(p) /\ (UNCHANGED lock \/ Close(p))
         \/ /\ procs'[p].pc \in {"check", "load", "reconcile"}
            /\ \E role \in {"serve", "rotate", "retire"}, f \in BOOLEAN :
                 Start(p, role, f) /\ procs'[p].force = f /\ procs'[p].start = starts + 1
            /\ UNCHANGED lock
         \/ /\ SameProcess(p) /\ MayStep(p) /\ Live(p) /\ procs[p].pc # "writing"
            /\ procs'[p].pc \in Pcs \ {"own", "claim", "writing"} /\ UNCHANGED lock
         \/ /\ SameProcess(p) /\ procs[p].pc = "recover" /\ procs'[p].pc = "claim"
            /\ procs'[p].head = log.len /\ UNCHANGED lock
         \/ /\ SameProcess(p) /\ procs[p].pc = "claim" /\ procs'[p].pc = "own" /\ MayTake(p)
            /\ procs'[p].head = procs[p].head /\ UNCHANGED lock
         \/ /\ SameProcess(p) /\ procs[p].pc = "own" /\ procs'[p].pc = "writing"
            /\ procs'[p].head = procs[p].head /\ WriteLock(p)
         \/ /\ SameProcess(p) /\ procs[p].pc = "writing" /\ procs'[p].pc = "writing"
            /\ MayStep(p) /\ UNCHANGED lock
            /\ \/ AppendRecord(p) /\ procs'[p].head = procs[p].head + 1
               \/ procs'[p].head = procs[p].head /\ UNCHANGED log
<1> USE Places
<1>1. ASSUME NEW role \in {"serve", "rotate", "retire"}, NEW f \in BOOLEAN, Start(p, role, f)
      PROVE  /\ procs'[p].pc \in {"check", "load", "reconcile"} /\ UNCHANGED lock
             /\ procs'[p].force = f /\ procs'[p].start = starts + 1
  <2>1. PICK x \in Processes :
          /\ procs' = [procs EXCEPT ![p] = x]
          /\ x.pc = IF role # "serve" THEN "check"
                    ELSE IF custody = "external" THEN "reconcile" ELSE "load"
          /\ x.start = starts + 1 /\ x.force = f
    BY <1>1, StartFacts
  <2>2. procs'[p] = x
    BY <2>1 DEF ProcessTypes
  <2> QED
    BY <1>1, <2>1, <2>2 DEF Start
<1>2. CASE Kill(p) \/ RetireConfigured(p) \/ Close(p)
  <2>1. UNCHANGED lock \/ Close(p)
    BY <1>2 DEF Kill, RetireConfigured
  <2> QED
    BY <1>2, <2>1, StepMoves
<1>3. CASE \/ LoadKey(p) \/ CreateKey(p) \/ Reconcile(p) \/ CheckLock(p)
           \/ RetireOld(p) \/ WritePublic(p) \/ WritePrivate(p)
  <2>1. MayStep(p) /\ Live(p) /\ procs[p].pc # "writing" /\ UNCHANGED lock
    BY <1>3 DEF LoadKey, CreateKey, Reconcile, CheckLock, RetireOld, WritePublic, WritePrivate,
       At, Live
  <2>2. Leaves(p) \/ SameProcess(p)
    BY <1>3, StepMoves DEF Goes, Moves, SameProcess
  <2>3. Leaves(p) \/ procs'[p].pc \in {"load", "create", "reconcile", "retire", "pub", "priv",
                                      "file", "recover"}
    BY <1>3, StepMoves DEF Goes, Moves
  <2>4. Leaves(p) \/ procs'[p].pc \in Pcs \ {"own", "claim", "writing"}
    BY <2>3
  <2> QED
    BY <2>1, <2>2, <2>4
<1>4. CASE RecoverHead(p)
  <2>1. procs[p].pc = "recover" /\ UNCHANGED lock
    BY <1>4 DEF RecoverHead, At
  <2> QED
    BY <1>4, <2>1, StepMoves DEF Moves, SameProcess
<1>5. CASE Claim(p)
  <2>1. procs[p].pc = "claim"
    BY <1>5 DEF Claim, At
  <2> QED
    BY <1>5, <2>1, StepMoves DEF Goes, Moves, SameProcess
<1>6. CASE WriteLock(p)
  <2>1. procs[p].pc = "own"
    BY <1>6 DEF WriteLock, At
  <2> QED
    BY <1>6, <2>1, StepMoves DEF Goes, Moves, SameProcess
<1>7. CASE AppendRecord(p)
  <2>1. procs[p].pc = "writing" /\ MayStep(p) /\ UNCHANGED lock
    BY <1>7 DEF AppendRecord, At
  <2> QED
    BY <1>7, <2>1, StepMoves DEF Moves, SameProcess
<1>8. CASE SignCheckpoint(p)
  BY <1>8 DEF SignCheckpoint, At, SameProcess
<1> QED
  BY <1>1, <1>2, <1>3, <1>4, <1>5, <1>6, <1>7, <1>8 DEF Step

\* A process that writes is not taken for a dead one.
LEMMA WriterIsSeen ==
  ASSUME ProcessTypes, OpenAlone, HolderInv, NEW p \in Procs, NEW q \in Procs,
         procs[p].pc = "claim", MayTake(p), procs[q].pc = "writing"
  PROVE  FALSE
<1>1. /\ lock = [host |-> procs[q].host, pid |-> procs[q].pid, start |-> procs[q].start]
      /\ Live(q)
  BY DEF HolderInv, Live
<1>2. lock # NoLock
  <2>1. procs[q].start \in 1 .. starts /\ starts \in Nat
    BY <1>1 DEF ProcessTypes
  <2>2. lock.start # None
    BY <1>1, <2>1 DEF None
  <2> QED
    BY <2>2 DEF NoLock
<1>3. ~procs[p].force
  BY <1>1 DEF OpenAlone
<1>4. lock.pid = procs[q].pid /\ lock.host = procs[q].host
  BY <1>1
<1>5. ProcessAlive(lock.pid, lock.host)
  BY <1>1, <1>4 DEF ProcessAlive
<1> QED
  BY <1>2, <1>3, <1>5 DEF MayTake

LEMMA WInit == Init => WInv
BY DEF Init, Gone, WInv, StartsDiffer, OpenAlone, HolderInv, HeadInv, Live, Opening

LEMMA StartsDifferStep ==
  ASSUME ProcessTypes, CustodyTypes, StartsDiffer, NEW p \in Procs, Step(p)
  PROVE  StartsDiffer'
<1>1. /\ \A q \in Procs : q # p => procs'[q] = procs[q]
      /\ \A q \in Procs : Live(q) => procs[q].start \in 1 .. starts
      /\ starts \in Nat
  BY OthersStay DEF ProcessTypes
<1>2. Live(p)' => \/ Live(p) /\ procs'[p].start = procs[p].start
                  \/ procs'[p].start = starts + 1
  BY PlaceAfter DEF Leaves, SameProcess, Live
<1>3. ASSUME NEW q \in Procs, q # p, Live(p)', Live(q)', procs'[p].start = procs'[q].start
      PROVE  FALSE
  <2>1. Live(q) /\ procs'[q].start = procs[q].start
    BY <1>1, <1>3 DEF Live
  <2> QED
    BY <1>1, <1>2, <1>3, <2>1 DEF StartsDiffer
<1>4. ASSUME NEW q \in Procs, NEW r \in Procs, q # p, r # p, Live(q)', Live(r)',
             procs'[q].start = procs'[r].start
      PROVE  q = r
  BY <1>1, <1>4 DEF StartsDiffer, Live
<1> QED
  BY <1>3, <1>4 DEF StartsDiffer

LEMMA OpenAloneStep ==
  ASSUME "race" \notin Faults, ProcessTypes, CustodyTypes, OpenAlone, NEW p \in Procs, Step(p)
  PROVE  OpenAlone'
<1>1. \A q \in Procs : q # p => procs'[q] = procs[q]
  BY OthersStay
<1>2. ASSUME procs'[p].pc \in Opening
      PROVE  \A q \in Procs : q # p => procs[q].pc \notin Opening
  <2>1. procs[p].pc \in Opening \/ MayStep(p)
    BY <1>2, PlaceAfter DEF Leaves, Opening
  <2> QED
    BY <2>1 DEF MayStep, OpenAlone
<1>3. ASSUME procs'[p].force, procs'[p].pc # "writing"
      PROVE  \A q \in Procs : q # p => ~Live(q)
  <2>1. \/ procs[p].force /\ procs[p].pc # "writing"
        \/ \E role \in {"serve", "rotate", "retire"} : Start(p, role, TRUE)
    BY <1>3, PlaceAfter DEF Leaves, SameProcess
  <2>2. ASSUME NEW role \in {"serve", "rotate", "retire"}, Start(p, role, TRUE)
        PROVE  \A q \in Procs : ~Live(q)
    BY <2>2 DEF Start
  <2> QED
    BY <2>1, <2>2 DEF OpenAlone
<1>4. ASSUME Live(p)', NEW q \in Procs, q # p, procs[q].force, procs[q].pc # "writing"
      PROVE  FALSE
  <2>1. Live(p) \/ \E role \in {"serve", "rotate", "retire"}, f \in BOOLEAN : Start(p, role, f)
    BY <1>4, PlaceAfter DEF Leaves, Live
  <2>2. ASSUME NEW role \in {"serve", "rotate", "retire"}, NEW f \in BOOLEAN, Start(p, role, f)
        PROVE  FALSE
    BY <1>4, <2>2 DEF Start
  <2> QED
    BY <1>4, <2>1, <2>2 DEF OpenAlone
<1>5. ASSUME NEW q \in Procs, NEW r \in Procs, procs'[q].pc \in Opening, procs'[r].pc \in Opening
      PROVE  q = r
  BY <1>1, <1>2, <1>5 DEF OpenAlone
<1>6. ASSUME NEW q \in Procs, NEW r \in Procs, procs'[q].force, procs'[q].pc # "writing", Live(r)'
      PROVE  q = r
  BY <1>1, <1>3, <1>4, <1>6 DEF OpenAlone, Live
<1> QED
  BY <1>5, <1>6 DEF OpenAlone

LEMMA HolderStep ==
  ASSUME ProcessTypes, CustodyTypes, StartsDiffer, OpenAlone, HolderInv, NEW p \in Procs, Step(p)
  PROVE  HolderInv'
<1> DEFINE Named(q) == lock = [host |-> procs[q].host, pid |-> procs[q].pid, start |-> procs[q].start]
<1>1. \A q \in Procs : q # p => procs'[q] = procs[q]
  BY OthersStay
<1>2. /\ \A q \in Procs : procs[q].pc = "writing" => Named(q)
      /\ \A q, r \in Procs : procs[q].pc = "own" => procs[r].pc # "writing"
  BY DEF HolderInv
<1>3. ASSUME procs'[p].pc = "writing" PROVE Named(p)'
  <2>1. \/ WriteLock(p) /\ SameProcess(p)
        \/ procs[p].pc = "writing" /\ lock' = lock /\ SameProcess(p)
    BY <1>3, PlaceAfter DEF Leaves
  <2>2. CASE WriteLock(p) /\ SameProcess(p)
    BY <2>2 DEF WriteLock, SameProcess
  <2>3. CASE procs[p].pc = "writing" /\ lock' = lock /\ SameProcess(p)
    BY <1>2, <2>3 DEF SameProcess
  <2> QED
    BY <2>1, <2>2, <2>3
<1>4. ASSUME NEW q \in Procs, q # p, procs[q].pc = "writing" PROVE Named(q)'
  <2>1. ~WriteLock(p)
    BY <1>2, <1>4 DEF WriteLock, At
  <2>2. ~Close(p)
    <3>1. SUFFICES ASSUME procs[p].pc = "writing" PROVE FALSE
      BY DEF Close, At
    <3>2. Named(p) /\ Named(q)
      BY <1>2, <1>4, <3>1
    <3>3. procs[p].start = procs[q].start
      BY <3>2
    <3> QED
      BY <1>4, <3>1, <3>3 DEF StartsDiffer, Live
  <2>3. lock' = lock
    BY <2>1, <2>2, PlaceAfter
  <2> QED
    BY <1>1, <1>2, <1>4, <2>3
<1>5. ASSUME procs'[p].pc = "own", NEW q \in Procs, q # p, procs[q].pc = "writing" PROVE FALSE
  <2>1. procs[p].pc = "claim" /\ MayTake(p)
    BY <1>5, PlaceAfter DEF Leaves
  <2> QED
    BY <1>5, <2>1, WriterIsSeen
<1>6. ASSUME procs'[p].pc = "writing", NEW q \in Procs, q # p, procs[q].pc = "own" PROVE FALSE
  <2>1. procs[p].pc \in {"own", "writing"}
    BY <1>6, PlaceAfter DEF Leaves
  <2> QED
    BY <1>2, <1>6, <2>1 DEF OpenAlone, Opening
<1>7. \A q \in Procs : procs'[q].pc = "writing" => Named(q)'
  BY <1>1, <1>3, <1>4
<1>8. \A q, r \in Procs : procs'[q].pc = "own" => procs'[r].pc # "writing"
  BY <1>1, <1>2, <1>5, <1>6
<1> QED
  BY <1>7, <1>8 DEF HolderInv

LEMMA HeadStep ==
  ASSUME "race" \notin Faults, ProcessTypes, FileTypes, CustodyTypes, StartsDiffer, OpenAlone,
         HolderInv, HeadInv, NEW p \in Procs, Step(p)
  PROVE  HeadInv'
<1> DEFINE Headed == {"claim", "own", "writing"}
<1>1. /\ \A q \in Procs : q # p => procs'[q] = procs[q]
      /\ \A q \in Procs : procs[q].pc \in Headed => procs[q].head = log.len
      /\ ~log.forked
  BY OthersStay DEF HeadInv
<1>2. CASE AppendRecord(p)
  <2>1. /\ procs[p].pc = "writing" /\ MayStep(p) /\ log'.len = log.len + 1
        /\ log'.forked = (log.forked \/ procs[p].head # log.len)
    BY <1>2 DEF AppendRecord, At
  <2>2. procs'[p].head = procs[p].head + 1
    BY <1>2, StepMoves DEF Moves
  <2>3. ASSUME NEW q \in Procs, q # p PROVE procs[q].pc \notin Headed
    <3>1. procs[q].pc \notin {"claim", "own"}
      BY <2>1, <2>3 DEF MayStep, Opening
    <3>2. procs[q].pc = "writing" => procs[p].start = procs[q].start
      BY <2>1 DEF HolderInv
    <3> QED
      BY <2>1, <2>3, <3>1, <3>2 DEF StartsDiffer, Live
  <2>4. procs[p].head = log.len
    BY <1>1, <2>1
  <2>5. \A q \in Procs : procs'[q].pc \in Headed => procs'[q].head = log'.len
    BY <1>1, <2>1, <2>2, <2>3, <2>4
  <2>6. ~log'.forked
    BY <1>1, <2>1, <2>4
  <2> QED
    BY <2>5, <2>6 DEF HeadInv
<1>3. CASE ~AppendRecord(p)
  <2>1. log' = log
    BY <1>3, FilesFrame
  <2>2. procs'[p].pc \in Headed =>
          \/ procs'[p].head = log.len
          \/ procs[p].pc \in Headed /\ procs'[p].head = procs[p].head
    BY <1>3, PlaceAfter DEF Leaves
  <2> QED
    BY <1>1, <2>1, <2>2 DEF HeadInv
<1> QED
  BY <1>2, <1>3

\* Every step keeps the holder of the lock apart from everyone else.
LEMMA WStep ==
  ASSUME "race" \notin Faults, KInv, WInv, [Next]_vars
  PROVE  WInv'
<1>1. ASSUME NEW p \in Procs, Step(p)
      PROVE  WInv'
  BY <1>1, StartsDifferStep, OpenAloneStep, HolderStep, HeadStep DEF KInv, WInv
<1>2. CASE UNCHANGED vars \/ RotateHelper \/ Repoint \/ RestorePublic
  <2>1. UNCHANGED <<procs, lock, log>>
    BY <1>2 DEF vars, RotateHelper, Repoint, RestorePublic, Written
  <2>2. /\ StartsDiffer' = StartsDiffer /\ OpenAlone' = OpenAlone
        /\ HolderInv' = HolderInv /\ HeadInv' = HeadInv
    BY <2>1 DEF StartsDiffer, OpenAlone, HolderInv, HeadInv, Live
  <2> QED
    BY <2>2 DEF WInv
<1> QED
  BY <1>1, <1>2 DEF Next

\* When no other process acts while one is inside Open, two processes never
\* write at once: for every number of processes and hosts, whatever is killed,
\* whichever PID is reused, and with the lock forced (claimWriterLock).
THEOREM WritersExclude ==
  ASSUME "race" \notin Faults
  PROVE  Spec => []OneWriter
<1>1. ASSUME WInv PROVE OneWriter
  <2>1. ASSUME NEW p \in Procs, NEW q \in Procs,
               procs[p].pc = "writing", procs[q].pc = "writing"
        PROVE  p = q
    <3>1. procs[p].start = procs[q].start
      BY <1>1, <2>1 DEF WInv, HolderInv
    <3> QED
      BY <1>1, <2>1, <3>1 DEF WInv, StartsDiffer, Live
  <2> QED
    BY <2>1 DEF OneWriter
<1>2. KInv /\ WInv /\ [Next]_vars => WInv'
  BY WStep
<1> QED
  BY <1>1, <1>2, WInit, KeysInvariant, PTL DEF Spec

\* Under the same assumption no record is ever numbered from a head another
\* process has moved on from (Open recovers the head, then claims the lock).
THEOREM ChainNeverForks ==
  ASSUME "race" \notin Faults
  PROVE  Spec => []NoForkedChain
<1>1. WInv => NoForkedChain
  BY DEF WInv, HeadInv, NoForkedChain
<1>2. KInv /\ WInv /\ [Next]_vars => WInv'
  BY WStep
<1> QED
  BY <1>1, <1>2, WInit, KeysInvariant, PTL DEF Spec

=============================================================================
