----------------------------- MODULE WriterKeys -----------------------------
(***************************************************************************)
(* Who may write to an evidence directory and under which key: the writer  *)
(* lock (lock.go) as Open takes it and Close drops it, the signing key     *)
(* files (keys.go, keyset.go), the start order of the server (cli/serve.go *)
(* and Open), key rotation and retirement (rotate.go, cli/keys.go), and    *)
(* the external signer (custody/execsigner.go).                            *)
(*                                                                         *)
(* A key is its number; the log is its length and whether two writers ever *)
(* numbered records from the same head.  Faults names what may happen:     *)
(*   "kill"    a process dies between any two steps                        *)
(*   "reuse"   a new process gets the PID that a lock names                *)
(*   "start"   a server starts while a rotation is between two steps       *)
(*   "race"    other processes act while one is inside Open                *)
(***************************************************************************)
EXTENDS Integers, FiniteSets

CONSTANTS
  Procs,       \* slots for processes of the program on this directory
  Hosts,       \* hosts that mount it
  Pids,        \* process ids
  MaxKeys,     \* bound: keys generated
  MaxStarts,   \* bound: processes started
  MaxLog,      \* bound: records written
  Faults

ASSUME WriterKeysAssumption ==
  /\ MaxKeys \in Nat \ {0} /\ {MaxStarts, MaxLog} \subseteq Nat
  /\ Faults \subseteq {"kill", "reuse", "start", "race"}

Keys == 1 .. MaxKeys
None == 0

VARIABLES
  procs,      \* per slot: the process in it
  lock,       \* writer.lock: host, pid and which start wrote it
  priv, pub,  \* signing-key.pem and public-key.pem, None when missing
  retired,    \* the keys filed under keys/
  generated,  \* how many keys were ever generated
  custody,    \* "builtin" or "external": where the private key lives
  helper,     \* the key an external helper signs with
  configured, \* the key signer_public_key names
  log,        \* records written, and whether their numbers ever clashed
  signed,     \* keys some checkpoint on disk is signed with
  replaced,   \* keys a rotation has replaced
  undead,     \* replaced keys that signed afterwards
  refused,    \* refusals that were wrong: "dead holder", "rotated helper"
  starts

vars == <<procs, lock, priv, pub, retired, generated, custody, helper,
          configured, log, signed, replaced, undead, refused, starts>>

NoLock == [host |-> None, pid |-> None, start |-> None]
Gone == [pc |-> "off", role |-> "none", host |-> None, pid |-> None,
         start |-> None, key |-> None, next |-> None, head |-> None,
         force |-> FALSE]

Init ==
  /\ procs = [p \in Procs |-> Gone]
  /\ lock = NoLock
  /\ custody \in {"builtin", "external"}
  /\ generated = IF custody = "external" THEN 1 ELSE 0
  /\ helper = generated /\ configured = generated
  /\ priv = None /\ pub = None /\ retired = {}
  /\ log = [len |-> 0, forked |-> FALSE]
  /\ signed = {} /\ replaced = {} /\ undead = {} /\ refused = {}
  /\ starts = 0

------------------------------------------------------------------------------
Live(p) == procs[p].pc # "off"
Is(p, role) == procs[p].role = role
Opening == {"recover", "claim", "own"}

\* Without "race", what runs inside Open is not interleaved with others.
MayStep(p) ==
  "race" \in Faults \/ \A q \in Procs \ {p} : procs[q].pc \notin Opening

At(p, pc) == procs[p].pc = pc /\ MayStep(p)
Goto(p, pc) == procs' = [procs EXCEPT ![p].pc = pc]
Exit(p) == procs' = [procs EXCEPT ![p] = Gone]

KeyFiles == <<priv, pub, retired, generated, replaced>>
External == <<custody, helper, configured>>
Written == <<log, signed, undead>>

------------------------------------------------------------------------------
\* Processes

\* An operator starts a server or, with the matching custody, rotates or
\* retires a key.  --force-writer-lock is for a holder known to be stopped.
Start(p, role, force) ==
  /\ ~Live(p) /\ starts < MaxStarts
  /\ role = "rotate" => custody = "builtin"
  /\ role = "retire" => custody = "external"
  /\ force => role = "serve" /\ lock # NoLock /\ \A q \in Procs : ~Live(q)
  /\ \A q \in Procs : procs[q].force => procs[q].pc = "writing"
  /\ "start" \in Faults \/ \A q \in Procs : Live(q) => procs[q].pc = "writing"
  /\ role = "rotate" => \A q \in Procs : ~Is(q, "rotate")
  /\ \A q \in Procs : procs[q].pc \notin Opening \/ "race" \in Faults
  /\ \E h \in Hosts, n \in Pids :
       /\ \A q \in Procs : Live(q) => procs[q].host # h \/ procs[q].pid # n
       /\ "reuse" \in Faults \/ lock.host # h \/ lock.pid # n
       /\ procs' = [procs EXCEPT ![p] =
            [Gone EXCEPT !.pc = IF role # "serve" THEN "check"
                                ELSE IF custody = "external" THEN "reconcile"
                                ELSE "load",
               !.role = role, !.host = h, !.pid = n, !.start = starts + 1,
               !.key = IF custody = "external" THEN configured ELSE None,
               !.force = force]]
  /\ starts' = starts + 1
  /\ UNCHANGED <<lock, KeyFiles, External, Written, refused>>

Kill(p) ==
  /\ "kill" \in Faults /\ Live(p) /\ Exit(p)
  /\ UNCHANGED <<lock, KeyFiles, External, Written, refused, starts>>

------------------------------------------------------------------------------
\* Loading the key, before the directory is claimed

LoadKey(p) ==
  /\ At(p, "load")
  /\ IF priv # None
     THEN /\ procs' = [procs EXCEPT ![p].pc = "reconcile", ![p].key = priv]
          /\ UNCHANGED <<priv, generated>>
     ELSE IF Is(p, "rotate")
     THEN Exit(p) /\ UNCHANGED <<priv, generated>>
     ELSE /\ generated < MaxKeys
          /\ procs' = [procs EXCEPT ![p].pc = "create", ![p].next = generated + 1]
          /\ generated' = generated + 1
          /\ UNCHANGED priv
  /\ UNCHANGED <<lock, pub, retired, replaced, External, Written, refused, starts>>

\* Mutant: the new key is renamed over whatever is there.
RenameNewFile(k) == priv' = k
\* The link is the exclusive step; its loser reads the winner's file.
LinkNewFile(k) == priv' = IF priv = None THEN k ELSE priv

CreateKey(p) ==
  /\ At(p, "create")
  /\ LinkNewFile(procs[p].next)
  /\ Goto(p, "load")
  /\ UNCHANGED <<lock, pub, retired, generated, replaced, External, Written,
                 refused, starts>>

\* public-key.pem is written when missing and never replaced by another key.
Reconcile(p) ==
  /\ At(p, "reconcile")
  /\ IF pub \in {None, procs[p].key}
     THEN /\ pub' = procs[p].key
          /\ Goto(p, IF Is(p, "rotate") THEN "retire" ELSE "recover")
          /\ UNCHANGED refused
     ELSE /\ Exit(p)
          /\ refused' = refused \cup
               (IF custody = "external" /\ pub \in retired THEN {"rotated helper"} ELSE {})
          /\ UNCHANGED pub
  /\ UNCHANGED <<lock, priv, retired, generated, replaced, External, Written, starts>>

------------------------------------------------------------------------------
\* Open: the chain head is recovered first, the lock claimed after it

\* Mutant: the head is the number of the next record.
NextNumber == log.len + 1
\* The chain head found in the last segment.
ChainHead == log.len

RecoverHead(p) ==
  /\ At(p, "recover")
  /\ procs' = [procs EXCEPT ![p].pc = "claim", ![p].head = ChainHead]
  /\ UNCHANGED <<lock, KeyFiles, External, Written, refused, starts>>

\* A signal to the PID reaches whatever process has it now, this one included.
ProcessAlive(n, h) == \E q \in Procs : Live(q) /\ procs[q].pid = n /\ procs[q].host = h

HolderLives == \E q \in Procs : Live(q) /\ procs[q].start = lock.start

\* Mutant: only this host's processes are asked about.
MayTakeIfElsewhere(p) ==
  \/ lock = NoLock \/ procs[p].force
  \/ ~ProcessAlive(lock.pid, procs[p].host)
\* claimWriterLock: nobody has it, or a holder on this host that is gone.
MayTake(p) ==
  \/ lock = NoLock \/ procs[p].force
  \/ lock.host = procs[p].host /\ ~ProcessAlive(lock.pid, lock.host)

\* Mutant: the failed Open closes the store it never owned.
AfterRefusalClose == lock' = NoLock
\* Open closes the segment and leaves the lock to its holder.
AfterRefusal == UNCHANGED lock

Claim(p) ==
  /\ At(p, "claim")
  /\ IF MayTake(p)
     THEN Goto(p, "own") /\ UNCHANGED <<lock, refused>>
     ELSE /\ Exit(p) /\ AfterRefusal
          /\ refused' = refused \cup
               (IF lock.host = procs[p].host /\ ~HolderLives THEN {"dead holder"} ELSE {})
  /\ UNCHANGED <<KeyFiles, External, Written, starts>>

WriteLock(p) ==
  /\ At(p, "own")
  /\ lock' = [host |-> procs[p].host, pid |-> procs[p].pid, start |-> procs[p].start]
  /\ Goto(p, "writing")
  /\ UNCHANGED <<KeyFiles, External, Written, refused, starts>>

------------------------------------------------------------------------------
\* Writing

AppendRecord(p) ==
  /\ At(p, "writing") /\ log.len < MaxLog
  /\ log' = [len |-> log.len + 1, forked |-> log.forked \/ procs[p].head # log.len]
  /\ procs' = [procs EXCEPT ![p].head = @ + 1]
  /\ UNCHANGED <<lock, KeyFiles, External, signed, undead, refused, starts>>

\* A helper's signature is checked against the configured key first.
\* Mutant: the helper's signature is not checked against the key.
HelperSignsAs(p) == helper
SignsAs(p) ==
  IF custody = "builtin" \/ helper = procs[p].key THEN procs[p].key ELSE None

SignCheckpoint(p) ==
  /\ At(p, "writing")
  /\ LET k == SignsAs(p)
     IN  /\ k # None
         /\ signed' = signed \cup {k}
         /\ undead' = undead \cup ({k} \cap replaced)
  /\ UNCHANGED <<procs, lock, KeyFiles, External, log, refused, starts>>

\* Close removes whatever lock file is there.  A rotation writes its record
\* and closes.
Close(p) ==
  /\ At(p, "writing")
  /\ lock' = NoLock
  /\ Exit(p)
  /\ UNCHANGED <<KeyFiles, External, Written, refused, starts>>

------------------------------------------------------------------------------
\* keys rotate and keys retire

\* refuseWhileWriterHolds: any lock refuses.
NobodyHolds(p) == lock = NoLock

CheckLock(p) ==
  /\ At(p, "check")
  /\ IF ~NobodyHolds(p) THEN Exit(p)
     ELSE Goto(p, IF Is(p, "rotate") THEN "load" ELSE "file")
  /\ UNCHANGED <<lock, KeyFiles, External, Written, refused, starts>>

\* The outgoing public key is filed before anything else changes.
\* Mutant: the old key is not filed.
RetireLast(p) == retired' = retired
RetireFirst(p) == retired' = retired \cup {procs[p].key}

RetireOld(p) ==
  /\ At(p, "retire") /\ generated < MaxKeys
  /\ RetireFirst(p)
  /\ generated' = generated + 1
  /\ procs' = [procs EXCEPT ![p].pc = "pub", ![p].next = generated + 1]
  /\ UNCHANGED <<lock, priv, pub, replaced, External, Written, refused, starts>>

WritePublic(p) ==
  /\ At(p, "pub")
  /\ pub' = procs[p].next
  /\ Goto(p, "priv")
  /\ UNCHANGED <<lock, priv, retired, generated, replaced, External, Written,
                 refused, starts>>

\* From here on the old private key is gone; the rotation is then recorded
\* through a store opened under the new key.
WritePrivate(p) ==
  /\ At(p, "priv")
  /\ priv' = procs[p].next
  /\ replaced' = replaced \cup {priv}
  /\ procs' = [procs EXCEPT ![p].pc = "recover", ![p].key = procs[p].next]
  /\ UNCHANGED <<lock, pub, retired, generated, External, Written, refused, starts>>

\* keys retire --key <the key signer_public_key names>
RetireConfigured(p) ==
  /\ At(p, "file")
  /\ retired' = retired \cup {configured}
  /\ Exit(p)
  /\ UNCHANGED <<lock, priv, pub, generated, replaced, External, Written,
                 refused, starts>>

------------------------------------------------------------------------------
\* The operator

\* The key of the external helper is rotated where the helper keeps it.
RotateHelper ==
  /\ custody = "external" /\ helper = configured /\ generated < MaxKeys
  /\ generated' = generated + 1 /\ helper' = generated + 1
  /\ UNCHANGED <<procs, lock, priv, pub, retired, replaced, custody, configured,
                 Written, refused, starts>>

\* As README says: retire the old public key first, then repoint.
Repoint ==
  /\ custody = "external" /\ configured # helper /\ configured \in retired
  /\ configured' = helper
  /\ UNCHANGED <<procs, lock, KeyFiles, custody, helper, Written, refused, starts>>

\* The recovery RotateKey names for a rotation that died between the files.
RestorePublic ==
  /\ custody = "builtin" /\ \A p \in Procs : ~Live(p)
  /\ priv # None /\ pub \notin {None, priv} /\ priv \in retired
  /\ pub' = priv
  /\ UNCHANGED <<procs, lock, priv, retired, generated, replaced, External,
                 Written, refused, starts>>

------------------------------------------------------------------------------
Step(p) ==
  \/ \E role \in {"serve", "rotate", "retire"}, f \in BOOLEAN : Start(p, role, f)
  \/ Kill(p)
  \/ LoadKey(p) \/ CreateKey(p) \/ Reconcile(p)
  \/ RecoverHead(p) \/ Claim(p) \/ WriteLock(p)
  \/ AppendRecord(p) \/ SignCheckpoint(p) \/ Close(p)
  \/ CheckLock(p) \/ RetireOld(p) \/ WritePublic(p) \/ WritePrivate(p)
  \/ RetireConfigured(p)

Next == RotateHelper \/ Repoint \/ RestorePublic \/ \E p \in Procs : Step(p)

Spec == Init /\ [][Next]_vars

------------------------------------------------------------------------------
\* Properties

\* Every variable holds a value of its kind.
TypeOK ==
  /\ \A p \in Procs :
       /\ procs[p].pc \in {"off", "check", "load", "create", "reconcile", "retire",
                           "pub", "priv", "file", "recover", "claim", "own", "writing"}
       /\ procs[p].key \in Keys \cup {None} /\ procs[p].next \in Keys \cup {None}
       /\ procs[p].head \in 0 .. MaxLog
  /\ lock \in {NoLock} \cup [host : Hosts, pid : Pids, start : 1 .. starts]
  /\ priv \in Keys \cup {None} /\ pub \in Keys \cup {None}
  /\ generated \in 0 .. MaxKeys
  /\ retired \cup signed \cup replaced \cup undead \subseteq Keys
  /\ log \in [len : 0 .. MaxLog, forked : BOOLEAN]

\* Whatever was killed, on whichever host, with whatever PID reused: two
\* processes never write at once (claimWriterLock), and a record is never
\* numbered from a head another process has moved on from.
OneWriter ==
  \A p, q \in Procs : procs[p].pc = "writing" /\ procs[q].pc = "writing" => p = q
NoForkedChain == ~log.forked

\* Every checkpoint stays checkable against a public key in the directory,
\* through rotations killed between any two files, starters racing to create
\* the first key, and a server that loaded its key before the rotation.
CheckpointsVerifiable == signed \subseteq retired \cup {pub}

\* A rotation that died between the two key files can always be undone as its
\* documentation says: the key the private half belongs to is filed.
KeysRecoverable ==
  custody = "builtin" /\ priv # None /\ pub \notin {None, priv} => priv \in retired

\* A key file that is there is never lost, and a private key gives way only
\* to a rotation that has filed its public half: not to a second process that
\* generated a key of its own (LoadOrCreateKeyPair, RotateKey).
KeyNeverLost ==
  [][/\ \/ priv = None
        \/ priv' = priv
        \/ priv' # None /\ priv \in retired
     /\ pub # None => pub' # None
     /\ retired \subseteq retired']_vars

\* A key that was replaced signs nothing any more (keyset.go: it must never
\* sign anything again).
ReplacedNeverSigns == undead = {}

\* A lock whose holder is gone does not stop a start (lock.go: a crash must
\* not cost an outage).
CrashIsNoOutage == "dead holder" \notin refused

\* A server starts after the helper's key was rotated the documented way.
RotatedHelperStarts == "rotated helper" \notin refused
=============================================================================
