--------------------------- MODULE ContentKeystore ---------------------------
(***************************************************************************)
(* The content keys the stored text is sealed under (contentkeys.go,       *)
(* contentjournal.go), the server that mints them and seals records        *)
(* (content/encrypt.go), and the erase command that destroys them          *)
(* (cli/erase.go), on one directory.                                       *)
(*                                                                         *)
(* A key is its number; wrapping and sealing are what they allow: a record *)
(* is readable while its key is in a keystore that opens.  The file is     *)
(* replaced as a whole, the journal gets one line per minted key.  The     *)
(* cache of unwrapped keys follows the keys in memory and is left out.     *)
(* Faults names what may go wrong:                                         *)
(*   "kill"    a process dies between any two steps                        *)
(*   "torn"    a power loss cuts short the line that is not fsynced        *)
(*   "partial" a full disk takes part of a journal line                    *)
(*   "io"      a save, an append, an fsync or an unlink returns an error   *)
(*   "overlap" a server starts while the erase command runs                *)
(***************************************************************************)
EXTENDS Integers, FiniteSets, Sequences, SequencesExt

CONSTANTS
  Requests,      \* interactions whose records hold text
  Sessions,      \* session ids
  NoSession,     \* the session of traffic that names none
  SessionOf,     \* [Requests -> Sessions \cup {NoSession}]
  MaxKeys,       \* bound: keys minted
  CompactAt,     \* contentJournalCompactAt
  MaxStarts,     \* bound: server starts
  MaxErasures,   \* bound: runs of the erase command
  Faults

ASSUME KeystoreAssumption ==
  /\ NoSession \notin Sessions
  /\ SessionOf \in [Requests -> Sessions \cup {NoSession}]
  /\ {MaxKeys, CompactAt, MaxStarts, MaxErasures} \subseteq Nat
  /\ Requests \cap Sessions = {}
  /\ Faults \subseteq {"kill", "torn", "partial", "io", "overlap"}

Keys == 1 .. MaxKeys
NoKey == 0
Torn == -1                                  \* a line that does not parse
TombStates == {"none", "pending", "recorded"}

VARIABLES
  disk,      \* the keystore file: does it exist, its keys, its tombstones
  journal,   \* the lines of content-keys.jsonl
  owner,     \* the session each key was minted for
  minted,    \* how many keys were ever minted
  lock,      \* whose name writer.lock holds
  server,    \* the proxy: program counter, keystore in memory, open request
  reqs,      \* per request: how far its record is and under which key
  eraser,    \* the erase command
  events,    \* erasure system_events in the chain, per key they cover
  reported,  \* keys some run of erase told its operator are destroyed
  documented,\* keys some run also saw recorded, in the chain and in the file
  starts, erasures

vars == <<disk, journal, owner, minted, lock, server, reqs, eraser, events,
          reported, documented, starts, erasures>>

------------------------------------------------------------------------------
\* Reading the two files

Lines == ToSet(journal)
\* readJournal: one line that does not parse makes the whole keystore unreadable.
Openable == Torn \notin Lines
Loadable == disk.made /\ Openable
Tombed(k) == disk.tomb[k] # "none"

\* A tombstone always wins over a key of the same id.
LiveKeys == {k \in disk.keys \cup (Lines \ {Torn}) : ~Tombed(k)}

\* The key a session maps to after a load: the last journal line naming the
\* session, gone with it if that key is erased; without one, a key of the base.
SessionKeys(s) ==
  LET at == {i \in DOMAIN journal : journal[i] # Torn /\ owner[journal[i]] = s}
      base == {k \in disk.keys : owner[k] = s}
      chosen == IF at # {} THEN {journal[Max(at)]} ELSE base
  IN  IF chosen = {} THEN {NoKey}
      ELSE {IF Tombed(k) THEN NoKey ELSE k : k \in chosen}

Empty == [keys |-> {}, tomb |-> [k \in Keys |-> "none"],
          session |-> [s \in Sessions |-> NoKey], journalled |-> 0]

\* Mutant: the tombstones are not loaded.
LoadedTombForgotten == [k \in Keys |-> "none"]
LoadedTomb == disk.tomb

\* What OpenContentKeystore may hold after reading the files.
Loads ==
  {[keys |-> LiveKeys, tomb |-> LoadedTomb, session |-> f,
    journalled |-> Len(journal)] :
     f \in {g \in [Sessions -> Keys \cup {NoKey}] :
              \A s \in Sessions : g[s] \in SessionKeys(s)}}

\* Mutant: a compaction that keeps the keys of the file only.
SavedJournalDropped(mem) ==
  [made |-> TRUE, keys |-> mem.keys \cap disk.keys, tomb |-> mem.tomb]

SavedFrom(mem) == [made |-> TRUE, keys |-> mem.keys, tomb |-> mem.tomb]

------------------------------------------------------------------------------
Off == [pc |-> "off", mem |-> Empty, req |-> NoSession, key |-> NoKey]
Idle == [pc |-> "off", mem |-> Empty, sel |-> NoSession, fresh |-> {},
         pending |-> {}, old |-> {}]

Init ==
  /\ disk = [made |-> FALSE, keys |-> {}, tomb |-> [k \in Keys |-> "none"]]
  /\ journal = <<>>
  /\ owner = [k \in Keys |-> NoSession]
  /\ minted = 0
  /\ lock = "free"
  /\ server = Off
  /\ reqs = [r \in Requests |-> [stage |-> "new", key |-> NoKey]]
  /\ eraser = Idle
  /\ events = [k \in Keys |-> 0]
  /\ reported = {} /\ documented = {}
  /\ starts = 0 /\ erasures = 0

UnchangedFiles == UNCHANGED <<disk, journal>>
UnchangedErase == UNCHANGED <<eraser, events, reported, documented, erasures>>
UnchangedServer == UNCHANGED <<server, reqs, owner, minted, starts>>

------------------------------------------------------------------------------
\* The server

\* The store is opened first and claims the lock, over a dead holder's too.
ServerStart ==
  /\ server.pc = "off" /\ starts < MaxStarts
  /\ eraser.pc = "off" \/ "overlap" \in Faults
  /\ ~(lock = "eraser" /\ eraser.pc = "recording")
  /\ server' = [server EXCEPT !.pc = "starting"]
  /\ lock' = "server" /\ starts' = starts + 1
  /\ UnchangedFiles /\ UnchangedErase /\ UNCHANGED <<reqs, owner, minted>>

\* Then the keystore, created on first use; what it cannot read stops it.
ServerLoad ==
  /\ server.pc = "starting"
  /\ \/ /\ ~disk.made
        /\ disk' = SavedFrom(Empty)
        /\ UNCHANGED <<server, lock>>
     \/ /\ Loadable
        /\ \E m \in Loads : server' = [server EXCEPT !.pc = "up", !.mem = m]
        /\ UNCHANGED <<disk, lock>>
     \/ /\ disk.made /\ ~Loadable
        /\ server' = Off /\ lock' = "free"
        /\ UNCHANGED disk
  /\ UnchangedErase /\ UNCHANGED <<journal, reqs, owner, minted, starts>>

\* Mutant: a key numbered one too low.
NextKeyOffByOne == minted
NextKey == minted + 1

JournalFolded == <<>>

\* The open request has its key: its text is sealed under it.
Sealed(r, k) == reqs' = [reqs EXCEPT ![r] = [stage |-> "sealed", key |-> k]]

\* KeyFor finds the session's key.
KeyForKnown(r) ==
  /\ server.pc = "up" /\ reqs[r].stage = "new" /\ SessionOf[r] # NoSession
  /\ LET k == server.mem.session[SessionOf[r]]
     IN  k # NoKey /\ Sealed(r, k)
  /\ UnchangedFiles /\ UnchangedErase
  /\ UNCHANGED <<server, owner, minted, lock, starts>>

\* KeyFor mints a key and is about to make it durable.
KeyForNew(r) ==
  LET s == SessionOf[r]
      k == NextKey
      m == server.mem
  IN  /\ server.pc = "up" /\ reqs[r].stage = "new" /\ minted < MaxKeys
      /\ s # NoSession => m.session[s] = NoKey
      /\ minted' = k
      /\ owner' = [owner EXCEPT ![k] = s]
      /\ server' = [pc |-> IF m.journalled >= CompactAt THEN "save" ELSE "append",
                    mem |-> [m EXCEPT !.keys = @ \cup {k},
                       !.session = IF s = NoSession THEN @ ELSE [@ EXCEPT ![s] = k]],
                    req |-> r, key |-> k]
      /\ UnchangedFiles /\ UnchangedErase /\ UNCHANGED <<reqs, lock, starts>>

\* Mutant: the session index keeps the key that was not saved.
KeyForFailsKeepsSession ==
  /\ "io" \in Faults
  /\ server' = [server EXCEPT !.pc = "up", !.mem.keys = @ \ {server.key}]
  /\ reqs' = [reqs EXCEPT ![server.req].stage = "stripped"]

\* The key is forgotten and the record loses its text, but is still appended.
KeyForFails ==
  /\ "io" \in Faults
  /\ server' = [server EXCEPT !.pc = "up", !.mem.keys = @ \ {server.key},
       !.mem.session = [s \in Sessions |-> IF @[s] = server.key THEN NoKey ELSE @[s]]]
  /\ reqs' = [reqs EXCEPT ![server.req].stage = "stripped"]

KeyForDone(count) ==
  /\ server' = [server EXCEPT !.pc = "up", !.mem.journalled = count]
  /\ Sealed(server.req, server.key)

\* One line is written, whole or not; what follows a torn line shares it.
WithLine(x) == IF journal # <<>> /\ Last(journal) = Torn THEN journal
               ELSE Append(journal, x)

JournalWrite ==
  /\ server.pc = "append"
  /\ \/ /\ journal' = WithLine(server.key)
        /\ server' = [server EXCEPT !.pc = "sync"]
        /\ UNCHANGED reqs
     \/ /\ KeyForFails
        /\ journal' \in {journal} \cup
                        (IF "partial" \in Faults THEN {WithLine(Torn)} ELSE {})
  /\ UnchangedErase /\ UNCHANGED <<disk, owner, minted, lock, starts>>

\* An fsync that fails leaves the line of a key the server has forgotten.
JournalSync ==
  /\ server.pc = "sync"
  /\ KeyForDone(server.mem.journalled + 1) \/ KeyForFails
  /\ UnchangedFiles /\ UnchangedErase /\ UNCHANGED <<owner, minted, lock, starts>>

\* Every CompactAt keys: the file is replaced, then the journal unlinked.
CompactSave ==
  /\ server.pc = "save"
  /\ \/ /\ disk' = SavedFrom(server.mem)
        /\ server' = [server EXCEPT !.pc = "unlink"]
        /\ UNCHANGED reqs
     \/ KeyForFails /\ UNCHANGED disk
  /\ UnchangedErase /\ UNCHANGED <<journal, owner, minted, lock, starts>>

CompactUnlink ==
  /\ server.pc = "unlink"
  /\ \/ journal' = JournalFolded /\ KeyForDone(0)
     \/ KeyForFails /\ UNCHANGED journal
  /\ UnchangedErase /\ UNCHANGED <<disk, owner, minted, lock, starts>>

\* The writer goroutine gets the record to the log.
LogRecord(r) ==
  /\ server.pc \notin {"off", "starting"}
  /\ reqs[r].stage \in {"sealed", "stripped"}
  /\ reqs' = [reqs EXCEPT ![r] =
       IF @.stage = "sealed" THEN [@ EXCEPT !.stage = "logged"]
       ELSE [stage |-> "logged", key |-> NoKey]]
  /\ UnchangedFiles /\ UnchangedErase
  /\ UNCHANGED <<server, owner, minted, lock, starts>>

\* A clean shutdown drains the queue and releases the lock.
ServerStop ==
  /\ server.pc = "up"
  /\ \A r \in Requests : reqs[r].stage \in {"new", "logged", "lost"}
  /\ server' = Off /\ lock' = "free"
  /\ UnchangedFiles /\ UnchangedErase /\ UNCHANGED <<reqs, owner, minted, starts>>

\* A kill leaves the lock and loses what was not written; a power loss also
\* takes or tears the journal line that was not fsynced.
ServerKilled ==
  /\ "kill" \in Faults /\ server.pc # "off"
  /\ server' = Off
  /\ reqs' = [r \in Requests |-> IF reqs[r].stage \in {"sealed", "stripped"}
                                   \/ (server.pc \in {"append", "sync", "save", "unlink"} /\ server.req = r)
                                 THEN [stage |-> "lost", key |-> NoKey] ELSE reqs[r]]
  /\ \/ UNCHANGED journal
     \/ server.pc = "sync" /\ Last(journal) = server.key /\ journal' = Front(journal)
     \/ /\ server.pc = "sync" /\ "torn" \in Faults /\ Last(journal) = server.key
        /\ journal' = Append(Front(journal), Torn)
  /\ UnchangedErase /\ UNCHANGED <<disk, owner, minted, lock, starts>>

------------------------------------------------------------------------------
\* The erase command, run with --confirm

\* Mutant: a tombstone starts as recorded.
FreshTombRecorded == "recorded"
FreshTomb == "pending"

\* refuseWhileAWriterHolds: any lock file refuses, a dead holder's too.  A legal
\* hold in force refuses before that and leaves everything as it is.
EraseStart(sel) ==
  /\ eraser.pc = "off" /\ erasures < MaxErasures
  /\ lock = "free"
  /\ eraser' = [Idle EXCEPT !.pc = "open", !.sel = sel]
  /\ erasures' = erasures + 1
  /\ UnchangedFiles /\ UnchangedServer
  /\ UNCHANGED <<lock, events, reported, documented>>

\* openKeystoreForErasure never creates one, and fails on what it cannot read.
EraseOpen ==
  /\ eraser.pc = "open"
  /\ IF Loadable
     THEN \E m \in Loads : eraser' = [eraser EXCEPT !.pc = "scan", !.mem = m]
     ELSE eraser' = Idle
  /\ UnchangedFiles /\ UnchangedServer
  /\ UNCHANGED <<lock, events, reported, documented, erasures>>

\* The log says which keys the selector's records used, the keystore which
\* keys the session has; each is live, or was erased before, or is unknown.
EraseScan ==
  /\ eraser.pc = "scan"
  /\ LET m == eraser.mem
         selected == {r \in Requests : reqs[r].stage = "logged"
                        /\ eraser.sel \in {r, SessionOf[r]}}
         targets == ({reqs[r].key : r \in selected} \ {NoKey}) \cup
                    {k \in 1 .. minted : owner[k] = eraser.sel
                       /\ (k \in m.keys \/ m.tomb[k] # "none")}
         fresh == targets \cap m.keys
         old == {k \in targets \ fresh : m.tomb[k] # "none"}
     IN  eraser' = [eraser EXCEPT
           !.pc = IF fresh = {} THEN "erased" ELSE "save",
           !.fresh = fresh, !.old = old,
           !.pending = fresh \cup {k \in old : m.tomb[k] = "pending"},
           !.mem = [m EXCEPT !.keys = @ \ fresh,
             !.tomb = [k \in Keys |-> IF k \in fresh THEN FreshTomb ELSE @[k]]]]
  /\ UnchangedFiles /\ UnchangedServer
  /\ UNCHANGED <<lock, events, reported, documented, erasures>>

\* Erase and MarkRecorded both end in compactLocked: save, then unlink.  After
\* an error the command gives up, with the file replaced or not.
EraseSave ==
  /\ eraser.pc \in {"save", "marksave"}
  /\ \/ /\ disk' = SavedFrom(eraser.mem)
        /\ eraser' = [eraser EXCEPT
             !.pc = IF @ = "save" THEN "unlink" ELSE "markunlink"]
     \/ "io" \in Faults /\ eraser' = Idle /\ UNCHANGED disk
  /\ UnchangedServer
  /\ UNCHANGED <<journal, lock, events, reported, documented, erasures>>

EraseUnlink ==
  /\ eraser.pc \in {"unlink", "markunlink"}
  /\ \/ /\ journal' = JournalFolded
        /\ IF eraser.pc = "unlink"
           THEN /\ eraser' = [eraser EXCEPT !.pc = "erased"]
                /\ UNCHANGED <<reported, documented>>
           ELSE /\ eraser' = Idle
                /\ reported' = reported \cup eraser.fresh \cup eraser.old
                /\ documented' = documented \cup eraser.pending
     \/ "io" \in Faults /\ eraser' = Idle /\ UNCHANGED <<journal, reported, documented>>
  /\ UnchangedServer /\ UNCHANGED <<disk, lock, events, erasures>>

\* With nothing the chain does not know yet, the command reports and ends;
\* otherwise it opens the store, which claims the lock or fails.
EraseReport ==
  /\ eraser.pc = "erased"
  /\ \/ /\ eraser.pending = {}
        /\ eraser' = Idle /\ reported' = reported \cup eraser.old
        /\ UNCHANGED lock
     \/ /\ eraser.pending # {}
        /\ IF lock = "server" /\ server.pc # "off"
           THEN eraser' = Idle /\ UNCHANGED lock
           ELSE eraser' = [eraser EXCEPT !.pc = "recording"] /\ lock' = "eraser"
        /\ UNCHANGED reported
  /\ UnchangedFiles /\ UnchangedServer
  /\ UNCHANGED <<events, documented, erasures>>

EventAppended ==
  [k \in Keys |-> IF k \in eraser.pending THEN events[k] + 1 ELSE events[k]]

\* The event is appended and the store closed, which frees the lock.
EraseRecord ==
  /\ eraser.pc = "recording"
  /\ events' = EventAppended
  /\ eraser' = [eraser EXCEPT !.pc = "marksave", !.mem.tomb =
       [k \in Keys |-> IF k \in eraser.pending THEN "recorded" ELSE @[k]]]
  /\ lock' = "free"
  /\ UnchangedFiles /\ UnchangedServer /\ UNCHANGED <<reported, documented, erasures>>

\* A kill with the store open leaves its lock, the event appended or not.
EraseKilled ==
  /\ "kill" \in Faults /\ eraser.pc # "off"
  /\ eraser' = Idle
  /\ \/ UNCHANGED events
     \/ eraser.pc = "recording" /\ events' = EventAppended
  /\ UnchangedFiles /\ UnchangedServer
  /\ UNCHANGED <<lock, reported, documented, erasures>>

------------------------------------------------------------------------------
ServerNext ==
  \/ ServerStart \/ ServerLoad
  \/ \E r \in Requests : KeyForKnown(r) \/ KeyForNew(r) \/ LogRecord(r)
  \/ JournalWrite \/ JournalSync \/ CompactSave \/ CompactUnlink
  \/ ServerStop \/ ServerKilled

EraseNext ==
  \/ \E sel \in Sessions \cup Requests : EraseStart(sel)
  \/ EraseOpen \/ EraseScan \/ EraseSave \/ EraseUnlink
  \/ EraseReport \/ EraseRecord \/ EraseKilled

Next == ServerNext \/ EraseNext

Spec == Init /\ [][Next]_vars

------------------------------------------------------------------------------
\* Properties

\* Every variable holds a value of its kind.
TypeOK ==
  /\ disk.made \in BOOLEAN /\ disk.keys \subseteq Keys
  /\ disk.tomb \in [Keys -> TombStates]
  /\ Lines \subseteq Keys \cup {Torn}
  /\ owner \in [Keys -> Sessions \cup {NoSession}]
  /\ minted \in 0 .. MaxKeys
  /\ lock \in {"free", "server", "eraser"}
  /\ server.pc \in {"off", "starting", "up", "append", "sync", "save", "unlink"}
  /\ server.mem.keys \subseteq Keys /\ server.mem.tomb \in [Keys -> TombStates]
  /\ server.mem.session \in [Sessions -> Keys \cup {NoKey}]
  /\ \A r \in Requests :
       /\ reqs[r].stage \in {"new", "sealed", "stripped", "logged", "lost"}
       /\ reqs[r].key \in Keys \cup {NoKey}
  /\ eraser.pc \in {"off", "open", "scan", "save", "unlink", "erased",
                    "recording", "marksave", "markunlink"}
  /\ eraser.mem.keys \subseteq Keys /\ eraser.mem.tomb \in [Keys -> TombStates]
  /\ events \in [Keys -> 0 .. MaxErasures]
  /\ reported \subseteq Keys /\ documented \subseteq Keys

\* What a reader makes of a record, who needs its key and a keystore that opens.
ContentOf(r) ==
  LET k == reqs[r].key
  IN  IF reqs[r].stage # "logged" THEN "absent"
      ELSE IF k = NoKey THEN "bare"
      ELSE IF Tombed(k) THEN "erased"
      ELSE IF k \notin LiveKeys THEN "lost"
      ELSE IF Openable THEN "readable" ELSE "locked"

\* A record whose text is sealed can be read from the files alone until an
\* erasure of its key, whatever fails or dies in between (KeyFor fsyncs before
\* the record, compactLocked saves before it unlinks), and an erased one never
\* again.  There is one way out, which the code leaves open: a power loss in the
\* middle of a journal line locks up the whole keystore; then no text can be
\* read, nothing is written or erased any more, and no key is lost.
Promise == INSTANCE ErasableContent
             WITH Records <- Requests, MayLock <- "torn" \in Faults,
                  content <- [r \in Requests |-> ContentOf(r)], open <- Openable
KeepsContentPromise == Promise!Spec

\* Before a record is in the log, from the moment its text is sealed: the key
\* is on disk (KeyFor returned), in the file or in a line that parses, or the
\* record could never be read nor erased.
SealedKeyIsDurable ==
  \A r \in Requests : reqs[r].stage \in {"sealed", "logged"} /\ reqs[r].key # NoKey
    => reqs[r].key \in LiveKeys \/ Tombed(reqs[r].key)

\* A key with a tombstone seals nothing any more, in this process or a later
\* one that read the tombstone, the leftover journal included.
NoSealAfterErasure ==
  [][\A r \in Requests : reqs[r].stage = "new" /\ reqs'[r].stage = "sealed"
       => ~Tombed(reqs'[r].key)]_vars

\* A tombstone never goes, and its note that the chain knows never either: the
\* server's compaction and the command rewrite the file from their memory.
ErasureIsFinal ==
  [][\A k \in Keys :
       /\ Tombed(k) => disk'.tomb[k] # "none"
       /\ disk.tomb[k] = "recorded" => disk'.tomb[k] = "recorded"]_vars

\* The keystore says an erasure is in the chain only when it is, across any
\* number of runs that died or failed half-way.
RecordedIsInChain ==
  \A k \in Keys : disk.tomb[k] = "recorded" => events[k] > 0

\* Once a run saw an erasure recorded, no copy of the wrapped key is left, in
\* the keystore file or in the journal, after whatever earlier runs left there.
DocumentedIsGone ==
  \A k \in documented : k \notin disk.keys \cup Lines /\ disk.tomb[k] = "recorded"

\* The same of every key a run reported as destroyed, the runs included that
\* found it already erased (printErasure, "already erased").
ReportedIsGone ==
  \A k \in reported : k \notin disk.keys \cup Lines
=============================================================================
