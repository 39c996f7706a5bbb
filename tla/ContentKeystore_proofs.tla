------------------------ MODULE ContentKeystore_proofs ------------------------
(***************************************************************************)
(* Proofs about ContentKeystore, for any requests, sessions and keys and   *)
(* any number of server starts and runs of erase.                          *)
(*                                                                         *)
(* What is typed and what the chain knows of an erasure holds under every  *)
(* fault.  That an erasure is final needs that no server starts beside the *)
(* erase command (TombInv), and that sealed text stays readable needs also *)
(* that no journal line is written in part (DurableInv).                   *)
(***************************************************************************)
EXTENDS ContentKeystore, FiniteSetTheorems, SequenceTheorems, TLAPS

-----------------------------------------------------------------------------
(* Types *)

Memories ==
  [keys : SUBSET Keys, tomb : [Keys -> TombStates],
   session : [Sessions -> Keys \cup {NoKey}], journalled : Nat]

Busy == {"append", "sync", "save", "unlink"}   \* a key is being minted
Serving == {"up"} \cup Busy                     \* the keystore is in memory
ServerPcs == {"off", "starting"} \cup Serving
Folding == {"unlink", "markunlink"}             \* the file is saved
Erasing == {"scan", "save", "erased", "recording", "marksave"} \cup Folding
EraserPcs == {"off", "open"} \cup Erasing
Stages == {"new", "sealed", "stripped", "logged", "lost"}

FileTypes ==
  /\ disk \in [made : BOOLEAN, keys : SUBSET Keys, tomb : [Keys -> TombStates]]
  /\ journal \in Seq(Keys \cup {Torn})
  /\ owner \in [Keys -> Sessions \cup {NoSession}]
  /\ minted \in 0 .. MaxKeys
  /\ lock \in {"free", "server", "eraser"}

Servers ==
  [pc : ServerPcs, mem : Memories, req : Requests \cup {NoSession}, key : Keys \cup {NoKey}]

Erasers ==
  [pc : EraserPcs, mem : Memories, sel : Sessions \cup Requests \cup {NoSession},
   fresh : SUBSET Keys, pending : SUBSET Keys, old : SUBSET Keys]

ServerTypes ==
  /\ server \in Servers
  /\ server.pc \in Busy => server.req \in Requests /\ server.key \in Keys
  /\ reqs \in [Requests -> [stage : Stages, key : Keys \cup {NoKey}]]

\* A run of erase appends at most one event about a key.
EraserTypes ==
  /\ eraser \in Erasers
  /\ events \in [Keys -> Nat]
  /\ erasures \in 0 .. MaxErasures
  /\ \A k \in Keys :
       /\ events[k] <= erasures
       /\ eraser.pc \notin {"off", "marksave", "markunlink"} => events[k] < erasures
  /\ reported \in SUBSET Keys /\ documented \in SUBSET Keys

Types == FileTypes /\ ServerTypes /\ EraserTypes

\* No copy of the keystore says an erasure is recorded unless the chain does.
RecordedInv ==
  \A k \in Keys :
    "recorded" \in {disk.tomb[k], server.mem.tomb[k], eraser.mem.tomb[k]} => events[k] > 0

-----------------------------------------------------------------------------
(* Erasure is final *)

\* The server and the erase command do not run together.
AloneInv ==
  /\ server.pc = "off" \/ eraser.pc = "off"
  /\ server.pc # "off" => lock = "server"

\* Only keys that were minted are anywhere.
MintedInv ==
  /\ disk.keys \subseteq 1 .. minted /\ Lines \subseteq 1 .. minted \cup {Torn}
  /\ server.pc \in Serving => server.mem.keys \subseteq 1 .. minted
  /\ eraser.pc \in Erasing => eraser.mem.keys \subseteq 1 .. minted
  /\ \A k \in Keys : Tombed(k) => k <= minted
  /\ eraser.pc \in Erasing => \A k \in Keys : eraser.mem.tomb[k] # "none" => k <= minted
  /\ \A r \in Requests : reqs[r].key <= minted

\* A copy in memory has every tombstone of the file and no key that has one.
TombInv ==
  /\ \A k \in disk.keys : ~Tombed(k)
  /\ ~disk.made => disk.keys = {} /\ \A k \in Keys : ~Tombed(k)
  /\ server.pc \in Serving =>
       /\ server.mem.tomb = disk.tomb
       /\ \A k \in server.mem.keys : ~Tombed(k)
       /\ \A s \in Sessions : server.mem.session[s] \in server.mem.keys \cup {NoKey}
  /\ server.pc \in Busy => server.key \in server.mem.keys
  /\ eraser.pc \in Erasing =>
       /\ \A k \in Keys : /\ Tombed(k) => eraser.mem.tomb[k] # "none"
                          /\ disk.tomb[k] = "recorded" => eraser.mem.tomb[k] = "recorded"
       /\ \A k \in eraser.mem.keys : eraser.mem.tomb[k] = "none"
  /\ eraser.pc \in Folding => disk.keys = eraser.mem.keys /\ disk.tomb = eraser.mem.tomb
  /\ eraser.pc \in Erasing \ {"scan"} =>
       \A k \in eraser.pending : eraser.mem.tomb[k] # "none"
  /\ eraser.pc \in {"marksave", "markunlink"} =>
       \A k \in eraser.pending : eraser.mem.tomb[k] = "recorded"

FinalInv == AloneInv /\ MintedInv /\ TombInv /\ DocumentedIsGone

-----------------------------------------------------------------------------
(* Sealed text stays readable *)

\* A copy of the key is left in the files, or a tombstone.
Held(k) == k \in disk.keys \/ k \in Lines \/ Tombed(k)

\* What the server has in memory it can load again, but for the key it mints.
MemoryInv ==
  /\ server.pc \in Serving =>
       /\ Torn \notin Lines
       /\ \A k \in server.mem.keys : Held(k) \/ (server.pc \in Busy /\ k = server.key)
  /\ eraser.pc \in Erasing => Torn \notin Lines

\* The key being minted is nobody's yet, and how far its file is.
MintingInv ==
  /\ server.pc \in Busy => /\ reqs[server.req].stage = "new"
                           /\ \A r \in Requests : reqs[r].key # server.key
  /\ server.pc = "sync" => journal # <<>> /\ Last(journal) = server.key
  /\ server.pc = "unlink" => disk.keys = server.mem.keys

\* The key of a record's text is in the files and in every copy in memory, or
\* has a tombstone there.
KeptInv ==
  \A r \in Requests :
    /\ reqs[r].stage = "sealed" => server.pc \in Serving /\ reqs[r].key \in server.mem.keys
    /\ reqs[r].stage \in {"sealed", "logged"} /\ reqs[r].key # NoKey =>
         /\ Held(reqs[r].key)
         /\ server.pc \in Serving => reqs[r].key \in server.mem.keys \/ Tombed(reqs[r].key)
         /\ eraser.pc \in Erasing =>
              reqs[r].key \in eraser.mem.keys \/ eraser.mem.tomb[reqs[r].key] # "none"

DurableInv == MemoryInv /\ MintingInv /\ KeptInv

-----------------------------------------------------------------------------
(* Reading the files *)

\* A set of positions has a last one: the position with the fewest after it.
LEMMA LastOf ==
  ASSUME NEW n \in Nat, NEW S \in SUBSET (1 .. n), S # {}
  PROVE  Max(S) \in S
<1> DEFINE After(i) == (i + 1) .. n
           T == {After(i) : i \in S}
<1>1. T \subseteq FiniteSubsetsOf(1 .. n) /\ T # {}
  <2>1. IsFiniteSet(1 .. n) /\ \A i \in S : i \in 1 .. n /\ After(i) \in SUBSET (1 .. n)
    BY FS_Interval
  <2>2. T \subseteq SUBSET (1 .. n) /\ T # {}
    BY <2>1
  <2> HIDE DEF T
  <2> QED
    BY <2>1, <2>2, FS_FiniteSubsetsOfFinite
<1>2. PICK x \in T : \A y \in T : <<y, x>> \notin StrictSubsetOrdering(1 .. n)
  <2> HIDE DEF T
  <2> QED
    BY <1>1, FS_StrictSubsetOrderingWellFounded, WFMin
<1>3. PICK i \in S : x = After(i)
  OBVIOUS
<1>4. ASSUME NEW j \in S, j > i PROVE FALSE
  <2>1. After(j) \subseteq After(i) /\ After(i) \subseteq 1 .. n
    BY <1>4
  <2>2. j \in After(i) /\ j \notin After(j)
    BY <1>4
  <2>3. After(j) \in T
    OBVIOUS
  <2> HIDE DEF T, After
  <2>4. <<After(j), x>> \notin StrictSubsetOrdering(1 .. n)
    BY <1>2, <2>3
  <2> QED
    BY <1>3, <2>1, <2>2, <2>4 DEF StrictSubsetOrdering
<1>5. \A j \in S : i >= j
  BY <1>4
<1> QED
  BY <1>5 DEF Max

LEMMA KeystoreFacts ==
  /\ MaxKeys \in Nat /\ CompactAt \in Nat /\ MaxErasures \in Nat
  /\ NoSession \notin Sessions /\ SessionOf \in [Requests -> Sessions \cup {NoSession}]
  /\ NoKey \notin Keys /\ Torn \notin Keys /\ Torn # NoKey
  /\ \A k \in Keys : k \in Nat /\ k > 0
  /\ "none" \in TombStates /\ "pending" \in TombStates /\ "recorded" \in TombStates
BY KeystoreAssumption DEF Keys, NoKey, Torn, TombStates

LEMMA LinesType ==
  ASSUME FileTypes
  PROVE  Lines \subseteq Keys \cup {Torn} /\ LiveKeys \subseteq Keys
<1>1. journal \in Seq(Keys \cup {Torn}) /\ disk.keys \subseteq Keys
  BY DEF FileTypes
<1> QED
  BY <1>1 DEF Lines, ToSet, LiveKeys

\* What a session maps to after a load is a key that the load keeps, or none.
LEMMA SessionKeysLive ==
  ASSUME FileTypes, NEW s \in Sessions, NEW k \in SessionKeys(s)
  PROVE  k \in LiveKeys \cup {NoKey}
<1> DEFINE at == {i \in DOMAIN journal : journal[i] # Torn /\ owner[journal[i]] = s}
           base == {j \in disk.keys : owner[j] = s}
           chosen == IF at # {} THEN {journal[Max(at)]} ELSE base
<1>1. journal \in Seq(Keys \cup {Torn})
  BY DEF FileTypes
<1>2. chosen \subseteq disk.keys \cup (Lines \ {Torn})
  <2>1. CASE at # {}
    <3>1. Len(journal) \in Nat /\ at \in SUBSET (1 .. Len(journal))
      BY <1>1
    <3> HIDE DEF at
    <3>2. Max(at) \in at
      BY <2>1, <3>1, LastOf
    <3>3. journal[Max(at)] \in Lines \ {Torn}
      BY <3>2 DEF at, Lines, ToSet
    <3> QED
      BY <2>1, <3>3
  <2> QED
    BY <2>1
<1> HIDE DEF chosen
<1>3. k = NoKey \/ \E j \in chosen : k = j /\ ~Tombed(j)
  <2>1. k \in IF chosen = {} THEN {NoKey}
             ELSE {IF Tombed(j) THEN NoKey ELSE j : j \in chosen}
    BY DEF SessionKeys, chosen
  <2> QED
    BY <2>1
<1> QED
  BY <1>2, <1>3 DEF LiveKeys

\* What a process has in memory after it read the files.
LEMMA LoadsFacts ==
  ASSUME FileTypes, NEW m \in Loads
  PROVE  /\ m \in Memories /\ m.keys = LiveKeys /\ m.tomb = disk.tomb
         /\ \A s \in Sessions : m.session[s] \in m.keys \cup {NoKey}
<1>1. PICK f \in [Sessions -> Keys \cup {NoKey}] :
        /\ \A s \in Sessions : f[s] \in SessionKeys(s)
        /\ m = [keys |-> LiveKeys, tomb |-> LoadedTomb, session |-> f,
                journalled |-> Len(journal)]
  BY DEF Loads
<1>2. /\ disk.tomb \in [Keys -> TombStates] /\ Len(journal) \in Nat
      /\ LiveKeys \in SUBSET Keys
  BY LinesType DEF FileTypes
<1>3. \A s \in Sessions : f[s] \in LiveKeys \cup {NoKey}
  BY <1>1, SessionKeysLive
<1> QED
  BY <1>1, <1>2, <1>3 DEF Memories, LoadedTomb

-----------------------------------------------------------------------------
(* Types are kept *)

LEMMA EmptyFacts ==
  /\ Empty \in Memories /\ Empty.keys = {} /\ \A k \in Keys : Empty.tomb[k] = "none"
  /\ \A k \in Keys : Off.mem.tomb[k] = "none" /\ Idle.mem.tomb[k] = "none"
  /\ Off.pc = "off" /\ Idle.pc = "off"
BY KeystoreFacts DEF Empty, Memories, Off, Idle

LEMMA SavedType ==
  ASSUME NEW m \in Memories
  PROVE  /\ SavedFrom(m) \in [made : BOOLEAN, keys : SUBSET Keys, tomb : [Keys -> TombStates]]
         /\ SavedFrom(m).keys = m.keys /\ SavedFrom(m).tomb = m.tomb
BY DEF SavedFrom, Memories

\* What can become of the journal.
LEMMA JournalFacts ==
  ASSUME FileTypes
  PROVE  /\ JournalFolded \in Seq(Keys \cup {Torn}) /\ ToSet(JournalFolded) = {}
         /\ \A x \in Keys \cup {Torn} :
              /\ WithLine(x) \in Seq(Keys \cup {Torn}) /\ WithLine(x) # <<>>
              /\ ToSet(WithLine(x)) = Lines \cup {x} \/ (Torn \in Lines /\ WithLine(x) = journal)
              /\ Torn \notin Lines => Last(WithLine(x)) = x
         /\ Front(journal) \in Seq(Keys \cup {Torn})
         /\ Append(Front(journal), Torn) \in Seq(Keys \cup {Torn})
         /\ ToSet(Front(journal)) \subseteq Lines
         /\ ToSet(Append(Front(journal), Torn)) = ToSet(Front(journal)) \cup {Torn}
         /\ journal # <<>> => Lines \subseteq ToSet(Front(journal)) \cup {Last(journal)}
<1> DEFINE L == Keys \cup {Torn}
<1>1. journal \in Seq(L) /\ Len(journal) \in Nat
  BY DEF FileTypes
<1>2. JournalFolded \in Seq(L) /\ ToSet(JournalFolded) = {}
  BY DEF JournalFolded, ToSet
<1>3. ASSUME NEW t \in Seq(L), NEW x \in L
      PROVE  /\ Append(t, x) \in Seq(L) /\ Append(t, x) # <<>>
             /\ ToSet(Append(t, x)) = ToSet(t) \cup {x} /\ Last(Append(t, x)) = x
  <2>1. /\ Append(t, x) \in Seq(L) /\ Len(Append(t, x)) = Len(t) + 1 /\ Len(t) \in Nat
        /\ Append(t, x)[Len(t) + 1] = x /\ \A i \in 1 .. Len(t) : Append(t, x)[i] = t[i]
    OBVIOUS
  <2>2. DOMAIN t = 1 .. Len(t) /\ DOMAIN Append(t, x) = 1 .. Len(t) + 1
    BY <2>1
  <2>3. ToSet(Append(t, x)) = ToSet(t) \cup {x}
    <3>1. ASSUME NEW y \in ToSet(Append(t, x)) PROVE y \in ToSet(t) \cup {x}
      BY <2>1, <2>2 DEF ToSet
    <3>2. ASSUME NEW y \in ToSet(t) PROVE y \in ToSet(Append(t, x))
      BY <2>1, <2>2 DEF ToSet
    <3>3. x \in ToSet(Append(t, x))
      <4>1. Len(t) + 1 \in DOMAIN Append(t, x)
        BY <2>1, <2>2
      <4> QED
        BY <2>1, <4>1 DEF ToSet
    <3> QED
      BY <3>1, <3>2, <3>3
  <2> QED
    BY <2>1, <2>3 DEF Last
<1>4. ASSUME NEW x \in L
      PROVE  /\ WithLine(x) \in Seq(L) /\ WithLine(x) # <<>>
             /\ ToSet(WithLine(x)) = Lines \cup {x} \/ (Torn \in Lines /\ WithLine(x) = journal)
             /\ Torn \notin Lines => Last(WithLine(x)) = x
  <2>1. CASE journal # <<>> /\ Last(journal) = Torn
    <3>1. Len(journal) \in DOMAIN journal
      BY <1>1, <2>1
    <3>2. Torn \in Lines
      BY <2>1, <3>1 DEF Last, Lines, ToSet
    <3> QED
      BY <1>1, <2>1, <3>2 DEF WithLine
  <2>2. CASE ~(journal # <<>> /\ Last(journal) = Torn)
    BY <1>1, <1>3, <2>2 DEF WithLine, Lines
  <2> QED
    BY <2>1, <2>2
<1>5. CASE journal = <<>>
  <2>1. Front(journal) = <<>>
    BY <1>5 DEF Front
  <2>2. <<>> \in Seq(L) /\ ToSet(<<>>) = {}
    BY DEF ToSet
  <2> QED
    BY <1>2, <1>3, <1>4, <1>5, <2>1, <2>2
<1>6. CASE journal # <<>>
  <2>1. /\ Front(journal) \in Seq(L) /\ Len(Front(journal)) = Len(journal) - 1
        /\ \A i \in 1 .. Len(journal) - 1 : Front(journal)[i] = journal[i]
        /\ Len(journal) > 0
    <3>1. Len(journal) > 0
      BY <1>1, <1>6, EmptySeq
    <3>2. \A i \in 1 .. Len(journal) - 1 : journal[i] \in L
      BY <1>1, <3>1
    <3> HIDE DEF L
    <3>3. /\ Front(journal) \in Seq(L)
          /\ Len(Front(journal)) = IF 1 <= Len(journal) - 1 THEN Len(journal) - 1 - 1 + 1 ELSE 0
          /\ \A i \in 1 .. Len(journal) - 1 - 1 + 1 : Front(journal)[i] = journal[1 + i - 1]
      BY <1>1, <3>2, SubSeqProperties DEF Front
    <3>4. \A i \in 1 .. Len(journal) - 1 : Front(journal)[i] = journal[i]
      BY <1>1, <3>3
    <3>5. Len(journal) \in Nat
      BY <1>1
    <3>6. \A n \in Nat : n > 0 => (IF 1 <= n - 1 THEN n - 1 - 1 + 1 ELSE 0) = n - 1
      OBVIOUS
    <3>7. Len(Front(journal)) = Len(journal) - 1
      BY <3>1, <3>3, <3>5, <3>6
    <3> QED
      BY <3>1, <3>3, <3>4, <3>7
  <2>2. DOMAIN Front(journal) = 1 .. Len(journal) - 1 /\ DOMAIN journal = 1 .. Len(journal)
    BY <1>1, <2>1
  <2>3. ToSet(Front(journal)) \subseteq Lines
    BY <1>1, <2>1, <2>2 DEF Lines, ToSet
  <2>4. ASSUME NEW y \in Lines PROVE y \in ToSet(Front(journal)) \cup {Last(journal)}
    <3>1. PICK i \in 1 .. Len(journal) : y = journal[i]
      BY <2>2 DEF Lines, ToSet
    <3>2. i = Len(journal) \/ i \in 1 .. Len(journal) - 1
      BY <1>1
    <3>3. i \in 1 .. Len(journal) - 1 => y \in ToSet(Front(journal))
      BY <2>1, <2>2, <3>1 DEF ToSet
    <3> QED
      BY <3>1, <3>2, <3>3 DEF Last
  <2> QED
    BY <1>2, <1>3, <1>4, <2>1, <2>3, <2>4
<1> QED
  BY <1>5, <1>6

\* A step of the server or of the erase command keeps the types of the files.
LEMMA FileTypesStep ==
  ASSUME Types, [Next]_vars
  PROVE  FileTypes'
<1> DEFINE D == [made : BOOLEAN, keys : SUBSET Keys, tomb : [Keys -> TombStates]]
           J == Seq(Keys \cup {Torn})
<1>1. disk \in D /\ journal \in J /\ owner \in [Keys -> Sessions \cup {NoSession}]
      /\ minted \in 0 .. MaxKeys /\ lock \in {"free", "server", "eraser"}
  BY DEF Types, FileTypes
<1>2. server.mem \in Memories /\ eraser.mem \in Memories
  BY DEF Types, ServerTypes, EraserTypes, Servers, Erasers
<1>3. server.pc \in Busy => server.key \in Keys
  BY DEF Types, ServerTypes
<1>4. SavedFrom(Empty) \in D /\ SavedFrom(server.mem) \in D /\ SavedFrom(eraser.mem) \in D
  BY <1>2, EmptyFacts, SavedType
<1>5. /\ JournalFolded \in J /\ Front(journal) \in J /\ Append(Front(journal), Torn) \in J
      /\ \A x \in Keys \cup {Torn} : WithLine(x) \in J
  BY JournalFacts DEF Types
<1> HIDE DEF D, J
<1>6. CASE ServerStart \/ ServerLoad \/ ServerStop
  <2>1. disk' \in D /\ journal' = journal /\ owner' = owner /\ minted' = minted
    BY <1>1, <1>4, <1>6 DEF ServerStart, ServerLoad, ServerStop, UnchangedFiles
  <2>2. lock' \in {"free", "server", "eraser"}
    BY <1>1, <1>6 DEF ServerStart, ServerLoad, ServerStop
  <2> QED
    BY <1>1, <2>1, <2>2 DEF FileTypes, D, J
<1>7. ASSUME NEW r \in Requests, KeyForNew(r) PROVE FileTypes'
  <2>1. /\ disk' = disk /\ journal' = journal /\ lock' = lock /\ minted' = minted + 1
        /\ minted < MaxKeys /\ owner' = [owner EXCEPT ![minted + 1] = SessionOf[r]]
    BY <1>7 DEF KeyForNew, UnchangedFiles, NextKey
  <2>2. SessionOf[r] \in Sessions \cup {NoSession}
    BY KeystoreFacts
  <2>3. minted' \in 0 .. MaxKeys
    BY <1>1, <2>1, KeystoreFacts
  <2>4. owner' \in [Keys -> Sessions \cup {NoSession}]
    BY <1>1, <2>1, <2>2
  <2> QED
    BY <1>1, <2>1, <2>3, <2>4 DEF FileTypes, D, J
<1>8. CASE JournalWrite \/ CompactSave \/ CompactUnlink \/ ServerKilled
  <2>1. disk' \in D
    BY <1>1, <1>4, <1>8 DEF JournalWrite, CompactSave, CompactUnlink, ServerKilled
  <2>2. journal' \in J
    <3>1. JournalWrite => journal' \in J
      BY <1>1, <1>3, <1>5 DEF JournalWrite, Busy
    <3> QED
      BY <1>1, <1>5, <1>8, <3>1 DEF CompactSave, CompactUnlink, ServerKilled
  <2>3. owner' = owner /\ minted' = minted /\ lock' = lock
    BY <1>8 DEF JournalWrite, CompactSave, CompactUnlink, ServerKilled
  <2> QED
    BY <1>1, <2>1, <2>2, <2>3 DEF FileTypes, D, J
<1>9. CASE JournalSync \/ (\E r \in Requests : KeyForKnown(r) \/ LogRecord(r)) \/ UNCHANGED vars
  <2>1. UNCHANGED <<disk, journal, owner, minted, lock>>
    BY <1>9 DEF JournalSync, KeyForKnown, LogRecord, UnchangedFiles, vars
  <2> QED
    BY <1>1, <2>1 DEF FileTypes, D, J
<1>10. CASE EraseNext
  <2>1. owner' = owner /\ minted' = minted
    BY <1>10 DEF EraseNext, EraseStart, EraseOpen, EraseScan, EraseSave, EraseUnlink, EraseReport,
       EraseRecord, EraseKilled, UnchangedServer
  <2>2. disk' \in D
    BY <1>1, <1>4, <1>10 DEF EraseNext, EraseStart, EraseOpen, EraseScan, EraseSave, EraseUnlink,
       EraseReport, EraseRecord, EraseKilled, UnchangedFiles
  <2>3. journal' \in J
    BY <1>1, <1>5, <1>10 DEF EraseNext, EraseStart, EraseOpen, EraseScan, EraseSave, EraseUnlink,
       EraseReport, EraseRecord, EraseKilled, UnchangedFiles
  <2>4. lock' \in {"free", "server", "eraser"}
    BY <1>1, <1>10 DEF EraseNext, EraseStart, EraseOpen, EraseScan, EraseSave, EraseUnlink,
       EraseReport, EraseRecord, EraseKilled
  <2> QED
    BY <1>1, <2>1, <2>2, <2>3, <2>4 DEF FileTypes, D, J
<1> QED
  BY <1>6, <1>7, <1>8, <1>9, <1>10 DEF Next, ServerNext

-----------------------------------------------------------------------------
(* What the steps of the server change, field by field *)

\* Every place a server or an erase command goes to is one of the places.
LEMMA Places ==
  /\ {"off", "starting", "up", "append", "sync", "save", "unlink"} \subseteq ServerPcs
  /\ {"off", "open", "scan", "save", "unlink", "erased", "recording", "marksave",
      "markunlink"} \subseteq EraserPcs
  /\ {"new", "sealed", "stripped", "logged", "lost"} \subseteq Stages
  /\ "off" \notin Serving /\ "starting" \notin Serving /\ "up" \in Serving /\ "up" \notin Busy
  /\ Busy \subseteq Serving /\ "off" \notin Busy /\ "starting" \notin Busy
  /\ "append" \in Busy /\ "sync" \in Busy /\ "save" \in Busy /\ "unlink" \in Busy
  /\ "off" \notin Erasing /\ "open" \notin Erasing /\ Folding \subseteq Erasing
  /\ {"scan", "save", "unlink", "erased", "recording", "marksave", "markunlink"} \subseteq Erasing
  /\ Folding = {"unlink", "markunlink"}
BY DEF ServerPcs, EraserPcs, Stages, Serving, Busy, Erasing, Folding

LEMMA OffType == Off \in Servers /\ Idle \in Erasers
<1>1. Empty \in Memories
  BY EmptyFacts
<1>2. Off.pc = "off" /\ Idle.pc = "off" /\ "off" \in ServerPcs /\ "off" \in EraserPcs
  BY Places DEF Off, Idle
<1> QED
  BY <1>1, <1>2 DEF Off, Idle, Servers, Erasers

\* KeyFor begins to mint a key.
LEMMA NewFacts ==
  ASSUME Types, NEW r \in Requests, KeyForNew(r)
  PROVE  /\ server' \in Servers /\ server'.pc \in {"save", "append"}
         /\ server'.req = r /\ server'.key = minted + 1
         /\ minted + 1 \in Keys /\ minted' = minted + 1
         /\ server'.mem.keys = server.mem.keys \cup {minted + 1}
         /\ server'.mem.tomb = server.mem.tomb
         /\ \A s \in Sessions :
              server'.mem.session[s] \in {server.mem.session[s], minted + 1}
         /\ server.pc = "up" /\ reqs[r].stage = "new"
         /\ UNCHANGED <<disk, journal, lock, reqs>> /\ UnchangedErase
<1> DEFINE s == SessionOf[r]
           k == minted + 1
           m == server.mem
           n == [m EXCEPT !.keys = @ \cup {k},
                          !.session = IF s = NoSession THEN @ ELSE [@ EXCEPT ![s] = k]]
           c == IF m.journalled >= CompactAt THEN "save" ELSE "append"
<1>1. /\ server' = [pc |-> c, mem |-> n, req |-> r, key |-> k]
      /\ minted < MaxKeys /\ minted' = k
      /\ server.pc = "up" /\ reqs[r].stage = "new"
      /\ UNCHANGED <<disk, journal, lock, reqs>> /\ UnchangedErase
  BY DEF KeyForNew, NextKey, UnchangedFiles
<1>2. k \in Keys /\ m \in Memories /\ s \in Sessions \cup {NoSession}
  BY <1>1, KeystoreFacts DEF Types, FileTypes, ServerTypes, Servers, Keys
<1>3. c \in ServerPcs /\ c \in {"save", "append"}
  BY Places
<1> HIDE DEF c, k, m, s
<1>4. PICK f \in [Sessions -> Keys \cup {NoKey}] :
        /\ n = [m EXCEPT !.keys = @ \cup {k}, !.session = f]
        /\ \A t \in Sessions : f[t] \in {m.session[t], k}
  <2>1. CASE s = NoSession
    BY <1>2, <2>1 DEF Memories
  <2>2. CASE s # NoSession
    <3>1. n = [m EXCEPT !.keys = @ \cup {k}, !.session = [m.session EXCEPT ![s] = k]]
      BY <2>2
    <3>2. /\ [m.session EXCEPT ![s] = k] \in [Sessions -> Keys \cup {NoKey}]
          /\ \A t \in Sessions : [m.session EXCEPT ![s] = k][t] \in {m.session[t], k}
      BY <1>2 DEF Memories
    <3> QED
      BY <3>1, <3>2
  <2> QED
    BY <2>1, <2>2
<1>5. n \in Memories /\ n.keys = m.keys \cup {k} /\ n.tomb = m.tomb /\ n.session = f
  BY <1>2, <1>4 DEF Memories
<1> HIDE DEF n
<1>6. server' \in Servers
  BY <1>1, <1>2, <1>3, <1>5 DEF Servers
<1> QED
  BY <1>1, <1>2, <1>3, <1>4, <1>5, <1>6 DEF k, m

\* KeyFor gives up on a key.
LEMMA FailsFacts ==
  ASSUME Types, KeyForFails
  PROVE  /\ server' \in Servers /\ server'.pc = "up"
         /\ server'.mem.keys = server.mem.keys \ {server.key}
         /\ server'.mem.tomb = server.mem.tomb
         /\ \A s \in Sessions :
              server'.mem.session[s] = IF server.mem.session[s] = server.key THEN NoKey
                                       ELSE server.mem.session[s]
         /\ reqs' = [reqs EXCEPT ![server.req].stage = "stripped"]
<1> DEFINE f == [s \in Sessions |-> IF server.mem.session[s] = server.key THEN NoKey
                                    ELSE server.mem.session[s]]
           n == [server.mem EXCEPT !.keys = server.mem.keys \ {server.key}, !.session = f]
<1>1. server \in Servers /\ server.mem \in Memories
  BY DEF Types, ServerTypes, Servers
<1>2. f \in [Sessions -> Keys \cup {NoKey}]
  BY <1>1 DEF Memories
<1>3. server' = [server EXCEPT !.pc = "up", !.mem = n] 
  BY <1>1 DEF KeyForFails, Servers, Memories
<1> HIDE DEF f
<1>4. n \in Memories /\ n.keys = server.mem.keys \ {server.key} /\ n.tomb = server.mem.tomb
      /\ n.session = f
  BY <1>1, <1>2 DEF Memories
<1> HIDE DEF n
<1>5. server' \in Servers /\ server'.pc = "up" /\ server'.mem = n
  BY <1>1, <1>3, <1>4, Places DEF Servers
<1> QED
  BY <1>4, <1>5 DEF KeyForFails, f

\* KeyFor returns the key and the text is sealed under it.
LEMMA DoneFacts ==
  ASSUME Types, NEW c \in Nat, KeyForDone(c)
  PROVE  /\ server' \in Servers /\ server'.pc = "up"
         /\ server'.mem.keys = server.mem.keys /\ server'.mem.tomb = server.mem.tomb
         /\ server'.mem.session = server.mem.session
         /\ reqs' = [reqs EXCEPT ![server.req] = [stage |-> "sealed", key |-> server.key]]
<1> DEFINE n == [server.mem EXCEPT !.journalled = c]
<1>1. server \in Servers /\ server.mem \in Memories
  BY DEF Types, ServerTypes, Servers
<1>2. server' = [server EXCEPT !.pc = "up", !.mem = n]
  BY <1>1 DEF KeyForDone, Servers
<1>3. n \in Memories /\ n.keys = server.mem.keys /\ n.tomb = server.mem.tomb
      /\ n.session = server.mem.session
  BY <1>1 DEF Memories
<1> HIDE DEF n
<1>4. server' \in Servers /\ server'.pc = "up" /\ server'.mem = n
  BY <1>1, <1>2, <1>3, Places DEF Servers
<1> QED
  BY <1>3, <1>4 DEF KeyForDone, Sealed

\* A process that only goes from one place to another.
LEMMA GoFacts ==
  ASSUME Types
  PROVE  /\ \A c \in ServerPcs : server' = [server EXCEPT !.pc = c] =>
              /\ server' \in Servers /\ server'.pc = c /\ server'.mem = server.mem
              /\ server'.req = server.req /\ server'.key = server.key
         /\ \A c \in EraserPcs : eraser' = [eraser EXCEPT !.pc = c] =>
              /\ eraser' \in Erasers /\ eraser'.pc = c /\ eraser'.mem = eraser.mem
              /\ eraser'.fresh = eraser.fresh /\ eraser'.pending = eraser.pending
              /\ eraser'.old = eraser.old
BY DEF Types, ServerTypes, EraserTypes, Servers, Erasers

\* Every step keeps the types of the server and of the requests.
LEMMA ServerTypesStep ==
  ASSUME Types, [Next]_vars
  PROVE  ServerTypes'
<1> DEFINE R == [Requests -> [stage : Stages, key : Keys \cup {NoKey}]]
<1>1. /\ server \in Servers /\ reqs \in R
      /\ server.pc \in Busy => server.req \in Requests /\ server.key \in Keys
  BY DEF Types, ServerTypes
<1>2. \A c \in {"sealed", "stripped", "logged", "lost"} : c \in Stages
  BY Places
<1>3. ASSUME KeyForFails PROVE ServerTypes'
  <2>1. reqs' = [reqs EXCEPT ![server.req].stage = "stripped"]
    BY <1>3, FailsFacts
  <2>2. reqs' \in R
    BY <1>1, <1>2, <2>1
  <2> QED
    BY <1>3, <2>2, FailsFacts, Places DEF ServerTypes
<1>4. ASSUME NEW c \in Nat, KeyForDone(c), server.pc \in Busy PROVE ServerTypes'
  <2>1. reqs' = [reqs EXCEPT ![server.req] = [stage |-> "sealed", key |-> server.key]]
    BY <1>4, DoneFacts
  <2>2. reqs' \in R
    BY <1>1, <1>2, <1>4, <2>1
  <2> QED
    BY <1>4, <2>2, DoneFacts, Places DEF ServerTypes
<1>5. ASSUME NEW c \in ServerPcs, server' = [server EXCEPT !.pc = c], reqs' = reqs,
             c \in Busy => server.pc \in Busy
      PROVE  ServerTypes'
  BY <1>1, <1>5, GoFacts DEF ServerTypes
<1>6. ASSUME server' = Off, reqs' \in R PROVE ServerTypes'
  BY <1>6, OffType, EmptyFacts, Places DEF ServerTypes
<1>7. CASE ServerStart
  BY <1>5, <1>7, Places DEF ServerStart
<1>8. CASE ServerLoad
  <2>1. reqs' = reqs
    BY <1>8 DEF ServerLoad
  <2>2. CASE server' = server
    BY <1>1, <2>1, <2>2 DEF ServerTypes
  <2>3. CASE \E m \in Loads : server' = [server EXCEPT !.pc = "up", !.mem = m]
    <3>1. PICK m \in Loads : server' = [server EXCEPT !.pc = "up", !.mem = m]
      BY <2>3
    <3>2. m \in Memories
      BY LoadsFacts DEF Types
    <3>3. server' \in Servers /\ server'.pc = "up"
      BY <1>1, <3>1, <3>2, Places DEF Servers
    <3> QED
      BY <1>1, <2>1, <3>3, Places DEF ServerTypes
  <2>4. CASE server' = Off
    BY <1>1, <1>6, <2>1, <2>4
  <2> QED
    BY <1>8, <2>2, <2>3, <2>4 DEF ServerLoad
<1>9. ASSUME NEW r \in Requests, KeyForKnown(r) \/ LogRecord(r) PROVE ServerTypes'
  <2>1. server' = server
    BY <1>9 DEF KeyForKnown, LogRecord
  <2>2. KeyForKnown(r) => reqs' \in R
    <3>1. SessionOf[r] # NoSession => server.mem.session[SessionOf[r]] \in Keys \cup {NoKey}
      BY <1>1, KeystoreFacts DEF Servers, Memories
    <3> QED
      BY <1>1, <1>2, <3>1 DEF KeyForKnown, Sealed
  <2>3. LogRecord(r) => reqs' \in R
    BY <1>1, <1>2 DEF LogRecord
  <2> QED
    BY <1>1, <1>9, <2>1, <2>2, <2>3 DEF ServerTypes
<1>10. ASSUME NEW r \in Requests, KeyForNew(r) PROVE ServerTypes'
  <2>1. /\ server' \in Servers /\ server'.req = r /\ server'.key = minted + 1
        /\ minted + 1 \in Keys /\ reqs' = reqs
    BY <1>10, NewFacts
  <2> QED
    BY <1>1, <2>1 DEF ServerTypes
<1>11. CASE JournalWrite \/ CompactSave
  <2>1. CASE KeyForFails
    BY <1>3, <2>1
  <2>2. CASE ~KeyForFails
    <3>1. /\ reqs' = reqs /\ server.pc \in Busy
          /\ server' \in {[server EXCEPT !.pc = "sync"], [server EXCEPT !.pc = "unlink"]}
      BY <1>11, <2>2, Places DEF JournalWrite, CompactSave
    <3> QED
      BY <1>5, <3>1, Places
  <2> QED
    BY <2>1, <2>2
<1>12. CASE JournalSync \/ CompactUnlink
  <2>1. server.mem.journalled + 1 \in Nat /\ 0 \in Nat
    BY <1>1 DEF Servers, Memories
  <2> QED
    BY <1>3, <1>4, <1>12, <2>1, Places DEF JournalSync, CompactUnlink
<1>13. CASE ServerStop
  BY <1>1, <1>6, <1>13 DEF ServerStop
<1>14. CASE ServerKilled
  <2>1. reqs' \in R
    BY <1>1, <1>2, <1>14 DEF ServerKilled
  <2> QED
    BY <1>6, <1>14, <2>1 DEF ServerKilled
<1>15. CASE EraseNext \/ UNCHANGED vars
  <2>1. server' = server /\ reqs' = reqs
    BY <1>15 DEF EraseNext, EraseStart, EraseOpen, EraseScan, EraseSave, EraseUnlink, EraseReport,
       EraseRecord, EraseKilled, UnchangedServer, vars
  <2> QED
    BY <1>1, <2>1 DEF ServerTypes
<1> QED
  BY <1>7, <1>8, <1>9, <1>10, <1>11, <1>12, <1>13, <1>14, <1>15 DEF Next, ServerNext

-----------------------------------------------------------------------------
(* What the steps of the erase command change *)

\* The scan picks what is live and what was erased before.
LEMMA ScanFacts ==
  ASSUME Types, EraseScan
  PROVE  /\ eraser.pc = "scan" /\ eraser' \in Erasers
         /\ eraser'.pc = IF eraser'.fresh = {} THEN "erased" ELSE "save"
         /\ eraser'.fresh \subseteq eraser.mem.keys
         /\ eraser'.mem.keys = eraser.mem.keys \ eraser'.fresh
         /\ \A k \in Keys : eraser'.mem.tomb[k] =
                            IF k \in eraser'.fresh THEN "pending" ELSE eraser.mem.tomb[k]
         /\ \A k \in eraser'.pending : k \in eraser'.fresh \/ eraser.mem.tomb[k] = "pending"
<1> DEFINE m == eraser.mem
           selected == {r \in Requests : /\ reqs[r].stage = "logged"
                                         /\ eraser.sel \in {r, SessionOf[r]}}
           targets == ({reqs[r].key : r \in selected} \ {NoKey}) \cup
                      {k \in 1 .. minted : /\ owner[k] = eraser.sel
                                           /\ (k \in m.keys \/ m.tomb[k] # "none")}
           fresh == targets \cap m.keys
           old == {k \in targets \ fresh : m.tomb[k] # "none"}
           pending == fresh \cup {k \in old : m.tomb[k] = "pending"}
           n == [m EXCEPT !.keys = @ \ fresh,
                          !.tomb = [k \in Keys |-> IF k \in fresh THEN FreshTomb ELSE @[k]]]
           f == [k \in Keys |-> IF k \in fresh THEN "pending" ELSE m.tomb[k]]
           c == IF fresh = {} THEN "erased" ELSE "save"
<1>1. /\ eraser.pc = "scan"
      /\ eraser' = [eraser EXCEPT !.pc = c, !.fresh = fresh, !.old = old, !.pending = pending,
                                  !.mem = n]
  BY DEF EraseScan
<1>2. eraser \in Erasers /\ m \in Memories
  BY DEF Types, EraserTypes, Erasers
<1>3. targets \subseteq Keys
  <2>1. \A r \in Requests : reqs[r].key \in Keys \cup {NoKey}
    BY DEF Types, ServerTypes
  <2>2. 1 .. minted \subseteq Keys
    BY KeystoreAssumption DEF Types, FileTypes, Keys
  <2> QED
    BY <2>1, <2>2
<1>4. c \in EraserPcs
  BY Places
<1> HIDE DEF targets, c
<1>5. fresh \in SUBSET Keys /\ old \in SUBSET Keys /\ fresh \subseteq m.keys
  BY <1>3
<1>6. pending \in SUBSET Keys /\ \A k \in pending : k \in fresh \/ m.tomb[k] = "pending"
  BY <1>5
<1> HIDE DEF fresh, old, pending
<1>7. f \in [Keys -> TombStates]
  BY <1>2, KeystoreFacts DEF Memories
<1>8. n = [m EXCEPT !.keys = m.keys \ fresh, !.tomb = f]
  BY <1>2 DEF Memories, FreshTomb
<1> HIDE DEF f, m
<1>9. n \in Memories /\ n.keys = m.keys \ fresh /\ n.tomb = f
  BY <1>2, <1>7, <1>8 DEF Memories
<1> HIDE DEF n
<1>10. /\ eraser' \in Erasers /\ eraser'.pc = c /\ eraser'.fresh = fresh
       /\ eraser'.pending = pending /\ eraser'.mem = n
  BY <1>1, <1>2, <1>4, <1>5, <1>6, <1>9 DEF Erasers
<1>11. \A k \in Keys : f[k] = IF k \in fresh THEN "pending" ELSE m.tomb[k]
  BY DEF f
<1> QED
  BY <1>1, <1>5, <1>6, <1>9, <1>10, <1>11 DEF c, m

\* The event is in the chain and the copy in memory says so.
LEMMA RecordFacts ==
  ASSUME Types, EraseRecord
  PROVE  /\ eraser.pc = "recording" /\ eraser' \in Erasers /\ eraser'.pc = "marksave"
         /\ eraser'.mem.keys = eraser.mem.keys /\ eraser'.pending = eraser.pending
         /\ \A k \in Keys : eraser'.mem.tomb[k] =
                            IF k \in eraser.pending THEN "recorded" ELSE eraser.mem.tomb[k]
<1> DEFINE f == [k \in Keys |-> IF k \in eraser.pending THEN "recorded" ELSE eraser.mem.tomb[k]]
           n == [eraser.mem EXCEPT !.tomb = f]
<1>1. eraser \in Erasers /\ eraser.mem \in Memories
  BY DEF Types, EraserTypes, Erasers
<1>2. f \in [Keys -> TombStates]
  BY <1>1, KeystoreFacts DEF Memories
<1>3. eraser.pc = "recording" /\ eraser' = [eraser EXCEPT !.pc = "marksave", !.mem = n]
  BY <1>1 DEF EraseRecord, Erasers, Memories
<1>4. \A k \in Keys : f[k] = IF k \in eraser.pending THEN "recorded" ELSE eraser.mem.tomb[k]
  OBVIOUS
<1> HIDE DEF f
<1>5. n \in Memories /\ n.keys = eraser.mem.keys /\ n.tomb = f
  BY <1>1, <1>2 DEF Memories
<1> HIDE DEF n
<1>6. /\ eraser' \in Erasers /\ eraser'.pc = "marksave" /\ eraser'.mem = n
      /\ eraser'.pending = eraser.pending
  BY <1>1, <1>3, <1>5, Places DEF Erasers
<1> QED
  BY <1>3, <1>4, <1>5, <1>6

\* The read of the two files.
LEMMA OpenFacts ==
  ASSUME Types, EraseOpen
  PROVE  \/ eraser' = Idle
         \/ /\ eraser' \in Erasers /\ eraser'.pc = "scan" /\ Loadable
            /\ eraser'.mem.keys = LiveKeys /\ eraser'.mem.tomb = disk.tomb
<1>1. \/ eraser' = Idle
      \/ Loadable /\ \E m \in Loads : eraser' = [eraser EXCEPT !.pc = "scan", !.mem = m]
  BY DEF EraseOpen
<1>2. ASSUME NEW m \in Loads, eraser' = [eraser EXCEPT !.pc = "scan", !.mem = m]
      PROVE  /\ eraser' \in Erasers /\ eraser'.pc = "scan" /\ eraser'.mem = m
             /\ m.keys = LiveKeys /\ m.tomb = disk.tomb
  <2>1. m \in Memories /\ m.keys = LiveKeys /\ m.tomb = disk.tomb
    BY LoadsFacts DEF Types
  <2> QED
    BY <1>2, <2>1, Places DEF Types, EraserTypes, Erasers
<1> QED
  BY <1>1, <1>2

LEMMA EventFacts ==
  ASSUME Types
  PROVE  /\ EventAppended \in [Keys -> Nat]
         /\ \A k \in Keys : EventAppended[k] = IF k \in eraser.pending THEN events[k] + 1
                                              ELSE events[k]
BY DEF Types, EraserTypes, EventAppended

\* Every step keeps the types of the erase command and of what it reported.
LEMMA EraserTypesStep ==
  ASSUME Types, [Next]_vars
  PROVE  EraserTypes'
<1> DEFINE Counted == \A k \in Keys :
             /\ events[k] <= erasures
             /\ eraser.pc \notin {"off", "marksave", "markunlink"} => events[k] < erasures
<1>1. /\ eraser \in Erasers /\ events \in [Keys -> Nat] /\ erasures \in 0 .. MaxErasures
      /\ reported \in SUBSET Keys /\ documented \in SUBSET Keys /\ Counted
  BY DEF Types, EraserTypes
<1>2. erasures \in Nat /\ MaxErasures \in Nat /\ \A k \in Keys : events[k] \in Nat
  BY <1>1, KeystoreFacts
<1>3. eraser.fresh \in SUBSET Keys /\ eraser.pending \in SUBSET Keys /\ eraser.old \in SUBSET Keys
  BY <1>1 DEF Erasers
<1>4. ASSUME eraser' \in Erasers, UNCHANGED <<events, erasures>>, reported' \in SUBSET Keys,
             documented' \in SUBSET Keys,
             \/ eraser'.pc = "off"
             \/ eraser.pc \notin {"off", "marksave", "markunlink"}
             \/ eraser'.pc \in {"marksave", "markunlink"}
      PROVE  EraserTypes'
  BY <1>1, <1>4 DEF EraserTypes
<1>5. Idle \in Erasers /\ Idle.pc = "off"
  BY OffType, EmptyFacts
<1>6. CASE ServerNext \/ UNCHANGED vars
  <2>1. UnchangedErase
    BY <1>6 DEF ServerNext, ServerStart, ServerLoad, KeyForKnown, KeyForNew, LogRecord, JournalWrite,
       JournalSync, CompactSave, CompactUnlink, ServerStop, ServerKilled, UnchangedErase, vars
  <2> QED
    BY <1>1, <2>1 DEF UnchangedErase, EraserTypes
<1>7. ASSUME NEW sel \in Sessions \cup Requests, EraseStart(sel) PROVE EraserTypes'
  <2>1. /\ eraser' = [Idle EXCEPT !.pc = "open", !.sel = sel]
        /\ erasures < MaxErasures /\ erasures' = erasures + 1
        /\ UNCHANGED <<events, reported, documented>>
    BY <1>7 DEF EraseStart
  <2>2. eraser' \in Erasers
    <3>1. "open" \in EraserPcs /\ sel \in Sessions \cup Requests \cup {NoSession}
      BY <1>7, Places
    <3> QED
      BY <1>5, <2>1, <3>1 DEF Erasers
  <2>3. erasures' \in 0 .. MaxErasures /\ \A k \in Keys : events[k] < erasures'
    BY <1>1, <1>2, <2>1
  <2>4. \A k \in Keys : events'[k] < erasures' /\ events'[k] <= erasures'
    BY <1>2, <2>1, <2>3
  <2> QED
    BY <1>1, <2>1, <2>2, <2>3, <2>4 DEF EraserTypes
<1>8. CASE EraseOpen
  BY <1>1, <1>4, <1>5, <1>8, OpenFacts DEF EraseOpen
<1>9. CASE EraseScan
  BY <1>1, <1>4, <1>9, ScanFacts DEF EraseScan
<1>10. CASE EraseSave
  <2>1. /\ eraser' \in {Idle, [eraser EXCEPT !.pc = IF @ = "save" THEN "unlink" ELSE "markunlink"]}
        /\ eraser.pc \in {"save", "marksave"}
        /\ UNCHANGED <<events, erasures, reported, documented>>
    BY <1>10 DEF EraseSave
  <2>2. \/ eraser' = Idle
        \/ eraser' \in Erasers /\ eraser'.pc = IF eraser.pc = "save" THEN "unlink" ELSE "markunlink"
    BY <1>1, <2>1, Places DEF Erasers
  <2> QED
    BY <1>1, <1>4, <1>5, <2>1, <2>2
<1>11. CASE EraseUnlink
  <2>1. /\ UNCHANGED <<events, erasures>>
        /\ reported' \in SUBSET Keys /\ documented' \in SUBSET Keys
        /\ \/ eraser' = Idle
           \/ eraser.pc = "unlink" /\ eraser' = [eraser EXCEPT !.pc = "erased"]
    BY <1>1, <1>3, <1>11 DEF EraseUnlink
  <2>2. \/ eraser' = Idle
        \/ eraser.pc = "unlink" /\ eraser' \in Erasers
    BY <2>1, GoFacts, Places
  <2> QED
    BY <1>4, <1>5, <2>1, <2>2
<1>12. CASE EraseReport
  <2>1. /\ UNCHANGED <<events, erasures, documented>> /\ reported' \in SUBSET Keys
        /\ eraser.pc = "erased" /\ eraser' \in {Idle, [eraser EXCEPT !.pc = "recording"]}
    BY <1>1, <1>3, <1>12 DEF EraseReport
  <2>2. eraser' \in Erasers
    BY <1>5, <2>1, GoFacts, Places
  <2> QED
    BY <1>1, <1>4, <2>1, <2>2
<1>13. CASE EraseRecord
  <2>1. /\ eraser.pc = "recording" /\ eraser' \in Erasers /\ eraser'.pc = "marksave"
        /\ events' \in [Keys -> Nat] /\ UNCHANGED <<erasures, reported, documented>>
        /\ \A k \in Keys : events'[k] = events[k] + 1 \/ events'[k] = events[k]
    BY <1>13, RecordFacts, EventFacts DEF EraseRecord
  <2>2. \A k \in Keys : events'[k] <= erasures
    BY <1>1, <1>2, <2>1
  <2> QED
    BY <1>1, <2>1, <2>2 DEF EraserTypes
<1>14. CASE EraseKilled
  <2>1. /\ eraser' \in Erasers /\ eraser'.pc = "off" /\ UNCHANGED <<erasures, reported, documented>>
        /\ events' = events \/ (eraser.pc = "recording" /\ events' = EventAppended)
    BY <1>5, <1>14 DEF EraseKilled
  <2>2. \A k \in Keys : /\ events'[k] <= erasures
                        /\ events' \in [Keys -> Nat]
    <3>1. CASE events' = events
      BY <1>1, <3>1
    <3>2. CASE eraser.pc = "recording" /\ events' = EventAppended
      BY <1>1, <1>2, <3>2, EventFacts
    <3> QED
      BY <2>1, <3>1, <3>2
  <2>3. events' \in [Keys -> Nat]
    BY <1>1, <2>1, EventFacts
  <2> QED
    BY <1>1, <2>1, <2>2, <2>3 DEF EraserTypes
<1> QED
  BY <1>6, <1>7, <1>8, <1>9, <1>10, <1>11, <1>12, <1>13, <1>14 DEF Next, EraseNext

LEMMA TypesInit == Init => Types
<1> SUFFICES ASSUME Init PROVE Types
  OBVIOUS
<1>1. [k \in Keys |-> "none"] \in [Keys -> TombStates] /\ 0 \in 0 .. MaxErasures /\ 0 \in 0 .. MaxKeys
  BY KeystoreFacts
<1>2. FileTypes
  <2>1. <<>> \in Seq(Keys \cup {Torn})
    OBVIOUS
  <2> QED
    BY <1>1, <2>1 DEF Init, FileTypes
<1>3. ServerTypes
  BY OffType, EmptyFacts, Places DEF Init, ServerTypes
<1>4. EraserTypes
  BY <1>1, OffType, EmptyFacts DEF Init, EraserTypes
<1> QED
  BY <1>2, <1>3, <1>4 DEF Types

LEMMA TypesStep == Types /\ [Next]_vars => Types'
BY FileTypesStep, ServerTypesStep, EraserTypesStep DEF Types

\* Every variable holds a value of its kind, under every fault, a server that
\* starts beside the erase command and half a journal line included; a run of
\* erase appends at most one event.
THEOREM TypeCorrect == Spec => []TypeOK
<1>1. ASSUME Types PROVE TypeOK
  <2>1. server \in Servers /\ eraser \in Erasers
    BY <1>1 DEF Types, ServerTypes, EraserTypes
  <2>2. /\ server.pc \in ServerPcs /\ server.mem.keys \subseteq Keys
        /\ server.mem.tomb \in [Keys -> TombStates]
        /\ server.mem.session \in [Sessions -> Keys \cup {NoKey}]
        /\ eraser.pc \in EraserPcs /\ eraser.mem.keys \subseteq Keys
        /\ eraser.mem.tomb \in [Keys -> TombStates]
    BY <2>1 DEF Servers, Erasers, Memories
  <2>3. \A r \in Requests : reqs[r].stage \in Stages /\ reqs[r].key \in Keys \cup {NoKey}
    BY <1>1 DEF Types, ServerTypes
  <2>4. events \in [Keys -> 0 .. MaxErasures]
    <3>1. \A k \in Keys : events[k] \in 0 .. MaxErasures
      BY <1>1, KeystoreFacts DEF Types, EraserTypes
    <3> QED
      BY <1>1, <3>1 DEF Types, EraserTypes
  <2>5. /\ disk.made \in BOOLEAN /\ disk.keys \subseteq Keys /\ disk.tomb \in [Keys -> TombStates]
        /\ owner \in [Keys -> Sessions \cup {NoSession}] /\ minted \in 0 .. MaxKeys
        /\ lock \in {"free", "server", "eraser"} /\ Lines \subseteq Keys \cup {Torn}
        /\ reported \subseteq Keys /\ documented \subseteq Keys
    BY <1>1, LinesType DEF Types, FileTypes, EraserTypes
  <2> QED
    BY <2>2, <2>3, <2>4, <2>5 DEF TypeOK, ServerPcs, Serving, Busy, EraserPcs, Erasing, Folding,
       Stages
<1> QED
  BY <1>1, TypesInit, TypesStep, PTL DEF Spec

-----------------------------------------------------------------------------
(* The chain knows what the keystore says it knows *)

\* Every step keeps the tombstones true to the chain, under every fault.
LEMMA RecordedStep ==
  ASSUME Types, RecordedInv, [Next]_vars
  PROVE  RecordedInv'
<1> DEFINE Told(t, k) == t[k] = "recorded" => events[k] > 0
<1>1. ASSUME NEW k \in Keys
      PROVE  /\ events[k] \in Nat /\ Told(disk.tomb, k) /\ Told(server.mem.tomb, k)
             /\ Told(eraser.mem.tomb, k)
  BY DEF Types, EraserTypes, RecordedInv
<1>2. /\ disk.tomb \in [Keys -> TombStates] /\ server.mem \in Memories /\ eraser.mem \in Memories
  BY DEF Types, FileTypes, ServerTypes, EraserTypes, Servers, Erasers
<1>3. \A k \in Keys : /\ Off.mem.tomb[k] # "recorded" /\ Idle.mem.tomb[k] # "recorded"
                      /\ SavedFrom(Empty).tomb[k] # "recorded"
  <2>1. SavedFrom(Empty).tomb = Empty.tomb
    BY EmptyFacts, SavedType
  <2> QED
    BY <2>1, EmptyFacts
<1>4. ASSUME \A k \in Keys : events'[k] \in Nat /\ events'[k] >= events[k],
             \A k \in Keys : /\ disk'.tomb[k] = "recorded" => events'[k] > 0
                             /\ server'.mem.tomb[k] = "recorded" => events'[k] > 0
                             /\ eraser'.mem.tomb[k] = "recorded" => events'[k] > 0
      PROVE  RecordedInv'
  BY <1>4 DEF RecordedInv
<1>5. CASE ServerNext \/ UNCHANGED vars
  <2>1. events' = events /\ eraser' = eraser
    BY <1>5 DEF ServerNext, ServerStart, ServerLoad, KeyForKnown, KeyForNew, LogRecord, JournalWrite,
       JournalSync, CompactSave, CompactUnlink, ServerStop, ServerKilled, UnchangedErase, vars
  <2>2. disk'.tomb \in {disk.tomb, server.mem.tomb, SavedFrom(Empty).tomb}
    <3>1. SavedFrom(server.mem).tomb = server.mem.tomb
      BY <1>2, SavedType
    <3> QED
      BY <1>5, <3>1 DEF ServerNext, ServerStart, ServerLoad, KeyForKnown, KeyForNew, LogRecord,
         JournalWrite, JournalSync, CompactSave, CompactUnlink, ServerStop, ServerKilled,
         UnchangedFiles, vars
  <2>3. server'.mem.tomb \in {disk.tomb, server.mem.tomb, Off.mem.tomb}
    <3>1. CASE ServerLoad
      <4>1. \/ server' = server \/ server' = Off
            \/ \E m \in Loads : server' = [server EXCEPT !.pc = "up", !.mem = m]
        BY <3>1 DEF ServerLoad
      <4>2. ASSUME NEW m \in Loads, server' = [server EXCEPT !.pc = "up", !.mem = m]
            PROVE  server'.mem.tomb = disk.tomb
        BY <4>2, LoadsFacts DEF Types, ServerTypes, Servers
      <4> QED
        BY <4>1, <4>2
    <3>2. ASSUME NEW r \in Requests, KeyForNew(r) PROVE server'.mem.tomb = server.mem.tomb
      BY <3>2, NewFacts
    <3>3. KeyForFails => server'.mem.tomb = server.mem.tomb
      BY FailsFacts
    <3>4. \A c \in Nat : KeyForDone(c) => server'.mem.tomb = server.mem.tomb
      BY DoneFacts
    <3>5. server.mem.journalled + 1 \in Nat /\ 0 \in Nat
      BY <1>2 DEF Memories
    <3>6. CASE JournalWrite \/ JournalSync \/ CompactSave \/ CompactUnlink
      BY <3>3, <3>4, <3>5, <3>6, GoFacts, Places DEF JournalWrite, JournalSync, CompactSave,
         CompactUnlink
    <3>7. CASE ServerStart \/ (\E r \in Requests : KeyForKnown(r) \/ LogRecord(r)) \/ UNCHANGED vars
      BY <3>7, GoFacts, Places DEF ServerStart, KeyForKnown, LogRecord, vars
    <3>8. CASE ServerStop \/ ServerKilled
      BY <3>8 DEF ServerStop, ServerKilled
    <3> QED
      BY <1>5, <3>1, <3>2, <3>6, <3>7, <3>8 DEF ServerNext
  <2> QED
    BY <1>1, <1>3, <1>4, <2>1, <2>2, <2>3
<1>6. CASE EraseNext
  <2>1. server' = server
    BY <1>6 DEF EraseNext, EraseStart, EraseOpen, EraseScan, EraseSave, EraseUnlink, EraseReport,
       EraseRecord, EraseKilled, UnchangedServer
  <2>2. disk'.tomb \in {disk.tomb, eraser.mem.tomb}
    <3>1. SavedFrom(eraser.mem).tomb = eraser.mem.tomb
      BY <1>2, SavedType
    <3> QED
      BY <1>6, <3>1 DEF EraseNext, EraseStart, EraseOpen, EraseScan, EraseSave, EraseUnlink,
         EraseReport, EraseRecord, EraseKilled, UnchangedFiles
  <2>3. ASSUME eraser'.mem.tomb \in {disk.tomb, eraser.mem.tomb, Idle.mem.tomb}, events' = events
        PROVE  RecordedInv'
    BY <1>1, <1>3, <1>4, <2>1, <2>2, <2>3
  <2>4. CASE \/ \E sel \in Sessions \cup Requests : EraseStart(sel)
             \/ EraseSave \/ EraseUnlink \/ EraseReport
    <3>1. events' = events
      BY <2>4 DEF EraseStart, EraseSave, EraseUnlink, EraseReport
    <3>2. eraser'.mem.tomb \in {eraser.mem.tomb, Idle.mem.tomb}
      <4>1. ASSUME NEW sel \in Sessions \cup Requests, EraseStart(sel)
            PROVE  eraser'.mem = Idle.mem
        BY <4>1, OffType DEF EraseStart, Erasers
      <4>2. EraseSave \/ EraseUnlink \/ EraseReport =>
              eraser' = Idle \/ \E c \in EraserPcs : eraser' = [eraser EXCEPT !.pc = c]
        BY Places DEF EraseSave, EraseUnlink, EraseReport
      <4> QED
        BY <2>4, <4>1, <4>2, GoFacts
    <3> QED
      BY <2>3, <3>1, <3>2
  <2>5. CASE EraseOpen
    BY <2>3, <2>5, OpenFacts DEF EraseOpen
  <2>6. CASE EraseScan
    <3>1. \A k \in Keys : eraser'.mem.tomb[k] = "recorded" => eraser.mem.tomb[k] = "recorded"
      BY <2>6, ScanFacts
    <3>2. events' = events
      BY <2>6 DEF EraseScan
    <3> QED
      BY <1>1, <1>4, <2>1, <2>2, <3>1, <3>2
  <2>7. CASE EraseRecord
    <3>1. \A k \in Keys : /\ eraser'.mem.tomb[k] = "recorded" =>
                                k \in eraser.pending \/ eraser.mem.tomb[k] = "recorded"
                         /\ events'[k] = IF k \in eraser.pending THEN events[k] + 1 ELSE events[k]
      BY <2>7, RecordFacts, EventFacts DEF EraseRecord
    <3>2. \A k \in Keys : /\ events'[k] \in Nat /\ events'[k] >= events[k]
                          /\ k \in eraser.pending => events'[k] > 0
      BY <1>1, <3>1
    <3>3. disk' = disk
      BY <2>7 DEF EraseRecord, UnchangedFiles
    <3>4. \A k \in Keys : /\ disk'.tomb[k] = "recorded" => events'[k] > 0
                          /\ server'.mem.tomb[k] = "recorded" => events'[k] > 0
                          /\ eraser'.mem.tomb[k] = "recorded" => events'[k] > 0
      BY <1>1, <2>1, <3>1, <3>2, <3>3
    <3> QED
      BY <1>4, <3>2, <3>4
  <2>8. CASE EraseKilled
    <3>1. /\ eraser' = Idle /\ disk' = disk
          /\ \A k \in Keys : events'[k] = events[k] \/ events'[k] = events[k] + 1
      BY <2>8, EventFacts DEF EraseKilled, UnchangedFiles
    <3>2. \A k \in Keys : events'[k] \in Nat /\ events'[k] >= events[k]
      BY <1>1, <3>1
    <3>3. \A k \in Keys : /\ disk'.tomb[k] = "recorded" => events'[k] > 0
                          /\ server'.mem.tomb[k] = "recorded" => events'[k] > 0
                          /\ eraser'.mem.tomb[k] = "recorded" => events'[k] > 0
      BY <1>1, <1>3, <2>1, <3>1, <3>2
    <3> QED
      BY <1>4, <3>2, <3>3
  <2> QED
    BY <1>6, <2>4, <2>5, <2>6, <2>7, <2>8 DEF EraseNext
<1> QED
  BY <1>5, <1>6 DEF Next

\* The keystore says an erasure is in the chain only when it is, across any
\* number of runs that died or failed half-way and whatever else went wrong
\* (erase.go records before it marks).
THEOREM RecordedIsTrue == Spec => []RecordedIsInChain
<1>1. Init => RecordedInv
  BY EmptyFacts DEF Init, RecordedInv
<1>2. Types /\ RecordedInv /\ [Next]_vars => RecordedInv'
  BY RecordedStep
<1>3. RecordedInv => RecordedIsInChain
  BY DEF RecordedInv, RecordedIsInChain
<1> QED
  BY <1>1, <1>2, <1>3, TypesInit, TypesStep, PTL DEF Spec

-----------------------------------------------------------------------------
(* Server and erase command take turns *)

LEMMA AloneStep ==
  ASSUME "overlap" \notin Faults, Types, AloneInv, [Next]_vars
  PROVE  AloneInv'
<1>1. CASE ServerStart
  <2>1. eraser' = eraser /\ eraser.pc = "off" /\ lock' = "server"
    BY <1>1 DEF ServerStart, UnchangedErase
  <2> QED
    BY <2>1 DEF AloneInv
<1>2. CASE ServerNext /\ ~ServerStart
  <2>1. eraser' = eraser /\ server.pc # "off"
    BY <1>2 DEF ServerNext, ServerLoad, KeyForKnown, KeyForNew, LogRecord, JournalWrite, JournalSync,
       CompactSave, CompactUnlink, ServerStop, ServerKilled, UnchangedErase
  <2>2. lock' = lock \/ (server' = Off /\ lock' = "free")
    BY <1>2 DEF ServerNext, ServerLoad, KeyForKnown, KeyForNew, LogRecord, JournalWrite, JournalSync,
       CompactSave, CompactUnlink, ServerStop, ServerKilled
  <2> QED
    BY <2>1, <2>2, EmptyFacts DEF AloneInv
<1>3. ASSUME NEW sel \in Sessions \cup Requests, EraseStart(sel) PROVE AloneInv'
  <2>1. server' = server /\ lock = "free"
    BY <1>3 DEF EraseStart, UnchangedServer
  <2> QED
    BY <2>1 DEF AloneInv
<1>4. CASE \/ EraseOpen \/ EraseScan \/ EraseSave \/ EraseUnlink \/ EraseReport
           \/ EraseRecord \/ EraseKilled
  <2>1. server' = server /\ eraser.pc # "off"
    BY <1>4 DEF EraseOpen, EraseScan, EraseSave, EraseUnlink, EraseReport, EraseRecord, EraseKilled,
       UnchangedServer
  <2> QED
    BY <2>1 DEF AloneInv
<1>5. CASE UNCHANGED vars
  BY <1>5 DEF vars, AloneInv
<1> QED
  BY <1>1, <1>2, <1>3, <1>4, <1>5 DEF Next, EraseNext

-----------------------------------------------------------------------------
(* What a step does to the keys and tombstones *)

\* The server reads the files, mints a key, keeps it or forgets it; it never
\* changes a tombstone in its memory.
LEMMA ServerEffect ==
  ASSUME Types, ServerNext
  PROVE  /\ UnchangedErase
         /\ \/ disk' = disk
            \/ /\ ~disk.made /\ server' = server /\ server.pc = "starting"
               /\ disk'.made /\ disk'.keys = {} /\ \A k \in Keys : disk'.tomb[k] = "none"
            \/ /\ server.pc = "save" /\ disk'.made
               /\ disk'.keys = server.mem.keys /\ disk'.tomb = server.mem.tomb
         /\ Lines' \subseteq Lines \cup {Torn} \cup {k \in {server.key} : server.pc = "append"}
         /\ \/ server'.pc \notin Serving /\ minted' = minted
            \/ /\ server'.pc = "up" /\ server'.mem.keys = LiveKeys /\ server'.mem.tomb = disk.tomb
               /\ \A s \in Sessions : server'.mem.session[s] \in LiveKeys \cup {NoKey}
               /\ disk' = disk /\ minted' = minted
            \/ /\ server.pc \in Serving /\ server'.mem = server.mem /\ server'.key = server.key
               /\ server'.pc \in Busy => server.pc \in Busy
               /\ minted' = minted
            \/ /\ server.pc = "up" /\ server'.pc \in Busy /\ minted' = minted + 1
               /\ server'.key = minted + 1 /\ minted + 1 \in Keys
               /\ server'.mem.tomb = server.mem.tomb
               /\ server'.mem.keys = server.mem.keys \cup {minted + 1}
               /\ \A s \in Sessions : server'.mem.session[s] \in {server.mem.session[s], minted + 1}
            \/ /\ server.pc \in Busy /\ server'.pc = "up" /\ minted' = minted
               /\ server'.mem.tomb = server.mem.tomb
               /\ \/ /\ server'.mem.keys = server.mem.keys
                     /\ server'.mem.session = server.mem.session
                  \/ /\ server'.mem.keys = server.mem.keys \ {server.key}
                     /\ \A s \in Sessions : server'.mem.session[s] =
                          IF server.mem.session[s] = server.key THEN NoKey
                          ELSE server.mem.session[s]
         /\ \A r \in Requests :
              \/ reqs'[r].key \in {reqs[r].key, NoKey}
              \/ server.pc \in Busy /\ reqs'[r].key = server.key
              \/ /\ server.pc = "up" /\ SessionOf[r] \in Sessions
                 /\ reqs'[r].key = server.mem.session[SessionOf[r]]
<1>1. UnchangedErase
  BY DEF ServerNext, ServerStart, ServerLoad, KeyForKnown, KeyForNew, LogRecord, JournalWrite,
     JournalSync, CompactSave, CompactUnlink, ServerStop, ServerKilled
<1>2. /\ server \in Servers /\ server.mem \in Memories /\ FileTypes
      /\ server.pc \in Busy => server.req \in Requests /\ server.key \in Keys
      /\ reqs \in [Requests -> [stage : Stages, key : Keys \cup {NoKey}]]
      /\ server.mem.journalled + 1 \in Nat /\ 0 \in Nat
  BY DEF Types, ServerTypes, Servers, Memories
<1>3. journal' = journal => Lines' = Lines
  BY DEF Lines
<1>4. CASE ServerStart
  BY <1>1, <1>3, <1>4, GoFacts, Places DEF ServerStart, UnchangedFiles
<1>5. CASE ServerLoad
  <2>1. reqs' = reqs /\ journal' = journal /\ minted' = minted /\ server.pc = "starting"
    BY <1>5 DEF ServerLoad
  <2>2. CASE ~disk.made /\ disk' = SavedFrom(Empty) /\ server' = server
    <3>1. disk'.made /\ disk'.keys = {} /\ \A k \in Keys : disk'.tomb[k] = "none"
      BY <2>2, EmptyFacts DEF SavedFrom
    <3> QED
      BY <1>1, <1>3, <2>1, <2>2, <3>1, Places
  <2>3. ASSUME NEW m \in Loads, server' = [server EXCEPT !.pc = "up", !.mem = m], disk' = disk
        PROVE  /\ server'.pc = "up" /\ server'.mem.keys = LiveKeys /\ server'.mem.tomb = disk.tomb
               /\ \A s \in Sessions : server'.mem.session[s] \in LiveKeys \cup {NoKey}
    <3>1. server'.pc = "up" /\ server'.mem = m
      BY <1>2, <2>3 DEF Servers
    <3> QED
      BY <1>2, <3>1, LoadsFacts
  <2>4. \/ ~disk.made /\ disk' = SavedFrom(Empty) /\ server' = server
        \/ disk' = disk /\ \E m \in Loads : server' = [server EXCEPT !.pc = "up", !.mem = m]
        \/ disk' = disk /\ server' = Off
    BY <1>5 DEF ServerLoad
  <2>5. server' = Off => server'.pc \notin Serving
    BY EmptyFacts, Places
  <2> QED
    BY <1>1, <1>3, <2>1, <2>2, <2>3, <2>4, <2>5
<1>6. ASSUME NEW r \in Requests, KeyForKnown(r)
      PROVE  /\ UNCHANGED <<disk, journal, server, minted>> /\ server.pc = "up"
             /\ \A q \in Requests :
                  \/ reqs'[q].key = reqs[q].key
                  \/ /\ SessionOf[q] \in Sessions
                     /\ reqs'[q].key = server.mem.session[SessionOf[q]]
  <2>1. SessionOf[r] \in Sessions
    BY <1>6, KeystoreFacts DEF KeyForKnown
  <2> QED
    BY <1>2, <1>6, <2>1 DEF KeyForKnown, Sealed, UnchangedFiles
<1>7. ASSUME NEW r \in Requests, LogRecord(r)
      PROVE  /\ UNCHANGED <<disk, journal, server, minted>> /\ server.pc \in Serving
             /\ \A q \in Requests : reqs'[q].key \in {reqs[q].key, NoKey}
  <2>1. server.pc \in Serving
    BY <1>2, <1>7 DEF LogRecord, Servers, ServerPcs
  <2> QED
    BY <1>2, <1>7, <2>1 DEF LogRecord, UnchangedFiles
<1>8. CASE \E r \in Requests : KeyForKnown(r) \/ LogRecord(r)
  BY <1>1, <1>3, <1>6, <1>7, <1>8, Places
<1>9. CASE \E r \in Requests : KeyForNew(r)
  <2>1. PICK r \in Requests : KeyForNew(r)
    BY <1>9
  <2> QED
    BY <1>1, <1>3, <2>1, NewFacts, Places
<1>10. ASSUME KeyForFails, server.pc \in Busy, minted' = minted
       PROVE  /\ server'.pc = "up" /\ server'.mem.tomb = server.mem.tomb
              /\ server'.mem.keys = server.mem.keys \ {server.key}
              /\ \A s \in Sessions : server'.mem.session[s] =
                   IF server.mem.session[s] = server.key THEN NoKey ELSE server.mem.session[s]
              /\ \A r \in Requests : reqs'[r].key = reqs[r].key
  BY <1>2, <1>10, FailsFacts
<1>11. ASSUME NEW c \in Nat, KeyForDone(c), server.pc \in Busy, minted' = minted
       PROVE  /\ server'.pc = "up" /\ server'.mem.tomb = server.mem.tomb
              /\ server'.mem.keys = server.mem.keys /\ server'.mem.session = server.mem.session
              /\ \A r \in Requests : reqs'[r].key \in {reqs[r].key, server.key}
  BY <1>2, <1>11, DoneFacts
<1>12. CASE JournalWrite
  <2>1. server.pc = "append" /\ disk' = disk /\ minted' = minted
    BY <1>12 DEF JournalWrite
  <2>2. Lines' \subseteq Lines \cup {Torn} \cup {server.key}
    <3>1. journal' \in {journal, WithLine(server.key), WithLine(Torn)}
      BY <1>12 DEF JournalWrite
    <3> QED
      BY <1>2, <2>1, <3>1, JournalFacts, Places DEF Lines
  <2>3. KeyForFails \/ (server' = [server EXCEPT !.pc = "sync"] /\ reqs' = reqs)
    BY <1>12 DEF JournalWrite
  <2>4. server' = [server EXCEPT !.pc = "sync"] =>
          server'.pc = "sync" /\ server'.mem = server.mem /\ server'.key = server.key
    BY GoFacts, Places
  <2> QED
    BY <1>1, <1>10, <2>1, <2>2, <2>3, <2>4, Places
<1>13. CASE CompactSave
  <2>1. server.pc = "save" /\ journal' = journal /\ minted' = minted
    BY <1>13 DEF CompactSave
  <2>2. \/ KeyForFails /\ disk' = disk
        \/ /\ disk' = SavedFrom(server.mem) /\ reqs' = reqs
           /\ server' = [server EXCEPT !.pc = "unlink"]
    BY <1>13 DEF CompactSave
  <2>3. server' = [server EXCEPT !.pc = "unlink"] =>
          server'.pc = "unlink" /\ server'.mem = server.mem /\ server'.key = server.key
    BY GoFacts, Places
  <2>4. disk' = SavedFrom(server.mem) =>
          disk'.made /\ disk'.keys = server.mem.keys /\ disk'.tomb = server.mem.tomb
    BY DEF SavedFrom
  <2> QED
    BY <1>1, <1>3, <1>10, <2>1, <2>2, <2>3, <2>4, Places
<1>14. CASE JournalSync \/ CompactUnlink
  <2>1. server.pc \in Busy /\ disk' = disk /\ minted' = minted
    BY <1>14, Places DEF JournalSync, CompactUnlink, UnchangedFiles
  <2>2. Lines' \subseteq Lines
    BY <1>2, <1>3, <1>14, JournalFacts DEF JournalSync, CompactUnlink, UnchangedFiles, Lines
  <2>3. KeyForFails \/ \E c \in Nat : KeyForDone(c)
    BY <1>2, <1>14 DEF JournalSync, CompactUnlink
  <2> QED
    BY <1>1, <1>10, <1>11, <2>1, <2>2, <2>3, Places
<1>15. CASE ServerStop \/ ServerKilled
  <2>1. server' = Off /\ disk' = disk /\ minted' = minted
    BY <1>15 DEF ServerStop, ServerKilled, UnchangedFiles
  <2>2. server'.pc \notin Serving
    BY <2>1, EmptyFacts, Places
  <2>3. Lines' \subseteq Lines \cup {Torn}
    <3>1. journal' \in {journal, Front(journal), Append(Front(journal), Torn)}
      BY <1>15 DEF ServerStop, ServerKilled, UnchangedFiles
    <3> QED
      BY <1>2, <3>1, JournalFacts DEF Lines
  <2>4. \A r \in Requests : reqs'[r].key \in {reqs[r].key, NoKey}
    BY <1>2, <1>15 DEF ServerStop, ServerKilled
  <2> QED
    BY <1>1, <2>1, <2>2, <2>3, <2>4
<1> QED
  BY <1>4, <1>5, <1>8, <1>9, <1>12, <1>13, <1>14, <1>15 DEF ServerNext

\* The erase command reads the files, turns keys into tombstones in its memory,
\* saves that, folds the journal away, and reports what it saved.
LEMMA EraseEffect ==
  ASSUME Types, EraseNext
  PROVE  /\ UnchangedServer
         /\ \/ disk' = disk /\ (eraser'.pc \in Folding => eraser.pc \in Folding)
            \/ /\ eraser.pc \in {"save", "marksave"} /\ disk'.made /\ journal' = journal
               /\ disk'.keys = eraser.mem.keys /\ disk'.tomb = eraser.mem.tomb
         /\ Lines' = Lines \/ (Lines' = {} /\ eraser.pc \in Folding /\ disk' = disk)
         /\ \/ eraser'.pc \notin Erasing
            \/ /\ eraser'.pc = "scan" /\ UNCHANGED <<disk, journal>> /\ Loadable
               /\ eraser'.mem.keys = LiveKeys /\ eraser'.mem.tomb = disk.tomb
            \/ /\ eraser.pc = "scan" /\ eraser'.pc \in {"save", "erased"}
               /\ UNCHANGED <<disk, journal>> /\ eraser'.fresh \subseteq eraser.mem.keys
               /\ eraser'.mem.keys = eraser.mem.keys \ eraser'.fresh
               /\ \A k \in Keys : eraser'.mem.tomb[k] =
                    IF k \in eraser'.fresh THEN "pending" ELSE eraser.mem.tomb[k]
               /\ \A k \in eraser'.pending : eraser'.mem.tomb[k] # "none"
            \/ /\ eraser.pc \in Erasing \ {"scan"} /\ eraser'.mem = eraser.mem
               /\ eraser'.pending = eraser.pending
               /\ eraser'.pc \in {"marksave", "markunlink"} => eraser.pc = "marksave"
               /\ eraser'.pc \in Folding => disk'.keys = eraser.mem.keys /\ disk'.tomb = eraser.mem.tomb
            \/ /\ eraser.pc = "recording" /\ eraser'.pc = "marksave" /\ UNCHANGED <<disk, journal>>
               /\ eraser'.mem.keys = eraser.mem.keys /\ eraser'.pending = eraser.pending
               /\ \A k \in Keys : eraser'.mem.tomb[k] =
                    IF k \in eraser.pending THEN "recorded" ELSE eraser.mem.tomb[k]
         /\ \/ documented' = documented
            \/ /\ eraser.pc = "markunlink" /\ documented' = documented \cup eraser.pending
               /\ disk' = disk /\ Lines' = {}
<1>1. UnchangedServer
  BY DEF EraseNext, EraseStart, EraseOpen, EraseScan, EraseSave, EraseUnlink, EraseReport,
     EraseRecord, EraseKilled
<1>2. eraser \in Erasers /\ FileTypes /\ Idle.pc \notin Erasing
  BY EmptyFacts, Places DEF Types, EraserTypes
<1>3. journal' = journal => Lines' = Lines
  BY DEF Lines
<1>4. CASE (\E sel \in Sessions \cup Requests : EraseStart(sel)) \/ EraseKilled
  <2>1. UNCHANGED <<disk, journal, documented>>
    BY <1>4 DEF EraseStart, EraseKilled, UnchangedFiles
  <2>2. eraser'.pc \in {"off", "open"}
    <3>1. ASSUME NEW sel \in Sessions \cup Requests, EraseStart(sel) PROVE eraser'.pc = "open"
      BY <3>1, OffType DEF EraseStart, Erasers
    <3> QED
      BY <1>4, <3>1, EmptyFacts DEF EraseKilled
  <2> QED
    BY <1>1, <1>3, <2>1, <2>2, Places
<1>5. CASE EraseOpen
  <2>1. UNCHANGED <<disk, journal, documented>>
    BY <1>5 DEF EraseOpen, UnchangedFiles
  <2> QED
    BY <1>1, <1>2, <1>3, <1>5, <2>1, OpenFacts, Places
<1>6. CASE EraseScan
  <2>1. UNCHANGED <<disk, journal, documented>>
    BY <1>6 DEF EraseScan, UnchangedFiles
  <2>2. eraser'.pc \in {"save", "erased"}
    BY <1>6, ScanFacts
  <2>3. eraser' \in Erasers
    BY <1>6, ScanFacts
  <2>4. \A k \in eraser'.pending : eraser'.mem.tomb[k] # "none"
    <3>1. eraser'.pending \subseteq Keys
      BY <2>3 DEF Erasers
    <3> QED
      BY <1>6, <3>1, ScanFacts
  <2> QED
    BY <1>1, <1>3, <1>6, <2>1, <2>2, <2>4, ScanFacts, Places
<1>7. CASE EraseSave
  <2>1. eraser.pc \in {"save", "marksave"} /\ UNCHANGED <<journal, documented>>
    BY <1>7 DEF EraseSave
  <2>2. \/ eraser' = Idle /\ disk' = disk
        \/ /\ disk' = SavedFrom(eraser.mem)
           /\ eraser' = [eraser EXCEPT !.pc = IF eraser.pc = "save" THEN "unlink" ELSE "markunlink"]
    BY <1>7, <1>2 DEF EraseSave, Erasers
  <2>3. SavedFrom(eraser.mem).made /\ SavedFrom(eraser.mem).keys = eraser.mem.keys
        /\ SavedFrom(eraser.mem).tomb = eraser.mem.tomb
    BY DEF SavedFrom
  <2>4. CASE eraser' = Idle /\ disk' = disk
    BY <1>1, <1>2, <1>3, <2>1, <2>4, Places
  <2>5. CASE disk' = SavedFrom(eraser.mem) /\ eraser' # Idle
    <3>1. /\ eraser'.pc = IF eraser.pc = "save" THEN "unlink" ELSE "markunlink"
          /\ eraser'.mem = eraser.mem /\ eraser'.pending = eraser.pending
      BY <1>2, <2>2, <2>5 DEF Erasers
    <3> QED
      BY <1>1, <1>3, <2>1, <2>3, <2>5, <3>1, Places
  <2>6. CASE disk' = SavedFrom(eraser.mem) /\ eraser' = Idle
    BY <1>1, <1>2, <1>3, <2>1, <2>3, <2>6, Places
  <2> QED
    BY <2>2, <2>4, <2>5, <2>6
<1>8. CASE EraseUnlink
  <2>1. eraser.pc \in Folding /\ disk' = disk
    BY <1>8, Places DEF EraseUnlink
  <2>2. journal' = JournalFolded \/ journal' = journal
    BY <1>8 DEF EraseUnlink
  <2>3. ToSet(JournalFolded) = {}
    BY <1>2, JournalFacts
  <2>4. Lines' = Lines \/ Lines' = {}
    BY <2>2, <2>3 DEF Lines
  <2>5. eraser' = Idle \/ (eraser.pc = "unlink" /\ eraser' = [eraser EXCEPT !.pc = "erased"])
    BY <1>8 DEF EraseUnlink
  <2>6. \/ documented' = documented
        \/ /\ eraser.pc = "markunlink" /\ documented' = documented \cup eraser.pending
           /\ journal' = JournalFolded
    BY <1>8, <2>1, Places DEF EraseUnlink
  <2>7. journal' = JournalFolded => Lines' = {}
    BY <2>3 DEF Lines
  <2>8. \/ eraser'.pc \notin Erasing
        \/ /\ eraser.pc \in Erasing \ {"scan"} /\ eraser'.mem = eraser.mem
           /\ eraser'.pending = eraser.pending /\ eraser'.pc = "erased"
    BY <1>2, <2>1, <2>5, GoFacts, Places
  <2> QED
    BY <1>1, <2>1, <2>4, <2>6, <2>7, <2>8, Places
<1>9. CASE EraseReport
  <2>1. /\ UNCHANGED <<disk, journal, documented>> /\ eraser.pc = "erased"
        /\ eraser' = Idle \/ eraser' = [eraser EXCEPT !.pc = "recording"]
    BY <1>9 DEF EraseReport, UnchangedFiles
  <2>2. eraser' = [eraser EXCEPT !.pc = "recording"] =>
          /\ eraser'.pc = "recording" /\ eraser'.mem = eraser.mem
          /\ eraser'.pending = eraser.pending
    BY GoFacts, Places
  <2> QED
    BY <1>1, <1>2, <1>3, <2>1, <2>2, Places
<1>10. CASE EraseRecord
  <2>1. UNCHANGED <<disk, journal, documented>>
    BY <1>10 DEF EraseRecord, UnchangedFiles
  <2> QED
    BY <1>1, <1>3, <1>10, <2>1, RecordFacts, Places
<1> QED
  BY <1>4, <1>5, <1>6, <1>7, <1>8, <1>9, <1>10 DEF EraseNext

-----------------------------------------------------------------------------
(* Tombstones are kept *)

\* Every step keeps that only minted keys are anywhere.
LEMMA MintedStep ==
  ASSUME Types, AloneInv, MintedInv, TombInv, [Next]_vars
  PROVE  MintedInv'
<1>1. /\ minted \in Nat /\ Torn \notin 1 .. minted /\ NoKey <= minted /\ NoKey \notin Keys
      /\ \A k \in Keys : k \in Nat /\ k > 0 /\ (k <= minted => k \in 1 .. minted)
      /\ \A k \in 1 .. minted : k <= minted
      /\ \A k \in Keys : k <= minted => k <= minted + 1
  BY KeystoreFacts DEF Types, FileTypes, Torn, NoKey
<1>2. LiveKeys \subseteq 1 .. minted
  <2>1. LiveKeys \subseteq disk.keys \cup (Lines \ {Torn})
    BY DEF LiveKeys
  <2> QED
    BY <2>1 DEF MintedInv
<1>3. CASE ServerNext
  <2>1. minted' \in {minted, minted + 1} /\ eraser' = eraser
    BY <1>3, ServerEffect, Places DEF UnchangedErase
  <2>2. /\ minted <= minted' /\ minted' \in Nat /\ 1 .. minted \subseteq 1 .. minted'
        /\ \A k \in Keys : k <= minted => k <= minted'
    BY <1>1, <2>1
  <2>3. server.pc \in Busy => server.key \in 1 .. minted
    BY Places DEF MintedInv, TombInv
  <2>4. disk'.keys \subseteq 1 .. minted
    BY <1>3, ServerEffect, Places DEF MintedInv
  <2>5. \A k \in Keys : disk'.tomb[k] # "none" => k <= minted
    BY <1>3, ServerEffect, Places DEF MintedInv, TombInv, Tombed
  <2>6. Lines' \subseteq 1 .. minted \cup {Torn}
    BY <1>3, <2>3, ServerEffect, Places DEF MintedInv
  <2>7. server'.pc \in Serving => server'.mem.keys \subseteq 1 .. minted'
    <3> DEFINE K == server'.mem.keys
    <3>1. \/ server'.pc \notin Serving \/ K = LiveKeys
          \/ server.pc \in Serving /\ K \in {server.mem.keys, server.mem.keys \ {server.key}}
          \/ /\ server.pc \in Serving /\ K = server.mem.keys \cup {minted + 1}
             /\ minted' = minted + 1
      BY <1>3, ServerEffect, Places
    <3>2. server.pc \in Serving => server.mem.keys \subseteq 1 .. minted
      BY DEF MintedInv
    <3>3. minted' = minted + 1 => minted + 1 \in 1 .. minted'
      BY <1>1
    <3> HIDE DEF K
    <3>4. server'.pc \in Serving => K \subseteq 1 .. minted'
      BY <1>2, <2>2, <3>1, <3>2, <3>3
    <3> QED
      BY <3>4 DEF K
  <2>8. ASSUME NEW r \in Requests PROVE reqs'[r].key <= minted'
    <3>1. reqs[r].key <= minted /\ reqs[r].key \in Nat /\ NoKey \in Nat
      BY KeystoreFacts DEF MintedInv, Types, ServerTypes, NoKey
    <3>2. \/ reqs'[r].key \in {reqs[r].key, NoKey}
          \/ server.pc \in Busy /\ reqs'[r].key = server.key
          \/ /\ server.pc \in Serving /\ SessionOf[r] \in Sessions
             /\ reqs'[r].key = server.mem.session[SessionOf[r]]
      BY <1>3, ServerEffect, Places
    <3>3. server.pc \in Serving => \A s \in Sessions :
            server.mem.session[s] \in 1 .. minted \cup {NoKey}
      BY DEF MintedInv, TombInv
    <3>4. reqs'[r].key \in 1 .. minted \cup {NoKey, reqs[r].key}
      BY <2>3, <3>2, <3>3
    <3> QED
      BY <1>1, <2>2, <3>1, <3>4
  <2> QED
    BY <2>1, <2>2, <2>4, <2>5, <2>6, <2>7, <2>8 DEF MintedInv, Tombed
<1>4. CASE EraseNext
  <2>1. UnchangedServer
    BY <1>4, EraseEffect
  <2>2. disk'.keys \subseteq 1 .. minted /\ \A k \in Keys : disk'.tomb[k] # "none" => k <= minted
    BY <1>4, EraseEffect, Places DEF MintedInv, Tombed
  <2>3. Lines' \subseteq 1 .. minted \cup {Torn}
    BY <1>4, EraseEffect DEF MintedInv
  <2>4. eraser'.pc \in Erasing => eraser'.mem.keys \subseteq 1 .. minted
    BY <1>2, <1>4, EraseEffect, Places DEF MintedInv
  <2>5. ASSUME eraser'.pc \in Erasing, NEW k \in Keys, eraser'.mem.tomb[k] # "none"
        PROVE  k <= minted
    <3>1. disk.tomb[k] # "none" => k <= minted
      BY DEF MintedInv, Tombed
    <3>2. eraser.pc \in Erasing => /\ eraser.mem.keys \subseteq 1 .. minted
                                   /\ eraser.mem.tomb[k] # "none" => k <= minted
      BY DEF MintedInv
    <3>3. \/ eraser'.mem.tomb = disk.tomb
          \/ /\ eraser.pc \in Erasing /\ eraser'.fresh \subseteq eraser.mem.keys
             /\ eraser'.mem.tomb[k] =
                  IF k \in eraser'.fresh THEN "pending" ELSE eraser.mem.tomb[k]
          \/ eraser.pc \in Erasing /\ eraser'.mem = eraser.mem
          \/ /\ eraser.pc = "recording"
             /\ eraser'.mem.tomb[k] =
                  IF k \in eraser.pending THEN "recorded" ELSE eraser.mem.tomb[k]
      BY <1>4, <2>5, EraseEffect, Places
    <3>4. k \in eraser.pending /\ eraser.pc = "recording" => k <= minted
      BY <3>2, Places DEF TombInv
    <3> QED
      BY <1>1, <2>5, <3>1, <3>2, <3>3, <3>4, Places
  <2> QED
    BY <2>1, <2>2, <2>3, <2>4, <2>5 DEF MintedInv, Tombed, UnchangedServer
<1>5. CASE UNCHANGED vars
  BY <1>5 DEF vars, MintedInv, Tombed, Lines
<1> QED
  BY <1>3, <1>4, <1>5 DEF Next

\* A tombstone of the file is kept, and its note that the chain knows.
TombsKept ==
  \A k \in Keys : /\ Tombed(k) => disk'.tomb[k] # "none"
                  /\ disk.tomb[k] = "recorded" => disk'.tomb[k] = "recorded"

\* The server rewrites the file with the tombstones it read there.
LEMMA TombServerStep ==
  ASSUME Types, AloneInv, MintedInv, TombInv, DocumentedIsGone, ServerNext
  PROVE  TombInv' /\ DocumentedIsGone' /\ TombsKept
<1>1. /\ server.pc \in Serving => server.pc # "off"
      /\ documented \subseteq Keys /\ Torn \notin Keys
      /\ disk.tomb \in [Keys -> TombStates] /\ disk.keys \subseteq Keys
  BY KeystoreFacts, Places DEF Types, FileTypes, EraserTypes
<1>2. eraser' = eraser /\ documented' = documented /\ (disk' = disk \/ eraser.pc = "off")
  BY ServerEffect, Places DEF UnchangedErase, AloneInv
<1>3. server.pc \in Serving =>
        /\ disk' = disk \/ disk'.tomb = server.mem.tomb
        /\ server.mem.tomb = disk.tomb
        /\ \A k \in server.mem.keys : disk.tomb[k] = "none"
        /\ \A s \in Sessions : server.mem.session[s] \in server.mem.keys \cup {NoKey}
        /\ server.pc \in Busy => server.key \in server.mem.keys
  BY ServerEffect, Places DEF TombInv, Tombed
<1>4. \A k \in Keys : disk'.tomb[k] = disk.tomb[k]
  BY <1>3, ServerEffect, Places DEF TombInv, Tombed
<1>5. /\ \A k \in disk'.keys : disk'.tomb[k] = "none"
      /\ ~disk'.made => disk'.keys = {} /\ \A k \in Keys : disk'.tomb[k] = "none"
  BY <1>3, ServerEffect, Places DEF TombInv, Tombed
<1>6. ASSUME server'.pc \in Serving
      PROVE  /\ server'.mem.tomb = disk'.tomb
             /\ \A k \in server'.mem.keys : disk'.tomb[k] = "none"
             /\ \A s \in Sessions : server'.mem.session[s] \in server'.mem.keys \cup {NoKey}
             /\ server'.pc \in Busy => server'.key \in server'.mem.keys
  <2>1. CASE /\ server'.pc = "up" /\ server'.mem.keys = LiveKeys /\ server'.mem.tomb = disk.tomb
             /\ \A s \in Sessions : server'.mem.session[s] \in LiveKeys \cup {NoKey}
             /\ disk' = disk
    BY <2>1, Places DEF LiveKeys, Tombed
  <2>2. CASE /\ server.pc \in Serving /\ server'.mem = server.mem /\ server'.key = server.key
             /\ server'.pc \in Busy => server.pc \in Busy
    BY <1>3, <2>2
  <2>3. CASE /\ server.pc = "up" /\ server'.key = minted + 1 /\ minted + 1 \in Keys
             /\ server'.mem.tomb = server.mem.tomb
             /\ server'.mem.keys = server.mem.keys \cup {minted + 1}
             /\ \A s \in Sessions : server'.mem.session[s] \in {server.mem.session[s], minted + 1}
    <3>1. disk' = disk /\ server.pc \in Serving
      BY <2>3, ServerEffect, Places
    <3>2. ~(minted + 1 <= minted)
      BY DEF Types, FileTypes
    <3>3. disk.tomb[minted + 1] = "none"
      BY <2>3, <3>2 DEF MintedInv, Tombed
    <3> QED
      BY <1>3, <2>3, <3>1, <3>3
  <2>4. CASE /\ server.pc \in Busy /\ server'.pc = "up"
             /\ server'.mem.tomb = server.mem.tomb
             /\ \/ /\ server'.mem.keys = server.mem.keys
                   /\ server'.mem.session = server.mem.session
                \/ /\ server'.mem.keys = server.mem.keys \ {server.key}
                   /\ \A s \in Sessions : server'.mem.session[s] =
                        IF server.mem.session[s] = server.key THEN NoKey
                        ELSE server.mem.session[s]
    BY <1>3, <2>4, Places
  <2> QED
    BY <1>6, <2>1, <2>2, <2>3, <2>4, ServerEffect
<1>7. ASSUME NEW k \in documented
      PROVE  k \notin disk'.keys \cup Lines' /\ disk'.tomb[k] = "recorded"
  <2>1. k \in Keys /\ k \notin disk.keys \cup Lines /\ disk.tomb[k] = "recorded"
    BY <1>1 DEF DocumentedIsGone
  <2>2. disk'.tomb[k] = "recorded" /\ k \notin disk'.keys
    BY <1>4, <1>5, <2>1
  <2>3. server.pc = "append" => k # server.key
    BY <1>3, <2>1, Places
  <2> QED
    BY <1>1, <2>1, <2>2, <2>3, ServerEffect
<1>8. TombInv'
  <2>1. eraser.pc \in Erasing => disk' = disk
    BY <1>2, Places
  <2> QED
    BY <1>2, <1>5, <1>6, <2>1, Places DEF TombInv, Tombed
<1> QED
  BY <1>2, <1>4, <1>7, <1>8 DEF DocumentedIsGone, TombsKept, Tombed

\* The command rewrites the file with the tombstones it read there and its own.
LEMMA TombEraseStep ==
  ASSUME Types, AloneInv, TombInv, DocumentedIsGone, EraseNext
  PROVE  TombInv' /\ DocumentedIsGone' /\ TombsKept
<1>1. /\ server.pc \in Serving => server.pc # "off"
      /\ documented \subseteq Keys /\ eraser.mem.keys \subseteq Keys
      /\ eraser.pending \subseteq Keys /\ disk.keys \subseteq Keys
  BY Places DEF Types, FileTypes, EraserTypes, Erasers, Memories
<1>2. server' = server /\ (disk' = disk \/ server.pc = "off")
  BY EraseEffect, Places DEF UnchangedServer, AloneInv
<1>3. eraser.pc \in Erasing =>
        /\ \A k \in Keys : /\ disk.tomb[k] # "none" => eraser.mem.tomb[k] # "none"
                           /\ disk.tomb[k] = "recorded" => eraser.mem.tomb[k] = "recorded"
        /\ \A k \in eraser.mem.keys : eraser.mem.tomb[k] = "none"
        /\ eraser.pc \in Folding => disk.keys = eraser.mem.keys /\ disk.tomb = eraser.mem.tomb
        /\ eraser.pc # "scan" => \A k \in eraser.pending : eraser.mem.tomb[k] # "none"
        /\ eraser.pc \in {"marksave", "markunlink"} =>
             \A k \in eraser.pending : eraser.mem.tomb[k] = "recorded"
  BY DEF TombInv, Tombed
<1>4. \/ disk' = disk
      \/ /\ eraser.pc \in Erasing /\ disk'.made
         /\ disk'.keys = eraser.mem.keys /\ disk'.tomb = eraser.mem.tomb
  BY EraseEffect, Places
<1>5. /\ \A k \in disk'.keys : disk'.tomb[k] = "none"
      /\ ~disk'.made => disk'.keys = {} /\ \A k \in Keys : disk'.tomb[k] = "none"
      /\ \A k \in Keys : /\ disk.tomb[k] # "none" => disk'.tomb[k] # "none"
                         /\ disk.tomb[k] = "recorded" => disk'.tomb[k] = "recorded"
  BY <1>3, <1>4 DEF TombInv, Tombed
<1>6. ASSUME eraser'.pc \in Erasing
      PROVE  /\ \A k \in Keys :
                  /\ disk'.tomb[k] # "none" => eraser'.mem.tomb[k] # "none"
                  /\ disk'.tomb[k] = "recorded" => eraser'.mem.tomb[k] = "recorded"
             /\ \A k \in eraser'.mem.keys : eraser'.mem.tomb[k] = "none"
             /\ eraser'.pc \in Folding =>
                  disk'.keys = eraser'.mem.keys /\ disk'.tomb = eraser'.mem.tomb
             /\ eraser'.pc # "scan" => \A k \in eraser'.pending : eraser'.mem.tomb[k] # "none"
             /\ eraser'.pc \in {"marksave", "markunlink"} =>
                  \A k \in eraser'.pending : eraser'.mem.tomb[k] = "recorded"
  <2>1. CASE /\ eraser'.pc = "scan" /\ disk' = disk
             /\ eraser'.mem.keys = LiveKeys /\ eraser'.mem.tomb = disk.tomb
    BY <2>1, Places DEF LiveKeys, Tombed
  <2>2. CASE /\ eraser.pc = "scan" /\ eraser'.pc \in {"save", "erased"} /\ disk' = disk
             /\ eraser'.fresh \subseteq eraser.mem.keys
             /\ eraser'.mem.keys = eraser.mem.keys \ eraser'.fresh
             /\ \A k \in Keys : eraser'.mem.tomb[k] =
                  IF k \in eraser'.fresh THEN "pending" ELSE eraser.mem.tomb[k]
             /\ \A k \in eraser'.pending : eraser'.mem.tomb[k] # "none"
    <3>1. eraser'.pc \notin Folding /\ eraser.pc \in Erasing
      BY <2>2, Places
    <3>2. ASSUME NEW k \in Keys
          PROVE  /\ disk.tomb[k] # "none" => eraser'.mem.tomb[k] # "none"
                 /\ disk.tomb[k] = "recorded" => eraser'.mem.tomb[k] = "recorded"
      BY <1>3, <2>2, <3>1
    <3>3. ASSUME NEW k \in eraser'.mem.keys PROVE eraser'.mem.tomb[k] = "none"
      BY <1>1, <1>3, <2>2, <3>1
    <3> QED
      BY <2>2, <3>1, <3>2, <3>3
  <2>3. CASE /\ eraser.pc \in Erasing \ {"scan"} /\ eraser'.mem = eraser.mem
             /\ eraser'.pending = eraser.pending
             /\ eraser'.pc \in {"marksave", "markunlink"} => eraser.pc = "marksave"
             /\ eraser'.pc \in Folding =>
                  disk'.keys = eraser.mem.keys /\ disk'.tomb = eraser.mem.tomb
    BY <1>3, <1>4, <2>3
  <2>4. CASE /\ eraser.pc = "recording" /\ eraser'.pc = "marksave" /\ disk' = disk
             /\ eraser'.mem.keys = eraser.mem.keys /\ eraser'.pending = eraser.pending
             /\ \A k \in Keys : eraser'.mem.tomb[k] =
                  IF k \in eraser.pending THEN "recorded" ELSE eraser.mem.tomb[k]
    <3>1. eraser'.pc \notin Folding /\ eraser.pc \in Erasing
      BY <2>4, Places
    <3> QED
      BY <1>1, <1>3, <2>4, <3>1
  <2> QED
    BY <1>6, <2>1, <2>2, <2>3, <2>4, EraseEffect
<1>7. ASSUME NEW k \in documented'
      PROVE  k \notin disk'.keys \cup Lines' /\ disk'.tomb[k] = "recorded"
  <2>1. CASE k \in documented
    <3>1. k \in Keys /\ k \notin disk.keys \cup Lines /\ disk.tomb[k] = "recorded"
      BY <1>1, <2>1 DEF DocumentedIsGone
    <3>2. k \notin Lines'
      BY <3>1, EraseEffect
    <3> QED
      BY <1>5, <3>1, <3>2
  <2>2. CASE k \notin documented
    <3>1. k \in eraser.pending /\ eraser.pc = "markunlink" /\ disk' = disk /\ Lines' = {}
      BY <1>7, <2>2, EraseEffect
    <3>2. disk.tomb[k] = "recorded"
      BY <1>3, <3>1, Places
    <3> QED
      BY <1>5, <3>1, <3>2
  <2> QED
    BY <2>1, <2>2
<1>8. TombInv'
  <2>1. server.pc \in Serving => disk' = disk
    BY <1>1, <1>2
  <2>2. server.pc \in Busy => server.key \in server.mem.keys
    BY DEF TombInv
  <2> QED
    BY <1>2, <1>5, <1>6, <2>1, <2>2, Places DEF TombInv, Tombed
<1> QED
  BY <1>5, <1>7, <1>8 DEF DocumentedIsGone, TombsKept, Tombed

LEMMA FinalInit == Init => FinalInv
<1> SUFFICES ASSUME Init PROVE FinalInv
  OBVIOUS
<1>1. /\ \A k \in Keys : disk.tomb[k] = "none"
      /\ disk.keys = {} /\ Lines = {} /\ documented = {}
      /\ server.pc \notin Serving /\ eraser.pc \notin Erasing
      /\ server.pc = "off" /\ minted = 0 /\ \A r \in Requests : reqs[r].key = 0
  BY EmptyFacts, Places DEF Init, Lines, ToSet, NoKey
<1> QED
  BY <1>1, Places DEF FinalInv, AloneInv, MintedInv, TombInv, DocumentedIsGone, Tombed

LEMMA FinalStep ==
  ASSUME "overlap" \notin Faults, Types, FinalInv, [Next]_vars
  PROVE  FinalInv' /\ TombsKept
<1>1. AloneInv' /\ MintedInv'
  BY AloneStep, MintedStep DEF FinalInv
<1>2. TombInv' /\ DocumentedIsGone' /\ TombsKept
  <2>1. CASE ServerNext
    BY <2>1, TombServerStep DEF FinalInv
  <2>2. CASE EraseNext
    BY <2>2, TombEraseStep DEF FinalInv
  <2>3. CASE UNCHANGED vars
    BY <2>3 DEF vars, FinalInv, TombInv, DocumentedIsGone, TombsKept, Tombed, Lines, LiveKeys
  <2> QED
    BY <2>1, <2>2, <2>3 DEF Next
<1> QED
  BY <1>1, <1>2 DEF FinalInv

\* Where a record that gets its text sealed has its key from.
LEMMA SealFacts ==
  ASSUME Types, [Next]_vars, NEW r \in Requests,
         reqs[r].stage = "new", reqs'[r].stage = "sealed"
  PROVE  \/ server.pc \in Busy /\ reqs'[r].key = server.key
         \/ /\ server.pc = "up" /\ SessionOf[r] \in Sessions /\ reqs'[r].key # NoKey
            /\ reqs'[r].key = server.mem.session[SessionOf[r]]
<1>1. reqs \in [Requests -> [stage : Stages, key : Keys \cup {NoKey}]]
  BY DEF Types, ServerTypes
<1>2. reqs' # reqs
  OBVIOUS
<1>3. ServerNext /\ ~ServerStart /\ ~ServerLoad /\ ~ServerStop
      /\ \A q \in Requests : ~KeyForNew(q)
  BY <1>2 DEF Next, vars, EraseNext, EraseStart, EraseOpen, EraseScan, EraseSave, EraseUnlink,
     EraseReport, EraseRecord, EraseKilled, UnchangedServer, ServerStart, ServerLoad, ServerStop,
     KeyForNew
<1>4. ASSUME NEW q \in Requests, KeyForKnown(q)
      PROVE  /\ server.pc = "up" /\ SessionOf[r] \in Sessions /\ reqs'[r].key # NoKey
             /\ reqs'[r].key = server.mem.session[SessionOf[r]]
  <2>1. q = r
    BY <1>1, <1>4 DEF KeyForKnown, Sealed
  <2>2. SessionOf[r] \in Sessions
    BY <1>4, <2>1, KeystoreFacts DEF KeyForKnown
  <2> QED
    BY <1>1, <1>4, <2>1, <2>2 DEF KeyForKnown, Sealed
<1>5. \A q \in Requests : ~LogRecord(q)
  BY <1>1 DEF LogRecord
<1>6. ~KeyForFails
  BY <1>1 DEF KeyForFails
<1>7. ~ServerKilled
  BY <1>1 DEF ServerKilled
<1>8. ASSUME JournalWrite \/ JournalSync \/ CompactSave \/ CompactUnlink
      PROVE  server.pc \in Busy /\ reqs'[r].key = server.key
  <2>1. server.pc \in Busy
    BY <1>8, Places DEF JournalWrite, JournalSync, CompactSave, CompactUnlink
  <2>2. \E c : KeyForDone(c)
    BY <1>2, <1>6, <1>8 DEF JournalWrite, JournalSync, CompactSave, CompactUnlink
  <2>3. server.req = r
    BY <1>1, <2>2 DEF KeyForDone, Sealed
  <2> QED
    BY <1>1, <2>1, <2>2, <2>3 DEF KeyForDone, Sealed
<1> QED
  BY <1>3, <1>4, <1>5, <1>7, <1>8 DEF ServerNext

\* As long as no server starts beside the erase command, a tombstone never
\* goes, and neither does its note that the chain knows: not by the server's
\* compactions, not by a later run of erase (compactLocked of either process).
THEOREM ErasureStaysFinal ==
  ASSUME "overlap" \notin Faults
  PROVE  Spec => ErasureIsFinal
<1>1. Types /\ FinalInv /\ [Next]_vars => FinalInv'
  BY FinalStep
<1>2. Types /\ FinalInv /\ [Next]_vars =>
        [\A k \in Keys : /\ Tombed(k) => disk'.tomb[k] # "none"
                         /\ disk.tomb[k] = "recorded" => disk'.tomb[k] = "recorded"]_vars
  BY FinalStep DEF TombsKept
<1> QED
  BY <1>1, <1>2, FinalInit, TypesInit, TypesStep, PTL DEF Spec, ErasureIsFinal

\* Under the same assumption no text is sealed under a key that has a
\* tombstone (KeyFor never returns a key the keystore file says is erased).
THEOREM ErasedKeysSealNothing ==
  ASSUME "overlap" \notin Faults
  PROVE  Spec => NoSealAfterErasure
<1>1. Types /\ FinalInv /\ [Next]_vars => FinalInv'
  BY FinalStep
<1>2. Types /\ FinalInv /\ [Next]_vars =>
        [\A r \in Requests : reqs[r].stage = "new" /\ reqs'[r].stage = "sealed"
           => ~Tombed(reqs'[r].key)]_vars
  <2>1. ASSUME Types, FinalInv, [Next]_vars, NEW r \in Requests,
               reqs[r].stage = "new", reqs'[r].stage = "sealed"
        PROVE  ~Tombed(reqs'[r].key)
    <3>1. server.pc \in Serving /\ reqs'[r].key \in server.mem.keys
      BY <2>1, SealFacts, Places DEF FinalInv, TombInv
    <3> QED
      BY <2>1, <3>1 DEF FinalInv, TombInv
  <2> QED
    BY <2>1
<1> QED
  BY <1>1, <1>2, FinalInit, TypesInit, TypesStep, PTL DEF Spec, NoSealAfterErasure

\* Under the same assumption the wrapped key of an erasure that was seen
\* recorded is nowhere any more, neither in the file nor in a journal line.
THEOREM DocumentedStaysGone ==
  ASSUME "overlap" \notin Faults
  PROVE  Spec => []DocumentedIsGone
<1>1. Types /\ FinalInv /\ [Next]_vars => FinalInv'
  BY FinalStep
<1>2. FinalInv => DocumentedIsGone
  BY DEF FinalInv
<1> QED
  BY <1>1, <1>2, FinalInit, TypesInit, TypesStep, PTL DEF Spec

-----------------------------------------------------------------------------
(* The key of sealed text is kept *)

LEMMA DurableInit == Init => DurableInv
<1> SUFFICES ASSUME Init PROVE DurableInv
  OBVIOUS
<1>1. server.pc = "off" /\ eraser.pc = "off" /\ \A r \in Requests : reqs[r].stage = "new"
  BY EmptyFacts DEF Init
<1> QED
  BY <1>1, Places DEF DurableInv, MemoryInv, MintingInv, KeptInv

\* The steps of the erase command: no server runs, and what it drops from the
\* files it has in memory or under a tombstone there.
LEMMA DurableEraseStep ==
  ASSUME Types, FinalInv, DurableInv, FinalInv', TombsKept, EraseNext
  PROVE  DurableInv'
<1>1. /\ reqs \in [Requests -> [stage : Stages, key : Keys \cup {NoKey}]]
      /\ server' = server /\ reqs' = reqs
  BY EraseEffect DEF UnchangedServer, Types, ServerTypes
<1>2. server.pc = "off"
  <2>1. CASE eraser.pc # "off"
    BY <2>1 DEF FinalInv, AloneInv
  <2>2. CASE eraser.pc = "off"
    <3>1. lock = "free"
      BY <2>2 DEF EraseNext, EraseStart, EraseOpen, EraseScan, EraseSave, EraseUnlink, EraseReport,
         EraseRecord, EraseKilled
    <3> QED
      BY <3>1 DEF FinalInv, AloneInv
  <2> QED
    BY <2>1, <2>2
<1>3. server.pc \notin Serving /\ server.pc \notin Busy
      /\ server.pc # "sync" /\ server.pc # "unlink"
  BY <1>2, Places
<1>4. ASSUME NEW r \in Requests, reqs[r].stage \in {"sealed", "logged"}, reqs[r].key # NoKey
      PROVE  /\ Held(reqs[r].key)'
             /\ eraser'.pc \in Erasing =>
                  reqs[r].key \in eraser'.mem.keys \/ eraser'.mem.tomb[reqs[r].key] # "none"
  <2> DEFINE k == reqs[r].key
  <2>1. /\ k \in Keys /\ Held(k)
        /\ eraser.pc \in Erasing => k \in eraser.mem.keys \/ eraser.mem.tomb[k] # "none"
    BY <1>1, <1>4 DEF DurableInv, KeptInv
  <2>2. Tombed(k) => disk'.tomb[k] # "none"
    BY <2>1 DEF TombsKept
  <2>3. Torn # k
    BY <2>1, KeystoreFacts
  <2> HIDE DEF k
  <2>4. k \in disk'.keys \/ k \in Lines' \/ disk'.tomb[k] # "none"
    <3>1. CASE disk' = disk /\ Lines' = Lines
      BY <2>1, <3>1 DEF Held, Tombed
    <3>2. CASE disk'.keys = eraser.mem.keys /\ disk'.tomb = eraser.mem.tomb /\ eraser.pc \in Erasing
      BY <2>1, <3>2
    <3>3. CASE Lines' = {} /\ eraser.pc \in Folding /\ disk' = disk
      <4>1. eraser.pc \in Erasing /\ disk.keys = eraser.mem.keys /\ disk.tomb = eraser.mem.tomb
        BY <3>3, Places DEF FinalInv, TombInv
      <4> QED
        BY <2>1, <3>3, <4>1
    <3> QED
      BY <3>1, <3>2, <3>3, EraseEffect, Places
  <2>5. ASSUME eraser'.pc \in Erasing
        PROVE  k \in eraser'.mem.keys \/ eraser'.mem.tomb[k] # "none"
    <3>1. CASE eraser'.mem.keys = LiveKeys /\ eraser'.mem.tomb = disk.tomb
      BY <2>1, <2>3, <3>1 DEF Held, LiveKeys, Tombed
    <3>2. CASE /\ eraser.pc = "scan" /\ eraser'.mem.keys = eraser.mem.keys \ eraser'.fresh
               /\ \A j \in Keys : eraser'.mem.tomb[j] =
                    IF j \in eraser'.fresh THEN "pending" ELSE eraser.mem.tomb[j]
      BY <2>1, <3>2, Places
    <3>3. CASE eraser.pc \in Erasing /\ eraser'.mem = eraser.mem
      BY <2>1, <3>3
    <3>4. CASE /\ eraser.pc = "recording" /\ eraser'.mem.keys = eraser.mem.keys
               /\ \A j \in Keys : eraser'.mem.tomb[j] =
                    IF j \in eraser.pending THEN "recorded" ELSE eraser.mem.tomb[j]
      BY <2>1, <3>4, Places
    <3> QED
      BY <2>5, <3>1, <3>2, <3>3, <3>4, EraseEffect
  <2> QED
    BY <1>1, <2>4, <2>5 DEF k, Held, Tombed
<1>5. ASSUME NEW r \in Requests PROVE reqs[r].stage # "sealed"
  BY <1>3 DEF DurableInv, KeptInv
<1>6. eraser'.pc \in Erasing => Torn \notin Lines'
  <2>1. eraser.pc \in Erasing => Torn \notin Lines
    BY DEF DurableInv, MemoryInv
  <2>2. Lines' = Lines \/ Lines' = {}
    BY EraseEffect
  <2>3. eraser'.pc \in Erasing => eraser.pc \in Erasing \/ Torn \notin Lines
    BY EraseEffect, Places DEF Loadable, Openable
  <2> QED
    BY <2>1, <2>2, <2>3
<1> QED
  BY <1>1, <1>3, <1>4, <1>5, <1>6 DEF DurableInv, MemoryInv, MintingInv, KeptInv

\* What DurableInv is after a step of the server, the erase command being off.
LEMMA DurableAgain ==
  ASSUME eraser'.pc = "off",
         server'.pc \in Serving =>
           /\ Torn \notin Lines'
           /\ \A k \in server'.mem.keys : Held(k)' \/ (server'.pc \in Busy /\ k = server'.key),
         server'.pc \in Busy => /\ reqs'[server'.req].stage = "new"
                                /\ \A r \in Requests : reqs'[r].key # server'.key,
         server'.pc = "sync" => journal' # <<>> /\ Last(journal') = server'.key,
         server'.pc = "unlink" => disk'.keys = server'.mem.keys,
         \A r \in Requests :
           reqs'[r].stage = "sealed" => server'.pc \in Serving /\ reqs'[r].key \in server'.mem.keys,
         \A r \in Requests : reqs'[r].stage \in {"sealed", "logged"} /\ reqs'[r].key # NoKey =>
           /\ Held(reqs[r].key)'
           /\ server'.pc \in Serving => reqs'[r].key \in server'.mem.keys \/ disk'.tomb[reqs'[r].key] # "none"
  PROVE  DurableInv'
BY Places DEF DurableInv, MemoryInv, MintingInv, KeptInv, Tombed

\* The server forgets the key it could not save, which is nobody's.
LEMMA DurableFails ==
  ASSUME Types, FinalInv, DurableInv, KeyForFails, server.pc \in Busy, eraser'.pc = "off",
         UNCHANGED <<disk, journal>>
  PROVE  DurableInv'
<1>1. /\ reqs \in [Requests -> [stage : Stages, key : Keys \cup {NoKey}]]
      /\ server.req \in Requests /\ server.pc \in Serving
  BY Places DEF Types, ServerTypes
<1>2. /\ server'.pc = "up" /\ server'.mem.keys = server.mem.keys \ {server.key}
      /\ \A r \in Requests : /\ reqs'[r].key = reqs[r].key /\ reqs[r].key # server.key
                             /\ reqs'[r].stage \in {reqs[r].stage, "stripped"}
  BY <1>1, FailsFacts DEF DurableInv, MintingInv
<1>3. \A k : Held(k)' <=> Held(k)
  BY DEF Held, Tombed, Lines
<1>4. Lines' = Lines
  BY DEF Lines
<1>5. \A k \in server'.mem.keys : Held(k)'
  BY <1>1, <1>2, <1>3 DEF DurableInv, MemoryInv
<1>6. ASSUME NEW r \in Requests, reqs'[r].stage \in {"sealed", "logged"}
      PROVE  reqs[r].stage = reqs'[r].stage /\ reqs[r].key = reqs'[r].key /\ reqs[r].key # server.key
  BY <1>2, <1>6
<1> QED
  BY <1>1, <1>2, <1>3, <1>4, <1>5, <1>6, DurableAgain, Places
     DEF DurableInv, MemoryInv, KeptInv, Tombed

\* The text is sealed under the key the server saved.
LEMMA DurableDone ==
  ASSUME Types, FinalInv, DurableInv, NEW c \in Nat, KeyForDone(c), server.pc \in Busy,
         eraser'.pc = "off", TombsKept, Torn \notin Lines',
         \A k \in server.mem.keys : Held(k)'
  PROVE  DurableInv'
<1>1. /\ reqs \in [Requests -> [stage : Stages, key : Keys \cup {NoKey}]]
      /\ server.req \in Requests /\ server.pc \in Serving
      /\ server.key \in server.mem.keys
  BY Places DEF Types, ServerTypes, FinalInv, TombInv
<1>2. /\ server'.pc = "up" /\ server'.mem.keys = server.mem.keys
      /\ reqs' = [reqs EXCEPT ![server.req] = [stage |-> "sealed", key |-> server.key]]
  BY DoneFacts
<1>3. ASSUME NEW r \in Requests, reqs'[r].stage = "sealed"
      PROVE  reqs'[r].key \in server'.mem.keys
  BY <1>1, <1>2, <1>3 DEF DurableInv, KeptInv
<1>4. ASSUME NEW r \in Requests, reqs'[r].stage = "logged", reqs'[r].key # NoKey
      PROVE  reqs'[r].key \in server'.mem.keys \/ disk'.tomb[reqs'[r].key] # "none"
  <2>1. reqs'[r] = reqs[r] /\ reqs[r].key \in Keys
    BY <1>1, <1>2, <1>4
  <2>2. reqs[r].key \in server.mem.keys \/ Tombed(reqs[r].key)
    BY <1>1, <1>4, <2>1 DEF DurableInv, KeptInv
  <2> QED
    BY <1>2, <2>1, <2>2 DEF TombsKept
<1>5. \A k : disk'.tomb[k] # "none" => Held(k)'
  BY DEF Held, Tombed
<1> QED
  BY <1>1, <1>2, <1>3, <1>4, <1>5, DurableAgain, Places

\* A record is sealed, stripped, logged or lost; only one gets logged at a time.
LEMMA RequestFacts ==
  ASSUME Types, ServerNext
  PROVE  \/ reqs' = reqs
         \/ \E r \in Requests : KeyForKnown(r)
         \/ \E r \in Requests : LogRecord(r)
         \/ server.pc \in Busy /\ (KeyForFails \/ \E c \in Nat : KeyForDone(c))
         \/ ServerKilled
<1>1. server.mem.journalled + 1 \in Nat /\ 0 \in Nat
  BY DEF Types, ServerTypes, Servers, Memories
<1> QED
  BY <1>1, Places DEF ServerNext, ServerStart, ServerLoad, KeyForNew, JournalWrite, JournalSync,
     CompactSave, CompactUnlink, ServerStop

\* The steps of the server, which writes journal lines whole.
LEMMA DurableServerStep ==
  ASSUME "partial" \notin Faults, Types, FinalInv, DurableInv, FinalInv', TombsKept, ServerNext
  PROVE  DurableInv'
<1>1. /\ reqs \in [Requests -> [stage : Stages, key : Keys \cup {NoKey}]]
      /\ FileTypes /\ server \in Servers /\ server.mem \in Memories /\ server.mem.keys \subseteq Keys
      /\ server.pc \in Busy => server.req \in Requests /\ server.key \in Keys
      /\ NoKey \notin Keys /\ Torn \notin Keys
  BY KeystoreFacts DEF Types, ServerTypes, Servers, Memories
<1>2. eraser'.pc = "off"
  <2>1. eraser' = eraser
    BY ServerEffect DEF UnchangedErase
  <2>2. CASE server.pc # "off"
    BY <2>1, <2>2 DEF FinalInv, AloneInv
  <2>3. CASE server.pc = "off"
    <3>1. ServerStart
      BY <2>3, Places DEF ServerNext, ServerLoad, KeyForKnown, KeyForNew, LogRecord, JournalWrite,
         JournalSync, CompactSave, CompactUnlink, ServerStop, ServerKilled
    <3>2. server'.pc = "starting"
      BY <1>1, <3>1 DEF ServerStart, Servers
    <3> QED
      BY <3>2 DEF FinalInv, AloneInv
  <2> QED
    BY <2>2, <2>3
<1>3. ASSUME NEW r \in Requests, reqs[r].stage \in {"sealed", "logged"}, reqs[r].key # NoKey
      PROVE  /\ reqs[r].key \in Keys /\ Held(reqs[r].key)
             /\ server.pc \in Serving => reqs[r].key \in server.mem.keys \/ Tombed(reqs[r].key)
             /\ server.pc \in Busy => reqs[r].key # server.key
  BY <1>1, <1>3 DEF DurableInv, KeptInv, MintingInv
<1>4. \A r \in Requests : reqs[r].stage = "sealed" =>
        server.pc \in Serving /\ reqs[r].key \in server.mem.keys /\ reqs[r].key # NoKey
  BY <1>1 DEF DurableInv, KeptInv
<1>5. /\ server.pc \in Serving => Torn \notin Lines
      /\ \A k \in server.mem.keys : server.pc \in Serving =>
           Held(k) \/ (server.pc \in Busy /\ k = server.key)
  BY DEF DurableInv, MemoryInv
<1>6. UNCHANGED <<disk, journal>> => Lines' = Lines /\ \A k : Held(k)' <=> Held(k)
  BY DEF Held, Tombed, Lines
<1>7. \A k \in Keys : Tombed(k) => disk'.tomb[k] # "none" /\ Held(k)'
  BY DEF TombsKept, Held, Tombed
<1>8. CASE ServerStart \/ ServerLoad \/ ServerStop \/ ServerKilled
  <2>1. CASE server'.pc \notin Serving
    <3>1. \A r \in Requests : reqs'[r].stage # "sealed"
      <4>1. CASE ServerStart \/ ServerLoad
        BY <1>4, <4>1, Places DEF ServerStart, ServerLoad
      <4>2. CASE ServerStop \/ ServerKilled
        BY <1>1, <4>2 DEF ServerStop, ServerKilled
      <4> QED
        BY <1>8, <4>1, <4>2
    <3>2. ASSUME NEW r \in Requests, reqs'[r].stage = "logged", reqs'[r].key # NoKey
          PROVE  Held(reqs[r].key)'
      <4>1. reqs[r].stage = "logged" /\ reqs[r].key = reqs'[r].key
        <5>1. CASE ServerStart \/ ServerLoad \/ ServerStop
          BY <3>2, <5>1 DEF ServerStart, ServerLoad, ServerStop
        <5>2. CASE ServerKilled
          BY <1>1, <3>2, <5>2 DEF ServerKilled
        <5> QED
          BY <1>8, <5>1, <5>2
      <4> DEFINE k == reqs[r].key
      <4>2. k \in Keys /\ Held(k) /\ (server.pc \in Busy => k # server.key)
        BY <1>3, <3>2, <4>1
      <4>3. Tombed(k) \/ k \in Lines' \/ (disk' = disk /\ k \in disk.keys)
        <5>1. CASE ServerLoad
          <6>1. Lines' = Lines /\ (disk' = disk \/ ~disk.made)
            BY <5>1 DEF ServerLoad, Lines
          <6> QED
            BY <4>2, <6>1 DEF Held, FinalInv, TombInv
        <5>2. CASE ServerStart \/ ServerStop \/ (ServerKilled /\ journal' = journal)
          <6>1. Lines' = Lines /\ disk' = disk
            BY <5>2 DEF ServerStart, ServerStop, ServerKilled, UnchangedFiles, Lines
          <6> QED
            BY <4>2, <6>1 DEF Held
        <5>3. CASE ServerKilled /\ journal' # journal
          <6>1. /\ server.pc = "sync" /\ disk' = disk /\ Last(journal) = server.key
                /\ journal' \in {Front(journal), Append(Front(journal), Torn)}
            BY <5>3 DEF ServerKilled
          <6>2. journal # <<>>
            BY <6>1 DEF DurableInv, MintingInv
          <6>3. Lines \subseteq Lines' \cup {server.key}
            BY <1>1, <6>1, <6>2, JournalFacts DEF Lines
          <6> QED
            BY <4>2, <6>1, <6>3, Places DEF Held
        <5> QED
          BY <1>8, <5>1, <5>2, <5>3
      <4> HIDE DEF k
      <4>4. k \in disk'.keys \/ k \in Lines' \/ disk'.tomb[k] # "none"
        BY <1>7, <4>2, <4>3
      <4> QED
        BY <4>1, <4>4 DEF k, Held, Tombed
    <3> QED
      BY <1>2, <2>1, <3>1, <3>2, DurableAgain, Places
  <2>2. CASE server'.pc \in Serving
    <3>1. /\ Loadable /\ UNCHANGED <<disk, journal, reqs>> /\ server.pc = "starting"
          /\ \E m \in Loads : server' = [server EXCEPT !.pc = "up", !.mem = m]
      <4>1. ServerLoad
        BY <1>1, <1>8, <2>2, EmptyFacts, Places DEF ServerStart, ServerStop, ServerKilled, Servers
      <4>2. server' # server /\ server' # Off
        BY <2>2, <4>1, EmptyFacts, Places DEF ServerLoad
      <4> QED
        BY <4>1, <4>2 DEF ServerLoad
    <3>2. server'.pc = "up" /\ server'.mem.keys = LiveKeys
      BY <1>1, <3>1, LoadsFacts DEF Servers
    <3>3. \A r \in Requests : reqs[r].stage # "sealed"
      BY <1>4, <3>1, Places
    <3>4. \A k \in Keys : Held(k) => k \in LiveKeys \/ disk'.tomb[k] # "none"
      BY <1>1, <3>1 DEF Held, LiveKeys, Tombed
    <3>5. Torn \notin Lines' /\ \A k \in LiveKeys : Held(k)'
      BY <1>6, <3>1 DEF Loadable, Openable, LiveKeys, Held
    <3>6. ASSUME NEW r \in Requests, reqs'[r].stage \in {"sealed", "logged"}, reqs'[r].key # NoKey
          PROVE  /\ reqs'[r].key = reqs[r].key /\ Held(reqs[r].key)'
                 /\ reqs[r].key \in server'.mem.keys \/ disk'.tomb[reqs[r].key] # "none"
      <4>1. reqs' = reqs /\ reqs[r].key \in Keys /\ Held(reqs[r].key)
        BY <1>3, <3>1, <3>6
      <4> QED
        BY <1>6, <3>1, <3>2, <3>4, <4>1
    <3> QED
      BY <1>2, <3>1, <3>2, <3>3, <3>5, <3>6, DurableAgain, Places
  <2> QED
    BY <2>1, <2>2
<1>9. CASE \E r \in Requests : KeyForKnown(r) \/ LogRecord(r)
  <2>1. PICK r \in Requests : KeyForKnown(r) \/ LogRecord(r)
    BY <1>9
  <2>2. UNCHANGED <<disk, journal, server>> /\ server.pc \in Serving
    BY <1>1, <2>1, Places DEF KeyForKnown, LogRecord, UnchangedFiles, Servers, ServerPcs
  <2>3. ASSUME NEW q \in Requests
        PROVE  \/ reqs'[q] = reqs[q]
               \/ /\ reqs[q].stage = "new" /\ server.pc = "up" /\ reqs'[q].stage = "sealed"
                  /\ reqs'[q].key \in server.mem.keys
               \/ /\ reqs[q].stage = "sealed" /\ reqs'[q].stage = "logged"
                  /\ reqs'[q].key = reqs[q].key
               \/ reqs'[q].stage = "logged" /\ reqs'[q].key = NoKey
                  /\ reqs[q].stage = "stripped"
    <3>1. CASE q # r
      BY <1>1, <2>1, <3>1 DEF KeyForKnown, LogRecord, Sealed
    <3>2. CASE q = r /\ KeyForKnown(r)
      <4>1. SessionOf[r] \in Sessions /\ server.pc = "up"
        BY <3>2, KeystoreFacts DEF KeyForKnown
      <4>2. server.mem.session[SessionOf[r]] \in server.mem.keys
        BY <2>2, <3>2, <4>1 DEF KeyForKnown, FinalInv, TombInv
      <4> QED
        BY <1>1, <3>2, <4>1, <4>2 DEF KeyForKnown, Sealed
    <3>3. CASE q = r /\ LogRecord(r)
      BY <1>1, <3>3 DEF LogRecord
    <3> QED
      BY <2>1, <3>1, <3>2, <3>3
  <2>4. server.pc = "up" => server.pc \notin Busy
    BY Places
  <2>5. server.pc \in Busy => \A q \in Requests : reqs'[q].key # server.key
    BY <1>1, <2>3, <2>4 DEF DurableInv, MintingInv
  <2>6. server.pc \in Busy => reqs'[server.req].stage = "new"
    <3>1. server.pc \in Busy => server.req \in Requests /\ reqs[server.req].stage = "new"
      BY <1>1 DEF DurableInv, MintingInv
    <3> QED
      BY <2>3, <2>4, <3>1
  <2>7. \A q \in Requests : reqs'[q].stage = "sealed" => reqs'[q].key \in server.mem.keys
    BY <1>4, <2>3
  <2>8. ASSUME NEW q \in Requests, reqs'[q].stage \in {"sealed", "logged"}, reqs'[q].key # NoKey
        PROVE  Held(reqs'[q].key) /\ (reqs'[q].key \in server.mem.keys \/ Tombed(reqs'[q].key))
    <3>1. CASE reqs[q].stage \in {"sealed", "logged"} /\ reqs'[q].key = reqs[q].key
      BY <1>3, <2>2, <2>8, <3>1
    <3>2. CASE server.pc = "up" /\ reqs'[q].key \in server.mem.keys
      BY <1>5, <2>2, <2>4, <3>2
    <3> QED
      BY <2>3, <2>8, <3>1, <3>2
  <2>9. \A q \in Requests : reqs'[q].stage \in {"sealed", "logged"} /\ reqs'[q].key # NoKey =>
          Held(reqs[q].key)'
    BY <1>6, <2>2, <2>8 DEF Held, Tombed
  <2>10. /\ server.pc = "sync" => journal # <<>> /\ Last(journal) = server.key
         /\ server.pc = "unlink" => disk.keys = server.mem.keys
    BY DEF DurableInv, MintingInv
  <2> QED
    BY <1>2, <1>5, <1>6, <2>2, <2>5, <2>6, <2>7, <2>8, <2>9, <2>10, DurableAgain DEF Tombed
<1>10. CASE \E r \in Requests : KeyForNew(r)
  <2>1. PICK r \in Requests : KeyForNew(r)
    BY <1>10
  <2>2. /\ server'.pc \in {"save", "append"} /\ server'.req = r /\ server'.key = minted + 1
        /\ server'.mem.keys = server.mem.keys \cup {minted + 1}
        /\ server.pc = "up" /\ reqs[r].stage = "new" /\ UNCHANGED <<disk, journal, reqs>>
    BY <2>1, NewFacts
  <2>3. \A q \in Requests : reqs[q].key # minted + 1
    <3>1. \A q \in Requests : reqs[q].key <= minted /\ reqs[q].key \in Nat
      BY <1>1, KeystoreFacts DEF FinalInv, MintedInv, NoKey
    <3> QED
      BY <1>1, <3>1 DEF FileTypes
  <2>4. \A q \in Requests : reqs'[q].stage \in {"sealed", "logged"} /\ reqs'[q].key # NoKey =>
          Held(reqs[q].key)'
    BY <1>3, <1>6, <2>2 DEF Held, Tombed
  <2>5. \A q \in Requests : reqs'[q].stage \in {"sealed", "logged"} /\ reqs'[q].key # NoKey =>
          reqs'[q].key \in server.mem.keys \/ disk'.tomb[reqs'[q].key] # "none"
    BY <1>3, <2>2, Places DEF Tombed
  <2>6. server'.pc \in Busy /\ server'.pc # "sync" /\ server'.pc # "unlink"
    BY <2>2, Places
  <2> QED
    BY <1>2, <1>4, <1>5, <1>6, <2>2, <2>3, <2>4, <2>5, <2>6, DurableAgain, Places
<1>11. CASE JournalWrite \/ JournalSync \/ CompactSave \/ CompactUnlink
  <2>1. server.pc \in Busy /\ server.pc \in Serving
    BY <1>11, Places DEF JournalWrite, JournalSync, CompactSave, CompactUnlink
  <2>2. /\ server.key \in server.mem.keys /\ server.mem.tomb = disk.tomb
        /\ \A k \in server.mem.keys : ~Tombed(k)
    BY <2>1 DEF FinalInv, TombInv
  <2>3. CASE KeyForFails
    <3>1. UNCHANGED <<disk, journal>>
      <4>1. server'.pc = "up" /\ JournalFolded = JournalFolded
        BY <2>3, FailsFacts
      <4>2. server' # [server EXCEPT !.pc = "sync"] /\ server' # [server EXCEPT !.pc = "unlink"]
        BY <1>1, <4>1 DEF Servers
      <4>3. ~KeyForDone(0)
        <5>1. reqs'[server.req].stage = "stripped"
          BY <1>1, <2>1, <2>3 DEF KeyForFails
        <5> QED
          BY <1>1, <2>1, <5>1 DEF KeyForDone, Sealed
      <4> QED
        BY <1>11, <4>2, <4>3 DEF JournalWrite, JournalSync, CompactSave, CompactUnlink, UnchangedFiles
    <3> QED
      BY <1>2, <2>1, <2>3, <3>1, DurableFails
  <2>4. CASE ~KeyForFails /\ (JournalSync \/ CompactUnlink)
    <3>1. PICK c \in Nat : KeyForDone(c)
      BY <1>1, <2>4 DEF JournalSync, CompactUnlink, Memories
    <3>2. Torn \notin Lines' /\ \A k \in server.mem.keys : Held(k)'
      <4>1. CASE JournalSync
        <5>1. UNCHANGED <<disk, journal>> /\ server.pc = "sync"
          BY <4>1 DEF JournalSync, UnchangedFiles
        <5>2. server.key \in Lines
          <6>1. journal # <<>> /\ Last(journal) = server.key
            BY <5>1 DEF DurableInv, MintingInv
          <6>2. Len(journal) \in DOMAIN journal /\ Last(journal) = journal[Len(journal)]
            BY <1>1, <6>1 DEF FileTypes, Last
          <6> QED
            BY <6>1, <6>2 DEF Lines, ToSet
        <5> QED
          BY <1>5, <1>6, <2>1, <5>1, <5>2 DEF Held
      <4>2. CASE CompactUnlink
        <5>1. server.pc = "unlink" /\ disk' = disk /\ journal' = JournalFolded
          BY <2>4, <4>2 DEF CompactUnlink
        <5>2. Lines' = {}
          BY <1>1, <5>1, JournalFacts DEF Lines
        <5>3. disk'.keys = server.mem.keys
          BY <5>1 DEF DurableInv, MintingInv
        <5> QED
          BY <5>2, <5>3 DEF Held
      <4> QED
        BY <2>4, <4>1, <4>2
    <3> QED
      BY <1>2, <2>1, <3>1, <3>2, DurableDone
  <2>5. CASE ~KeyForFails /\ (JournalWrite \/ CompactSave)
    <3>1. /\ reqs' = reqs /\ server'.pc \in Busy /\ server'.mem = server.mem
          /\ server'.key = server.key /\ server'.req = server.req
          /\ server'.pc = IF server.pc = "append" THEN "sync" ELSE "unlink"
      <4>1. /\ reqs' = reqs
            /\ server' = [server EXCEPT !.pc = IF server.pc = "append" THEN "sync" ELSE "unlink"]
        BY <2>5 DEF JournalWrite, CompactSave
      <4> QED
        BY <4>1, GoFacts, Places
    <3>2. reqs'[server'.req].stage = "new" /\ \A r \in Requests : reqs'[r].key # server'.key
      BY <2>1, <3>1 DEF DurableInv, MintingInv
    <3>3. \A r \in Requests : reqs'[r].stage = "sealed" => reqs'[r].key \in server'.mem.keys
      BY <1>4, <3>1
    <3>4. \A r \in Requests : reqs'[r].stage \in {"sealed", "logged"} /\ reqs'[r].key # NoKey =>
            /\ reqs'[r].key \in server'.mem.keys \/ disk'.tomb[reqs'[r].key] # "none"
            /\ Held(reqs[r].key)
      BY <1>3, <1>7, <2>1, <3>1
    <3>5. server'.pc \in Serving /\ \A k \in server.mem.keys : Held(k) \/ k = server.key
      BY <1>5, <2>1, <3>1, Places
    <3>6. CASE JournalWrite
      <4>1. journal' = WithLine(server.key) /\ disk' = disk /\ server.pc = "append"
        BY <2>5, <3>6 DEF JournalWrite
      <4>2. /\ journal' # <<>> /\ Lines' = Lines \cup {server.key} /\ Last(journal') = server.key
        BY <1>1, <1>5, <2>1, <4>1, JournalFacts DEF Lines
      <4>3. \A k : Held(k) => Held(k)'
        BY <4>1, <4>2 DEF Held, Tombed
      <4>4. \A r \in Requests : reqs'[r].stage \in {"sealed", "logged"} /\ reqs'[r].key # NoKey =>
              Held(reqs[r].key)'
        BY <3>1, <3>4, <4>1, <4>2 DEF Held, Tombed
      <4>5. Torn \notin Lines' /\ server'.pc = "sync"
        BY <1>1, <1>5, <2>1, <3>1, <4>1, <4>2
      <4> QED
        BY <1>2, <3>1, <3>2, <3>3, <3>4, <3>5, <4>2, <4>3, <4>4, <4>5, DurableAgain
    <3>7. CASE CompactSave
      <4>1. /\ disk' = SavedFrom(server.mem) /\ Lines' = Lines /\ server.pc = "save"
            /\ disk'.keys = server.mem.keys
        BY <2>5, <3>7 DEF CompactSave, SavedFrom, Lines
      <4>2. \A k \in server.mem.keys : Held(k)'
        BY <4>1 DEF Held
      <4>3. \A r \in Requests : reqs'[r].stage \in {"sealed", "logged"} /\ reqs'[r].key # NoKey =>
              Held(reqs[r].key)'
        BY <3>1, <3>4, <4>1 DEF Held, Tombed
      <4>4. Torn \notin Lines' /\ server'.pc = "unlink"
        BY <1>5, <2>1, <3>1, <4>1
      <4> QED
        BY <1>2, <3>1, <3>2, <3>3, <3>4, <3>5, <4>1, <4>2, <4>3, <4>4, DurableAgain
    <3> QED
      BY <2>5, <3>6, <3>7
  <2> QED
    BY <1>11, <2>3, <2>4, <2>5
<1> QED
  BY <1>8, <1>9, <1>10, <1>11 DEF ServerNext

LEMMA DurableStutter ==
  ASSUME DurableInv, UNCHANGED vars
  PROVE  DurableInv'
<1>1. Lines' = Lines /\ \A k : Held(k)' <=> Held(k)
  BY DEF vars, Lines, Held, Tombed
<1>2. UNCHANGED <<disk, journal, server, reqs, eraser>>
  BY DEF vars
<1>3. \A r \in Requests : Held(reqs[r].key)' <=> Held(reqs[r].key)
  BY <1>2 DEF vars, Lines, Held, Tombed
<1> QED
  BY <1>1, <1>2, <1>3 DEF DurableInv, MemoryInv, MintingInv, KeptInv, Tombed

-----------------------------------------------------------------------------
(* What a reader makes of the records *)

\* A step changes what is logged only by logging one record.
LEMMA LoggedFacts ==
  ASSUME Types, DurableInv, [Next]_vars
  PROVE  \/ \E r \in Requests : LogRecord(r)
         \/ \A r \in Requests :
              IF reqs[r].stage = "logged" THEN reqs'[r] = reqs[r] ELSE reqs'[r].stage # "logged"
<1>1. /\ reqs \in [Requests -> [stage : Stages, key : Keys \cup {NoKey}]]
      /\ server.pc \in Busy => server.req \in Requests /\ reqs[server.req].stage = "new"
  BY DEF Types, ServerTypes, DurableInv, MintingInv
<1>2. reqs' = reqs => \A r \in Requests :
        IF reqs[r].stage = "logged" THEN reqs'[r] = reqs[r] ELSE reqs'[r].stage # "logged"
  OBVIOUS
<1>3. CASE EraseNext \/ UNCHANGED vars
  BY <1>2, <1>3, EraseEffect DEF vars, UnchangedServer
<1>4. CASE \E r \in Requests : KeyForKnown(r)
  BY <1>1, <1>4 DEF KeyForKnown, Sealed
<1>5. CASE server.pc \in Busy /\ (KeyForFails \/ \E c \in Nat : KeyForDone(c))
  <2>1. \/ reqs' = [reqs EXCEPT ![server.req].stage = "stripped"]
        \/ reqs' = [reqs EXCEPT ![server.req] = [stage |-> "sealed", key |-> server.key]]
    BY <1>5, DoneFacts, FailsFacts
  <2> QED
    BY <1>1, <1>5, <2>1
<1>6. CASE ServerKilled
  <2>1. \A r \in Requests :
          reqs'[r] = reqs[r] \/ (reqs[r].stage # "logged" /\ reqs'[r].stage = "lost")
    BY <1>1, <1>6, Places DEF ServerKilled, Busy
  <2> QED
    BY <2>1
<1> QED
  BY <1>2, <1>3, <1>4, <1>5, <1>6, RequestFacts DEF Next

\* A journal line that does not parse is left by a power loss only, and from then
\* on the files stay as they are: nobody has the keystore in memory.
TornStep ==
  \/ Openable /\ Openable'
  \/ /\ ~Openable /\ ~Openable' /\ server.pc \notin Serving
     /\ \A k \in Keys : disk'.tomb[k] = disk.tomb[k]
  \/ Openable /\ ~Openable' /\ "torn" \in Faults /\ ServerKilled

LEMMA TornLine ==
  ASSUME "partial" \notin Faults, Types, FinalInv, DurableInv, [Next]_vars
  PROVE  TornStep
<1>1. ~Openable => server.pc \notin Serving /\ eraser.pc \notin Erasing
  BY DEF Openable, DurableInv, MemoryInv
<1>2. CASE UNCHANGED vars
  BY <1>1, <1>2 DEF TornStep, Openable, Lines, vars
<1>3. CASE EraseNext
  <2>1. Lines' = Lines \/ (Lines' = {} /\ eraser.pc \in Erasing)
    BY <1>3, EraseEffect, Places
  <2>2. disk' = disk \/ eraser.pc \in Erasing
    BY <1>3, EraseEffect, Places
  <2> QED
    BY <1>1, <2>1, <2>2 DEF TornStep, Openable
<1>4. CASE ServerNext /\ ~Openable
  <2>1. ServerStart \/ ServerLoad \/ ServerKilled
    BY <1>1, <1>4, Places DEF ServerNext, KeyForKnown, KeyForNew, LogRecord, JournalWrite,
       JournalSync, CompactSave, CompactUnlink, ServerStop, Types, ServerTypes, Servers, ServerPcs
  <2>2. journal' = journal
    BY <1>1, <1>4, <2>1, Places DEF ServerStart, ServerLoad, ServerKilled, UnchangedFiles
  <2>3. \A k \in Keys : disk'.tomb[k] = disk.tomb[k]
    <3>1. disk' = disk \/ (~disk.made /\ \A k \in Keys : disk'.tomb[k] = "none")
      BY <1>1, <1>4, Places, ServerEffect
    <3>2. ~disk.made => \A k \in Keys : disk.tomb[k] = "none"
      BY DEF FinalInv, TombInv, Tombed
    <3> QED
      BY <3>1, <3>2
  <2> QED
    BY <1>1, <1>4, <2>2, <2>3 DEF TornStep, Openable, Lines
<1>5. CASE ServerNext /\ Openable
  <2>1. FileTypes /\ Torn \notin Lines /\ Torn \notin Keys
    BY <1>5, KeystoreFacts DEF Types, Openable
  <2>2. CASE JournalWrite
    <3>1. server.key \in Keys
      BY <2>2, Places DEF JournalWrite, Types, ServerTypes
    <3>2. journal' = journal \/ journal' = WithLine(server.key)
      BY <2>2 DEF JournalWrite
    <3>3. Lines' = Lines \/ Lines' = Lines \cup {server.key}
      BY <2>1, <3>1, <3>2, JournalFacts DEF Lines
    <3> QED
      BY <1>5, <2>1, <3>1, <3>3 DEF TornStep, Openable
  <2>3. CASE CompactUnlink
    <3>1. journal' = journal \/ journal' = JournalFolded
      BY <2>3 DEF CompactUnlink
    <3>2. Lines' = Lines \/ Lines' = {}
      BY <2>1, <3>1, JournalFacts DEF Lines
    <3> QED
      BY <1>5, <2>1, <3>2 DEF TornStep, Openable
  <2>4. CASE ServerKilled
    <3>1. \/ journal' \in {journal, Front(journal)}
          \/ "torn" \in Faults
      BY <2>4 DEF ServerKilled
    <3>2. "torn" \notin Faults => Lines' \subseteq Lines
      BY <2>1, <3>1, JournalFacts DEF Lines
    <3> QED
      BY <1>5, <2>1, <2>4, <3>2 DEF TornStep, Openable
  <2>5. CASE journal' = journal
    BY <1>5, <2>5 DEF TornStep, Openable, Lines
  <2> QED
    BY <1>5, <2>2, <2>3, <2>4, <2>5 DEF ServerNext, ServerStart, ServerLoad, KeyForKnown, KeyForNew,
       LogRecord, JournalSync, CompactSave, ServerStop, UnchangedFiles
<1> QED
  BY <1>2, <1>3, <1>4, <1>5 DEF Next

\* A record in the log is bare, readable, locked or erased, as its key and the
\* journal say.
LEMMA ContentFacts ==
  ASSUME Types, DurableInv, NEW r \in Requests
  PROVE  ContentOf(r) = IF reqs[r].stage # "logged" THEN "absent"
                        ELSE IF reqs[r].key = NoKey THEN "bare"
                        ELSE IF Tombed(reqs[r].key) THEN "erased"
                        ELSE IF Openable THEN "readable" ELSE "locked"
<1>1. CASE reqs[r].stage = "logged" /\ reqs[r].key # NoKey /\ ~Tombed(reqs[r].key)
  <2>1. reqs[r].key \in Keys /\ reqs[r].key # Torn
    BY <1>1, KeystoreFacts DEF Types, ServerTypes
  <2>2. reqs[r].key \in LiveKeys
    BY <1>1, <2>1 DEF DurableInv, KeptInv, Held, LiveKeys
  <2> QED
    BY <1>1, <2>2 DEF ContentOf
<1> QED
  BY <1>1 DEF ContentOf

\* Every step writes one record, erases readable text, or locks it up.
LEMMA ContentStep ==
  ASSUME "partial" \notin Faults, Types, FinalInv, DurableInv, Types', DurableInv', TombsKept,
         [Next]_vars
  PROVE  [Promise!Next]_<<[r \in Requests |-> ContentOf(r)], Openable>>
<1>1. /\ reqs \in [Requests -> [stage : Stages, key : Keys \cup {NoKey}]]
      /\ server.mem.keys \subseteq Keys
  BY DEF Types, ServerTypes, Servers, Memories
<1> DEFINE Before(r) == IF reqs[r].stage # "logged" THEN "absent"
                        ELSE IF reqs[r].key = NoKey THEN "bare"
                        ELSE IF disk.tomb[reqs[r].key] # "none" THEN "erased"
                        ELSE IF Openable THEN "readable" ELSE "locked"
           After(r) == IF reqs'[r].stage # "logged" THEN "absent"
                       ELSE IF reqs'[r].key = NoKey THEN "bare"
                       ELSE IF disk'.tomb[reqs'[r].key] # "none" THEN "erased"
                       ELSE IF Openable' THEN "readable" ELSE "locked"
<1>2. \A r \in Requests : ContentOf(r) = Before(r)
  BY ContentFacts DEF Tombed
<1>3. ASSUME NEW r \in Requests PROVE ContentOf(r)' = After(r)
  <2>1. CASE /\ reqs'[r].stage = "logged" /\ reqs'[r].key # NoKey
             /\ disk'.tomb[reqs'[r].key] = "none"
    <3>1. reqs'[r].key \in Keys /\ reqs'[r].key # Torn
      BY <2>1, KeystoreFacts DEF Types, ServerTypes
    <3>2. reqs'[r].key \in LiveKeys'
      BY <2>1, <3>1 DEF DurableInv, KeptInv, Held, LiveKeys, Tombed
    <3> QED
      BY <2>1, <3>2 DEF ContentOf, Tombed
  <2> QED
    BY <2>1 DEF ContentOf, Tombed
<1>4. CASE \E r \in Requests : LogRecord(r)
  <2>1. PICK r \in Requests : LogRecord(r)
    BY <1>4
  <2>2. /\ disk' = disk /\ \A q \in Requests \ {r} : reqs'[q] = reqs[q]
        /\ Openable' = Openable
    BY <1>1, <2>1 DEF LogRecord, UnchangedFiles, Openable, Lines
  <2>3. Openable
    <3>1. server.pc \in Serving
      BY <2>1 DEF LogRecord, Types, ServerTypes, Servers, ServerPcs
    <3> QED
      BY <3>1 DEF DurableInv, MemoryInv, Openable
  <2>4. Before(r) = "absent" /\ After(r) \in {"bare", "readable"}
    <3>1. CASE reqs[r].stage = "sealed"
      <4>1. reqs'[r].stage = "logged" /\ reqs'[r].key = reqs[r].key
        BY <1>1, <2>1, <3>1 DEF LogRecord
      <4>2. server.pc \in Serving /\ reqs[r].key \in server.mem.keys
        BY <3>1 DEF DurableInv, KeptInv
      <4>3. disk'.tomb[reqs[r].key] = "none" /\ reqs[r].key # NoKey
        BY <1>1, <2>2, <4>2, KeystoreFacts DEF FinalInv, TombInv, Tombed
      <4> QED
        BY <2>2, <2>3, <3>1, <4>1, <4>3
    <3>2. CASE reqs[r].stage = "stripped"
      BY <1>1, <2>1, <3>2 DEF LogRecord
    <3> QED
      BY <2>1, <3>1, <3>2 DEF LogRecord
  <2>5. \A q \in Requests : q # r => After(q) = Before(q)
    BY <2>2
  <2> HIDE DEF Before, After
  <2>6. Promise!Write(r)
    BY <1>2, <1>3, <2>1, <2>2, <2>3, <2>4, <2>5 DEF Promise!Write, Promise!Becomes
  <2> QED
    BY <2>6 DEF Promise!Next
<1>5. CASE \A r \in Requests :
             IF reqs[r].stage = "logged" THEN reqs'[r] = reqs[r] ELSE reqs'[r].stage # "logged"
  <2>1. CASE Openable /\ Openable'
    <3> DEFINE R == {r \in Requests : Before(r) = "readable" /\ After(r) = "erased"}
    <3>1. ASSUME NEW r \in Requests
          PROVE  After(r) = Before(r) \/ (Before(r) = "readable" /\ After(r) = "erased")
      <4>1. CASE reqs[r].stage = "logged" /\ reqs[r].key # NoKey
        <5>1. reqs'[r] = reqs[r] /\ reqs[r].key \in Keys
          BY <1>1, <1>5, <4>1
        <5>2. disk.tomb[reqs[r].key] # "none" => disk'.tomb[reqs[r].key] # "none"
          BY <5>1 DEF TombsKept, Tombed
        <5> QED
          BY <2>1, <4>1, <5>1, <5>2
      <4>2. CASE ~(reqs[r].stage = "logged" /\ reqs[r].key # NoKey)
        BY <1>5, <4>2
      <4> QED
        BY <4>1, <4>2
    <3> HIDE DEF Before, After
    <3>2. \A r \in Requests : After(r) = IF r \in R THEN "erased" ELSE Before(r)
      BY <3>1
    <3>3. R \in SUBSET {r \in Requests : Before(r) = "readable"}
      OBVIOUS
    <3> HIDE DEF R
    <3>4. Promise!Erase
      BY <1>2, <1>3, <2>1, <3>2, <3>3 DEF Promise!Erase, Promise!Readable, Promise!Becomes
    <3> QED
      BY <3>4 DEF Promise!Next
  <2>2. CASE ~Openable /\ ~Openable' /\ \A k \in Keys : disk'.tomb[k] = disk.tomb[k]
    <3>1. \A r \in Requests : After(r) = Before(r)
      BY <1>1, <1>5, <2>2
    <3> HIDE DEF Before, After
    <3>2. [r \in Requests |-> After(r)] = [r \in Requests |-> Before(r)]
      BY <3>1
    <3>3. [r \in Requests |-> ContentOf(r)]' = [r \in Requests |-> ContentOf(r)]
      BY <1>2, <1>3, <3>2
    <3>4. Openable' = Openable
      BY <2>2 DEF Openable
    <3> QED
      BY <3>3, <3>4
  <2>3. CASE Openable /\ ~Openable' /\ "torn" \in Faults /\ ServerKilled
    <3>1. disk' = disk
      BY <2>3 DEF ServerKilled
    <3>2. \A r \in Requests : After(r) = IF Before(r) = "readable" THEN "locked" ELSE Before(r)
      BY <1>1, <1>5, <2>3, <3>1
    <3> HIDE DEF Before, After
    <3>3. Promise!LockUp
      BY <1>2, <1>3, <2>3, <3>2 DEF Promise!LockUp, Promise!Readable, Promise!Becomes
    <3> QED
      BY <3>3 DEF Promise!Next
  <2>4. TornStep
    BY TornLine
  <2> QED
    BY <2>1, <2>2, <2>3, <2>4 DEF TornStep
<1> QED
  BY <1>4, <1>5, LoggedFacts

\* As long as no server starts beside the erase command and no journal line is
\* written in part, the key that text is sealed under is in the files, or has a
\* tombstone there, from the moment KeyFor returns it: whatever fails, whoever
\* dies, and whatever a power loss takes of the line that was not fsynced.
THEOREM SealedKeyStaysDurable ==
  ASSUME "overlap" \notin Faults, "partial" \notin Faults
  PROVE  Spec => []SealedKeyIsDurable
<1>1. Types /\ FinalInv /\ [Next]_vars => FinalInv'
  BY FinalStep
<1>2. Types /\ FinalInv /\ DurableInv /\ [Next]_vars => DurableInv'
  BY FinalStep, DurableServerStep, DurableEraseStep, DurableStutter DEF Next
<1>3. Types /\ DurableInv => SealedKeyIsDurable
  <2>1. ASSUME Types, DurableInv, NEW r \in Requests, reqs[r].stage \in {"sealed", "logged"},
               reqs[r].key # NoKey
        PROVE  reqs[r].key \in LiveKeys \/ Tombed(reqs[r].key)
    <3>1. Held(reqs[r].key) /\ reqs[r].key # Torn
      BY <2>1, KeystoreFacts DEF DurableInv, KeptInv, Types, ServerTypes
    <3> QED
      BY <3>1 DEF Held, LiveKeys
  <2> QED
    BY <2>1 DEF SealedKeyIsDurable
<1> QED
  BY <1>1, <1>2, <1>3, FinalInit, DurableInit, TypesInit, TypesStep, PTL DEF Spec

\* Under the same assumptions the keystore and the log implement the abstract
\* promise: what is recorded is readable from the files until it is erased, and
\* once erased is never read again; no failure and no death of a process changes
\* that, but for a power loss in the middle of a journal line, which locks up all
\* the text at once and for good without losing a key.  If power losses take
\* lines only whole ("torn" is no fault), that cannot happen.
THEOREM ContentPromiseKept ==
  ASSUME "overlap" \notin Faults, "partial" \notin Faults
  PROVE  Spec => KeepsContentPromise
<1>1. Types /\ FinalInv /\ [Next]_vars => FinalInv'
  BY FinalStep
<1>2. Types /\ FinalInv /\ DurableInv /\ [Next]_vars => DurableInv'
  BY FinalStep, DurableServerStep, DurableEraseStep, DurableStutter DEF Next
<1>3. Init => Promise!Init
  <2>1. Init => (\A r \in Requests : reqs[r].stage # "logged") /\ Openable
    BY DEF Init, Openable, Lines, ToSet
  <2>2. (\A r \in Requests : reqs[r].stage # "logged") => \A r \in Requests : ContentOf(r) = "absent"
    BY DEF ContentOf
  <2> QED
    BY <2>1, <2>2 DEF Promise!Init, Openable
<1>4. /\ Types /\ FinalInv /\ DurableInv /\ Types' /\ DurableInv' /\ [Next]_vars
      => [Promise!Next]_<<[r \in Requests |-> ContentOf(r)], Openable>>
  BY FinalStep, ContentStep
<1> QED
  BY <1>1, <1>2, <1>3, <1>4, FinalInit, DurableInit, TypesInit, TypesStep, PTL
     DEF Spec, KeepsContentPromise, Promise!Spec

=============================================================================
