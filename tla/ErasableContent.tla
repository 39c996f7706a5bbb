--------------------------- MODULE ErasableContent ---------------------------
(***************************************************************************)
(* What the encrypted evidence promises about stored content: a record is  *)
(* written once, with its text sealed or without text, and what happens to *)
(* the text is that an erasure destroys it, or that the keystore can no    *)
(* longer be opened and locks it in.                                       *)
(***************************************************************************)
CONSTANTS
  Records,          \* the interactions that may be recorded
  MayLock           \* whether the keystore may become unreadable

VARIABLES
  content,          \* what can be read of each of them
  open              \* the keystore can be opened

States == {"absent", "bare", "readable", "locked", "erased"}

Init == content = [r \in Records |-> "absent"] /\ open = TRUE

Readable == {r \in Records : content[r] = "readable"}
Becomes(R, what) == content' = [r \in Records |-> IF r \in R THEN what ELSE content[r]]

(* A record enters the log, sealed under a key or without text. *)
Write(r) ==
  /\ open /\ content[r] = "absent"
  /\ \E c \in {"bare", "readable"} : Becomes({r}, c)
  /\ UNCHANGED open

(* Destroying keys makes the records under them unreadable, together. *)
Erase ==
  /\ open
  /\ \E R \in SUBSET Readable : Becomes(R, "erased")
  /\ UNCHANGED open

(* The keystore becomes unreadable: all the text is locked in, still under its *)
(* keys, and nothing is written or erased any more.                            *)
LockUp ==
  /\ MayLock /\ open
  /\ open' = FALSE
  /\ Becomes(Readable, "locked")

Next == Erase \/ LockUp \/ \E r \in Records : Write(r)

Spec == Init /\ [][Next]_<<content, open>>

=============================================================================
