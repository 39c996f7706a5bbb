-------------------------- MODULE MCContentKeystore --------------------------
(* Two requests of one session and one of none. *)
EXTENDS ContentKeystore

CONSTANTS r1, r2, r3, s1
MCSessionOf == [r \in Requests |-> IF r = r3 THEN NoSession ELSE s1]
=============================================================================
