---- MODULE MCStoreQueue ----
(* The sets StoreQueue is checked with. *)
EXTENDS StoreQueue

AllFaults == FaultKinds
SignFaults == {"sign"}
====
