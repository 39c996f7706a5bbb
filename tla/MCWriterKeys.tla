---------------------------- MODULE MCWriterKeys ----------------------------
(* WriterKeys for model checking: processes, hosts and pids are model values *)
(* that no action tells apart.                                               *)
EXTENDS WriterKeys, TLC

Symmetry == Permutations(Procs) \cup Permutations(Hosts) \cup Permutations(Pids)
=============================================================================
