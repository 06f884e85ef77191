---------------------------- MODULE MCMarkSweepGC ------------------------------
(* MarkSweepGC with few addresses, one field and bounded nesting, for TLC. *)
EXTENDS MarkSweepGC, TLC

(* Addresses are interchangeable. *)
Symmetry == Permutations(Addr)
================================================================================
