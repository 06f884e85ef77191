------------------------------ MODULE MCSmallHeap ------------------------------
(* SmallHeap with few arenas of few blocks, for TLC. *)
EXTENDS SmallHeap, TLC

(* Addresses of arenas are interchangeable. *)
Symmetry == Permutations(Arena)
================================================================================
