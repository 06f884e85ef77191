--------------------------- MODULE MCGCHandleTable -----------------------------
(* GCHandleTable with few cells, objects and ids, for TLC. *)
EXTENDS GCHandleTable, TLC

(* Cells and objects are interchangeable. *)
Symmetry == Permutations(Cell) \cup Permutations(Object)
================================================================================
