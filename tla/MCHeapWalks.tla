----------------------------- MODULE MCHeapWalks -------------------------------
(* HeapWalks on small graphs, for TLC. *)
EXTENDS HeapWalks, TLC

CONSTANTS MaxEdges, MaxOut, MaxTargets, o1, o2, o3

Edges(s) == {e \in Object \X Object : e[2] \in s[e[1]]}
Graphs == {s \in [Object -> {S \in SUBSET Object : Cardinality(S) <= MaxOut}] :
             Cardinality(Edges(s)) <= MaxEdges}
Few == {S \in SUBSET Object : Cardinality(S) <= MaxTargets}

(* The first two objects share a segment; the third has one of its own,    *)
(* which shares the only entry of the cache.                               *)
MCSlot == o1 :> 0 @@ o2 :> 1 @@ o3 :> 4

(* Graphs with few edges.  An object without slots has a class without     *)
(* references, or fields that are null.                                    *)
MCInit ==
  /\ slots \in Graphs
  /\ plain \in {{}, {o \in Object : slots[o] = {}}}
  /\ roots \in Few /\ statics \in Few
  /\ wanted \in {{}, Object, {o1, o3}}
  /\ WalksInit

MCSpec == MCInit /\ [][WalksNext]_allVars
MCFairSpec == MCSpec /\ WF_allVars(WalksNext)
================================================================================
