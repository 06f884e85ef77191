------------------------------ MODULE ObjScanner -------------------------------
(***************************************************************************)
(* Marking: the object scanner (gc/obj_scanner.cpp) and the two passes     *)
(* that a collection makes with it, from the roots                         *)
(* (GcRoots::foreach_root) and from the registered finalizers              *)
(* (GcFinalizer::promote_unreachable), over one mark bitmap.               *)
(*                                                                         *)
(* The scanner recurses, to a limited depth; beyond it, it defers objects  *)
(* to a queue, which it flushes when it is long, in the middle of the      *)
(* recursion, or at the end of the pass.  `stack` is the C++ stack: one    *)
(* frame for a call that scans the slots of an object, one for a call of   *)
(* flush_deferred_field_scans.                                             *)
(*                                                                         *)
(* The slots of an object are visited in layout order, which the model     *)
(* leaves open: an object has a set of them.  The path for arrays of a     *)
(* sealed class without references marks and does no more, as the general  *)
(* path does for an object of such a class.                                *)
(***************************************************************************)
EXTENDS Naturals, Sequences, FiniteSets

CONSTANTS
  Object,
  Null,
  MaxDepth,    \* kMaxRecursiveVisitDepth
  Threshold    \* kDeferredScanBatchThreshold

ASSUME NullAssumption == Null \notin Object
ASSUME LimitsAssumption == MaxDepth \in Nat /\ Threshold \in Nat \ {0}

VARIABLES
  slots,       \* object -> objects its reference slots hold
  plain,       \* objects of a class without references
  roots,       \* targets of root slots and strong handles
  statics,     \* targets of static fields
  registered,  \* s_registry, the active entries
  marked,      \* the mark bitmap
  promoted,    \* s_freachable
  queue,       \* deferred_field_scan_queue_
  flushes,     \* deferred_scan_depth_
  depth,       \* recursive_visit_depth_
  stack,       \* C++ activations of the scanner, innermost last
  phase,       \* where the collection is
  todo         \* roots or registrations that the phase still has to visit

heapVars == <<slots, plain, roots, statics, registered>>
scanVars == <<marked, queue, flushes, depth, stack>>
vars == <<slots, plain, roots, statics, registered, marked, promoted, queue,
          flushes, depth, stack, phase, todo>>

--------------------------------------------------------------------------------
Scan(kind, o, S) == [kind |-> kind, obj |-> o, left |-> S]
Flush == Scan("flush", Null, {})

Top == stack[Len(stack)]
Popped == SubSeq(stack, 1, Len(stack) - 1)

Closed(S) == \A o \in S : slots[o] \subseteq S
Reach(S) == {o \in Object : \A T \in SUBSET Object : S \subseteq T /\ Closed(T) => o \in T}

(* Any heap, and a scanner that has not begun.                             *)
Start ==
  /\ slots \in [Object -> SUBSET Object]
  /\ plain \in SUBSET Object
  /\ \A o \in plain : slots[o] = {}
  /\ roots \in SUBSET Object /\ statics \in SUBSET Object
  /\ registered \in SUBSET Object
  /\ marked = {} /\ promoted = {}
  /\ queue = <<>> /\ flushes = 0 /\ depth = 0 /\ stack = <<>>

Init == Start /\ phase = "roots" /\ todo = roots

--------------------------------------------------------------------------------
(* The scanner.                                                            *)

(* visit_object, from outside                                              *)
VisitObject(o) ==
  /\ marked' = marked \cup {o}
  /\ stack' = IF o \in marked \cup plain THEN stack
              ELSE Append(stack, Scan("root", o, slots[o]))
  /\ UNCHANGED <<queue, flushes, depth>>

(* The rest are steps of a scan: c is the object its next slot holds, and  *)
(* enqueue_deferred_field_scan is called with it.                          *)
Advanced(c) == [stack EXCEPT ![Len(stack)].left = @ \ {c}]

(* Mutant: one level too many. *)
MayRecurseDeeper == flushes = 0 /\ Len(queue) < Threshold /\ depth <= MaxDepth
MayRecurse == flushes = 0 /\ Len(queue) < Threshold /\ depth < MaxDepth

(* c is marked already, or it has no slots to scan.                        *)
PassOver(c) ==
  /\ c \in marked \cup plain
  /\ marked' = marked \cup {c}
  /\ stack' = Advanced(c)
  /\ UNCHANGED <<queue, flushes, depth>>

Recurse(c) ==
  /\ c \notin marked \cup plain
  /\ MayRecurse
  /\ marked' = marked \cup {c}
  /\ depth' = depth + 1
  /\ stack' = Append(Advanced(c), Scan("nested", c, slots[c]))
  /\ UNCHANGED <<queue, flushes>>

(* The queue is flushed at once if it has grown long, unless a flush is    *)
(* what put c there.                                                       *)
Defer(c) ==
  /\ c \notin marked \cup plain
  /\ ~MayRecurse
  /\ marked' = marked \cup {c}
  /\ queue' = Append(queue, c)
  /\ IF Len(queue) + 1 >= Threshold /\ flushes = 0
     THEN flushes' = flushes + 1 /\ stack' = Append(Advanced(c), Flush)
     ELSE flushes' = flushes /\ stack' = Advanced(c)
  /\ depth' = depth

Scanning == stack # <<>> /\ Top.kind # "flush"
Flushing == stack # <<>> /\ Top.kind = "flush"

VisitSlot(c) ==
  /\ PassOver(c) \/ Recurse(c) \/ Defer(c)
  /\ UNCHANGED <<heapVars, promoted, phase, todo>>

ScanSlot == Scanning /\ \E c \in Top.left : VisitSlot(c)

ScanEnds ==
  /\ Scanning /\ Top.left = {}
  /\ stack' = Popped
  /\ depth' = IF Top.kind = "nested" THEN depth - 1 ELSE depth
  /\ UNCHANGED <<heapVars, promoted, phase, todo, marked, queue, flushes>>

(* Mutant: the first object is scanned and the last one taken out.         *)
FlushNextFirst ==
  /\ Flushing /\ queue # <<>>
  /\ stack' = Append(stack, Scan("deferred", Head(queue), slots[Head(queue)]))
  /\ queue' = SubSeq(queue, 1, Len(queue) - 1)
  /\ UNCHANGED <<heapVars, promoted, phase, todo, marked, flushes, depth>>

(* Mutant: the object that is scanned stays in the queue.                  *)
FlushNextKeeps ==
  /\ Flushing /\ queue # <<>>
  /\ LET o == queue[Len(queue)]
     IN  stack' = Append(stack, Scan("deferred", o, slots[o]))
  /\ UNCHANGED <<heapVars, promoted, phase, todo, marked, queue, flushes, depth>>

(* flush_deferred_field_scans takes from the end.                          *)
FlushNext ==
  /\ Flushing /\ queue # <<>>
  /\ LET o == queue[Len(queue)]
     IN  stack' = Append(stack, Scan("deferred", o, slots[o]))
  /\ queue' = SubSeq(queue, 1, Len(queue) - 1)
  /\ UNCHANGED <<heapVars, promoted, phase, todo, marked, flushes, depth>>

FlushEnds ==
  /\ Flushing /\ queue = <<>> /\ Len(stack) > 1
  /\ stack' = Popped
  /\ flushes' = flushes - 1
  /\ UNCHANGED <<heapVars, promoted, phase, todo, marked, queue, depth>>

--------------------------------------------------------------------------------
(* foreach_root *)
VisitRoot(r) ==
  /\ phase = "roots" /\ stack = <<>> /\ r \in todo
  /\ todo' = todo \ {r}
  /\ VisitObject(r)
  /\ UNCHANGED <<heapVars, promoted, phase>>

(* visit_all_classes_static_data follows the bitmaps of the static fields. *)
VisitStatics ==
  /\ phase = "roots" /\ stack = <<>> /\ todo = {}
  /\ phase' = "statics"
  /\ stack' = <<Scan("root", Null, statics)>>
  /\ UNCHANGED <<heapVars, promoted, marked, queue, flushes, depth, todo>>

(* promote_unreachable passes over what is marked by now.                  *)
Promote(o) ==
  /\ phase = "promote" /\ stack = <<>> /\ o \in todo
  /\ todo' = todo \ {o}
  /\ IF o \in marked THEN UNCHANGED <<promoted, scanVars>>
     ELSE promoted' = promoted \cup {o} /\ VisitObject(o)
  /\ UNCHANGED <<heapVars, phase>>

(* finish_visit, at the end of either pass                                 *)
Finish ==
  /\ phase \in {"statics", "promote"} /\ stack = <<>> /\ todo = {}
  /\ phase' = IF phase = "statics" THEN "endRoots" ELSE "endPromote"
  /\ stack' = <<Flush>>
  /\ flushes' = flushes + 1
  /\ UNCHANGED <<heapVars, promoted, marked, queue, depth, todo>>

(* Mutant: finish_visit does not wait for the queue to empty.              *)
PassEndsEarly ==
  /\ Flushing /\ Len(stack) = 1
  /\ stack' = <<>>
  /\ flushes' = flushes - 1
  /\ \/ phase = "endRoots" /\ phase' = "promote" /\ todo' = registered
     \/ phase = "endPromote" /\ phase' = "done" /\ todo' = {}
  /\ UNCHANGED <<heapVars, promoted, marked, queue, depth>>

(* The pass returns; the next one makes a scanner of its own.              *)
PassEnds ==
  /\ Flushing /\ queue = <<>> /\ Len(stack) = 1
  /\ stack' = <<>>
  /\ flushes' = flushes - 1
  /\ \/ phase = "endRoots" /\ phase' = "promote" /\ todo' = registered
     \/ phase = "endPromote" /\ phase' = "done" /\ todo' = {}
  /\ UNCHANGED <<heapVars, promoted, marked, queue, depth>>

Next ==
  \/ ScanSlot \/ ScanEnds \/ FlushNext \/ FlushEnds
  \/ \E o \in Object : VisitRoot(o) \/ Promote(o)
  \/ VisitStatics \/ Finish \/ PassEnds

Spec == Init /\ [][Next]_vars

(* Marking is a run of one thread with nothing to wait for: it goes on as  *)
(* long as there is something to do.                                       *)
FairSpec == Spec /\ WF_vars(Next)

--------------------------------------------------------------------------------
Activation ==
  {f \in [kind : {"root", "nested", "deferred", "flush"},
          obj : Object \cup {Null}, left : SUBSET Object] :
     f.kind = "flush" => f.left = {}}

(* The phases of a collection, and those of the liveness walks that        *)
(* HeapWalks adds.                                                         *)
Phase == {"roots", "statics", "endRoots", "promote", "endPromote", "done"}
         \cup {"host", "walk", "endWalk"}

Queued == {queue[i] : i \in 1 .. Len(queue)}
Frames == {stack[i] : i \in 1 .. Len(stack)}

TypeOK ==
  /\ slots \in [Object -> SUBSET Object]
  /\ {plain, roots, statics, registered, marked, promoted, todo} \subseteq SUBSET Object
  /\ queue \in Seq(Object)
  /\ flushes \in Nat /\ depth \in Nat
  /\ stack \in Seq(Activation)
  /\ phase \in Phase

(* Marking is exact, which is what MarkSweepGC takes for granted: the live *)
(* objects are those that the roots, the static fields and the promoted    *)
(* objects reach, however deep and however the scan was cut up; only what  *)
(* the first pass did not reach is promoted; and a registered object that  *)
(* was passed over is reached by a promoted one.                           *)
Condemned == registered \ Reach(roots \cup statics)
MarkingExact ==
  phase = "done" =>
    /\ marked = Reach(roots \cup statics \cup promoted)
    /\ promoted \subseteq Condemned
    /\ Condemned \subseteq Reach(promoted)

(* Whatever the graph, the C++ stack stays bounded: the call from outside, *)
(* the recursive scans and, at the end of them, one flush and a scan of    *)
(* its own, which does not recurse.                                        *)
StackBounded == Len(stack) <= MaxDepth + (IF flushes = 0 THEN 1 ELSE 3)

(* The counters that limit recursion and flushes tell the truth about the  *)
(* stack.                                                                  *)
CountersExact ==
  /\ depth = Cardinality({i \in 1 .. Len(stack) : stack[i].kind = "nested"})
  /\ flushes = Cardinality({i \in 1 .. Len(stack) : stack[i].kind = "flush"})

(* Outside a flush the queue is shorter than the batch size, and the       *)
(* scanner is destroyed with an empty one (the assertions of finish_visit  *)
(* and of the destructor).                                                 *)
QueueBounded ==
  /\ flushes = 0 => Len(queue) < Threshold
  /\ stack = <<>> /\ phase = "done" => queue = <<>>

(* No object is scanned twice: one that starts to be scanned, or is put    *)
(* off, was not marked, or comes from the queue, where it was once.        *)
ScannedOnce ==
  /\ \A i, j \in 1 .. Len(queue) : queue[i] = queue[j] => i = j
  /\ \A f \in Frames : f.obj \notin Queued
  /\ \A i, j \in 1 .. Len(stack) : stack[i].obj = stack[j].obj /\ i # j => stack[i].obj = Null

(* Marking ends, on cyclic graphs too. *)
MarkingEnds == <>(phase = "done")

--------------------------------------------------------------------------------
(* The inductive invariant behind MarkingExact and StackBounded.           *)

(* What a marked object holds is marked, or a scan of it is still to come. *)
MarkedCovered ==
  \A o \in marked : \A c \in slots[o] :
    \/ c \in marked
    \/ o \in Queued
    \/ \E f \in Frames : f.obj = o /\ c \in f.left

Sources == roots \cup statics \cup promoted

(* The scan stays inside what its sources reach. *)
ScanSound ==
  /\ Queued \subseteq marked
  /\ marked \subseteq Reach(Sources)
  /\ \A f \in Frames : f.left \subseteq Reach(Sources)

(* What each phase has seen to. *)
PhaseInv ==
  /\ phase \in {"roots", "statics", "endRoots"} => promoted = {}
  /\ phase = "roots" => todo \subseteq roots /\ roots \ todo \subseteq marked
  /\ phase \in {"statics", "endRoots"} =>
       /\ todo = {} /\ roots \subseteq marked
       /\ \A c \in statics : c \in marked \/ \E f \in Frames : f.obj = Null /\ c \in f.left
  /\ phase \in {"promote", "endPromote", "done"} =>
       /\ Reach(roots \cup statics) \subseteq marked
       /\ promoted \subseteq marked \cap Condemned
       /\ todo \subseteq registered /\ registered \ todo \subseteq marked
  /\ phase \in {"endPromote", "done"} => todo = {}
  /\ phase = "done" => stack = <<>> /\ queue = <<>>

(* Below position p there are the call from outside and the recursive      *)
(* scans it led to, or nothing.                                            *)
Recursion(p) ==
  \/ p = 1 /\ depth = 0
  \/ /\ p = depth + 2
     /\ stack[1].kind = "root"
     /\ \A i \in 2 .. p - 1 : stack[i].kind = "nested"

StackShape ==
  /\ depth <= MaxDepth
  /\ flushes \in {0, 1}
  /\ flushes = 0 => Recursion(Len(stack) + 1)
  /\ flushes = 1 =>
       \/ Recursion(Len(stack)) /\ Top.kind = "flush"
       \/ /\ Recursion(Len(stack) - 1) /\ Top.kind = "deferred"
          /\ stack[Len(stack) - 1].kind = "flush"

SlotsInv == \A o \in plain : slots[o] = {}

IInv == /\ TypeOK /\ SlotsInv /\ MarkedCovered /\ ScanSound /\ PhaseInv
        /\ StackShape /\ QueueBounded
================================================================================
