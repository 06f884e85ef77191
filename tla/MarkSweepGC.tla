----------------------------- MODULE MarkSweepGC -------------------------------
(***************************************************************************)
(* The mark-sweep collector of gc/mark_sweep with its finalizers           *)
(* (gc/gc_finalizer.cpp), its roots (gc/gc_roots.cpp) and the weak handles *)
(* of vm/gchandle.cpp, driven by the host (il2cpp_gc_collect) and by       *)
(* managed code.                                                           *)
(*                                                                         *)
(* Everything runs on one thread, but not to completion: a collection      *)
(* first runs the finalizers that the previous one queued, and a finalizer *)
(* is managed code that may do anything, including calling the collector.  *)
(* The control stack `calls` makes those nestings explicit.                *)
(*                                                                         *)
(* The collector knows an object by its address only, and the allocator    *)
(* hands freed addresses out again.  serial counts the lives of an address *)
(* so that properties can tell an object from its successor; no guard of   *)
(* the model reads it.                                                     *)
(***************************************************************************)
EXTENDS Naturals, Sequences, FiniteSets

CONSTANTS
  Addr,            \* addresses of objects
  Field,           \* reference slots of an object
  Null,            \* the null reference
  ManagedCollect,  \* when managed code calls GC.Collect: "never", "bare"
                   \* (no activation uses a reference it holds again) or "any"
  MaxSerial,       \* bound: lives of one address
  MaxCalls,        \* bound: depth of the control stack
  MaxWeak          \* bound: weak handles in use

ASSUME NullAssumption == Null \notin Addr
ASSUME BoundsAssumption == {MaxSerial, MaxCalls, MaxWeak} \subseteq Nat
ASSUME ManagedCollectAssumption == ManagedCollect \in {"never", "bare", "any"}

VARIABLES
  heap,      \* allocated addresses
  refs,      \* field contents
  fin,       \* objects whose class has a finalizer
  serial,    \* ghost: how many objects have lived at an address
  roots,     \* targets of root slots, static fields and strong handles
  weak,      \* targets of weak handles, with their serial when obtained
  reg,       \* s_registry: object -> FinalizerRegState
  freach,    \* s_freachable: objects queued for finalization (with serial)
  calls,     \* control stack, innermost activation last
  enabled    \* s_gc_mode is not DISABLED

vars == <<heap, refs, fin, serial, roots, weak, reg, freach, calls, enabled>>
mutVars == <<fin, serial, reg, freach, enabled>>

--------------------------------------------------------------------------------
(* Activations.  Managed code holds references in its frame; Collect and   *)
(* Wait are run_pending_finalizers working through their copy of the       *)
(* queue, inside collect() and inside wait_for_pending_finalizers().       *)
Managed(S) == [kind |-> "Managed", locals |-> S]
Runner(kind, S) == [kind |-> kind, todo |-> S]

Depth == Len(calls)
Top == calls[Depth]
Popped == SubSeq(calls, 1, Depth - 1)
Pushed(f) == Append(calls, f)
WithTop(f) == [calls EXCEPT ![Depth] = f]

IsManaged(f) == f.kind = "Managed"
Locals == UNION {calls[i].locals : i \in {j \in 1 .. Depth : IsManaged(calls[j])}}
Todo == UNION {calls[i].todo : i \in {j \in 1 .. Depth : ~IsManaged(calls[j])}}

(* The host holds control at a safe point: no managed frame holds a        *)
(* reference.                                                              *)
AtHost == calls = <<Managed({})>>

(* The objects that can be reached from S by following fields.             *)
Closed(S) == \A a \in S, f \in Field : refs[a][f] \in S \cup {Null}
Reach(S) == {a \in Addr : \A T \in SUBSET Addr : S \subseteq T /\ Closed(T) => a \in T}

Ref(a) == <<a, serial[a]>>
AddrsOf(R) == {r[1] : r \in R}
NoFields == [f \in Field |-> Null]

Init ==
  /\ heap = {} /\ fin = {} /\ roots = {} /\ weak = {} /\ freach = {}
  /\ refs = [a \in Addr |-> NoFields]
  /\ serial = [a \in Addr |-> 0]
  /\ reg = <<>>
  /\ calls = <<Managed({})>>
  /\ enabled = TRUE

--------------------------------------------------------------------------------
(* The mutator: what managed code does between two calls into the runtime. *)

Hold(a) == calls' = WithTop(Managed(Top.locals \cup {a}))

(* allocate_object: the memory is taken as it was left by the sweep, which *)
(* zeroes it; an object of a class with a finalizer is registered.         *)
Allocate(a, hasFinalizer) ==
  /\ IsManaged(Top)
  /\ a \notin heap
  /\ serial[a] < MaxSerial
  /\ heap' = heap \cup {a}
  /\ serial' = [serial EXCEPT ![a] = @ + 1]
  /\ fin' = IF hasFinalizer THEN fin \cup {a} ELSE fin \ {a}
  /\ reg' = IF hasFinalizer
            THEN [b \in DOMAIN reg \cup {a} |-> IF b = a THEN "Active" ELSE reg[b]]
            ELSE reg
  /\ Hold(a)
  /\ UNCHANGED <<refs, roots, weak, freach, enabled>>

LoadField(a, f) ==
  /\ IsManaged(Top)
  /\ a \in Top.locals
  /\ refs[a][f] # Null
  /\ Hold(refs[a][f])
  /\ UNCHANGED <<heap, refs, roots, weak, mutVars>>

StoreField(a, f, b) ==
  /\ IsManaged(Top)
  /\ a \in Top.locals
  /\ b \in Top.locals \cup {Null}
  /\ refs' = [refs EXCEPT ![a][f] = b]
  /\ UNCHANGED <<heap, roots, weak, calls, mutVars>>

LoadRoot(a) ==
  /\ IsManaged(Top)
  /\ a \in roots
  /\ Hold(a)
  /\ UNCHANGED <<heap, refs, roots, weak, mutVars>>

StoreRoot(a) ==
  /\ IsManaged(Top)
  /\ a \in Top.locals
  /\ roots' = roots \cup {a}
  /\ UNCHANGED <<heap, refs, weak, calls, mutVars>>

ClearRoot(a) ==
  /\ IsManaged(Top)
  /\ a \in roots
  /\ roots' = roots \ {a}
  /\ UNCHANGED <<heap, refs, weak, calls, mutVars>>

NewWeakHandle(a) ==
  /\ IsManaged(Top)
  /\ a \in Top.locals
  /\ Cardinality(weak) < MaxWeak
  /\ weak' = weak \cup {Ref(a)}
  /\ UNCHANGED <<heap, refs, roots, calls, mutVars>>

LoadWeakHandle(r) ==
  /\ IsManaged(Top)
  /\ r \in weak
  /\ Hold(r[1])
  /\ UNCHANGED <<heap, refs, roots, weak, mutVars>>

FreeWeakHandle(r) ==
  /\ IsManaged(Top)
  /\ r \in weak
  /\ weak' = weak \ {r}
  /\ UNCHANGED <<heap, refs, roots, calls, mutVars>>

DropLocal(a) ==
  /\ IsManaged(Top)
  /\ a \in Top.locals
  /\ calls' = WithTop(Managed(Top.locals \ {a}))
  /\ UNCHANGED <<heap, refs, roots, weak, mutVars>>

(* Managed code that the host called returns and leaves no reference.      *)
ReturnToHost ==
  /\ Depth = 1
  /\ Top.locals # {}
  /\ calls' = <<Managed({})>>
  /\ UNCHANGED <<heap, refs, roots, weak, mutVars>>

(* The innermost finalizer returns, normally or with an exception, which   *)
(* run_pending_finalizers only logs.                                       *)
FinalizerReturns ==
  /\ IsManaged(Top)
  /\ Depth > 1
  /\ calls' = Popped
  /\ UNCHANGED <<heap, refs, roots, weak, mutVars>>

(* GC.SuppressFinalize *)
Suppress(a) ==
  /\ IsManaged(Top)
  /\ a \in Top.locals \cap fin
  /\ a \in DOMAIN reg
  /\ reg[a] = "Active"
  /\ reg' = [reg EXCEPT ![a] = "Suppressed"]
  /\ UNCHANGED <<heap, refs, fin, serial, roots, weak, freach, calls, enabled>>

(* GC.ReRegisterForFinalize *)
Reregister(a) ==
  /\ IsManaged(Top)
  /\ a \in Top.locals \cap fin
  /\ reg' = [b \in DOMAIN reg \cup {a} |-> IF b = a THEN "Active" ELSE reg[b]]
  /\ UNCHANGED <<heap, refs, fin, serial, roots, weak, freach, calls, enabled>>

(* GC.WaitForPendingFinalizers *)
Wait ==
  /\ IsManaged(Top)
  /\ freach # {}
  /\ Depth + 1 < MaxCalls
  /\ calls' = Pushed(Runner("Wait", freach))
  /\ freach' = {}
  /\ UNCHANGED <<heap, refs, fin, serial, roots, weak, reg, enabled>>

(* il2cpp_gc_enable, il2cpp_gc_disable, il2cpp_gc_set_mode *)
SetMode(on) ==
  /\ IsManaged(Top)
  /\ enabled' = on
  /\ UNCHANGED <<heap, refs, fin, serial, roots, weak, reg, freach, calls>>

--------------------------------------------------------------------------------
(* The collector. *)

(* Mutant: the queue is copied and not cleared.                            *)
StartCollectKeepsQueue ==
  /\ enabled
  /\ Depth + 1 < MaxCalls
  /\ calls' = Pushed(Runner("Collect", freach))
  /\ UNCHANGED <<heap, refs, fin, serial, roots, weak, reg, freach, enabled>>

(* collect() up to run_pending_finalizers, which empties the queue into a  *)
(* local copy before it runs anything.                                     *)
StartCollect ==
  /\ enabled
  /\ Depth + 1 < MaxCalls
  /\ calls' = Pushed(Runner("Collect", freach))
  /\ freach' = {}
  /\ UNCHANGED <<heap, refs, fin, serial, roots, weak, reg, enabled>>

(* The host calls il2cpp_gc_collect, or il2cpp_gc_collect_a_little when    *)
(* enough has been allocated.                                              *)
HostCollect == AtHost /\ StartCollect

(* Managed code calls GC.Collect, whose InternalCollect collects at once.  *)
CodeCollect ==
  /\ IsManaged(Top) /\ ~AtHost
  /\ \/ ManagedCollect = "any"
     \/ ManagedCollect = "bare" /\ Locals = {}
  /\ StartCollect

(* run_pending_finalizers takes the next object of its copy.  It is looked *)
(* up by address; unless it is registered and active it is passed over.    *)
SkipPending(r) ==
  /\ ~IsManaged(Top)
  /\ r \in Top.todo
  /\ ~(r[1] \in DOMAIN reg /\ reg[r[1]] = "Active")
  /\ calls' = WithTop(Runner(Top.kind, Top.todo \ {r}))
  /\ UNCHANGED <<heap, refs, fin, serial, roots, weak, reg, freach, enabled>>

RunFinalizer(r) ==
  /\ ~IsManaged(Top)
  /\ r \in Top.todo
  /\ r[1] \in DOMAIN reg /\ reg[r[1]] = "Active"
  /\ Depth < MaxCalls
  /\ reg' = [reg EXCEPT ![r[1]] = "Finalized"]
  /\ calls' = Append(WithTop(Runner(Top.kind, Top.todo \ {r})), Managed({r[1]}))
  /\ UNCHANGED <<heap, refs, fin, serial, roots, weak, freach, enabled>>

WaitReturns ==
  /\ Top.kind = "Wait" /\ Top.todo = {}
  /\ calls' = Popped
  /\ UNCHANGED <<heap, refs, fin, serial, roots, weak, reg, freach, enabled>>

(* Active registrations of objects that marking did not reach.             *)
Condemned == {a \in DOMAIN reg : reg[a] = "Active" /\ a \notin Reach(roots)}

(* Mutant: promoted objects are queued and not scanned.                    *)
AliveRootsOnly(promoted) == Reach(roots)
(* Mutant: promoted objects are marked and their fields are not.           *)
AliveShallow(promoted) == Reach(roots) \cup promoted
(* Mutant: roots are marked and their fields are not.                      *)
AliveRootsShallow(promoted) == roots \cup Reach(promoted)

(* Mutant: registration keeps an object alive.                             *)
AliveRegistered(promoted) == Reach(roots \cup DOMAIN reg)

(* The mark bitmap once roots and promoted objects have been scanned.      *)
Alive(promoted) == Reach(roots \cup promoted)

(* The sweep zeroes what it frees. *)
SweptFields(freed) == [a \in Addr |-> IF a \in freed THEN NoFields ELSE refs[a]]

(* Mutant: on_object_freed is not called.                                  *)
SweptRegistryKept(freed) == reg

(* on_object_freed *)
SweptRegistry(freed) == [a \in DOMAIN reg \ (freed \cap fin) |-> reg[a]]

(* Mutant: sweep_weak_handles is not called.                               *)
SweptWeakKept(alive) == weak

(* sweep_weak_handles *)
SweptWeak(alive) == {r \in weak : r[1] \in alive}

(* foreach_root, promote_unreachable, sweep of the pools and of the big    *)
(* objects, sweep_weak_handles.  No managed code runs in between.          *)
(* promoted is what promote_unreachable queues: it walks the registry in   *)
(* hash order and passes over an object that an earlier one already        *)
(* reaches, unless the scanner has deferred that part of the graph.        *)
FinishCollect(promoted) ==
  LET freed == heap \ Alive(promoted)
  IN  /\ Top.kind = "Collect" /\ Top.todo = {}
      /\ promoted \subseteq Condemned
      /\ Condemned \subseteq Reach(promoted)
      /\ freach' = freach \cup {Ref(a) : a \in promoted}
      /\ heap' = heap \ freed
      /\ refs' = SweptFields(freed)
      /\ reg' = SweptRegistry(freed)
      /\ weak' = SweptWeak(Alive(promoted))
      /\ calls' = Popped
      /\ UNCHANGED <<fin, serial, roots, enabled>>

Mutate ==
  \/ \E a \in Addr, h \in BOOLEAN : Allocate(a, h)
  \/ \E a \in Addr, f \in Field : LoadField(a, f)
  \/ \E a \in Addr, f \in Field, b \in Addr \cup {Null} : StoreField(a, f, b)
  \/ \E a \in Addr : LoadRoot(a) \/ StoreRoot(a) \/ ClearRoot(a) \/ DropLocal(a)
  \/ \E a \in Addr : NewWeakHandle(a) \/ Suppress(a) \/ Reregister(a)
  \/ \E r \in weak : LoadWeakHandle(r) \/ FreeWeakHandle(r)
  \/ Wait
  \/ \E on \in BOOLEAN : SetMode(on)

Pending == freach \cup Todo

RunnerSteps ==
  \/ \E r \in Todo : SkipPending(r) \/ RunFinalizer(r)
  \/ WaitReturns
  \/ \E promoted \in SUBSET heap : FinishCollect(promoted)

Next ==
  \/ Mutate
  \/ ReturnToHost
  \/ FinalizerReturns
  \/ HostCollect
  \/ CodeCollect
  \/ RunnerSteps

Spec == Init /\ [][Next]_vars

(* The runtime completes a collection or a wait it has begun, managed code *)
(* returns, and the host collects again and again: Unity calls             *)
(* il2cpp_gc_collect_a_little every frame, and collections that it does    *)
(* not take for want of pressure are left out.  Strong fairness where      *)
(* other activations come between.                                         *)
FairSpec ==
  /\ Spec
  /\ WF_vars(RunnerSteps)
  /\ SF_vars(ReturnToHost)
  /\ SF_vars(FinalizerReturns)
  /\ SF_vars(HostCollect)
--------------------------------------------------------------------------------
Ref0 == Addr \X (0 .. MaxSerial)
Activation == [kind : {"Managed"}, locals : SUBSET Addr]
              \cup [kind : {"Collect", "Wait"}, todo : SUBSET Ref0]

(* Types of the collector's state; the control stack is never empty and    *)
(* its outermost activation is managed code.                               *)
TypeOK ==
  /\ heap \subseteq Addr /\ fin \subseteq Addr /\ roots \subseteq Addr
  /\ refs \in [Addr -> [Field -> Addr \cup {Null}]]
  /\ serial \in [Addr -> 0 .. MaxSerial]
  /\ weak \subseteq Ref0 /\ freach \subseteq Ref0
  /\ DOMAIN reg \subseteq Addr
  /\ reg \in [DOMAIN reg -> {"Active", "Suppressed", "Finalized"}]
  /\ calls \in Seq(Activation) /\ Depth >= 1 /\ IsManaged(calls[1])
  /\ enabled \in BOOLEAN

(* Nothing that can still be followed points to a freed address: fields of *)
(* live objects, roots, and the references held by every activation,       *)
(* finalizers included.                                                    *)
NoDangling ==
  /\ \A a \in heap, f \in Field : refs[a][f] \in heap \cup {Null}
  /\ roots \subseteq heap
  /\ Locals \subseteq heap

(* Memory that is free is zeroed, so that a new object starts with null    *)
(* fields (the assertion in SmallHeapArena::allocate_block).               *)
FreeMemoryZeroed == \A a \in Addr \ heap : refs[a] = NoFields

(* An object queued for finalization, or waiting in a runner's copy of the *)
(* queue, is kept until its turn: the address still holds the object that  *)
(* was promoted, and it is still registered.                               *)
PendingIntact ==
  \A r \in Pending : r[1] \in heap /\ serial[r[1]] = r[2] /\ r[1] \in DOMAIN reg

(* The registry follows the heap: exactly the live objects whose class has *)
(* a finalizer are registered, whatever was allocated, freed or recycled.  *)
RegistryExact == DOMAIN reg = heap \cap fin

(* A weak handle that has not been cleared still designates the object it  *)
(* was created for, not a later one at the same address.                   *)
WeakFaithful == \A r \in weak : r[1] \in heap /\ serial[r[1]] = r[2]

(* The assertion that opens promote_unreachable (gc_finalizer.cpp:48): the *)
(* queue is empty whenever marking begins.                                 *)
QueueEmptyAtPromotion ==
  Top.kind = "Collect" /\ Top.todo = {} => freach = {}

(* Where a collection is on the control stack, and what is quiet while it  *)
(* is there, as long as only the host collects: the inductive invariant.   *)
Collecting == \E i \in 1 .. Depth : calls[i].kind = "Collect"
CollectIsSecond == \A i \in 1 .. Depth : calls[i].kind = "Collect" => i = 2
CollectIsQuiet == Collecting => freach = {} /\ calls[1].locals = {}

IInv ==
  /\ TypeOK /\ NoDangling /\ PendingIntact /\ RegistryExact /\ WeakFaithful
  /\ FreeMemoryZeroed /\ CollectIsSecond /\ CollectIsQuiet

(* Collection frees garbage only: nothing that a root, an activation or a  *)
(* pending finalizer reaches.                                              *)
FreedOnlyGarbage ==
  [][(heap \ heap') \cap Reach(roots \cup Locals \cup AddrsOf(Pending)) = {}]_vars

(* The object at a, in its present life, can no longer be used, except     *)
(* through a weak handle.                                                  *)
Garbage(r) ==
  /\ r[1] \in heap /\ serial[r[1]] = r[2]
  /\ r[1] \notin Reach(roots \cup Locals \cup AddrsOf(Pending))

(* Once collections stay enabled, garbage does not last: it is freed, or   *)
(* queued for finalization, or resurrected.                                *)
GarbageReclaimed ==
  <>[]enabled => \A r \in Ref0 : Garbage(r) ~> ~Garbage(r)

(* Once collections stay enabled, an object queued for finalization gets   *)
(* its turn, whatever the finalizers before it do.                         *)
PendingRuns ==
  <>[]enabled => \A r \in Ref0 : r \in Pending ~> r \notin Pending
================================================================================
