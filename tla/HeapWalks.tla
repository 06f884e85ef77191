------------------------------ MODULE HeapWalks --------------------------------
(***************************************************************************)
(* The two users of the object scanner, each with a bitmap of the objects  *)
(* it has visited: a collection (GcRoots, GcFinalizer) and the search for  *)
(* live objects that Unity runs through the API (il2cpp/liveness.cpp).     *)
(* ObjScanner decides what is visited next; here every visit goes through  *)
(* the bitmap, and the liveness walk reports what it finds in batches.     *)
(*                                                                         *)
(* A liveness walk is a few calls of the host on one LivenessState, from a *)
(* root object or from the static fields.  The heap does not change during *)
(* either walk.                                                            *)
(***************************************************************************)
EXTENDS ObjScanner, AddressBitmap

CONSTANTS
  Slot,        \* object -> its slot number in a bitmap
  BatchSize    \* PENDING_CALLBACK_BATCH_SIZE

\* Objects are at least SLOT_GRANULARITY, the size of a header, apart
ASSUME SlotAssumption ==
  Slot \in [Object -> Nat] /\ \A o, p \in Object : Slot[o] = Slot[p] => o = p
ASSUME BatchAssumption == BatchSize \in Nat \ {0}

VARIABLES
  user,      \* who walks: "collection" or "liveness"
  plan,      \* the calls the host still makes: a root, or Null for the static fields
  wanted,    \* objects whose class has the filter among its parents
  batch,     \* pending_callback_batch
  reported   \* history: what the callback was given

reportVars == <<batch, reported>>
hostVars == <<user, plan, wanted>>
walkVars == <<segments, cache, user, plan, wanted, batch, reported>>
allVars == <<vars, walkVars>>

--------------------------------------------------------------------------------
(* add_pending_callback, for an object that was not visited before         *)
AddPending(o) ==
  IF o \notin wanted THEN UNCHANGED reportVars
  ELSE IF Len(batch) + 1 = BatchSize
       THEN batch' = <<>> /\ reported' = reported \o Append(batch, o)
       ELSE batch' = Append(batch, o) /\ UNCHANGED reported

(* GcMarkContext::visit, LivenessState::visit                              *)
Visit(o) ==
  /\ Mark(Slot[o])
  /\ IF user = "collection" \/ HasBit(Slot[o]) THEN UNCHANGED reportVars ELSE AddPending(o)
  /\ UNCHANGED hostVars

WalkSlot == Scanning /\ \E c \in Top.left : VisitSlot(c) /\ Visit(c)

WalkOn == ScanEnds \/ FlushNext \/ FlushEnds

--------------------------------------------------------------------------------
(* A collection. *)

MarkRoot(r) == VisitRoot(r) /\ Visit(r)

(* promote_unreachable asks before it visits. *)
PromoteUnmarked(o) ==
  /\ Promote(o)
  /\ IF HasBit(Slot[o]) THEN IsMarked(Slot[o]) /\ UNCHANGED <<reportVars, hostVars>>
     ELSE Visit(o)

(* The sweeps of weak handles and of the heap ask for one object each.     *)
Ask(o) ==
  /\ user = "collection" /\ phase = "done"
  /\ IsMarked(Slot[o])
  /\ UNCHANGED <<vars, reportVars, hostVars>>

--------------------------------------------------------------------------------
(* A liveness walk. *)

Idle == phase = "host" /\ stack = <<>>

(* calculation_from_root *)
FromRoot(r) ==
  /\ Idle /\ r \in plan \ {Null}
  /\ phase' = "walk"
  /\ VisitObject(r) /\ Mark(Slot[r])
  /\ IF HasBit(Slot[r]) THEN UNCHANGED reportVars ELSE AddPending(r)
  /\ plan' = plan \ {r}
  /\ UNCHANGED <<heapVars, promoted, todo, user, wanted>>

(* calculation_from_statics *)
FromStatics ==
  /\ Idle /\ Null \in plan
  /\ phase' = "walk"
  /\ stack' = <<Scan("root", Null, statics)>>
  /\ plan' = plan \ {Null}
  /\ UNCHANGED <<heapVars, promoted, todo, marked, queue, flushes, depth,
                 segments, cache, user, wanted, batch, reported>>

(* finish_visit *)
FinishWalk ==
  /\ phase = "walk" /\ stack = <<>>
  /\ phase' = "endWalk"
  /\ stack' = <<Flush>> /\ flushes' = flushes + 1
  /\ UNCHANGED <<heapVars, promoted, todo, marked, queue, depth, walkVars>>

(* Mutant: call_final_callbacks is not called.                             *)
CallFinalNever == UNCHANGED reportVars

(* call_final_callbacks *)
CallFinal == batch' = <<>> /\ reported' = reported \o batch

WalkEnds ==
  /\ phase = "endWalk" /\ Flushing /\ queue = <<>> /\ Len(stack) = 1
  /\ phase' = "host"
  /\ stack' = <<>> /\ flushes' = flushes - 1
  /\ CallFinal
  /\ UNCHANGED <<heapVars, promoted, todo, marked, queue, depth, bitmapVars, hostVars>>

(* free_struct *)
FreeStruct ==
  /\ Idle /\ plan = {}
  /\ phase' = "done"
  /\ UNCHANGED <<heapVars, scanVars, promoted, todo, walkVars>>

--------------------------------------------------------------------------------
CollectionInit ==
  /\ user = "collection" /\ plan = {} /\ wanted = {}
  /\ phase = "roots" /\ todo = roots

LivenessInit ==
  /\ user = "liveness" /\ plan = roots \cup {Null} /\ wanted \in SUBSET Object
  /\ registered = {}
  /\ phase = "host" /\ todo = {}

WalksInit ==
  /\ Start /\ BitmapInit
  /\ batch = <<>> /\ reported = <<>>
  /\ CollectionInit \/ LivenessInit

WalksNext ==
  \/ WalkSlot
  \/ \E o \in Object : MarkRoot(o) \/ PromoteUnmarked(o) \/ Ask(o) \/ FromRoot(o)
  \/ /\ WalkOn \/ VisitStatics \/ Finish \/ PassEnds
     /\ UNCHANGED walkVars
  \/ FromStatics \/ FinishWalk \/ WalkEnds \/ FreeStruct

WalksSpec == WalksInit /\ [][WalksNext]_allVars

--------------------------------------------------------------------------------
(* The answer of the bitmap to every possible question is the set of       *)
(* objects visited, whatever segments exist and whatever the cache         *)
(* remembers of those that exist and of those that did not.                *)
BitmapFaithful == \A o \in Object : HasBit(Slot[o]) <=> o \in marked

(* When a call of the liveness walk returns, the host has been told of     *)
(* exactly the wanted objects that the calls so far reach, each of them    *)
(* once, though the bitmap lives on from call to call.                     *)
Asked == (roots \ plan) \cup (IF Null \in plan THEN {} ELSE statics)
ReportedExact ==
  user = "liveness" /\ phase \in {"host", "done"} =>
    /\ \A i, j \in 1 .. Len(reported) : reported[i] = reported[j] => i = j
    /\ {reported[i] : i \in 1 .. Len(reported)} = wanted \cap Reach(Asked)
================================================================================
