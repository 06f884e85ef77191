----------------------------- MODULE GCHandleSpec ------------------------------
(***************************************************************************)
(* What a table of GC handles promises its clients, whatever the table is  *)
(* made of: a handle is known by an id that is minted once and never used  *)
(* again, a live handle keeps its target until a client or the collector   *)
(* changes it, and a collection clears the weak handles of dead objects    *)
(* and nothing else.                                                       *)
(***************************************************************************)
CONSTANTS
  Id,       \* handle ids
  Object,   \* managed objects
  NoObj     \* the null reference

HandleType == {"Weak", "WeakTrackResurrection", "Normal", "Pinned"}
IsWeak(t) == t \in {"Weak", "WeakTrackResurrection"}

VARIABLES
  handles,  \* live handles: a function from their ids to [obj, type]
  issued,   \* every id handed out so far
  heap      \* the objects that have not been freed

svars == <<handles, issued, heap>>

SInit == handles = <<>> /\ issued = {} /\ heap = {}

StrongTargets ==
  {handles[id].obj : id \in {i \in DOMAIN handles : ~IsWeak(handles[i].type)}} \ {NoObj}

SNew(id, o, t) ==
  /\ id \notin issued
  /\ o \in heap \cup {NoObj}
  /\ issued' = issued \cup {id}
  /\ handles' = [i \in DOMAIN handles \cup {id} |->
                   IF i = id THEN [obj |-> o, type |-> t] ELSE handles[i]]
  /\ UNCHANGED heap

SFree(id) ==
  /\ id \in DOMAIN handles
  /\ handles' = [i \in DOMAIN handles \ {id} |-> handles[i]]
  /\ UNCHANGED <<issued, heap>>

SRetarget(id, o, t) ==
  /\ id \in DOMAIN handles
  /\ o \in heap \cup {NoObj}
  /\ handles' = [handles EXCEPT ![id] = [obj |-> o, type |-> t]]
  /\ UNCHANGED <<issued, heap>>

SAllocate(o) ==
  /\ o \in Object \ heap
  /\ heap' = heap \cup {o}
  /\ UNCHANGED <<handles, issued>>

(* Survivors may be any set of objects that keeps every strong target.     *)
SCollect(marked) ==
  /\ StrongTargets \subseteq marked
  /\ marked \subseteq heap
  /\ heap' = marked
  /\ handles' = [i \in DOMAIN handles |->
                   IF IsWeak(handles[i].type) /\ handles[i].obj \notin marked
                   THEN [handles[i] EXCEPT !.obj = NoObj]
                   ELSE handles[i]]
  /\ UNCHANGED issued

SNext ==
  \/ \E id \in Id, o \in Object \cup {NoObj}, t \in HandleType :
       SNew(id, o, t) \/ SRetarget(id, o, t)
  \/ \E id \in Id : SFree(id)
  \/ \E o \in Object : SAllocate(o)
  \/ \E marked \in SUBSET Object : SCollect(marked)

SSpec == SInit /\ [][SNext]_svars

================================================================================
