---------------------------- MODULE GCHandleTable ------------------------------
(***************************************************************************)
(* The handle table of vm/gchandle.cpp.  HandleInfo records (cells) are    *)
(* malloc'd once, recycled through a LIFO free list and never returned to  *)
(* malloc; every life of a cell gets a fresh id from a 32-bit counter, and *)
(* s_handle_map finds the cell of an id.  Native clients name a handle by  *)
(* its id, so they may present an id whose handle is gone; the             *)
(* collector reads the strong handles as roots and clears the weak ones    *)
(* after marking.                                                          *)
(***************************************************************************)
EXTENDS Naturals, Sequences

CONSTANTS
  Cell,       \* addresses malloc can give to HandleInfo records
  Object,     \* managed objects
  NoObj,      \* the null reference
  IdSpace,    \* 2^32 in the code: ids are counted modulo IdSpace
  MintBound   \* bound of the exploration: no id is minted once last reaches it

ASSUME NoObjAssumption == NoObj \notin Object
ASSUME IdSpaceAssumption == IdSpace \in Nat \ {0}
ASSUME MintBoundAssumption == MintBound \in Nat

HandleType == {"Weak", "WeakTrackResurrection", "Normal", "Pinned"}
KeepType == "Keep"
IsWeak(t) == t \in {"Weak", "WeakTrackResurrection"}

VARIABLES
  info,   \* contents of the cells malloc'd so far: [obj, type, id]
  freed,  \* the free list s_freed_handle_head, first element at the head
  last,   \* s_last_handle_id
  map,    \* s_handle_map: id -> cell
  heap    \* objects that have not been freed

vars == <<info, freed, last, map, heap>>

Init ==
  /\ info = <<>>
  /\ freed = <<>>
  /\ last = 0
  /\ map = <<>>
  /\ heap = {}

(* ++s_last_handle_id, in IdSpace's width. *)
NextId == IF last = IdSpace - 1 THEN 0 ELSE last + 1

(* Record cell c, holding (o, t), as the handle of the next id.            *)
Mint(c, o, t) ==
  /\ last < MintBound
  /\ last' = NextId
  /\ map' = [i \in DOMAIN map \cup {NextId} |-> IF i = NextId THEN c ELSE map[i]]
  /\ info' = [d \in DOMAIN info \cup {c} |->
                IF d = c THEN [obj |-> o, type |-> t, id |-> NextId] ELSE info[d]]

(* new_handle, new_weakref_handle when the free list is empty: the only    *)
(* path that asserts the counter cannot wrap.                              *)
NewFromMalloc(c, o, t) ==
  /\ freed = <<>>
  /\ c \notin DOMAIN info
  /\ last < IdSpace - 1
  /\ o \in heap \cup {NoObj}
  /\ Mint(c, o, t)
  /\ UNCHANGED <<freed, heap>>

(* Mutant: a recycled cell is filed under the last id instead of the next. *)
NewFromFreeListKeepsId(o, t) ==
  /\ freed # <<>>
  /\ o \in heap \cup {NoObj}
  /\ last < MintBound
  /\ map' = [i \in DOMAIN map \cup {last} |-> IF i = last THEN Head(freed) ELSE map[i]]
  /\ info' = [info EXCEPT ![Head(freed)] = [obj |-> o, type |-> t, id |-> last]]
  /\ freed' = Tail(freed)
  /\ UNCHANGED <<last, heap>>

(* The same calls when a freed cell can be recycled.                       *)
NewFromFreeList(o, t) ==
  /\ freed # <<>>
  /\ o \in heap \cup {NoObj}
  /\ Mint(Head(freed), o, t)
  /\ freed' = Tail(freed)
  /\ UNCHANGED heap

(* Mutant: the id is zeroed before it is used to erase the map's entry. *)
FreeZeroesIdFirst(id) ==
  /\ id \in DOMAIN map
  /\ info' = [info EXCEPT ![map[id]] = [obj |-> NoObj, type |-> "Normal", id |-> 0]]
  /\ freed' = <<map[id]>> \o freed
  /\ map' = [i \in DOMAIN map \ {0} |-> map[i]]
  /\ UNCHANGED <<last, heap>>

(* il2cpp_gchandle_free: an id that is not in the map is ignored.          *)
Free(id) ==
  /\ id \in DOMAIN map
  /\ info' = [info EXCEPT ![map[id]] = [obj |-> NoObj, type |-> "Normal", id |-> 0]]
  /\ freed' = <<map[id]>> \o freed
  /\ map' = [i \in DOMAIN map \ {info[map[id]].id} |-> map[i]]
  /\ UNCHANGED <<last, heap>>

(* get_target_handle on an existing handle; handle type -1 (KeepType)      *)
(* changes the object only.                                                *)
Retarget(id, o, t) ==
  /\ id \in DOMAIN map
  /\ o \in heap \cup {NoObj}
  /\ info' = [info EXCEPT ![map[id]] =
                [@ EXCEPT !.obj = o, !.type = IF t = KeepType THEN info[map[id]].type ELSE t]]
  /\ UNCHANGED <<freed, last, map, heap>>

(* A managed allocation, so that there are objects to hold.                *)
Allocate(o) ==
  /\ o \in Object \ heap
  /\ heap' = heap \cup {o}
  /\ UNCHANGED <<info, freed, last, map>>

Mapped(c) == \E id \in DOMAIN map : map[id] = c

(* foreach_strong_handles                                                  *)
StrongTargets ==
  {info[map[id]].obj : id \in {i \in DOMAIN map : ~IsWeak(info[map[i]].type)}} \ {NoObj}

(* Mutant: handles that track resurrection are not swept. *)
SweptInfoPlainWeakOnly(marked) ==
  [c \in DOMAIN info |->
     IF Mapped(c) /\ info[c].type = "Weak" /\ info[c].obj \notin marked
     THEN [info[c] EXCEPT !.obj = NoObj]
     ELSE info[c]]

(* sweep_weak_handles, over the cells the map knows.                       *)
SweptInfo(marked) ==
  [c \in DOMAIN info |->
     IF /\ Mapped(c)
        /\ IsWeak(info[c].type)
        /\ info[c].obj \notin marked
     THEN [info[c] EXCEPT !.obj = NoObj]
     ELSE info[c]]

(* A collection whose marking, from the strong handles and other roots,    *)
(* reached exactly the objects of marked.                                  *)
Collect(marked) ==
  /\ StrongTargets \subseteq marked
  /\ marked \subseteq heap
  /\ heap' = marked
  /\ info' = SweptInfo(marked)
  /\ UNCHANGED <<freed, last, map>>

Next ==
  \/ \E c \in Cell, o \in Object \cup {NoObj}, t \in HandleType : NewFromMalloc(c, o, t)
  \/ \E o \in Object \cup {NoObj}, t \in HandleType : NewFromFreeList(o, t)
  \/ \E id \in DOMAIN map : Free(id)
  \/ \E id \in DOMAIN map, o \in Object \cup {NoObj}, t \in HandleType \cup {KeepType} :
       Retarget(id, o, t)
  \/ \E o \in Object : Allocate(o)
  \/ \E marked \in SUBSET heap : Collect(marked)

Spec == Init /\ [][Next]_vars

--------------------------------------------------------------------------------
Info == [obj : Object \cup {NoObj}, type : HandleType, id : 0 .. IdSpace - 1]

(* Types of the table's parts.                                             *)
TypeOK ==
  /\ DOMAIN info \subseteq Cell
  /\ info \in [DOMAIN info -> Info]
  /\ freed \in Seq(DOMAIN info)
  /\ last \in 0 .. IdSpace - 1
  /\ DOMAIN map \subseteq 0 .. IdSpace - 1
  /\ map \in [DOMAIN map -> DOMAIN info]
  /\ heap \subseteq Object

FiledUnderOwnId == \A id \in DOMAIN map : info[map[id]].id = id
OnFreeList(c) == \E k \in DOMAIN freed : freed[k] = c

(* Every cell is in exactly one place: a cell of the map carries the id it *)
(* is filed under, and every other cell is on the free list exactly once.  *)
(* Two live handles therefore never share a cell, and none leaks.          *)
CellsAccounted ==
  /\ FiledUnderOwnId
  /\ \A c \in DOMAIN info : Mapped(c) <=> ~OnFreeList(c)
  /\ \A j, k \in DOMAIN freed : freed[j] = freed[k] => j = k

(* No handle, weak or strong, names an object that has been freed: the     *)
(* collector keeps the targets of strong handles and clears weak ones,     *)
(* even when a handle changed its type since the last collection.          *)
NoDanglingHandle ==
  \A id \in DOMAIN map : info[map[id]].obj \in heap \cup {NoObj}

(* The ids in use are among the ids minted so far, and the exploration     *)
(* bound was respected: what makes the next id fresh.                      *)
IdsBelowLast ==
  /\ \A id \in DOMAIN map : id <= last
  /\ last <= MintBound

IInv == TypeOK /\ CellsAccounted /\ NoDanglingHandle /\ IdsBelowLast

(* The counter is never incremented past its width. *)
NoWrap == MintBound < IdSpace

(* The table implements the abstract handle table: ids are the ones the    *)
(* counter passed, and the handle of an id is what its cell holds.         *)
Abstract == INSTANCE GCHandleSpec WITH
  Id <- 0 .. IdSpace - 1,
  handles <- [id \in DOMAIN map |-> [obj |-> info[map[id]].obj, type |-> info[map[id]].type]],
  issued <- 1 .. last

ImplementsSpec == Abstract!SSpec

================================================================================
