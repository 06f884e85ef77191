------------------------- MODULE GCHandleTable_proofs --------------------------
(***************************************************************************)
(* For any number of cells and objects: as long as the id counter does not *)
(* wrap, the handle table is exact and no handle dangles.                  *)
(***************************************************************************)
EXTENDS GCHandleTable, TLAPS

LEMMA InitEstablishes == Init => IInv
BY IdSpaceAssumption, MintBoundAssumption
DEF Init, IInv, TypeOK, CellsAccounted, FiledUnderOwnId, NoDanglingHandle, IdsBelowLast, Info

(* Minting gives an id that no live handle has. *)
LEMMA FreshId ==
  ASSUME NoWrap, IInv, last < MintBound
  PROVE  /\ NextId = last + 1
         /\ NextId \in 0 .. IdSpace - 1
         /\ NextId \notin DOMAIN map
BY IdSpaceAssumption, MintBoundAssumption
DEF NoWrap, IInv, TypeOK, IdsBelowLast, NextId

(* What recording cell c as the handle of the next id changes. *)
LEMMA MintEffect ==
  ASSUME NoWrap, IInv, NEW c, NEW o, NEW t, Mint(c, o, t)
  PROVE  /\ last' = last + 1 /\ last' \in 0 .. IdSpace - 1 /\ last' <= MintBound
         /\ last' \notin DOMAIN map
         /\ DOMAIN info' = DOMAIN info \cup {c}
         /\ DOMAIN map' = DOMAIN map \cup {last'}
         /\ info'[c] = [obj |-> o, type |-> t, id |-> last']
         /\ \A d \in DOMAIN info : d # c => info'[d] = info[d]
         /\ \A i \in DOMAIN map : map'[i] = map[i]
         /\ map'[last'] = c
BY FreshId, IdSpaceAssumption, MintBoundAssumption
DEF Mint, NoWrap, IInv, TypeOK, IdsBelowLast

LEMMA MallocPreserves ==
  ASSUME NoWrap, IInv,
         NEW c \in Cell, NEW o \in Object \cup {NoObj}, NEW t \in HandleType,
         NewFromMalloc(c, o, t)
  PROVE  IInv'
<1>1. /\ Mint(c, o, t) /\ c \notin DOMAIN info
      /\ freed = <<>> /\ freed' = <<>>
      /\ heap' = heap /\ o \in heap \cup {NoObj}
  BY DEF NewFromMalloc
<1>2. /\ last' = last + 1 /\ last' \in 0 .. IdSpace - 1 /\ last' <= MintBound
      /\ last' \notin DOMAIN map
      /\ DOMAIN info' = DOMAIN info \cup {c}
      /\ DOMAIN map' = DOMAIN map \cup {last'}
      /\ info'[c] = [obj |-> o, type |-> t, id |-> last']
      /\ \A d \in DOMAIN info : d # c => info'[d] = info[d]
      /\ \A i \in DOMAIN map : map'[i] = map[i]
      /\ map'[last'] = c
  BY <1>1, MintEffect
<1>3. TypeOK'
  BY <1>1, <1>2 DEF IInv, TypeOK, Info, Mint
<1>4. CellsAccounted'
  <2>1. FiledUnderOwnId'
    BY <1>1, <1>2 DEF IInv, TypeOK, CellsAccounted, FiledUnderOwnId
  <2>2. \A d : ~OnFreeList(d) /\ ~OnFreeList(d)'
    BY <1>1 DEF OnFreeList
  <2>3. \A d \in DOMAIN info' : Mapped(d)'
    BY <1>2, <2>2 DEF IInv, CellsAccounted, Mapped
  <2> QED BY <1>1, <2>1, <2>2, <2>3 DEF CellsAccounted
<1>5. NoDanglingHandle'
  BY <1>1, <1>2 DEF IInv, TypeOK, NoDanglingHandle
<1>6. IdsBelowLast'
  BY <1>1, <1>2, MintBoundAssumption DEF IInv, TypeOK, IdsBelowLast
<1> QED BY <1>3, <1>4, <1>5, <1>6 DEF IInv

(* The free list after a pop and after a push. *)
LEMMA PopEffect ==
  ASSUME TypeOK, CellsAccounted, freed # <<>>, freed' = Tail(freed)
  PROVE  /\ Head(freed) \in DOMAIN info
         /\ freed' \in Seq(DOMAIN info)
         /\ OnFreeList(Head(freed))
         /\ \A c : OnFreeList(c)' <=> OnFreeList(c) /\ c # Head(freed)
         /\ \A j, k \in DOMAIN freed' : freed'[j] = freed'[k] => j = k
<1>1. freed \in Seq(DOMAIN info) /\ Len(freed) \in Nat \ {0} /\ DOMAIN freed = 1 .. Len(freed)
  BY DEF TypeOK
<1>2. /\ Head(freed) = freed[1] /\ 1 \in DOMAIN freed
      /\ freed' \in Seq(DOMAIN info) /\ DOMAIN freed' = 1 .. Len(freed) - 1
      /\ \A k \in DOMAIN freed' : freed'[k] = freed[k + 1] /\ k + 1 \in DOMAIN freed
  BY <1>1
<1>3. \A c, k : k \in DOMAIN freed /\ freed[k] = c /\ c # Head(freed)
                  => k - 1 \in DOMAIN freed' /\ freed'[k - 1] = c
  BY <1>1, <1>2
<1>4. \A j, k \in DOMAIN freed' : freed'[j] = freed'[k] => j = k
  BY <1>1, <1>2 DEF CellsAccounted
<1>5. \A k \in DOMAIN freed' : freed'[k] # Head(freed)
  BY <1>1, <1>2 DEF CellsAccounted
<1>6. \A c : OnFreeList(c)' => OnFreeList(c) /\ c # Head(freed)
  BY <1>2, <1>5 DEF OnFreeList
<1>7. \A c : OnFreeList(c) /\ c # Head(freed) => OnFreeList(c)'
  BY <1>3 DEF OnFreeList
<1>8. Head(freed) \in DOMAIN info /\ OnFreeList(Head(freed))
  BY <1>1, <1>2 DEF OnFreeList
<1> QED BY <1>2, <1>4, <1>6, <1>7, <1>8

LEMMA PushEffect ==
  ASSUME TypeOK, NEW c \in DOMAIN info, ~OnFreeList(c), CellsAccounted,
         freed' = <<c>> \o freed
  PROVE  /\ freed' \in Seq(DOMAIN info)
         /\ \A d : OnFreeList(d)' <=> OnFreeList(d) \/ d = c
         /\ \A j, k \in DOMAIN freed' : freed'[j] = freed'[k] => j = k
<1>1. freed \in Seq(DOMAIN info) /\ Len(freed) \in Nat /\ DOMAIN freed = 1 .. Len(freed)
  BY DEF TypeOK
<1>2. /\ freed' \in Seq(DOMAIN info) /\ DOMAIN freed' = 1 .. Len(freed) + 1
      /\ freed'[1] = c
      /\ \A k \in DOMAIN freed' : k # 1 => freed'[k] = freed[k - 1] /\ k - 1 \in DOMAIN freed
  BY <1>1
<1>3. \A k \in DOMAIN freed : k + 1 \in DOMAIN freed' /\ freed'[k + 1] = freed[k]
  BY <1>1, <1>2
<1>4. \A j, k \in DOMAIN freed' : freed'[j] = freed'[k] => j = k
  BY <1>1, <1>2 DEF CellsAccounted, OnFreeList
<1>5. \A d : OnFreeList(d)' => OnFreeList(d) \/ d = c
  BY <1>1, <1>2 DEF OnFreeList
<1>6. \A d : OnFreeList(d) \/ d = c => OnFreeList(d)'
  <2>1. 1 \in DOMAIN freed'
    BY <1>1, <1>2
  <2> QED BY <1>2, <1>3, <2>1 DEF OnFreeList
<1> QED BY <1>2, <1>4, <1>5, <1>6

LEMMA FreeListPreserves ==
  ASSUME NoWrap, IInv,
         NEW o \in Object \cup {NoObj}, NEW t \in HandleType,
         NewFromFreeList(o, t)
  PROVE  IInv'
<1> DEFINE c == Head(freed)
<1>0. /\ Mint(c, o, t) /\ freed # <<>> /\ freed' = Tail(freed)
      /\ heap' = heap /\ o \in heap \cup {NoObj}
  BY DEF NewFromFreeList
<1>1. /\ c \in DOMAIN info /\ freed' \in Seq(DOMAIN info) /\ OnFreeList(c)
      /\ \A d : OnFreeList(d)' <=> OnFreeList(d) /\ d # c
      /\ \A j, k \in DOMAIN freed' : freed'[j] = freed'[k] => j = k
  BY <1>0, PopEffect DEF IInv
<1>2. /\ last' = last + 1 /\ last' \in 0 .. IdSpace - 1 /\ last' <= MintBound
      /\ last' \notin DOMAIN map
      /\ DOMAIN info' = DOMAIN info \cup {c}
      /\ DOMAIN map' = DOMAIN map \cup {last'}
      /\ info'[c] = [obj |-> o, type |-> t, id |-> last']
      /\ \A d \in DOMAIN info : d # c => info'[d] = info[d]
      /\ \A i \in DOMAIN map : map'[i] = map[i]
      /\ map'[last'] = c
  BY <1>0, MintEffect
<1>3. DOMAIN info' = DOMAIN info /\ \A i \in DOMAIN map : map[i] # c
  <2>1. DOMAIN info' = DOMAIN info
    BY <1>1, <1>2
  <2>2. ~Mapped(c)
    BY <1>1 DEF IInv, CellsAccounted
  <2> QED BY <2>1, <2>2 DEF Mapped
<1> HIDE DEF c
<1>4. TypeOK'
  BY <1>0, <1>1, <1>2, <1>3 DEF IInv, TypeOK, Info, Mint
<1>5. CellsAccounted'
  <2>1. FiledUnderOwnId'
    BY <1>2, <1>3 DEF IInv, TypeOK, CellsAccounted, FiledUnderOwnId
  <2>2. \A d : Mapped(d)' <=> Mapped(d) \/ d = c
    BY <1>2 DEF Mapped
  <2>3. \A d \in DOMAIN info' : Mapped(d)' <=> ~OnFreeList(d)'
    BY <1>1, <1>3, <2>2 DEF IInv, CellsAccounted
  <2> QED BY <1>1, <2>1, <2>3 DEF CellsAccounted
<1>6. NoDanglingHandle'
  BY <1>0, <1>2, <1>3 DEF IInv, TypeOK, NoDanglingHandle
<1>7. IdsBelowLast'
  BY <1>2, MintBoundAssumption DEF IInv, TypeOK, IdsBelowLast
<1> QED BY <1>4, <1>5, <1>6, <1>7 DEF IInv

LEMMA FreePreserves ==
  ASSUME IInv, NEW id \in DOMAIN map, Free(id)
  PROVE  IInv'
<1> DEFINE c == map[id]
<1>1. /\ c \in DOMAIN info /\ info[c].id = id /\ ~OnFreeList(c)
      /\ \A i \in DOMAIN map : i # id => map[i] # c
  BY DEF IInv, TypeOK, CellsAccounted, FiledUnderOwnId, Mapped
<1>2. /\ DOMAIN info' = DOMAIN info
      /\ info'[c] = [obj |-> NoObj, type |-> "Normal", id |-> 0]
      /\ \A d \in DOMAIN info : d # c => info'[d] = info[d]
      /\ DOMAIN map' = DOMAIN map \ {id}
      /\ \A i \in DOMAIN map' : map'[i] = map[i]
      /\ map' = [i \in DOMAIN map \ {id} |-> map[i]]
      /\ info' = [info EXCEPT ![c] = [obj |-> NoObj, type |-> "Normal", id |-> 0]]
      /\ last' = last /\ heap' = heap
      /\ freed' = <<c>> \o freed
  BY <1>1 DEF Free, IInv, TypeOK
<1> HIDE DEF c
<1>3. /\ freed' \in Seq(DOMAIN info)
      /\ \A d : OnFreeList(d)' <=> OnFreeList(d) \/ d = c
      /\ \A j, k \in DOMAIN freed' : freed'[j] = freed'[k] => j = k
  BY <1>1, <1>2, PushEffect DEF IInv
<1>4. TypeOK'
  BY <1>1, <1>2, <1>3, IdSpaceAssumption DEF IInv, TypeOK, Info, HandleType
<1>5. CellsAccounted'
  <2>1. FiledUnderOwnId'
    BY <1>1, <1>2 DEF IInv, TypeOK, CellsAccounted, FiledUnderOwnId, c
  <2>2. \A d : Mapped(d)' <=> Mapped(d) /\ d # c
    BY <1>1, <1>2 DEF Mapped, c
  <2>3. \A d \in DOMAIN info' : Mapped(d)' <=> ~OnFreeList(d)'
    BY <1>2, <1>3, <2>2 DEF IInv, CellsAccounted
  <2> QED BY <1>3, <2>1, <2>3 DEF CellsAccounted
<1>6. NoDanglingHandle'
  BY <1>1, <1>2 DEF IInv, TypeOK, NoDanglingHandle, c
<1>7. IdsBelowLast'
  BY <1>2 DEF IInv, IdsBelowLast
<1> QED BY <1>4, <1>5, <1>6, <1>7 DEF IInv

(* Actions that leave the map, the free list and the cells' ids alone. *)
LEMMA SameTable ==
  ASSUME IInv, UNCHANGED <<freed, last, map>>, DOMAIN info' = DOMAIN info,
         \A c \in DOMAIN info : info'[c].id = info[c].id
  PROVE  CellsAccounted' /\ IdsBelowLast'
<1>1. FiledUnderOwnId'
  BY DEF IInv, TypeOK, CellsAccounted, FiledUnderOwnId
<1>2. \A c : (Mapped(c)' <=> Mapped(c)) /\ (OnFreeList(c)' <=> OnFreeList(c))
  BY DEF Mapped, OnFreeList
<1>3. IdsBelowLast'
  BY DEF IInv, IdsBelowLast
<1> QED BY <1>1, <1>2, <1>3 DEF IInv, CellsAccounted

LEMMA RetargetPreserves ==
  ASSUME IInv, NEW id \in DOMAIN map, NEW o \in Object \cup {NoObj}, NEW t \in HandleType \cup {KeepType},
         Retarget(id, o, t)
  PROVE  IInv'
<1> DEFINE c == map[id]
           u == IF t = KeepType THEN info[c].type ELSE t
<1>1. /\ c \in DOMAIN info /\ info' = [info EXCEPT ![c] = [@ EXCEPT !.obj = o, !.type = u]]
      /\ UNCHANGED <<freed, last, map, heap>> /\ o \in heap \cup {NoObj}
  BY DEF Retarget, IInv, TypeOK
<1>0. u \in HandleType
  BY <1>1 DEF IInv, TypeOK, Info
<1> HIDE DEF c, u
<1>2. /\ DOMAIN info' = DOMAIN info
      /\ info'[c] = [info[c] EXCEPT !.obj = o, !.type = u]
      /\ \A d \in DOMAIN info : d # c => info'[d] = info[d]
  BY <1>1
<1>3. /\ info'[c] \in Info /\ info'[c].obj = o /\ info'[c].id = info[c].id
      /\ \A d \in DOMAIN info : info'[d] \in Info /\ info'[d].id = info[d].id
  <2>1. \A d \in DOMAIN info : info[d] \in Info
    BY <1>1 DEF IInv, TypeOK
  <2>2. /\ info'[c] \in Info /\ info'[c].obj = o /\ info'[c].id = info[c].id
    BY <1>0, <1>1, <1>2, <2>1 DEF Info
  <2> QED BY <1>2, <2>1, <2>2
<1>4. TypeOK'
  <2>1. info' = [d \in DOMAIN info |-> info'[d]]
    BY <1>1
  <2>2. info' \in [DOMAIN info' -> Info]
    BY <1>2, <1>3, <2>1
  <2> QED BY <1>1, <1>2, <2>2 DEF IInv, TypeOK
<1>5. NoDanglingHandle'
  BY <1>1, <1>2, <1>3 DEF IInv, TypeOK, NoDanglingHandle
<1> QED BY <1>1, <1>2, <1>3, <1>4, <1>5, SameTable DEF IInv

LEMMA AllocatePreserves ==
  ASSUME IInv, NEW o \in Object, Allocate(o)
  PROVE  IInv'
<1>1. UNCHANGED <<info, freed, last, map>> /\ heap' = heap \cup {o}
  BY DEF Allocate
<1>2. TypeOK' /\ NoDanglingHandle'
  BY <1>1 DEF IInv, TypeOK, NoDanglingHandle
<1> QED BY <1>1, <1>2, SameTable DEF IInv

(* The collector's part: a strong target is marked by assumption, a weak   *)
(* one that is not marked is cleared.                                      *)
LEMMA CollectPreserves ==
  ASSUME IInv, NEW marked \in SUBSET heap, Collect(marked)
  PROVE  IInv'
<1>1. /\ StrongTargets \subseteq marked /\ heap' = marked
      /\ info' = SweptInfo(marked) /\ UNCHANGED <<freed, last, map>>
  BY DEF Collect
<1>2. /\ DOMAIN info' = DOMAIN info
      /\ \A c \in DOMAIN info :
           info'[c] = IF Mapped(c) /\ IsWeak(info[c].type) /\ info[c].obj \notin marked
                      THEN [info[c] EXCEPT !.obj = NoObj] ELSE info[c]
  BY <1>1 DEF SweptInfo
<1>3. \A c \in DOMAIN info : info'[c] \in Info /\ info'[c].id = info[c].id
  <2>1. \A c \in DOMAIN info : info[c] \in Info
    BY DEF IInv, TypeOK
  <2> QED BY <1>2, <2>1 DEF Info
<1>4. TypeOK'
  <2>1. info' = [c \in DOMAIN info |-> info'[c]]
    BY <1>1 DEF SweptInfo
  <2>2. info' \in [DOMAIN info' -> Info]
    BY <1>2, <1>3, <2>1
  <2> QED BY <1>1, <1>2, <2>2 DEF IInv, TypeOK
<1>5. NoDanglingHandle'
  <2> SUFFICES ASSUME NEW id \in DOMAIN map
               PROVE  info'[map[id]].obj \in marked \cup {NoObj}
    BY <1>1 DEF NoDanglingHandle
  <2>1. map[id] \in DOMAIN info /\ Mapped(map[id]) /\ info[map[id]] \in Info
    BY DEF IInv, TypeOK, Mapped
  <2>2. CASE IsWeak(info[map[id]].type)
    BY <1>2, <2>1, <2>2 DEF Info
  <2>3. CASE ~IsWeak(info[map[id]].type)
    BY <1>1, <1>2, <2>1, <2>3 DEF StrongTargets
  <2> QED BY <2>2, <2>3
<1> QED BY <1>1, <1>2, <1>3, <1>4, <1>5, SameTable DEF IInv

LEMMA StepPreserves ==
  ASSUME NoWrap, IInv, [Next]_vars
  PROVE  IInv'
<1>1. ASSUME NEW c \in Cell, NEW o \in Object \cup {NoObj}, NEW t \in HandleType,
             NewFromMalloc(c, o, t)
      PROVE IInv'
  BY <1>1, MallocPreserves
<1>2. ASSUME NEW o \in Object \cup {NoObj}, NEW t \in HandleType, NewFromFreeList(o, t)
      PROVE IInv'
  BY <1>2, FreeListPreserves
<1>3. ASSUME NEW id \in DOMAIN map, Free(id)
      PROVE IInv'
  BY <1>3, FreePreserves
<1>4. ASSUME NEW id \in DOMAIN map, NEW o \in Object \cup {NoObj}, NEW t \in HandleType \cup {KeepType},
             Retarget(id, o, t)
      PROVE IInv'
  BY <1>4, RetargetPreserves
<1>5. ASSUME NEW o \in Object, Allocate(o)
      PROVE IInv'
  BY <1>5, AllocatePreserves
<1>6. ASSUME NEW marked \in SUBSET heap, Collect(marked)
      PROVE IInv'
  BY <1>6, CollectPreserves
<1>7. CASE UNCHANGED vars
  BY <1>7 DEF vars, IInv, TypeOK, CellsAccounted, FiledUnderOwnId, OnFreeList, Mapped,
              NoDanglingHandle, IdsBelowLast
<1> QED BY <1>1, <1>2, <1>3, <1>4, <1>5, <1>6, <1>7 DEF Next

(* As long as the counter does not wrap, every reachable state of the      *)
(* handle table is well typed, has each cell either filed under its own id *)
(* or once on the free list, and no handle to a freed object.              *)
THEOREM TableExact ==
  ASSUME NoWrap
  PROVE  Spec => [](TypeOK /\ CellsAccounted /\ NoDanglingHandle)
<1>1. Init => IInv
  BY InitEstablishes
<1>2. IInv /\ [Next]_vars => IInv'
  BY StepPreserves
<1>3. IInv => TypeOK /\ CellsAccounted /\ NoDanglingHandle
  BY DEF IInv
<1> QED BY <1>1, <1>2, <1>3, PTL DEF Spec

(* In particular, neither a strong nor a weak handle ever names an object  *)
(* that a collection has freed, whatever handles are freed, reused or      *)
(* retargeted between two collections.                                     *)
THEOREM HandlesNameLiveObjects ==
  ASSUME NoWrap
  PROVE  Spec => []NoDanglingHandle
BY TableExact, PTL

--------------------------------------------------------------------------------
(* Refinement: what the table's variables stand for in the abstract table. *)

Held(id) == [obj |-> info[map[id]].obj, type |-> info[map[id]].type]
Handles == [id \in DOMAIN map |-> Held(id)]
Issued == 1 .. last
Bar == <<Handles, Issued, heap>>

LEMMA HeldFacts ==
  ASSUME IInv, NEW id \in DOMAIN map
  PROVE  /\ id \in 0 .. IdSpace - 1 /\ map[id] \in DOMAIN info
         /\ Held(id).obj = info[map[id]].obj /\ Held(id).type = info[map[id]].type
         /\ Held(id).type \in HandleType
         /\ \A i \in DOMAIN map : map[i] = map[id] => i = id
BY DEF IInv, TypeOK, Info, Held, CellsAccounted, FiledUnderOwnId

(* A handle is minted: from a fresh cell or from a recycled one, which no  *)
(* handle of the map has.                                                  *)
LEMMA MintRefines ==
  ASSUME NoWrap, IInv, NEW c, ~Mapped(c), NEW o \in Object \cup {NoObj}, NEW t \in HandleType,
         o \in heap \cup {NoObj}, Mint(c, o, t), heap' = heap
  PROVE  Abstract!SNext
<1>1. /\ last' = last + 1 /\ last' \in 0 .. IdSpace - 1
      /\ last' \notin DOMAIN map
      /\ DOMAIN map' = DOMAIN map \cup {last'}
      /\ DOMAIN info' = DOMAIN info \cup {c}
      /\ info'[c] = [obj |-> o, type |-> t, id |-> last']
      /\ \A d \in DOMAIN info : d # c => info'[d] = info[d]
      /\ \A i \in DOMAIN map : map'[i] = map[i]
      /\ map'[last'] = c
  BY MintEffect
<1>2. last \in Nat
  BY IdSpaceAssumption DEF IInv, TypeOK
<1>3. last' \notin Issued /\ Issued' = Issued \cup {last'}
  BY <1>1, <1>2 DEF Issued
<1>4. \A i \in DOMAIN map' :
        Held(i)' = IF i = last' THEN [obj |-> o, type |-> t] ELSE Held(i)
  BY <1>1 DEF Held, Mapped, IInv, TypeOK
<1>5. \A i \in DOMAIN map : i # last' /\ Handles[i] = Held(i)
  BY <1>1 DEF Handles
<1>6. Handles' = [i \in DOMAIN map \cup {last'} |->
                   IF i = last' THEN [obj |-> o, type |-> t] ELSE Handles[i]]
  BY <1>1, <1>4, <1>5 DEF Handles
<1>7. DOMAIN Handles = DOMAIN map
  BY DEF Handles
<1>8. Abstract!SNew(last', o, t)
  BY <1>3, <1>6, <1>7 DEF Abstract!SNew, Handles, Held, Issued
<1> QED BY <1>1, <1>8 DEF Abstract!SNext, Abstract!HandleType, HandleType

LEMMA FreeRefines ==
  ASSUME IInv, NEW id \in DOMAIN map, Free(id)
  PROVE  Abstract!SNext
<1>1. /\ id \in 0 .. IdSpace - 1 /\ map[id] \in DOMAIN info
      /\ \A i \in DOMAIN map : map[i] = map[id] => i = id
  BY HeldFacts
<1>2. info[map[id]].id = id
  BY DEF IInv, CellsAccounted, FiledUnderOwnId
<1>3. /\ map' = [i \in DOMAIN map \ {id} |-> map[i]]
      /\ \A d : d # map[id] => info'[d] = info[d]
      /\ UNCHANGED <<last, heap>>
  BY <1>1, <1>2 DEF Free, IInv, TypeOK
<1>4. \A i \in DOMAIN map \ {id} : Held(i)' = Held(i)
  BY <1>1, <1>3 DEF Held
<1>5. Handles' = [i \in DOMAIN map \ {id} |-> Handles[i]] /\ DOMAIN Handles = DOMAIN map
  BY <1>3, <1>4 DEF Handles
<1>6. Abstract!SFree(id)
  BY <1>3, <1>5 DEF Abstract!SFree, Handles, Held, Issued
<1> QED BY <1>1, <1>6 DEF Abstract!SNext

LEMMA RetargetRefines ==
  ASSUME IInv, NEW id \in DOMAIN map, NEW o \in Object \cup {NoObj},
         NEW t \in HandleType \cup {KeepType}, Retarget(id, o, t)
  PROVE  Abstract!SNext
<1>1. /\ id \in 0 .. IdSpace - 1 /\ map[id] \in DOMAIN info
      /\ info[map[id]] \in Info
      /\ \A i \in DOMAIN map : map[i] = map[id] => i = id
  BY HeldFacts DEF IInv, TypeOK
<1>0. PICK u \in HandleType : u = IF t = KeepType THEN info[map[id]].type ELSE t
  BY <1>1 DEF Info
<1>2. /\ o \in heap \cup {NoObj}
      /\ info' = [info EXCEPT ![map[id]] = [info[map[id]] EXCEPT !.obj = o, !.type = u]]
      /\ UNCHANGED <<freed, last, map, heap>>
  BY <1>0 DEF Retarget
<1>3. info'[map[id]] = [info[map[id]] EXCEPT !.obj = o, !.type = u]
      /\ \A d : d # map[id] => info'[d] = info[d]
  BY <1>1, <1>2
<1>4. Held(id)' = [obj |-> o, type |-> u] /\ \A i \in DOMAIN map : i # id => Held(i)' = Held(i)
  BY <1>1, <1>2, <1>3 DEF Held, Info
<1>5. Handles' = [Handles EXCEPT ![id] = [obj |-> o, type |-> u]] /\ DOMAIN Handles = DOMAIN map
  BY <1>2, <1>4 DEF Handles
<1>6. Abstract!SRetarget(id, o, u)
  BY <1>2, <1>5 DEF Abstract!SRetarget, Handles, Held, Issued
<1>7. id \in 0 .. IdSpace - 1 /\ u \in Abstract!HandleType
  BY <1>1 DEF Abstract!HandleType, HandleType
<1> QED BY <1>6, <1>7 DEF Abstract!SNext

(* The handles read by the collector are the abstract ones.                *)
LEMMA CollectRefines ==
  ASSUME IInv, NEW marked \in SUBSET heap, Collect(marked)
  PROVE  Abstract!SNext
<1>1. /\ StrongTargets \subseteq marked /\ marked \subseteq heap /\ heap' = marked
      /\ info' = SweptInfo(marked) /\ UNCHANGED <<last, map>>
  BY DEF Collect
<1>2. Abstract!StrongTargets = StrongTargets
  BY HeldFacts DEF Abstract!StrongTargets, StrongTargets, Abstract!IsWeak, IsWeak
<1>3. \A i \in DOMAIN map :
        Held(i)' = IF IsWeak(Held(i).type) /\ Held(i).obj \notin marked
                   THEN [Held(i) EXCEPT !.obj = NoObj] ELSE Held(i)
  <2> SUFFICES ASSUME NEW i \in DOMAIN map
               PROVE  Held(i)' = IF IsWeak(Held(i).type) /\ Held(i).obj \notin marked
                                 THEN [Held(i) EXCEPT !.obj = NoObj] ELSE Held(i)
    OBVIOUS
  <2>1. /\ map[i] \in DOMAIN info /\ Mapped(map[i]) /\ info[map[i]] \in Info /\ map'[i] = map[i]
        /\ Held(i).obj = info[map[i]].obj /\ Held(i).type = info[map[i]].type
    BY <1>1, HeldFacts DEF Mapped, IInv, TypeOK
  <2>2. info'[map[i]] = IF IsWeak(info[map[i]].type) /\ info[map[i]].obj \notin marked
                        THEN [info[map[i]] EXCEPT !.obj = NoObj] ELSE info[map[i]]
    BY <1>1, <2>1 DEF SweptInfo
  <2> QED BY <2>1, <2>2 DEF Held, Info
<1>4. /\ DOMAIN Handles = DOMAIN map
      /\ Handles' = [i \in DOMAIN map |->
                       IF IsWeak(Handles[i].type) /\ Handles[i].obj \notin marked
                       THEN [Handles[i] EXCEPT !.obj = NoObj] ELSE Handles[i]]
  BY <1>1, <1>3 DEF Handles
<1>5. Abstract!SCollect(marked)
  BY <1>1, <1>2, <1>4 DEF Abstract!SCollect, Abstract!IsWeak, IsWeak, Handles, Held, Issued
<1>6. marked \in SUBSET Object
  BY <1>1 DEF IInv, TypeOK
<1> QED BY <1>5, <1>6 DEF Abstract!SNext

LEMMA StepRefines ==
  ASSUME NoWrap, IInv, [Next]_vars
  PROVE  [Abstract!SNext]_Bar
<1>1. ASSUME NEW c \in Cell, NEW o \in Object \cup {NoObj}, NEW t \in HandleType,
             NewFromMalloc(c, o, t)
      PROVE  Abstract!SNext
  <2>1. ~Mapped(c) /\ Mint(c, o, t) /\ heap' = heap /\ o \in heap \cup {NoObj}
    BY <1>1 DEF NewFromMalloc, Mapped, IInv, TypeOK
  <2> QED BY <2>1, MintRefines
<1>2. ASSUME NEW o \in Object \cup {NoObj}, NEW t \in HandleType, NewFromFreeList(o, t)
      PROVE  Abstract!SNext
  <2>1. /\ freed # <<>> /\ freed' = Tail(freed) /\ Mint(Head(freed), o, t) /\ heap' = heap
        /\ o \in heap \cup {NoObj}
    BY <1>2 DEF NewFromFreeList
  <2>2. Head(freed) \in DOMAIN info /\ OnFreeList(Head(freed))
    BY <2>1, PopEffect DEF IInv
  <2>3. ~Mapped(Head(freed))
    BY <2>2 DEF IInv, CellsAccounted
  <2> QED BY <2>1, <2>3, MintRefines
<1>3. ASSUME NEW o \in Object, Allocate(o)
      PROVE  Abstract!SNext
  <2>1. Abstract!SAllocate(o)
    BY <1>3 DEF Allocate, Abstract!SAllocate, Handles, Held, Issued
  <2> QED BY <2>1 DEF Abstract!SNext
<1>4. CASE UNCHANGED vars
  BY <1>4 DEF vars, Bar, Handles, Held, Issued
<1> QED BY <1>1, <1>2, <1>3, <1>4, FreeRefines, RetargetRefines, CollectRefines DEF Next

(* The cells, the recycling of cells and the map of ids are not observable: *)
(* the table is one of handles whose ids are never used again, each with    *)
(* its own target until a client or the collector changes it.               *)
THEOREM TableImplementsSpec ==
  ASSUME NoWrap
  PROVE  Spec => ImplementsSpec
<1>1. Init => Abstract!SInit
  BY DEF Init, Abstract!SInit
<1>2. IInv /\ [Next]_vars => [Abstract!SNext]_Bar
  BY StepRefines
<1>3. IInv /\ [Next]_vars => IInv'
  BY StepPreserves
<1>4. [Abstract!SNext]_Bar <=> [Abstract!SNext]_(Abstract!svars)
  BY DEF Bar, Abstract!svars, Handles, Held, Issued
<1> QED BY <1>1, <1>2, <1>3, <1>4, InitEstablishes, PTL DEF Spec, ImplementsSpec, Abstract!SSpec
================================================================================
