------------------------------- MODULE SmallHeap -------------------------------
(***************************************************************************)
(* A size-class pool of the mark-sweep heap and its arenas                 *)
(* (gc/mark_sweep/small_heap_arena.cpp).  An arena keeps the same facts    *)
(* three times: the use bits, a mask of the words of use bits that are not *)
(* zero, which the sweep follows, and a free list threaded through the     *)
(* blocks.  The pool keeps a cursor so that it does not look at full       *)
(* arenas again.                                                           *)
(*                                                                         *)
(* Positions in the sequence of arenas count from 1, as everywhere in      *)
(* TLA+; the code's count from 0.                                          *)
(***************************************************************************)
EXTENDS Naturals, Sequences, FiniteSets

CONSTANTS
  Arena,       \* addresses the general allocator can give to an arena
  NoArena,     \* nullptr
  BlockCount,  \* _block_count
  WordBits     \* kBitsPerUseWord

ASSUME NoArenaAssumption == NoArena \notin Arena
ASSUME SizesAssumption == BlockCount \in Nat \ {0} /\ WordBits \in Nat \ {0}

VARIABLES
  arenas,    \* _arenas
  current,   \* _current_arena
  start,     \* _next_find_not_full_start
  free,      \* arena -> _free_list, head first
  use,       \* arena -> blocks whose use bit is set
  chunks,    \* arena -> words in _chunk_in_use_mask
  marked,    \* the mark bitmap of the collection going on
  at         \* position of the arena to sweep next; 0: no sweep goes on

vars == <<arenas, current, start, free, use, chunks, marked, at>>
arenaVars == <<free, use, chunks>>

--------------------------------------------------------------------------------
Index == 0 .. BlockCount - 1
Word(i) == i \div WordBits
Listed == {arenas[k] : k \in 1 .. Len(arenas)}
Lent == {b \in Arena \X Index : b[1] \in Listed /\ b[2] \in use[b[1]]}

Full(a) == free[a] = <<>>

(* rebuild_free_list prepends the blocks of a new arena in address order.  *)
FreshList == [k \in 1 .. BlockCount |-> BlockCount - k]

Init ==
  /\ arenas = <<>> /\ current = NoArena /\ start = 1
  /\ free = [a \in Arena |-> FreshList]
  /\ use = [a \in Arena |-> {}]
  /\ chunks = [a \in Arena |-> {}]
  /\ marked = {} /\ at = 0

--------------------------------------------------------------------------------
(* allocate_block *)

(* Mutant: the block stays at the head of the free list.                   *)
TakeKeepsHead(a) ==
  /\ use' = [use EXCEPT ![a] = @ \cup {Head(free[a])}]
  /\ chunks' = [chunks EXCEPT ![a] = @ \cup {Word(Head(free[a]))}]
  /\ UNCHANGED <<free, marked, at>>

(* SmallHeapArena::allocate_block: the head of the free list is taken and  *)
(* its use bit set.                                                        *)
Take(a) ==
  /\ free' = [free EXCEPT ![a] = Tail(@)]
  /\ use' = [use EXCEPT ![a] = @ \cup {Head(free[a])}]
  /\ chunks' = [chunks EXCEPT ![a] = @ \cup {Word(Head(free[a]))}]
  /\ UNCHANGED <<marked, at>>

Idle == at = 0
CurrentExhausted == current # NoArena => Full(current)

(* find_next_not_full_arena: i is the first position from the cursor on    *)
(* whose arena has room.                                                   *)
FirstWithRoom(i) ==
  /\ i \in start .. Len(arenas)
  /\ ~Full(arenas[i])
  /\ \A j \in start .. i - 1 : Full(arenas[j])
NoneWithRoom == \A i \in start .. Len(arenas) : Full(arenas[i])

AllocateFromCurrent ==
  /\ Idle
  /\ ~CurrentExhausted
  /\ Take(current)
  /\ UNCHANGED <<arenas, current, start>>

AllocateFromNext(i) ==
  /\ Idle
  /\ CurrentExhausted
  /\ FirstWithRoom(i)
  /\ current' = arenas[i]
  /\ start' = i + 1
  /\ Take(arenas[i])
  /\ UNCHANGED arenas

(* The general allocator supplies a new arena, whose constructor clears    *)
(* the use bits and builds the free list.                                  *)
AllocateFromNew(a) ==
  /\ Idle
  /\ CurrentExhausted /\ NoneWithRoom
  /\ a \notin Listed
  /\ arenas' = Append(arenas, a)
  /\ current' = a
  /\ start' = Len(arenas) + 2
  /\ Take(a)

(* It does not, and the caller gets nullptr. *)
AllocateFails ==
  /\ Idle
  /\ CurrentExhausted /\ NoneWithRoom
  /\ current' = NoArena
  /\ start' = Len(arenas) + 1
  /\ UNCHANGED <<arenas, arenaVars, marked, at>>

--------------------------------------------------------------------------------
(* sweep: one step per block freed and per arena done, in the order of the *)
(* loops.                                                                  *)

BeginSweep(m) ==
  /\ Idle
  /\ marked' = m
  /\ at' = 1
  /\ UNCHANGED <<arenas, current, start, arenaVars>>

(* The blocks of arena a that the sweep reaches through the chunk mask and *)
(* the use bits and finds unmarked.                                        *)
Dead(a) == {i \in use[a] : Word(i) \in chunks[a] /\ <<a, i>> \notin marked}

(* clear_block_in_use *)
Clear(a, i) ==
  /\ use' = [use EXCEPT ![a] = @ \ {i}]
  /\ chunks' = [chunks EXCEPT ![a] =
                  {w \in @ : w # Word(i) \/ \E j \in use[a] \ {i} : Word(j) = w}]

(* Blocks are freed in address order. *)
SweepBlock(a, i) ==
  /\ at \in 1 .. Len(arenas) /\ a = arenas[at]
  /\ i \in Dead(a) /\ \A j \in Dead(a) : i <= j
  /\ free' = [free EXCEPT ![a] = <<i>> \o @]
  /\ Clear(a, i)
  /\ UNCHANGED <<arenas, current, start, marked, at>>

Swept(a) ==
  /\ at \in 1 .. Len(arenas) /\ a = arenas[at]
  /\ Dead(a) = {}

SweepArenaKept(a) ==
  /\ Swept(a)
  /\ chunks[a] # {}
  /\ at' = at + 1
  /\ UNCHANGED <<arenas, current, start, arenaVars, marked>>

(* _arenas[i] = _arenas[size - 1]; pop_back()                              *)
LastMovedTo(i) == [k \in 1 .. Len(arenas) - 1 |-> IF k = i THEN arenas[Len(arenas)] ELSE arenas[k]]

(* What an arena holds while it is not listed is that of a new one.        *)
Release(a) ==
  /\ free' = [free EXCEPT ![a] = FreshList]
  /\ use' = [use EXCEPT ![a] = {}]
  /\ chunks' = [chunks EXCEPT ![a] = {}]

(* Mutant: the loop moves on past the arena that the last one replaced.    *)
SweepArenaSkipsMoved(a) ==
  /\ Swept(a)
  /\ chunks[a] = {}
  /\ arenas' = LastMovedTo(at)
  /\ Release(a)
  /\ at' = at + 1
  /\ UNCHANGED <<current, start, marked>>

(* An arena left empty is freed and replaced by the last one, which the    *)
(* loop looks at next.                                                     *)
SweepArenaFreed(a) ==
  /\ Swept(a)
  /\ chunks[a] = {}
  /\ arenas' = LastMovedTo(at)
  /\ Release(a)
  /\ UNCHANGED <<current, start, marked, at>>

(* Mutant: the cursor is not reset after a sweep.                          *)
EndSweepKeepsCursor ==
  /\ at > Len(arenas)
  /\ at' = 0 /\ marked' = {}
  /\ \/ \E i \in 1 .. Len(arenas) :
          FirstWithRoom(i) /\ current' = arenas[i] /\ start' = i + 1
     \/ NoneWithRoom /\ current' = NoArena /\ start' = Len(arenas) + 1
  /\ UNCHANGED <<arenas, arenaVars>>

(* The cursor goes back to the first arena and the search is made anew.    *)
EndSweep ==
  LET Room(i) == ~Full(arenas[i]) /\ \A j \in 1 .. i - 1 : Full(arenas[j])
  IN  /\ at > Len(arenas)
      /\ at' = 0 /\ marked' = {}
      /\ \/ \E i \in 1 .. Len(arenas) :
              Room(i) /\ current' = arenas[i] /\ start' = i + 1
         \/ /\ \A i \in 1 .. Len(arenas) : Full(arenas[i])
            /\ current' = NoArena /\ start' = Len(arenas) + 1
      /\ UNCHANGED <<arenas, arenaVars>>

Next ==
  \/ AllocateFromCurrent
  \/ \E i \in 1 .. Len(arenas) : AllocateFromNext(i)
  \/ \E a \in Arena : AllocateFromNew(a)
  \/ AllocateFails
  \/ \E m \in SUBSET Lent : BeginSweep(m)
  \/ \E a \in Arena, i \in Index : SweepBlock(a, i)
  \/ \E a \in Arena : SweepArenaKept(a) \/ SweepArenaFreed(a)
  \/ EndSweep

Spec == Init /\ [][Next]_vars
--------------------------------------------------------------------------------
Elements(s) == {s[k] : k \in 1 .. Len(s)}
NoRepeat(s) == \A j, k \in 1 .. Len(s) : s[j] = s[k] => j = k

(* Types; an arena is listed once, and outside a sweep the current one is  *)
(* listed.                                                                 *)
TypeOK ==
  /\ arenas \in Seq(Arena)
  /\ NoRepeat(arenas)
  /\ current \in Arena \cup {NoArena}
  /\ Idle /\ current # NoArena => current \in Listed
  /\ start \in Nat \ {0} /\ at \in Nat
  /\ free \in [Arena -> Seq(Index)]
  /\ use \in [Arena -> SUBSET Index]
  /\ chunks \in [Arena -> SUBSET Nat]
  /\ marked \in SUBSET (Arena \X Index)

(* In every listed arena a block is on the free list exactly when its use  *)
(* bit is clear, and then once.                                            *)
FreeListExact ==
  \A a \in Listed : Elements(free[a]) = Index \ use[a] /\ NoRepeat(free[a])

(* The chunk mask names exactly the words with a bit set: a word missing   *)
(* would never be swept, and one too many would keep an empty arena.       *)
ChunkMaskExact == \A a \in Listed : chunks[a] = {Word(i) : i \in use[a]}

(* Outside a sweep the pool asks the general allocator for an arena only   *)
(* when no block is left in those it has, wherever the cursor stands and   *)
(* however sweeping has moved the arenas.                                  *)
GrowsOnlyWhenFull ==
  [][Len(arenas') > Len(arenas) => \A a \in Listed : use[a] = Index]_vars

(* After a sweep no arena is kept without a block in use.                  *)
NoEmptyArena == Idle => \A a \in Listed : use[a] # {}

(* Outside a sweep, every arena that the cursor has passed is full, but    *)
(* for the current one.                                                    *)
CursorSkipsFull ==
  Idle => \A k \in 1 .. Len(arenas) :
            k < start /\ arenas[k] # current => Full(arenas[k])

(* The inductive invariant.  An arena that is not listed is as new; during *)
(* a sweep, what is marked is in use, and the arenas already swept hold    *)
(* nothing else.                                                           *)
UnlistedAsNew ==
  \A a \in Arena \ Listed : free[a] = FreshList /\ use[a] = {} /\ chunks[a] = {}
SweptSoFar ==
  /\ ~Idle => marked \subseteq Lent
  /\ at <= Len(arenas) + 1
  /\ \A k \in 1 .. at - 1 :
       /\ use[arenas[k]] # {}
       /\ \A i \in use[arenas[k]] : <<arenas[k], i>> \in marked

IInv ==
  /\ TypeOK /\ FreeListExact /\ ChunkMaskExact
  /\ NoEmptyArena /\ UnlistedAsNew /\ CursorSkipsFull /\ SweptSoFar

(* The pool implements BlockPool; a sweep takes effect when it begins.     *)
Pool == INSTANCE BlockPool WITH
          Block <- Arena \X Index,
          lent <- IF Idle THEN Lent ELSE marked
ImplementsPool == Pool!PSpec
================================================================================
