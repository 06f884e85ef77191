--------------------------- MODULE HeapWalks_proofs -----------------------------
(***************************************************************************)
(* For any graph of objects, any segment and cache size, any recursion     *)
(* limit and any batch size: marking is exact, in a stack of bounded       *)
(* depth, the deferred queue stays short outside a flush, the bitmap       *)
(* behind a walk is the set of the objects visited, and a liveness walk    *)
(* reports exactly what it is asked for.                                   *)
(***************************************************************************)
EXTENDS HeapWalks, SequenceTheorems, TLAPS

--------------------------------------------------------------------------------
(* The scanner, whose marks are a set. *)

(* Reach is the least closed superset. *)
LEMMA ReachContains ==
  ASSUME NEW S \in SUBSET Object
  PROVE  S \subseteq Reach(S) /\ Reach(S) \subseteq Object
BY DEF Reach

LEMMA ReachMinimal ==
  ASSUME NEW S \in SUBSET Object, NEW T \in SUBSET Object, S \subseteq T, Closed(T)
  PROVE  Reach(S) \subseteq T
BY DEF Reach

LEMMA ReachClosed ==
  ASSUME TypeOK, NEW S \in SUBSET Object
  PROVE  Closed(Reach(S))
<1> SUFFICES ASSUME NEW o \in Reach(S), NEW c \in slots[o] PROVE c \in Reach(S)
  BY DEF Closed
<1>1. o \in Object /\ c \in Object
  BY DEF Reach, TypeOK
<1>2. ASSUME NEW T \in SUBSET Object, S \subseteq T, Closed(T) PROVE c \in T
  <2>1. o \in T
    BY <1>2 DEF Reach
  <2> QED BY <2>1, <1>2 DEF Closed
<1> QED BY <1>1, <1>2 DEF Reach

LEMMA ReachMonotone ==
  ASSUME TypeOK, NEW S \in SUBSET Object, NEW T \in SUBSET Object, S \subseteq T
  PROVE  Reach(S) \subseteq Reach(T)
BY ReachContains, ReachMinimal, ReachClosed

LEMMA ReachUnion ==
  ASSUME TypeOK, NEW S \in SUBSET Object, NEW T \in SUBSET Object
  PROVE  Reach(S \cup T) = Reach(S) \cup Reach(T)
<1>1. S \cup T \in SUBSET Object /\ Reach(S) \cup Reach(T) \in SUBSET Object
      /\ S \cup T \subseteq Reach(S) \cup Reach(T)
  BY ReachContains
<1>2. Closed(Reach(S) \cup Reach(T))
  BY ReachClosed DEF Closed
<1>3. Reach(S \cup T) \subseteq Reach(S) \cup Reach(T)
  BY <1>1, <1>2, ReachMinimal
<1>4. Reach(S) \subseteq Reach(S \cup T) /\ Reach(T) \subseteq Reach(S \cup T)
  BY <1>1, ReachMonotone
<1> QED BY <1>3, <1>4

--------------------------------------------------------------------------------
(* Stack and queue as sets. *)
Elems(s) == {s[i] : i \in 1 .. Len(s)}
Front0(s) == SubSeq(s, 1, Len(s) - 1)

LEMMA ElemsAppend ==
  ASSUME NEW S, NEW s \in Seq(S), NEW x \in S
  PROVE  /\ Append(s, x) \in Seq(S) /\ Len(Append(s, x)) = Len(s) + 1 /\ Len(s) \in Nat
         /\ Append(s, x) # <<>>
         /\ Append(s, x)[Len(s) + 1] = x
         /\ \A i \in 1 .. Len(s) : Append(s, x)[i] = s[i]
         /\ Elems(Append(s, x)) = Elems(s) \cup {x}
<1>1. /\ Append(s, x) \in Seq(S) /\ Len(Append(s, x)) = Len(s) + 1
      /\ Append(s, x)[Len(s) + 1] = x
      /\ \A i \in 1 .. Len(s) : Append(s, x)[i] = s[i]
  BY AppendProperties
<1>2. Len(s) \in Nat /\ Append(s, x) # <<>>
  BY <1>1
<1>3. \A i : i \in 1 .. Len(s) + 1 <=> i \in 1 .. Len(s) \/ i = Len(s) + 1
  BY <1>2
<1> QED BY <1>1, <1>2, <1>3 DEF Elems

LEMMA FrontOf ==
  ASSUME NEW S, NEW s \in Seq(S), s # <<>>
  PROVE  /\ Len(s) \in Nat /\ Len(s) >= 1 /\ s[Len(s)] \in S
         /\ Front0(s) \in Seq(S) /\ Len(Front0(s)) = Len(s) - 1
         /\ \A i \in 1 .. Len(s) - 1 : Front0(s)[i] = s[i]
         /\ Elems(s) = Elems(Front0(s)) \cup {s[Len(s)]}
<1>1. Len(s) \in Nat /\ Len(s) >= 1 /\ \A i \in 1 .. Len(s) : s[i] \in S
  BY EmptySeq
<1>2. PICK n \in Nat : n = Len(s) - 1
  BY <1>1
<1>3. \A i \in 1 .. n : s[i] \in S
  BY <1>1, <1>2
<1>4. /\ SubSeq(s, 1, n) \in Seq(S)
      /\ Len(SubSeq(s, 1, n)) = IF 1 <= n THEN n - 1 + 1 ELSE 0
      /\ \A i \in 1 .. n - 1 + 1 : SubSeq(s, 1, n)[i] = s[1 + i - 1]
  BY <1>3, SubSeqProperties
<1>5. /\ Front0(s) \in Seq(S) /\ Len(Front0(s)) = n
      /\ \A i \in 1 .. n : Front0(s)[i] = s[i]
  BY <1>2, <1>4 DEF Front0
<1>6. \A i : i \in 1 .. Len(s) <=> i \in 1 .. n \/ i = Len(s)
  BY <1>1, <1>2
<1> QED BY <1>1, <1>2, <1>5, <1>6 DEF Elems

Replaced(s, x) == [s EXCEPT ![Len(s)] = x]

LEMMA LastReplaced ==
  ASSUME NEW S, NEW s \in Seq(S), s # <<>>, NEW x \in S
  PROVE  /\ Replaced(s, x) \in Seq(S) /\ Replaced(s, x) # <<>>
         /\ Len(Replaced(s, x)) = Len(s) /\ Replaced(s, x)[Len(s)] = x
         /\ \A i \in 1 .. Len(s) - 1 : Replaced(s, x)[i] = s[i]
         /\ Elems(Replaced(s, x)) = Elems(Front0(s)) \cup {x}
<1>1. Len(s) \in Nat /\ Len(s) >= 1
  BY FrontOf
<1>2. /\ Replaced(s, x) \in Seq(S) /\ Len(Replaced(s, x)) = Len(s) /\ Replaced(s, x)[Len(s)] = x
      /\ \A i \in 1 .. Len(s) - 1 : Replaced(s, x)[i] = s[i]
  BY <1>1 DEF Replaced
<1>3. Replaced(s, x) # <<>>
  BY <1>1, <1>2, EmptySeq
<1>4. \A i : i \in 1 .. Len(s) <=> i \in 1 .. Len(s) - 1 \/ i = Len(s)
  BY <1>1
<1>5. /\ Len(Front0(s)) = Len(s) - 1
      /\ \A i \in 1 .. Len(s) - 1 : Front0(s)[i] = s[i]
  BY FrontOf
<1>6. Elems(Replaced(s, x)) = Elems(Front0(s)) \cup {x}
  BY <1>2, <1>4, <1>5 DEF Elems
<1> QED BY <1>2, <1>3, <1>6

LEMMA TopFacts ==
  ASSUME TypeOK, stack # <<>>
  PROVE  /\ Len(stack) \in Nat /\ Len(stack) >= 1
         /\ Top \in Activation
         /\ Popped \in Seq(Activation) /\ Len(Popped) = Len(stack) - 1
         /\ \A i \in 1 .. Len(stack) - 1 : Popped[i] = stack[i]
         /\ Frames = Elems(Popped) \cup {Top}
BY FrontOf DEF TypeOK, Top, Popped, Front0, Frames, Elems

Shrunk(c) == [Top EXCEPT !.left = @ \ {c}]

LEMMA AdvancedFacts ==
  ASSUME TypeOK, stack # <<>>, NEW c \in Top.left
  PROVE  /\ Shrunk(c).kind = Top.kind /\ Shrunk(c).obj = Top.obj
         /\ Shrunk(c).left = Top.left \ {c}
         /\ Advanced(c) \in Seq(Activation) /\ Len(Advanced(c)) = Len(stack)
         /\ Advanced(c) # <<>>
         /\ Advanced(c)[Len(stack)] = Shrunk(c)
         /\ \A i \in 1 .. Len(stack) - 1 : Advanced(c)[i] = stack[i]
         /\ \A i \in 1 .. Len(stack) : Advanced(c)[i].kind = stack[i].kind
         /\ Elems(Advanced(c)) = Elems(Popped) \cup {Shrunk(c)}
<1>1. Top \in Activation /\ stack \in Seq(Activation) /\ Len(stack) \in Nat /\ Len(stack) >= 1
  BY TopFacts DEF TypeOK
<1>2. /\ Shrunk(c) \in Activation /\ Shrunk(c).kind = Top.kind /\ Shrunk(c).obj = Top.obj
      /\ Shrunk(c).left = Top.left \ {c}
  BY <1>1 DEF Activation, Shrunk
<1>3. Advanced(c) = Replaced(stack, Shrunk(c))
  BY DEF Advanced, Top, Shrunk, Replaced
<1>4. /\ Advanced(c) \in Seq(Activation) /\ Len(Advanced(c)) = Len(stack)
      /\ Advanced(c) # <<>>
      /\ Advanced(c)[Len(stack)] = Shrunk(c)
      /\ \A i \in 1 .. Len(stack) - 1 : Advanced(c)[i] = stack[i]
      /\ Elems(Advanced(c)) = Elems(Front0(stack)) \cup {Shrunk(c)}
  <2>1. PICK x : x = Shrunk(c)
    OBVIOUS
  <2>2. stack \in Seq(Activation) /\ x \in Activation
    BY <1>1, <1>2, <2>1
  <2>3. /\ Replaced(stack, x) \in Seq(Activation) /\ Replaced(stack, x) # <<>>
        /\ Len(Replaced(stack, x)) = Len(stack) /\ Replaced(stack, x)[Len(stack)] = x
    BY <2>2, LastReplaced
  <2>4. \A i \in 1 .. Len(stack) - 1 : Replaced(stack, x)[i] = stack[i]
    BY <1>1, <2>2 DEF Replaced
  <2>5. Elems(Replaced(stack, x)) = Elems(Front0(stack)) \cup {x}
    BY <2>2, LastReplaced
  <2> QED BY <1>3, <2>1, <2>3, <2>4, <2>5
<1>5. Popped = Front0(stack)
  BY DEF Popped, Front0
<1>6. \A i \in 1 .. Len(stack) : Advanced(c)[i].kind = stack[i].kind
  <2>1. \A i \in 1 .. Len(stack) : i \in 1 .. Len(stack) - 1 \/ i = Len(stack)
    BY <1>1
  <2> QED BY <2>1, <1>2, <1>4 DEF Top
<1> QED BY <1>2, <1>4, <1>5, <1>6

(* What a step of the scanner keeps, in terms of sets: nothing to visit is *)
(* lost, what is put off or marked anew is to be scanned, and nothing from *)
(* outside the live objects is taken up.                                   *)
NothingLost ==
  /\ \A f \in Frames : \A c \in f.left :
       c \in marked' \/ \E g \in Frames' : g.obj = f.obj /\ c \in g.left
  /\ \A o \in Queued : o \in Queued' \/ \E g \in Frames' : g.obj = o /\ g.left = slots[o]
  /\ \A o \in marked' \ marked :
       \/ slots[o] = {}
       \/ o \in Queued'
       \/ \E g \in Frames' : g.obj = o /\ g.left = slots[o]

QueueShort == flushes = 0 => Len(queue) < Threshold

(* What is marked anew was to be visited, and what is to be visited now    *)
(* was so before or is held by a marked object.                            *)
NothingAdded ==
  /\ \A o \in marked' \ marked : \E f \in Frames : o \in f.left
  /\ \A g \in Frames' : \/ g.left = {}
                        \/ \E f \in Frames : g.left \subseteq f.left
                        \/ \E o \in marked' : g.left = slots[o]

Kept ==
  /\ TypeOK' /\ UNCHANGED heapVars
  /\ marked \subseteq marked' /\ promoted \subseteq promoted'
  /\ NothingLost /\ ScanSound' /\ StackShape' /\ QueueShort'

LEMMA KeptCovered ==
  ASSUME IInv, Kept
  PROVE  TypeOK' /\ SlotsInv' /\ MarkedCovered' /\ ScanSound' /\ StackShape' /\ QueueShort'
<1>1. SlotsInv'
  BY DEF IInv, SlotsInv, Kept, heapVars
<1>2. ASSUME NEW o \in marked', NEW c \in slots[o]
      PROVE  \/ c \in marked'
             \/ o \in Queued'
             \/ \E f \in Frames' : f.obj = o /\ c \in f.left
  <2>1. CASE o \notin marked
    BY <1>2, <2>1 DEF Kept, NothingLost
  <2>2. CASE o \in marked
    <3>1. \/ c \in marked
          \/ o \in Queued
          \/ \E f \in Frames : f.obj = o /\ c \in f.left
      BY <1>2, <2>2 DEF IInv, MarkedCovered
    <3> QED BY <1>2, <3>1 DEF Kept, NothingLost
  <2> QED BY <2>1, <2>2
<1>3. MarkedCovered'
  BY <1>2 DEF MarkedCovered, Kept, heapVars
<1> QED BY <1>1, <1>3 DEF Kept

LEMMA KeptByScan ==
  ASSUME IInv, Kept, UNCHANGED <<promoted, phase, todo>>, phase # "done"
  PROVE  IInv'
<1>1. TypeOK' /\ SlotsInv' /\ MarkedCovered' /\ ScanSound' /\ StackShape' /\ QueueShort'
  BY KeptCovered
<1>2. /\ UNCHANGED <<slots, roots, statics, registered>> /\ marked \subseteq marked'
      /\ Reach(roots \cup statics)' = Reach(roots \cup statics) /\ Condemned' = Condemned
  BY DEF Kept, heapVars, Reach, Closed, Condemned
<1>3. phase \in {"statics", "endRoots"} => \A c \in statics :
        c \in marked' \/ \E f \in Frames' : f.obj = Null /\ c \in f.left
  <2> SUFFICES ASSUME phase \in {"statics", "endRoots"}, NEW c \in statics
               PROVE  c \in marked' \/ \E f \in Frames' : f.obj = Null /\ c \in f.left
    OBVIOUS
  <2>1. c \in marked \/ \E f \in Frames : f.obj = Null /\ c \in f.left
    BY DEF IInv, PhaseInv
  <2> QED BY <2>1, <1>2 DEF Kept, NothingLost
<1>4. PhaseInv'
  BY <1>2, <1>3 DEF IInv, PhaseInv
<1>5. QueueBounded'
  BY <1>1 DEF QueueShort, QueueBounded
<1> QED BY <1>1, <1>4, <1>5 DEF IInv

--------------------------------------------------------------------------------
(* The shape of the stack, action by action.                               *)

LEMMA ShapeSame ==
  ASSUME TypeOK, StackShape, stack # <<>>, UNCHANGED <<depth, flushes>>,
         Len(stack') = Len(stack),
         \A i \in 1 .. Len(stack) : stack'[i].kind = stack[i].kind
  PROVE  StackShape'
<1>1. PICK n \in Nat : n = Len(stack) /\ n >= 1
  BY TopFacts
<1>2. depth \in Nat
  BY DEF TypeOK
<1>3. \A p \in {n - 1, n, n + 1} : Recursion(p) => Recursion(p)'
  BY <1>1, <1>2 DEF Recursion
<1>4. Recursion(n - 1) => n - 1 >= 1
  BY <1>1, <1>2 DEF Recursion
<1> QED BY <1>1, <1>3, <1>4 DEF StackShape, Top

(* A scan or a flush is on top. *)
LEMMA ShapeScanning ==
  ASSUME TypeOK, StackShape, Scanning
  PROVE  \/ /\ flushes = 0 /\ Len(stack) = depth + 1 /\ stack[1].kind = "root"
            /\ \A i \in 2 .. Len(stack) : stack[i].kind = "nested"
         \/ /\ flushes = 1 /\ Recursion(Len(stack) - 1) /\ Top.kind = "deferred"
            /\ stack[Len(stack) - 1].kind = "flush" /\ Len(stack) >= 2
<1>1. PICK n \in Nat : n = Len(stack) /\ n >= 1
  BY TopFacts DEF Scanning
<1>2. depth \in Nat
  BY DEF TypeOK
<1>3. Recursion(n + 1) => /\ n = depth + 1 /\ stack[1].kind = "root"
                          /\ \A i \in 2 .. n : stack[i].kind = "nested"
  BY <1>1, <1>2 DEF Recursion
<1>4. Recursion(n - 1) => n >= 2
  BY <1>1, <1>2 DEF Recursion
<1> QED BY <1>1, <1>3, <1>4 DEF StackShape, Scanning

LEMMA ShapeFlushing ==
  ASSUME TypeOK, StackShape, Flushing
  PROVE  flushes = 1 /\ Recursion(Len(stack)) /\ Top.kind = "flush"
<1>1. PICK n \in Nat : n = Len(stack) /\ n >= 1
  BY TopFacts DEF Flushing
<1>2. depth \in Nat
  BY DEF TypeOK
<1>3. Recursion(n + 1) => stack[n].kind \in {"root", "nested"}
  <2>1. CASE n = 1
    BY <2>1, <1>2 DEF Recursion
  <2>2. CASE n >= 2
    BY <2>2, <1>2 DEF Recursion
  <2> QED BY <1>1, <2>1, <2>2
<1> QED BY <1>1, <1>3 DEF StackShape, Flushing, Top

LEMMA ShapeEmpty ==
  ASSUME TypeOK, StackShape, stack = <<>>
  PROVE  flushes = 0 /\ depth = 0
<1>1. Len(stack) = 0 /\ depth \in Nat
  BY DEF TypeOK
<1> QED BY <1>1 DEF StackShape, Recursion

LEMMA ShapeRecurse ==
  ASSUME TypeOK, StackShape, Scanning, flushes = 0, depth < MaxDepth,
         flushes' = flushes, depth' = depth + 1,
         Len(stack') = Len(stack) + 1, stack'[Len(stack) + 1].kind = "nested",
         \A i \in 1 .. Len(stack) : stack'[i].kind = stack[i].kind
  PROVE  StackShape'
<1>1. PICK n \in Nat : n = Len(stack) /\ n >= 1
  BY TopFacts DEF Scanning
<1>2. depth \in Nat /\ MaxDepth \in Nat
  BY LimitsAssumption DEF TypeOK
<1>3. /\ n = depth + 1 /\ stack[1].kind = "root"
      /\ \A i \in 2 .. n : stack[i].kind = "nested"
  BY <1>1, ShapeScanning
<1>4. \A i \in 2 .. n + 1 : stack'[i].kind = "nested"
  BY <1>1, <1>3
<1>5. Recursion(n + 2)'
  BY <1>1, <1>2, <1>3, <1>4 DEF Recursion
<1>6. Len(stack') + 1 = n + 2 /\ flushes' = 0 /\ depth' <= MaxDepth
  BY <1>1, <1>2
<1> QED BY <1>5, <1>6 DEF StackShape

LEMMA ShapeFlush ==
  ASSUME TypeOK, StackShape, flushes = 0, flushes' = 1, depth' = depth,
         Len(stack') = Len(stack) + 1, stack'[Len(stack) + 1].kind = "flush",
         \A i \in 1 .. Len(stack) : stack'[i].kind = stack[i].kind
  PROVE  StackShape'
<1>1. PICK n \in Nat : n = Len(stack)
  BY DEF TypeOK
<1>2. depth \in Nat
  BY DEF TypeOK
<1>3. Recursion(n + 1)
  BY <1>1 DEF StackShape
<1>4. Recursion(n + 1)'
  BY <1>1, <1>2, <1>3 DEF Recursion
<1> QED BY <1>1, <1>4 DEF StackShape, Top

LEMMA ShapeScanEnds ==
  ASSUME TypeOK, StackShape, Scanning, stack' = Popped, flushes' = flushes,
         depth' = IF Top.kind = "nested" THEN depth - 1 ELSE depth
  PROVE  StackShape' /\ depth' \in Nat
<1>1. PICK n \in Nat : n = Len(stack) /\ n >= 1
  BY TopFacts DEF Scanning
<1>2. depth \in Nat /\ MaxDepth \in Nat /\ depth <= MaxDepth
  BY LimitsAssumption DEF TypeOK, StackShape
<1>3. Len(stack') = n - 1 /\ \A i \in 1 .. n - 1 : stack'[i] = stack[i]
  BY <1>1, TopFacts DEF Scanning
<1>4. CASE /\ flushes = 0 /\ n = depth + 1 /\ stack[1].kind = "root"
           /\ \A i \in 2 .. n : stack[i].kind = "nested"
  <2>1. CASE n = 1
    <3>1. Top.kind = "root" /\ depth' = 0
      BY <2>1, <1>1, <1>2, <1>4 DEF Top
    <3>2. Recursion(1)'
      BY <3>1 DEF Recursion
    <3> QED BY <3>1, <3>2, <2>1, <1>2, <1>3, <1>4 DEF StackShape
  <2>2. CASE n >= 2
    <3>1. Top.kind = "nested" /\ depth' = depth - 1 /\ n = depth' + 2
      BY <2>2, <1>1, <1>2, <1>4 DEF Top
    <3>2. Recursion(n)'
      BY <2>2, <3>1, <1>3, <1>4 DEF Recursion
    <3>3. Len(stack') + 1 = n /\ depth' \in Nat /\ depth' <= MaxDepth
      BY <2>2, <3>1, <1>2, <1>3
    <3> QED BY <3>2, <3>3, <1>4 DEF StackShape
  <2> QED BY <1>1, <2>1, <2>2
<1>5. CASE /\ flushes = 1 /\ Recursion(n - 1) /\ Top.kind = "deferred"
           /\ stack[n - 1].kind = "flush" /\ n >= 2
  <2>1. depth' = depth
    BY <1>5
  <2>2. Recursion(n - 1)'
    BY <2>1, <1>1, <1>2, <1>3, <1>5 DEF Recursion
  <2>3. stack'[n - 1].kind = "flush"
    BY <1>1, <1>3, <1>5
  <2> QED BY <2>1, <2>2, <2>3, <1>2, <1>3, <1>5 DEF StackShape, Top
<1> QED BY <1>1, <1>4, <1>5, ShapeScanning

LEMMA ShapeFlushNext ==
  ASSUME TypeOK, StackShape, Flushing, UNCHANGED <<depth, flushes>>,
         Len(stack') = Len(stack) + 1, stack'[Len(stack) + 1].kind = "deferred",
         \A i \in 1 .. Len(stack) : stack'[i] = stack[i]
  PROVE  StackShape'
<1>1. PICK n \in Nat : n = Len(stack) /\ n >= 1
  BY TopFacts DEF Flushing
<1>2. depth \in Nat
  BY DEF TypeOK
<1>3. flushes = 1 /\ Recursion(n) /\ stack[n].kind = "flush"
  BY <1>1, ShapeFlushing DEF Top
<1>4. Recursion(n)'
  BY <1>1, <1>2, <1>3 DEF Recursion
<1>5. Len(stack') = n + 1 /\ Len(stack') - 1 = n /\ stack'[n].kind = "flush"
  BY <1>1, <1>3
<1> QED BY <1>1, <1>3, <1>4, <1>5 DEF StackShape, Top

LEMMA ShapeFlushEnds ==
  ASSUME TypeOK, StackShape, Flushing, depth' = depth, flushes' = flushes - 1,
         Len(stack') = Len(stack) - 1,
         \A i \in 1 .. Len(stack) - 1 : stack'[i] = stack[i]
  PROVE  StackShape'
<1>1. PICK n \in Nat : n = Len(stack) /\ n >= 1
  BY TopFacts DEF Flushing
<1>2. depth \in Nat
  BY DEF TypeOK
<1>3. flushes = 1 /\ Recursion(n)
  BY <1>1, ShapeFlushing
<1>4. Recursion(n)'
  BY <1>1, <1>2, <1>3 DEF Recursion
<1>5. Len(stack') + 1 = n /\ flushes' = 0
  BY <1>1, <1>3
<1> QED BY <1>4, <1>5 DEF StackShape

--------------------------------------------------------------------------------
(* Each step of the scanner keeps what KeptByScan asks for.                *)

Live == Reach(Sources)

LEMMA LiveFacts ==
  ASSUME IInv
  PROVE  /\ Sources \in SUBSET Object /\ Sources \subseteq Live /\ Live \subseteq Object
         /\ \A o \in Live : slots[o] \subseteq Live
         /\ marked \subseteq Live /\ Queued \subseteq marked
         /\ \A f \in Frames : f.left \subseteq Live
<1>1. Sources \in SUBSET Object /\ TypeOK
  BY DEF IInv, TypeOK, Sources
<1> QED BY <1>1, ReachContains, ReachClosed DEF IInv, ScanSound, Live, Closed

LEMMA LiveSame ==
  ASSUME UNCHANGED <<heapVars, promoted>>
  PROVE  Live' = Live
BY DEF Live, Sources, Reach, Closed, heapVars

(* A scan goes on to the object in its next slot.                          *)
LEMMA NextSlot ==
  ASSUME IInv, Scanning, NEW c \in Top.left
  PROVE  /\ c \in Live /\ c \in Object /\ slots[c] \subseteq Live /\ slots[c] \in SUBSET Object
         /\ TypeOK /\ StackShape /\ stack # <<>> /\ Top \in Frames
         /\ Frames = Elems(Popped) \cup {Top}
<1>1. TypeOK /\ StackShape /\ stack # <<>>
  BY DEF IInv, Scanning
<1>2. Top \in Frames /\ Frames = Elems(Popped) \cup {Top}
  BY <1>1, TopFacts
<1>3. c \in Live /\ Live \subseteq Object
  BY <1>2, LiveFacts
<1>4. slots[c] \subseteq Live
  BY <1>3, LiveFacts
<1> QED BY <1>1, <1>2, <1>3, <1>4

LEMMA PassOverKept ==
  ASSUME IInv, Scanning, NEW c \in Top.left, PassOver(c), UNCHANGED <<heapVars, promoted, phase, todo>>
  PROVE  Kept /\ NothingAdded
<1>1. /\ c \in Live /\ c \in Object /\ TypeOK /\ StackShape /\ stack # <<>>
      /\ Frames = Elems(Popped) \cup {Top}
  BY NextSlot
<1>2. /\ stack' = Advanced(c) /\ marked' = marked \cup {c} /\ queue' = queue
      /\ flushes' = flushes /\ depth' = depth /\ c \in marked \cup plain
  BY DEF PassOver
<1>3. /\ stack' \in Seq(Activation) /\ Len(stack') = Len(stack)
      /\ \A i \in 1 .. Len(stack) : stack'[i].kind = stack[i].kind
      /\ Frames' = Elems(Popped) \cup {Shrunk(c)}
      /\ Shrunk(c).obj = Top.obj /\ Shrunk(c).left = Top.left \ {c}
  <2>1. Frames' = Elems(stack')
    BY DEF Frames, Elems
  <2> QED BY <2>1, <1>1, <1>2, AdvancedFacts
<1>4. Queued' = Queued
  BY <1>2 DEF Queued
<1>5. TypeOK'
  BY <1>1, <1>2, <1>3 DEF TypeOK, heapVars
<1>6. NothingLost
  <2>1. slots[c] = {} \/ c \in marked
    BY <1>2 DEF IInv, SlotsInv
  <2> QED BY <2>1, <1>1, <1>2, <1>3, <1>4 DEF NothingLost
<1>7. ScanSound'
  <2>1. Live' = Live
    BY LiveSame
  <2>2. \A f \in Frames' : f.left \subseteq Live
    BY <1>1, <1>3, LiveFacts
  <2> QED BY <2>1, <2>2, <1>1, <1>2, <1>4, LiveFacts DEF ScanSound, Live
<1>8. StackShape'
  BY <1>1, <1>2, <1>3, ShapeSame
<1>9. QueueShort'
  BY <1>2 DEF IInv, QueueBounded, QueueShort
<1>10. NothingAdded
  BY <1>1, <1>2, <1>3 DEF NothingAdded
<1> QED BY <1>2, <1>5, <1>6, <1>7, <1>8, <1>9, <1>10 DEF Kept

LEMMA RecurseKept ==
  ASSUME IInv, Scanning, NEW c \in Top.left, Recurse(c), UNCHANGED <<heapVars, promoted, phase, todo>>
  PROVE  Kept /\ NothingAdded
<1> DEFINE g == Scan("nested", c, slots[c])
<1>1. /\ c \in Live /\ c \in Object /\ TypeOK /\ StackShape /\ stack # <<>>
      /\ slots[c] \subseteq Live /\ slots[c] \in SUBSET Object
      /\ Frames = Elems(Popped) \cup {Top}
  BY NextSlot
<1>2. /\ stack' = Append(Advanced(c), g) /\ marked' = marked \cup {c} /\ queue' = queue
      /\ flushes' = flushes /\ depth' = depth + 1 /\ flushes = 0 /\ depth < MaxDepth
  BY DEF Recurse, MayRecurse
<1>3. g \in Activation /\ g.kind = "nested" /\ g.obj = c /\ g.left = slots[c]
  BY <1>1 DEF Scan, Activation
<1> HIDE DEF g
<1>4. /\ Advanced(c) \in Seq(Activation) /\ Len(Advanced(c)) = Len(stack)
      /\ \A i \in 1 .. Len(stack) : Advanced(c)[i].kind = stack[i].kind
      /\ Elems(Advanced(c)) = Elems(Popped) \cup {Shrunk(c)}
      /\ Shrunk(c).obj = Top.obj /\ Shrunk(c).left = Top.left \ {c}
  BY <1>1, AdvancedFacts
<1>5. /\ stack' \in Seq(Activation) /\ Len(stack') = Len(stack) + 1
      /\ stack'[Len(stack) + 1] = g
      /\ \A i \in 1 .. Len(stack) : stack'[i].kind = stack[i].kind
      /\ Elems(stack') = Elems(Popped) \cup {Shrunk(c), g}
  BY <1>2, <1>3, <1>4, ElemsAppend
<1>6. Frames' = Elems(Popped) \cup {Shrunk(c), g}
  BY <1>5 DEF Frames, Elems
<1>7. Queued' = Queued
  BY <1>2 DEF Queued
<1>8. TypeOK'
  BY <1>1, <1>2, <1>5 DEF TypeOK, heapVars
<1>9. NothingLost
  BY <1>1, <1>2, <1>3, <1>4, <1>6, <1>7 DEF NothingLost
<1>10. ScanSound'
  <2>1. Live' = Live
    BY LiveSame
  <2>2. \A f \in Frames' : f.left \subseteq Live
    BY <1>1, <1>3, <1>4, <1>6, LiveFacts
  <2> QED BY <2>1, <2>2, <1>1, <1>2, <1>7, LiveFacts DEF ScanSound, Live
<1>11. StackShape'
  BY <1>1, <1>2, <1>3, <1>5, ShapeRecurse
<1>12. QueueShort'
  BY <1>2 DEF IInv, QueueBounded, QueueShort
<1>13. NothingAdded
  BY <1>1, <1>2, <1>3, <1>4, <1>6 DEF NothingAdded
<1> QED BY <1>2, <1>8, <1>9, <1>10, <1>11, <1>12, <1>13 DEF Kept

LEMMA DeferKept ==
  ASSUME IInv, Scanning, NEW c \in Top.left, Defer(c), UNCHANGED <<heapVars, promoted, phase, todo>>
  PROVE  Kept /\ NothingAdded
<1>1. /\ c \in Live /\ c \in Object /\ TypeOK /\ StackShape /\ stack # <<>>
      /\ Frames = Elems(Popped) \cup {Top}
  BY NextSlot
<1>2. marked' = marked \cup {c} /\ queue' = Append(queue, c) /\ depth' = depth
  BY DEF Defer
<1>3. /\ Advanced(c) \in Seq(Activation) /\ Len(Advanced(c)) = Len(stack)
      /\ \A i \in 1 .. Len(stack) : Advanced(c)[i].kind = stack[i].kind
      /\ Elems(Advanced(c)) = Elems(Popped) \cup {Shrunk(c)}
      /\ Shrunk(c).obj = Top.obj /\ Shrunk(c).left = Top.left \ {c}
  BY <1>1, AdvancedFacts
<1>4. /\ queue' \in Seq(Object) /\ Len(queue') = Len(queue) + 1 /\ Len(queue) \in Nat
      /\ Elems(queue') = Elems(queue) \cup {c}
  BY <1>1, <1>2, ElemsAppend DEF TypeOK
<1>5. Queued' = Queued \cup {c}
  BY <1>4 DEF Queued, Elems
<1>6. Flush \in Activation /\ Flush.kind = "flush" /\ Flush.left = {}
  BY DEF Flush, Scan, Activation
<1>7. /\ stack' \in Seq(Activation) /\ flushes' \in Nat
      /\ Frames' \subseteq Elems(Popped) \cup {Shrunk(c), Flush}
      /\ Elems(Popped) \cup {Shrunk(c)} \subseteq Frames'
      /\ StackShape' /\ QueueShort'
  <2>1. CASE Len(queue) + 1 >= Threshold /\ flushes = 0
    <3>1. flushes' = 1 /\ stack' = Append(Advanced(c), Flush)
      BY <2>1 DEF Defer
    <3>2. /\ stack' \in Seq(Activation) /\ Len(stack') = Len(stack) + 1
          /\ stack'[Len(stack) + 1] = Flush
          /\ \A i \in 1 .. Len(stack) : stack'[i].kind = stack[i].kind
          /\ Elems(stack') = Elems(Popped) \cup {Shrunk(c), Flush}
      BY <3>1, <1>3, <1>6, ElemsAppend
    <3>3. StackShape'
      BY <2>1, <3>1, <3>2, <1>1, <1>2, <1>6, ShapeFlush
    <3>4. Frames' = Elems(stack')
      BY DEF Frames, Elems
    <3> QED BY <3>1, <3>2, <3>3, <3>4 DEF QueueShort
  <2>2. CASE ~(Len(queue) + 1 >= Threshold /\ flushes = 0)
    <3>1. flushes' = flushes /\ stack' = Advanced(c)
      BY <2>2 DEF Defer
    <3>2. StackShape'
      BY <3>1, <1>1, <1>2, <1>3, ShapeSame
    <3>3. QueueShort'
      BY <2>2, <3>1, <1>4, LimitsAssumption DEF QueueShort
    <3> QED BY <3>1, <3>2, <3>3, <1>1, <1>3 DEF Frames, Elems, TypeOK
  <2> QED BY <2>1, <2>2
<1>8. TypeOK'
  BY <1>1, <1>2, <1>4, <1>7 DEF TypeOK, heapVars
<1>9. NothingLost
  BY <1>1, <1>2, <1>3, <1>5, <1>7 DEF NothingLost
<1>10. ScanSound'
  <2>1. Live' = Live
    BY LiveSame
  <2>2. \A f \in Frames' : f.left \subseteq Live
    BY <1>1, <1>3, <1>6, <1>7, LiveFacts
  <2> QED BY <2>1, <2>2, <1>1, <1>2, <1>5, LiveFacts DEF ScanSound, Live
<1>11. NothingAdded
  <2>1. Shrunk(c).left \subseteq Top.left
    BY <1>3
  <2> QED BY <2>1, <1>1, <1>2, <1>6, <1>7 DEF NothingAdded
<1> QED BY <1>2, <1>7, <1>8, <1>9, <1>10, <1>11 DEF Kept

LEMMA ScanEndsKept ==
  ASSUME IInv, ScanEnds
  PROVE  Kept /\ NothingAdded
<1>1. /\ TypeOK /\ StackShape /\ Scanning /\ stack # <<>> /\ Top.left = {}
      /\ stack' = Popped /\ UNCHANGED <<heapVars, promoted, phase, todo, marked, queue, flushes>>
      /\ depth' = IF Top.kind = "nested" THEN depth - 1 ELSE depth
  BY DEF IInv, ScanEnds, Scanning
<1>2. /\ stack' \in Seq(Activation) /\ Frames = Elems(stack') \cup {Top}
  BY <1>1, TopFacts
<1>3. Frames' = Elems(stack') /\ Queued' = Queued
  BY <1>1 DEF Frames, Elems, Queued
<1>4. StackShape' /\ depth' \in Nat
  BY <1>1, ShapeScanEnds
<1>5. TypeOK'
  BY <1>1, <1>2, <1>4 DEF TypeOK, heapVars
<1>6. NothingLost
  BY <1>1, <1>2, <1>3 DEF NothingLost
<1>7. ScanSound'
  <2>1. Live' = Live
    BY <1>1, LiveSame
  <2> QED BY <2>1, <1>1, <1>2, <1>3, LiveFacts DEF ScanSound, Live
<1>8. QueueShort'
  BY <1>1 DEF IInv, QueueBounded, QueueShort
<1>9. NothingAdded
  BY <1>1, <1>2, <1>3 DEF NothingAdded
<1> QED BY <1>1, <1>4, <1>5, <1>6, <1>7, <1>8, <1>9 DEF Kept

LEMMA FlushNextKept ==
  ASSUME IInv, FlushNext
  PROVE  Kept /\ NothingAdded
<1>1. /\ TypeOK /\ StackShape /\ Flushing /\ stack # <<>> /\ queue # <<>> /\ queue \in Seq(Object)
      /\ UNCHANGED <<heapVars, promoted, phase, todo, marked, flushes, depth>>
      /\ queue' = Front0(queue)
  BY DEF IInv, TypeOK, FlushNext, Flushing, Front0
<1>2. PICK o : o = queue[Len(queue)]
  OBVIOUS
<1>3. PICK g : g = Scan("deferred", o, slots[o])
  OBVIOUS
<1>4. /\ o \in Object /\ queue' \in Seq(Object) /\ Elems(queue) = Elems(queue') \cup {o}
  BY <1>1, <1>2, FrontOf
<1>5. Queued = Elems(queue) /\ Queued' = Elems(queue')
  BY DEF Queued, Elems
<1>6. o \in Live /\ slots[o] \subseteq Live /\ slots[o] \in SUBSET Object
  BY <1>4, <1>5, LiveFacts
<1>7. g \in Activation /\ g.kind = "deferred" /\ g.obj = o /\ g.left = slots[o]
  BY <1>3, <1>4, <1>6 DEF Scan, Activation
<1>8. stack' = Append(stack, g) /\ stack \in Seq(Activation)
  BY <1>1, <1>2, <1>3 DEF FlushNext, TypeOK
<1>9. /\ stack' \in Seq(Activation) /\ Len(stack') = Len(stack) + 1 /\ stack'[Len(stack) + 1] = g
      /\ \A i \in 1 .. Len(stack) : stack'[i] = stack[i]
      /\ Elems(stack') = Elems(stack) \cup {g}
  BY <1>7, <1>8, ElemsAppend
<1>10. Frames' = Frames \cup {g}
  <2>1. Frames' = Elems(stack') /\ Frames = Elems(stack)
    BY DEF Frames, Elems
  <2> QED BY <2>1, <1>9
<1>11. TypeOK'
  BY <1>1, <1>4, <1>9 DEF TypeOK, heapVars
<1>12. NothingLost
  <2>1. Queued = Queued' \cup {o}
    BY <1>4, <1>5
  <2> QED BY <2>1, <1>1, <1>7, <1>10 DEF NothingLost
<1>13. ScanSound'
  <2>1. Live' = Live
    BY <1>1, LiveSame
  <2> QED BY <2>1, <1>1, <1>4, <1>5, <1>6, <1>7, <1>10, LiveFacts DEF ScanSound, Live
<1>14. StackShape'
  BY <1>1, <1>7, <1>9, ShapeFlushNext
<1>15. QueueShort'
  <2>1. flushes' = 1
    BY <1>1, ShapeFlushing
  <2> QED BY <2>1 DEF QueueShort
<1>16. NothingAdded
  BY <1>1, <1>4, <1>5, <1>7, <1>10, LiveFacts DEF NothingAdded
<1> QED BY <1>1, <1>11, <1>12, <1>13, <1>14, <1>15, <1>16 DEF Kept

(* A flush returns, to a scan or to its caller outside. *)
LEMMA FlushReturnKept ==
  ASSUME IInv, Flushing, queue = <<>>, stack' = Popped, flushes' = flushes - 1,
         UNCHANGED <<heapVars, promoted, marked, queue, depth>>,
         phase' \in Phase, todo' \in SUBSET Object
  PROVE  Kept /\ NothingAdded
<1>1. /\ TypeOK /\ StackShape /\ stack # <<>> /\ flushes = 1
  BY ShapeFlushing DEF IInv, Flushing
<1>2. /\ stack' \in Seq(Activation) /\ Frames = Elems(stack') \cup {Top}
      /\ Len(stack') = Len(stack) - 1
      /\ \A i \in 1 .. Len(stack) - 1 : stack'[i] = stack[i]
  BY <1>1, TopFacts
<1>3. Frames' = Elems(stack') /\ Queued' = Queued
  BY DEF Frames, Elems, Queued
<1>4. StackShape'
  BY <1>1, <1>2, ShapeFlushEnds
<1>5. TypeOK'
  BY <1>1, <1>2 DEF TypeOK, heapVars
<1>6. Top.left = {}
  BY <1>1, TopFacts DEF Activation, Flushing
<1>7. NothingLost
  BY <1>2, <1>3, <1>6 DEF NothingLost
<1>8. ScanSound'
  <2>1. Live' = Live
    BY LiveSame
  <2> QED BY <2>1, <1>2, <1>3, LiveFacts DEF ScanSound, Live
<1>9. QueueShort'
  <2>1. Len(queue') = 0
    OBVIOUS
  <2> QED BY <2>1, LimitsAssumption DEF QueueShort
<1>10. NothingAdded
  BY <1>2, <1>3 DEF NothingAdded
<1> QED BY <1>4, <1>5, <1>7, <1>8, <1>9, <1>10 DEF Kept

--------------------------------------------------------------------------------
(* The passes. *)

LEMMA OnePushed ==
  ASSUME stack = <<>>, NEW g \in Activation, stack' = <<g>>
  PROVE  /\ stack' \in Seq(Activation) /\ Len(stack') = 1 /\ stack'[1] = g /\ Frames' = {g}
         /\ Frames = {}
<1>1. stack' \in Seq(Activation) /\ Len(stack') = 1 /\ stack'[1] = g
  OBVIOUS
<1>2. Frames' = {g}
  <2>1. Frames' = {stack'[i] : i \in 1 .. 1}
    BY <1>1 DEF Frames
  <2> QED BY <2>1, <1>1
<1>3. Frames = {}
  <2>1. Len(stack) = 0
    OBVIOUS
  <2> QED BY <2>1 DEF Frames
<1> QED BY <1>1, <1>2, <1>3

LEMMA RootPushed ==
  ASSUME TypeOK, StackShape, stack = <<>>, NEW g \in Activation, g.kind = "root",
         stack' = <<g>>, UNCHANGED <<flushes, depth>>
  PROVE  StackShape'
<1>1. flushes = 0 /\ depth = 0 /\ MaxDepth \in Nat
  BY ShapeEmpty, LimitsAssumption
<1>2. Len(stack') = 1 /\ stack'[1].kind = "root"
  BY OnePushed
<1>3. Recursion(2)'
  BY <1>1, <1>2 DEF Recursion
<1> QED BY <1>1, <1>2, <1>3 DEF StackShape

LEMMA VisitKept ==
  ASSUME IInv, stack = <<>>, NEW o \in Object, VisitObject(o),
         UNCHANGED heapVars, promoted' \in SUBSET Object, promoted \subseteq promoted',
         o \in Reach(roots \cup statics \cup promoted'),
         phase' \in Phase, todo' \in SUBSET Object
  PROVE  Kept /\ marked' = marked \cup {o}
<1>1. /\ TypeOK /\ StackShape /\ marked' = marked \cup {o}
      /\ UNCHANGED <<queue, flushes, depth>>
      /\ stack' = IF o \in marked \cup plain THEN stack
                  ELSE Append(stack, Scan("root", o, slots[o]))
  BY DEF IInv, VisitObject
<1>2. PICK L : L = Reach(roots \cup statics \cup promoted')
  OBVIOUS
<1>3. Live' = L
  BY <1>2 DEF Live, Sources, Reach, Closed, heapVars
<1>4. Live \subseteq L /\ \A x \in L : slots[x] \subseteq L
  <2>1. roots \cup statics \cup promoted' \in SUBSET Object /\ Sources \in SUBSET Object
        /\ Sources \subseteq roots \cup statics \cup promoted'
    BY <1>1 DEF TypeOK, Sources
  <2> QED BY <2>1, <1>1, <1>2, ReachMonotone, ReachClosed DEF Live, Closed
<1>5. o \in L /\ slots[o] \subseteq L /\ slots[o] \in SUBSET Object
  BY <1>1, <1>2, <1>4 DEF TypeOK
<1>6. Queued' = Queued /\ Queued \subseteq marked /\ marked \subseteq L
  BY <1>1, <1>4, LiveFacts DEF Queued
<1>7. QueueShort'
  BY <1>1 DEF IInv, QueueBounded, QueueShort
<1>8. CASE o \in marked \cup plain
  <2>1. stack' = stack /\ Frames' = Frames /\ Frames = {}
    <3>1. stack' = stack /\ Len(stack) = 0
      BY <1>1, <1>8
    <3> QED BY <3>1 DEF Frames
  <2>2. TypeOK'
    BY <2>1, <1>1 DEF TypeOK, heapVars
  <2>3. slots[o] = {} \/ o \in marked
    BY <1>8 DEF IInv, SlotsInv
  <2>4. NothingLost
    BY <2>1, <2>3, <1>1, <1>6 DEF NothingLost
  <2>5. ScanSound'
    BY <2>1, <1>1, <1>3, <1>5, <1>6 DEF ScanSound, Live
  <2>6. StackShape'
    BY <2>1, <1>1 DEF StackShape, Recursion, Top
  <2> QED BY <2>2, <2>4, <2>5, <2>6, <1>1, <1>7 DEF Kept
<1>9. CASE o \notin marked \cup plain
  <2>1. PICK g : g = Scan("root", o, slots[o])
    OBVIOUS
  <2>2. g \in Activation /\ g.kind = "root" /\ g.obj = o /\ g.left = slots[o]
    BY <2>1, <1>5 DEF Scan, Activation
  <2>3. stack' = <<g>>
    BY <2>1, <1>1, <1>9
  <2>4. stack' \in Seq(Activation) /\ Frames' = {g} /\ Frames = {}
    BY <2>2, <2>3, OnePushed
  <2>5. StackShape'
    BY <2>2, <2>3, <1>1, RootPushed
  <2>6. TypeOK'
    BY <2>4, <1>1 DEF TypeOK, heapVars
  <2>7. NothingLost
    BY <2>2, <2>4, <1>1, <1>6 DEF NothingLost
  <2>8. ScanSound'
    BY <2>2, <2>4, <1>1, <1>3, <1>5, <1>6 DEF ScanSound, Live
  <2> QED BY <2>5, <2>6, <2>7, <2>8, <1>1, <1>7 DEF Kept
<1> QED BY <1>1, <1>8, <1>9

LEMMA ReachSame ==
  ASSUME UNCHANGED heapVars
  PROVE  Reach(roots \cup statics)' = Reach(roots \cup statics) /\ Condemned' = Condemned
BY DEF Condemned, Reach, Closed, heapVars

LEMMA VisitRootInv ==
  ASSUME IInv, NEW o \in Object, VisitRoot(o)
  PROVE  IInv'
<1>1. /\ phase = "roots" /\ stack = <<>> /\ o \in todo /\ todo' = todo \ {o} /\ VisitObject(o)
      /\ UNCHANGED <<heapVars, promoted, phase>> /\ todo \subseteq roots /\ roots \ todo \subseteq marked
      /\ promoted = {} /\ TypeOK
  BY DEF VisitRoot, IInv, PhaseInv
<1>2. o \in Reach(roots \cup statics \cup promoted')
  <2>1. roots \cup statics \cup promoted \in SUBSET Object
    BY <1>1 DEF TypeOK
  <2> QED BY <2>1, <1>1, ReachContains
<1>3. Kept /\ marked' = marked \cup {o}
  BY <1>1, <1>2, VisitKept DEF TypeOK
<1>4. TypeOK' /\ SlotsInv' /\ MarkedCovered' /\ ScanSound' /\ StackShape' /\ QueueShort'
  BY <1>3, KeptCovered
<1>5. PhaseInv'
  BY <1>1, <1>3 DEF PhaseInv, heapVars
<1> QED BY <1>1, <1>4, <1>5 DEF IInv, QueueBounded, QueueShort

LEMMA PromoteInv ==
  ASSUME IInv, NEW o \in Object, Promote(o)
  PROVE  IInv'
<1>1. /\ phase = "promote" /\ stack = <<>> /\ o \in todo /\ todo' = todo \ {o}
      /\ UNCHANGED <<heapVars, phase>> /\ todo \subseteq registered /\ registered \ todo \subseteq marked
      /\ Reach(roots \cup statics) \subseteq marked /\ promoted \subseteq marked \cap Condemned /\ TypeOK
  BY DEF Promote, IInv, PhaseInv
<1>2. Reach(roots \cup statics)' = Reach(roots \cup statics) /\ Condemned' = Condemned
      /\ registered' = registered
  BY <1>1, ReachSame DEF heapVars
<1>3. CASE o \in marked
  <2>1. UNCHANGED <<promoted, scanVars>>
    BY <1>3 DEF Promote
  <2>2. IInv' <=> TypeOK' /\ PhaseInv' /\ QueueBounded'
    BY <2>1, <1>1 DEF IInv, SlotsInv, MarkedCovered, ScanSound, StackShape, Recursion, Reach, Closed,
                      Sources, Queued, Frames, Top, heapVars, scanVars
  <2>3. TypeOK' /\ QueueBounded'
    BY <2>1, <1>1 DEF TypeOK, heapVars, scanVars, IInv, QueueBounded
  <2>4. PhaseInv'
    BY <2>1, <1>1, <1>2, <1>3 DEF PhaseInv, scanVars
  <2> QED BY <2>2, <2>3, <2>4
<1>4. CASE o \notin marked
  <2>1. promoted' = promoted \cup {o} /\ VisitObject(o)
    BY <1>4 DEF Promote
  <2>2. o \in Condemned
    BY <1>1, <1>4 DEF Condemned
  <2>3. o \in Reach(roots \cup statics \cup promoted')
    <3>1. roots \cup statics \cup promoted' \in SUBSET Object
      BY <2>1, <1>1 DEF TypeOK
    <3> QED BY <3>1, <2>1, ReachContains
  <2>4. Kept /\ marked' = marked \cup {o}
    BY <2>1, <2>3, <1>1, VisitKept DEF TypeOK
  <2>5. TypeOK' /\ SlotsInv' /\ MarkedCovered' /\ ScanSound' /\ StackShape' /\ QueueShort'
    BY <2>4, KeptCovered
  <2>6. PhaseInv'
    BY <2>1, <2>2, <2>4, <1>1, <1>2 DEF PhaseInv
  <2> QED BY <2>5, <2>6, <1>1 DEF IInv, QueueBounded, QueueShort
<1> QED BY <1>3, <1>4

(* The walk of the static fields begins. *)
LEMMA StaticsKept ==
  ASSUME IInv, stack = <<>>, stack' = <<Scan("root", Null, statics)>>,
         UNCHANGED <<heapVars, promoted, marked, queue, flushes, depth>>,
         phase' \in Phase, todo' \in SUBSET Object
  PROVE  /\ Kept
         /\ Frames = {} /\ \E g \in Activation : g.obj = Null /\ g.left = statics /\ Frames' = {g}
<1>1. PICK g : g = Scan("root", Null, statics)
  OBVIOUS
<1>2. TypeOK /\ StackShape /\ stack' = <<g>>
  BY <1>1 DEF IInv
<1>3. g \in Activation /\ g.kind = "root" /\ g.obj = Null /\ g.left = statics
  BY <1>1, <1>2 DEF Scan, Activation, TypeOK
<1>4. stack' \in Seq(Activation) /\ Frames' = {g} /\ Frames = {} /\ Queued' = Queued
  BY <1>2, <1>3, OnePushed DEF Queued
<1>5. StackShape'
  BY <1>2, <1>3, RootPushed
<1>6. TypeOK'
  BY <1>2, <1>4 DEF TypeOK, heapVars
<1>7. NothingLost
  BY <1>4 DEF NothingLost
<1>8. ScanSound'
  <2>1. Live' = Live
    BY LiveSame
  <2>2. statics \subseteq Live
    BY LiveFacts DEF Sources
  <2> QED BY <2>1, <2>2, <1>3, <1>4, LiveFacts DEF ScanSound, Live
<1>9. QueueShort'
  BY DEF IInv, QueueBounded, QueueShort
<1> QED BY <1>3, <1>4, <1>5, <1>6, <1>7, <1>8, <1>9 DEF Kept

LEMMA VisitStaticsInv ==
  ASSUME IInv, VisitStatics
  PROVE  IInv'
<1>1. /\ phase = "roots" /\ stack = <<>> /\ todo = {} /\ phase' = "statics"
      /\ stack' = <<Scan("root", Null, statics)>>
      /\ UNCHANGED <<heapVars, promoted, marked, queue, flushes, depth, todo>>
      /\ roots \subseteq marked /\ promoted = {} /\ TypeOK
  BY DEF VisitStatics, IInv, PhaseInv
<1>2. /\ Kept
      /\ Frames = {} /\ \E g \in Activation : g.obj = Null /\ g.left = statics /\ Frames' = {g}
  BY <1>1, StaticsKept DEF TypeOK, Phase
<1>3. PhaseInv'
  BY <1>1, <1>2 DEF PhaseInv, heapVars
<1>4. QueueBounded'
  BY <1>1, <1>2 DEF Kept, QueueBounded, QueueShort
<1> QED BY <1>2, <1>3, <1>4, KeptCovered DEF IInv

(* finish_visit begins: the last flush. *)
LEMMA FlushKept ==
  ASSUME IInv, stack = <<>>, stack' = <<Flush>>, flushes' = flushes + 1,
         UNCHANGED <<heapVars, promoted, marked, queue, depth>>,
         phase' \in Phase, todo' \in SUBSET Object
  PROVE  Kept /\ NothingAdded /\ Frames = {} /\ stack' # <<>>
<1>1. TypeOK /\ StackShape
  BY DEF IInv
<1>2. Flush \in Activation /\ Flush.kind = "flush" /\ Flush.left = {}
  BY DEF Flush, Scan, Activation
<1>3. /\ stack' \in Seq(Activation) /\ Len(stack') = 1 /\ stack'[1] = Flush
      /\ Frames' = {Flush} /\ Frames = {} /\ Queued' = Queued
  BY <1>2, OnePushed DEF Queued
<1>4. flushes = 0 /\ flushes' = 1 /\ Len(stack) = 0
  BY <1>1, ShapeEmpty
<1>5. StackShape'
  BY <1>1, <1>2, <1>3, <1>4, ShapeFlush
<1>6. TypeOK'
  BY <1>1, <1>3, <1>4 DEF TypeOK, heapVars
<1>7. NothingLost
  BY <1>3 DEF NothingLost
<1>8. ScanSound'
  <2>1. Live' = Live
    BY LiveSame
  <2> QED BY <2>1, <1>2, <1>3, LiveFacts DEF ScanSound, Live
<1>9. QueueShort'
  BY <1>4 DEF QueueShort
<1>10. NothingAdded
  BY <1>2, <1>3 DEF NothingAdded
<1> QED BY <1>3, <1>5, <1>6, <1>7, <1>8, <1>9, <1>10 DEF Kept

LEMMA FinishInv ==
  ASSUME IInv, Finish
  PROVE  IInv'
<1>1. /\ phase \in {"statics", "promote"} /\ stack = <<>> /\ stack' = <<Flush>> /\ todo = {}
      /\ phase' = IF phase = "statics" THEN "endRoots" ELSE "endPromote"
      /\ flushes' = flushes + 1
      /\ UNCHANGED <<heapVars, promoted, marked, queue, depth, todo>>
      /\ TypeOK
  BY DEF Finish, IInv
<1>2. Kept /\ Frames = {}
  BY <1>1, FlushKept DEF TypeOK, Phase
<1>3. PhaseInv'
  <2>1. Reach(roots \cup statics)' = Reach(roots \cup statics) /\ Condemned' = Condemned
    BY <1>1, ReachSame
  <2>2. phase = "statics" => roots \cup statics \subseteq marked
    BY <1>1, <1>2 DEF IInv, PhaseInv
  <2> QED BY <2>1, <2>2, <1>1 DEF IInv, PhaseInv, heapVars
<1>4. QueueBounded'
  BY <1>1, <1>2 DEF Kept, QueueBounded, QueueShort
<1> QED BY <1>2, <1>3, <1>4, KeptCovered DEF IInv

(* When a pass ends, what is marked is closed. *)
LEMMA PassEndsInv ==
  ASSUME IInv, PassEnds
  PROVE  IInv'
<1>1. /\ Flushing /\ queue = <<>> /\ Len(stack) = 1 /\ stack' = <<>> /\ flushes' = flushes - 1
      /\ UNCHANGED <<heapVars, promoted, marked, queue, depth>> /\ stack # <<>>
      /\ TypeOK /\ PhaseInv /\ phase # "done"
  BY DEF PassEnds, Flushing, IInv, PhaseInv
<1>2. Popped = <<>>
  BY <1>1, TopFacts, EmptySeq
<1>3. phase' \in Phase /\ todo' \in SUBSET Object
  BY <1>1 DEF PassEnds, TypeOK, Phase
<1>4. Kept
  BY <1>1, <1>2, <1>3, FlushReturnKept
<1>5. TypeOK' /\ SlotsInv' /\ MarkedCovered' /\ ScanSound' /\ StackShape' /\ QueueShort'
  BY <1>4, KeptCovered
<1>6. Frames' = {} /\ Queued' = {}
  <2>1. Len(stack') = 0 /\ Len(queue') = 0
    BY <1>1
  <2> QED BY <2>1 DEF Frames, Queued
<1>7. Closed(marked) /\ marked \in SUBSET Object
  BY <1>1, <1>5, <1>6 DEF MarkedCovered, Closed, heapVars, TypeOK
<1>8. Reach(roots \cup statics)' = Reach(roots \cup statics) /\ Condemned' = Condemned
  BY <1>1, ReachSame
<1>9. CASE phase = "endRoots"
  <2>1. phase' = "promote" /\ todo' = registered /\ promoted = {} /\ todo = {}
    BY <1>1, <1>9 DEF PassEnds, PhaseInv
  <2>2. roots \cup statics \subseteq marked
    <3>1. \A c \in statics : c \in marked \/ \E g \in Frames' : c \in g.left
      <4>1. \A c \in statics : c \in marked \/ \E f \in Frames : f.obj = Null /\ c \in f.left
        BY <1>1, <1>9 DEF PhaseInv
      <4> QED BY <4>1, <1>1, <1>4 DEF Kept, NothingLost
    <3> QED BY <3>1, <1>1, <1>6, <1>9 DEF PhaseInv
  <2>3. Reach(roots \cup statics) \subseteq marked
    BY <2>2, <1>1, <1>7, ReachMinimal DEF TypeOK
  <2>4. PhaseInv'
    BY <2>1, <2>3, <1>1, <1>8 DEF PhaseInv, heapVars
  <2> QED BY <2>1, <2>4, <1>5 DEF IInv, QueueBounded, QueueShort
<1>10. CASE phase = "endPromote"
  <2>1. phase' = "done" /\ todo' = {} /\ todo = {}
    BY <1>1, <1>10 DEF PassEnds, PhaseInv
  <2>2. PhaseInv'
    BY <2>1, <1>1, <1>8, <1>10 DEF PhaseInv, heapVars
  <2> QED BY <2>1, <2>2, <1>1, <1>5 DEF IInv, QueueBounded, QueueShort
<1> QED BY <1>9, <1>10 DEF PassEnds

--------------------------------------------------------------------------------
LEMMA StartEstablishes ==
  ASSUME Start, \/ phase = "roots" /\ todo = roots
                \/ phase = "host" /\ todo = {}
  PROVE  IInv
<1>1. Len(stack) = 0 /\ Len(queue) = 0 /\ Threshold \in Nat /\ Threshold > 0 /\ MaxDepth \in Nat
  BY LimitsAssumption DEF Start
<1>2. Frames = {} /\ Queued = {}
  BY <1>1 DEF Frames, Queued
<1>3. TypeOK
  BY DEF Start, TypeOK, Phase
<1>4. StackShape /\ QueueBounded
  BY <1>1 DEF Start, StackShape, Recursion, QueueBounded
<1>5. SlotsInv /\ MarkedCovered /\ ScanSound /\ PhaseInv
  BY <1>2 DEF Start, SlotsInv, MarkedCovered, ScanSound, PhaseInv
<1> QED BY <1>3, <1>4, <1>5 DEF IInv

LEMMA InitEstablishes == Init => IInv
<1> SUFFICES ASSUME Init PROVE IInv
  OBVIOUS
<1>1. Start /\ phase = "roots" /\ todo = roots
  BY DEF Init
<1> QED BY <1>1, StartEstablishes

LEMMA StepPreserves == IInv /\ [Next]_vars => IInv'
<1> SUFFICES ASSUME IInv, [Next]_vars PROVE IInv'
  OBVIOUS
<1>1. ASSUME stack # <<>> PROVE phase # "done"
  BY <1>1 DEF IInv, PhaseInv
<1>2. CASE ScanSlot
  <2>1. PICK c \in Top.left : PassOver(c) \/ Recurse(c) \/ Defer(c)
    BY <1>2 DEF ScanSlot, VisitSlot
  <2>2. Scanning /\ stack # <<>> /\ UNCHANGED <<heapVars, promoted, phase, todo>>
    BY <1>2 DEF ScanSlot, VisitSlot, Scanning
  <2>3. Kept
    BY <2>1, <2>2, PassOverKept, RecurseKept, DeferKept
  <2> QED BY <2>2, <2>3, <1>1, KeptByScan
<1>3. CASE ScanEnds
  BY <1>1, <1>3, ScanEndsKept, KeptByScan DEF ScanEnds, Scanning
<1>4. CASE FlushNext
  BY <1>1, <1>4, FlushNextKept, KeptByScan DEF FlushNext, Flushing
<1>5. CASE FlushEnds
  <2>1. /\ Flushing /\ queue = <<>> /\ stack' = Popped /\ flushes' = flushes - 1 /\ stack # <<>>
        /\ UNCHANGED <<heapVars, promoted, phase, todo, marked, queue, depth>>
    BY <1>5 DEF FlushEnds, Flushing
  <2>2. phase' \in Phase /\ todo' \in SUBSET Object
    BY <2>1 DEF IInv, TypeOK
  <2>3. Kept
    BY <2>1, <2>2, FlushReturnKept
  <2> QED BY <2>1, <2>3, <1>1, KeptByScan
<1>6. CASE \E o \in Object : VisitRoot(o) \/ Promote(o)
  BY <1>6, VisitRootInv, PromoteInv
<1>7. CASE VisitStatics \/ Finish \/ PassEnds
  BY <1>7, VisitStaticsInv, FinishInv, PassEndsInv
<1>8. CASE UNCHANGED vars
  BY <1>8 DEF vars, IInv, TypeOK, SlotsInv, MarkedCovered, ScanSound, PhaseInv, StackShape,
              QueueBounded, Recursion, Condemned, Reach, Closed, Sources, Queued, Frames, Top
<1> QED BY <1>2, <1>3, <1>4, <1>5, <1>6, <1>7, <1>8 DEF Next

LEMMA Inductive == Spec => []IInv
BY InitEstablishes, StepPreserves, PTL DEF Spec

LEMMA InvMarksExactly == IInv => MarkingExact
<1> SUFFICES ASSUME IInv, phase = "done"
             PROVE  /\ marked = Reach(roots \cup statics \cup promoted)
                    /\ promoted \subseteq Condemned
                    /\ Condemned \subseteq Reach(promoted)
  BY DEF MarkingExact
<1>1. /\ Reach(roots \cup statics) \subseteq marked /\ promoted \subseteq marked \cap Condemned
      /\ registered \subseteq marked /\ stack = <<>> /\ queue = <<>> /\ TypeOK
      /\ marked \subseteq Reach(Sources)
  BY DEF IInv, PhaseInv, ScanSound
<1>2. Frames = {} /\ Queued = {}
  <2>1. Len(stack) = 0 /\ Len(queue) = 0
    BY <1>1
  <2> QED BY <2>1 DEF Frames, Queued
<1>3. Closed(marked) /\ marked \in SUBSET Object
  BY <1>1, <1>2 DEF IInv, MarkedCovered, Closed, TypeOK
<1>4. /\ roots \cup statics \in SUBSET Object /\ promoted \in SUBSET Object
      /\ Sources = roots \cup statics \cup promoted
  BY <1>1 DEF TypeOK, Sources
<1>5. Sources \subseteq marked
  BY <1>1, <1>4, ReachContains
<1>6. marked = Reach(Sources)
  BY <1>1, <1>3, <1>5, ReachMinimal
<1>7. Reach(Sources) = Reach(roots \cup statics) \cup Reach(promoted)
  BY <1>1, <1>4, ReachUnion
<1> QED BY <1>1, <1>4, <1>6, <1>7 DEF Condemned

(* What is left marked is what the roots, the static fields and the        *)
(* promoted objects reach, for any graph, any recursion limit and any      *)
(* batch size.                                                             *)
THEOREM MarkingIsExact == Spec => []MarkingExact
BY InvMarksExactly, Inductive, PTL

(* However deep the graph, the scanner's stack is bounded by the recursion *)
(* limit, and outside a flush fewer objects are put off than make a batch. *)
THEOREM ScanIsBounded == Spec => [](StackBounded /\ QueueBounded)
<1>1. IInv => StackBounded /\ QueueBounded
  <2> SUFFICES ASSUME IInv PROVE StackBounded
    BY DEF IInv
  <2>1. PICK n \in Nat : n = Len(stack)
    BY DEF IInv, TypeOK
  <2>2. depth \in Nat /\ MaxDepth \in Nat /\ depth <= MaxDepth
    BY LimitsAssumption DEF IInv, TypeOK, StackShape
  <2>3. \A p \in {n - 1, n, n + 1} : Recursion(p) => p <= MaxDepth + 2
    BY <2>1, <2>2 DEF Recursion
  <2> QED BY <2>1, <2>2, <2>3 DEF IInv, StackShape, StackBounded
<1> QED BY <1>1, Inductive, PTL

--------------------------------------------------------------------------------
(* No object is scanned twice.  The objects of the stack, like those of    *)
(* the queue, are marked: what is not marked yet is in neither.            *)
OnceInv ==
  /\ ScannedOnce
  /\ \A i \in 1 .. Len(stack) : stack[i].obj \in marked \cup {Null}

(* The stack keeps the objects it scans, except for those it drops from    *)
(* the top, and gains at most one, which it did not have.                  *)
OneMore ==
  \A i \in 1 .. Len(stack') :
    \/ i \in 1 .. Len(stack) /\ stack'[i].obj = stack[i].obj
    \/ /\ i = Len(stack) + 1
       /\ \/ stack'[i].obj = Null
          \/ /\ stack'[i].obj \in marked'
             /\ \A j \in 1 .. Len(stack) : stack[j].obj # stack'[i].obj

NoneTwice(q) == \A i, j \in 1 .. Len(q) : q[i] = q[j] => i = j

LEMMA OnceStep ==
  ASSUME OnceInv, marked \subseteq marked', Len(stack) \in Nat, OneMore, NoneTwice(queue'),
         \A i \in 1 .. Len(stack') : stack'[i].obj \notin Queued'
  PROVE  OnceInv'
<1>1. \A i, j \in 1 .. Len(stack) : stack[i].obj = stack[j].obj /\ i # j => stack[i].obj = Null
  BY DEF OnceInv, ScannedOnce
<1>2. \A i, j \in 1 .. Len(stack') :
        stack'[i].obj = stack'[j].obj /\ i # j => stack'[i].obj = Null
  BY <1>1 DEF OneMore
<1>3. \A f \in Frames' : f.obj \notin Queued'
  BY DEF Frames
<1>4. \A i \in 1 .. Len(stack') : stack'[i].obj \in marked' \cup {Null}
  BY DEF OneMore, OnceInv
<1> QED BY <1>2, <1>3, <1>4 DEF OnceInv, ScannedOnce, NoneTwice

(* What the invariants say of the stack and the queue, index by index.     *)
LEMMA OnceFacts ==
  ASSUME IInv, OnceInv
  PROVE  /\ Len(stack) \in Nat /\ NoneTwice(queue) /\ queue \in Seq(Object)
         /\ Null \notin Queued /\ Queued \subseteq marked /\ marked \subseteq Object
         /\ \A i \in 1 .. Len(stack) : stack[i].obj \notin Queued /\ stack[i].obj \in marked \cup {Null}
<1>1. TypeOK /\ Queued \subseteq marked
  BY DEF IInv, ScanSound
<1>2. Len(stack) \in Nat /\ queue \in Seq(Object) /\ marked \subseteq Object
  BY <1>1 DEF TypeOK
<1>3. \A i \in 1 .. Len(stack) : stack[i].obj \notin Queued
  BY DEF OnceInv, ScannedOnce, Frames
<1> QED BY <1>1, <1>2, <1>3, NullAssumption DEF OnceInv, ScannedOnce, NoneTwice

LEMMA OnceSlot ==
  ASSUME IInv, OnceInv, Scanning, NEW c \in Top.left, PassOver(c) \/ Recurse(c) \/ Defer(c)
  PROVE  OnceInv'
<1>1. /\ Len(stack) \in Nat /\ NoneTwice(queue) /\ queue \in Seq(Object)
      /\ Null \notin Queued /\ Queued \subseteq marked
      /\ \A i \in 1 .. Len(stack) : stack[i].obj \notin Queued /\ stack[i].obj \in marked \cup {Null}
  BY OnceFacts
<1>2. TypeOK /\ stack # <<>> /\ c \in Object /\ c # Null /\ marked' = marked \cup {c}
      /\ slots[c] \in SUBSET Object
  BY NextSlot, NullAssumption DEF PassOver, Recurse, Defer
<1>3. /\ Advanced(c) \in Seq(Activation) /\ Len(Advanced(c)) = Len(stack)
      /\ Advanced(c)[Len(stack)].obj = Top.obj
      /\ \A i \in 1 .. Len(stack) - 1 : Advanced(c)[i] = stack[i]
  BY <1>2, AdvancedFacts
<1>4. \A i \in 1 .. Len(stack) : Advanced(c)[i].obj = stack[i].obj
  BY <1>1, <1>3 DEF Top
<1>5. CASE PassOver(c)
  <2>1. stack' = Advanced(c) /\ queue' = queue /\ Queued' = Queued
    BY <1>5 DEF PassOver, Queued
  <2>2. OneMore /\ \A i \in 1 .. Len(stack') : stack'[i].obj \notin Queued'
    BY <2>1, <1>1, <1>3, <1>4 DEF OneMore
  <2> QED BY <2>1, <2>2, <1>1, <1>2, OnceStep
<1>6. CASE Recurse(c)
  <2>1. PICK g : g = Scan("nested", c, slots[c])
    OBVIOUS
  <2>2. g \in Activation /\ g.obj = c
    BY <2>1, <1>2 DEF Scan, Activation
  <2>3. stack' = Append(Advanced(c), g) /\ queue' = queue /\ Queued' = Queued /\ c \notin marked
    BY <1>6, <2>1 DEF Recurse, Queued
  <2>4. /\ Len(stack') = Len(stack) + 1 /\ stack'[Len(stack) + 1] = g
        /\ \A i \in 1 .. Len(stack) : stack'[i] = Advanced(c)[i]
    BY <2>2, <2>3, <1>3, ElemsAppend
  <2>5. \A i \in 1 .. Len(stack') :
          \/ i \in 1 .. Len(stack) /\ stack'[i].obj = stack[i].obj
          \/ i = Len(stack) + 1 /\ stack'[i].obj = c
    BY <2>2, <2>4, <1>1, <1>4
  <2>6. OneMore
    BY <2>3, <2>5, <1>1, <1>2 DEF OneMore
  <2>7. \A i \in 1 .. Len(stack') : stack'[i].obj \notin Queued'
    BY <2>3, <2>5, <1>1
  <2> QED BY <2>3, <2>6, <2>7, <1>1, <1>2, OnceStep
<1>7. CASE Defer(c)
  <2>1. queue' = Append(queue, c) /\ c \notin marked
    BY <1>7 DEF Defer
  <2>2. /\ Len(queue) \in Nat /\ Len(queue') = Len(queue) + 1 /\ queue'[Len(queue) + 1] = c
        /\ \A i \in 1 .. Len(queue) : queue'[i] = queue[i]
        /\ Elems(queue') = Elems(queue) \cup {c}
    BY <2>1, <1>1, <1>2, ElemsAppend
  <2>3. Queued' = Queued \cup {c} /\ \A i \in 1 .. Len(queue) : queue[i] # c
    BY <2>1, <2>2, <1>1 DEF Queued, Elems
  <2>4. NoneTwice(queue')
    BY <2>2, <2>3, <1>1 DEF NoneTwice
  <2>5. Flush \in Activation /\ Flush.obj = Null
    BY DEF Flush, Scan, Activation
  <2>6. stack' = Advanced(c) \/ stack' = Append(Advanced(c), Flush)
    BY <1>7 DEF Defer
  <2>7. /\ Len(Append(Advanced(c), Flush)) = Len(stack) + 1
        /\ Append(Advanced(c), Flush)[Len(stack) + 1] = Flush
        /\ \A i \in 1 .. Len(stack) : Append(Advanced(c), Flush)[i] = Advanced(c)[i]
    BY <2>5, <1>3, ElemsAppend
  <2>8. \A i \in 1 .. Len(stack') :
          \/ i \in 1 .. Len(stack) /\ stack'[i].obj = stack[i].obj
          \/ i = Len(stack) + 1 /\ stack'[i].obj = Null
    <3>1. CASE stack' = Advanced(c)
      BY <3>1, <1>1, <1>3, <1>4
    <3>2. CASE stack' = Append(Advanced(c), Flush)
      <4>1. Len(stack') = Len(stack) + 1 /\ stack'[Len(stack) + 1].obj = Null
        BY <3>2, <2>5, <2>7
      <4>2. \A i \in 1 .. Len(stack) : stack'[i].obj = stack[i].obj
        BY <3>2, <2>7, <1>4
      <4> QED BY <4>1, <4>2, <1>1
    <3> QED BY <2>6, <3>1, <3>2
  <2>9. OneMore
    BY <2>8 DEF OneMore
  <2>10. \A i \in 1 .. Len(stack') : stack'[i].obj \notin Queued'
    BY <2>1, <2>3, <2>8, <1>1, <1>2
  <2> QED BY <2>4, <2>9, <2>10, <1>1, <1>2, OnceStep
<1> QED BY <1>5, <1>6, <1>7

(* A call from outside: of an object, or of one that has none to record.   *)
LEMMA OnceFirst ==
  ASSUME IInv, OnceInv, stack = <<>>, NEW g \in Activation, stack' = <<g>>, queue' = queue,
         marked \subseteq marked', g.obj = Null \/ g.obj \in marked' \ marked
  PROVE  OnceInv'
<1>1. Len(stack) = 0 /\ Len(stack') = 1 /\ stack'[1] = g
  BY OnePushed
<1>2. NoneTwice(queue) /\ Null \notin Queued /\ Queued \subseteq marked /\ Queued' = Queued
  BY OnceFacts DEF Queued
<1>3. OneMore /\ \A i \in 1 .. Len(stack') : stack'[i].obj \notin Queued'
  BY <1>1, <1>2 DEF OneMore
<1> QED BY <1>1, <1>2, <1>3, OnceStep

LEMMA OnceVisit ==
  ASSUME IInv, OnceInv, stack = <<>>, NEW o \in Object, VisitObject(o)
  PROVE  OnceInv'
<1>1. /\ marked' = marked \cup {o} /\ queue' = queue
      /\ stack' = IF o \in marked \cup plain THEN stack
                  ELSE Append(stack, Scan("root", o, slots[o]))
  BY DEF VisitObject
<1>2. CASE o \in marked \cup plain
  <2>1. stack' = <<>> /\ Len(stack) = 0 /\ Len(stack') = 0 /\ NoneTwice(queue)
    BY <1>1, <1>2, OnceFacts
  <2> QED BY <2>1, <1>1, OnceStep DEF OneMore
<1>3. CASE o \notin marked \cup plain
  <2>1. PICK g : g = Scan("root", o, slots[o])
    OBVIOUS
  <2>2. g \in Activation /\ g.obj = o /\ stack' = <<g>>
    BY <2>1, <1>1, <1>3 DEF IInv, TypeOK, Scan, Activation
  <2> QED BY <2>2, <1>1, <1>3, OnceFirst
<1> QED BY <1>2, <1>3

LEMMA OncePop ==
  ASSUME IInv, OnceInv, stack # <<>>, stack' = Popped, UNCHANGED <<queue, marked>>
  PROVE  OnceInv'
<1>1. /\ Len(stack) \in Nat /\ Len(stack') = Len(stack) - 1
      /\ \A i \in 1 .. Len(stack) - 1 : stack'[i] = stack[i]
  BY TopFacts DEF IInv
<1>2. NoneTwice(queue') /\ Queued' = Queued
      /\ \A i \in 1 .. Len(stack) : stack[i].obj \notin Queued
  BY OnceFacts DEF Queued
<1>3. OneMore /\ \A i \in 1 .. Len(stack') : stack'[i].obj \notin Queued'
  BY <1>1, <1>2 DEF OneMore
<1> QED BY <1>1, <1>2, <1>3, OnceStep

LEMMA OnceCleared ==
  ASSUME IInv, OnceInv, stack' = <<>> \/ stack' = stack, UNCHANGED <<queue, marked>>
  PROVE  OnceInv'
<1>1. Len(stack) \in Nat /\ NoneTwice(queue') /\ Queued' = Queued
      /\ \A i \in 1 .. Len(stack) : stack[i].obj \notin Queued
  BY OnceFacts DEF Queued
<1>2. \A i \in 1 .. Len(stack') : i \in 1 .. Len(stack) /\ stack'[i].obj = stack[i].obj
  <2>1. CASE stack' = <<>>
    <3>1. Len(stack') = 0
      BY <2>1
    <3> QED BY <3>1
  <2> QED BY <2>1
<1> QED BY <1>1, <1>2, OnceStep DEF OneMore

(* The object taken from the queue was in it once.                         *)
LEMMA OnceFlushNext ==
  ASSUME IInv, OnceInv, FlushNext
  PROVE  OnceInv'
<1>1. /\ Len(stack) \in Nat /\ NoneTwice(queue) /\ queue \in Seq(Object)
      /\ Queued \subseteq marked /\ marked \subseteq Object
      /\ \A i \in 1 .. Len(stack) : stack[i].obj \notin Queued
  BY OnceFacts
<1>2. PICK o : o = queue[Len(queue)]
  OBVIOUS
<1>3. PICK g : g = Scan("deferred", o, slots[o])
  OBVIOUS
<1>4. queue # <<>> /\ queue' = Front0(queue) /\ stack' = Append(stack, g) /\ marked' = marked
  BY <1>2, <1>3 DEF FlushNext, Front0
<1>5. /\ Len(queue) \in Nat /\ Len(queue) >= 1 /\ o \in Object
      /\ Len(queue') = Len(queue) - 1
      /\ \A i \in 1 .. Len(queue) - 1 : queue'[i] = queue[i]
      /\ Elems(queue) = Elems(queue') \cup {o}
  BY <1>1, <1>2, <1>4, FrontOf
<1>6. Queued = Queued' \cup {o}
  BY <1>5 DEF Queued, Elems
<1>7. o \notin Queued' /\ NoneTwice(queue')
  BY <1>1, <1>2, <1>5 DEF NoneTwice, Queued
<1>8. g \in Activation /\ g.obj = o /\ stack \in Seq(Activation)
  BY <1>3, <1>5 DEF IInv, TypeOK, Scan, Activation
<1>9. /\ Len(stack') = Len(stack) + 1 /\ stack'[Len(stack) + 1] = g
      /\ \A i \in 1 .. Len(stack) : stack'[i] = stack[i]
  BY <1>4, <1>8, ElemsAppend
<1>10. \A i \in 1 .. Len(stack') :
         \/ i \in 1 .. Len(stack) /\ stack'[i].obj = stack[i].obj
         \/ i = Len(stack) + 1 /\ stack'[i].obj = o
  BY <1>1, <1>8, <1>9
<1>11. OneMore
  BY <1>1, <1>4, <1>6, <1>10 DEF OneMore
<1>12. \A i \in 1 .. Len(stack') : stack'[i].obj \notin Queued'
  BY <1>1, <1>6, <1>7, <1>10
<1> QED BY <1>1, <1>4, <1>7, <1>11, <1>12, OnceStep

(* A frame that stands for no object. *)
LEMMA NullFrames ==
  ASSUME IInv
  PROVE  /\ Flush \in Activation /\ Flush.obj = Null
         /\ Scan("root", Null, statics) \in Activation /\ Scan("root", Null, statics).obj = Null
BY DEF IInv, TypeOK, Flush, Scan, Activation

LEMMA OnceStart == ASSUME Start PROVE OnceInv
<1>1. Len(stack) = 0 /\ Len(queue) = 0
  BY DEF Start
<1> QED BY <1>1 DEF OnceInv, ScannedOnce, Frames, Queued

(* The steps of either scanner that HeapWalks takes as they are.           *)
LEMMA OnceSteps ==
  ASSUME IInv, OnceInv,
         \/ ScanEnds \/ FlushNext \/ FlushEnds \/ VisitStatics \/ Finish \/ PassEnds
         \/ ScanSlot \/ \E o \in Object : VisitRoot(o) \/ Promote(o)
  PROVE  OnceInv'
<1>1. CASE ScanEnds \/ FlushEnds
  BY <1>1, OncePop DEF ScanEnds, FlushEnds, Scanning, Flushing
<1>2. CASE FlushNext
  BY <1>2, OnceFlushNext
<1>3. CASE VisitStatics \/ Finish
  BY <1>3, NullFrames, OnceFirst DEF VisitStatics, Finish
<1>4. CASE PassEnds
  BY <1>4, OnceCleared DEF PassEnds
<1>5. CASE ScanSlot
  BY <1>5, OnceSlot DEF ScanSlot, VisitSlot
<1>6. ASSUME NEW o \in Object, VisitRoot(o) \/ Promote(o) PROVE OnceInv'
  <2>1. CASE VisitObject(o)
    BY <1>6, <2>1, OnceVisit DEF VisitRoot, Promote
  <2>2. CASE UNCHANGED scanVars
    BY <2>2, OnceCleared DEF scanVars
  <2> QED BY <1>6, <2>1, <2>2 DEF VisitRoot, Promote
<1> QED BY <1>1, <1>2, <1>3, <1>4, <1>5, <1>6

(* However an object is reached and however the scan is cut up, its slots  *)
(* are scanned once: it is never in the queue twice, nor put off while a   *)
(* scan of it is on the stack.                                             *)
THEOREM EachScannedOnce == Spec => []ScannedOnce
<1>1. Init => OnceInv
  BY OnceStart DEF Init
<1>2. IInv /\ OnceInv /\ [Next]_vars => OnceInv'
  <2> SUFFICES ASSUME IInv, OnceInv, [Next]_vars PROVE OnceInv'
    OBVIOUS
  <2>1. CASE UNCHANGED vars
    BY <2>1, OnceCleared DEF vars
  <2> QED BY <2>1, OnceSteps DEF Next
<1>3. OnceInv => ScannedOnce
  BY DEF OnceInv
<1> QED BY <1>1, <1>2, <1>3, Inductive, PTL DEF Spec

--------------------------------------------------------------------------------
(* The bitmap. *)

(* A cache entry that is in use tells the truth about the map.             *)
BitmapInv ==
  /\ cache \in [0 .. CacheSize - 1 -> [index : Int, segment : Int]]
  /\ \A k \in 0 .. CacheSize - 1 : cache[k].index # Invalid =>
       /\ CacheSlot(cache[k].index) = k
       /\ cache[k].segment = IF cache[k].index \in DOMAIN segments THEN cache[k].index ELSE NullSegment

LEMMA SlotIdentity ==
  ASSUME NEW a \in Nat, NEW b \in Nat, SegmentOf(a) = SegmentOf(b), BitOf(a) = BitOf(b)
  PROVE  a = b
<1>1. PICK n \in Nat \ {0} : n = SegmentBits
  BY BitmapAssumption
<1>2. a \div n = b \div n /\ a % n = b % n
  BY <1>1 DEF SegmentOf, BitOf
<1> QED BY <1>2, SMT

LEMMA SegmentNat == ASSUME NEW a \in Nat PROVE SegmentOf(a) \in Nat
<1>1. PICK n \in Nat \ {0} : n = SegmentBits
  BY BitmapAssumption
<1> QED BY <1>1 DEF SegmentOf

LEMMA CacheSlotIn == ASSUME NEW s \in Nat PROVE CacheSlot(s) \in 0 .. CacheSize - 1
<1>1. PICK n \in Nat \ {0} : n = CacheSize
  BY BitmapAssumption
<1> QED BY <1>1 DEF CacheSlot

LEMMA SegmentTrue ==
  ASSUME BitmapInv, NEW s \in Nat
  PROVE  Segment(s) = IF s \in DOMAIN segments THEN s ELSE NullSegment
<1>1. CacheSlot(s) \in 0 .. CacheSize - 1 /\ s # Invalid
  BY CacheSlotIn DEF Invalid
<1> QED BY <1>1 DEF BitmapInv, Segment

(* The bits, without the cache. *)
Has(a) == SegmentOf(a) \in DOMAIN segments /\ BitOf(a) \in segments[SegmentOf(a)]

LEMMA HasBitTrue ==
  ASSUME BitmapInv, NEW a \in Nat
  PROVE  HasBit(a) <=> Has(a)
<1>1. SegmentOf(a) \in Nat /\ SegmentOf(a) # NullSegment
  BY SegmentNat DEF NullSegment
<1> QED BY <1>1, SegmentTrue DEF HasBit, Has

LEMMA CachedKeeps ==
  ASSUME BitmapInv, NEW s \in Nat, NEW p,
         DOMAIN segments' \subseteq DOMAIN segments \cup {s}, DOMAIN segments \subseteq DOMAIN segments',
         p = IF s \in DOMAIN segments' THEN s ELSE NullSegment,
         cache' = Cached(s, p)
  PROVE  BitmapInv'
<1>1. CacheSlot(s) \in 0 .. CacheSize - 1 /\ p \in Int
  BY CacheSlotIn DEF NullSegment
<1>2. cache' \in [0 .. CacheSize - 1 -> [index : Int, segment : Int]]
  BY <1>1 DEF BitmapInv, Cached
<1>3. ASSUME NEW k \in 0 .. CacheSize - 1, cache'[k].index # Invalid
      PROVE  /\ CacheSlot(cache'[k].index) = k
             /\ cache'[k].segment =
                  IF cache'[k].index \in DOMAIN segments' THEN cache'[k].index ELSE NullSegment
  <2>1. CASE k = CacheSlot(s)
    <3>1. cache'[k].index = s /\ cache'[k].segment = p
      BY <2>1, <1>1 DEF BitmapInv, Cached
    <3> QED BY <3>1, <2>1
  <2>2. CASE k # CacheSlot(s)
    <3>1. cache'[k] = cache[k]
      BY <2>2, <1>1 DEF BitmapInv, Cached
    <3>2. /\ CacheSlot(cache[k].index) = k
          /\ cache[k].segment = IF cache[k].index \in DOMAIN segments THEN cache[k].index ELSE NullSegment
      BY <3>1, <1>3 DEF BitmapInv
    <3> QED BY <3>1, <3>2, <2>2
  <2> QED BY <2>1, <2>2
<1> QED BY <1>2, <1>3 DEF BitmapInv

LEMMA MarkHas ==
  ASSUME BitmapInv, NEW a \in Nat, Mark(a)
  PROVE  BitmapInv' /\ \A b \in Nat : Has(b)' <=> Has(b) \/ b = a
<1>1. PICK s \in Nat : s = SegmentOf(a)
  BY SegmentNat
<1>2. Segment(s) = IF s \in DOMAIN segments THEN s ELSE NullSegment
  BY SegmentTrue
<1>3. s # NullSegment
  BY DEF NullSegment
<1>4. /\ DOMAIN segments' = DOMAIN segments \cup {s}
      /\ cache' = Cached(s, s)
      /\ segments'[s] = (IF s \in DOMAIN segments THEN segments[s] ELSE {}) \cup {BitOf(a)}
      /\ \A r \in DOMAIN segments : r # s => segments'[r] = segments[r]
  <2>1. CASE MarkExisting(a)
    <3>1. s \in DOMAIN segments /\ Segment(s) = s
      BY <2>1, <1>1, <1>2 DEF MarkExisting
    <3>2. segments' = [segments EXCEPT ![s] = @ \cup {BitOf(a)}] /\ cache' = Cached(s, s)
      BY <2>1, <3>1, <1>1 DEF MarkExisting
    <3> QED BY <3>1, <3>2
  <2>2. CASE MarkNew(a)
    <3>1. s \notin DOMAIN segments
      BY <2>2, <1>1, <1>2, <1>3 DEF MarkNew
    <3>2. /\ segments' = [r \in DOMAIN segments \cup {s} |->
                             IF r = s THEN {BitOf(a)} ELSE segments[r]]
          /\ cache' = Cached(s, s)
      BY <2>2, <1>1 DEF MarkNew
    <3> QED BY <3>1, <3>2
  <2> QED BY <2>1, <2>2 DEF Mark
<1>5. BitmapInv'
  BY <1>4, CachedKeeps
<1>6. ASSUME NEW b \in Nat PROVE Has(b)' <=> Has(b) \/ b = a
  <2>1. CASE SegmentOf(b) = s
    <3>1. BitOf(b) = BitOf(a) <=> b = a
      BY <2>1, <1>1, SlotIdentity
    <3> QED BY <3>1, <2>1, <1>4 DEF Has
  <2>2. CASE SegmentOf(b) # s
    BY <2>2, <1>1, <1>4 DEF Has
  <2> QED BY <2>1, <2>2
<1> QED BY <1>5, <1>6

LEMMA AskKeeps ==
  ASSUME BitmapInv, NEW a \in Nat, IsMarked(a)
  PROVE  BitmapInv' /\ \A b \in Nat : Has(b)' <=> Has(b)
<1>1. PICK s \in Nat : s = SegmentOf(a)
  BY SegmentNat
<1>2. segments' = segments /\ cache' = Cached(s, Segment(s))
  BY <1>1 DEF IsMarked
<1>3. BitmapInv'
  BY <1>2, SegmentTrue, CachedKeeps
<1> QED BY <1>2, <1>3 DEF Has

--------------------------------------------------------------------------------
(* The walks. *)

BitSet == \A o \in Object : Has(Slot[o]) <=> o \in marked

Told == reported \o batch

(* What the host was told and what waits in the batch. *)
ToldInv ==
  /\ batch \in Seq(Object) /\ reported \in Seq(Object)
  /\ \A i, j \in 1 .. Len(Told) : Told[i] = Told[j] => i = j
  /\ Elems(Told) = wanted \cap marked

WalkPhase == {"host", "walk", "endWalk"}

(* A liveness walk stays inside what it was asked for and has what it was  *)
(* asked for marked or still to be scanned.                                *)
LivenessInv ==
  /\ phase \in WalkPhase \cup {"done"}
  /\ registered = {} /\ promoted = {} /\ todo = {}
  /\ marked \subseteq Reach(Asked)
  /\ \A f \in Frames : f.left \subseteq Reach(Asked)
  /\ roots \ plan \subseteq marked
  /\ Null \notin plan =>
       \A c \in statics : c \in marked \/ \E f \in Frames : f.obj = Null /\ c \in f.left
  /\ phase \in {"host", "done"} => stack = <<>> /\ queue = <<>> /\ batch = <<>>
  /\ phase = "done" => plan = {}

WalkInv ==
  /\ IInv /\ BitmapInv /\ BitSet
  /\ user \in {"collection", "liveness"}
  /\ plan \subseteq roots \cup {Null}
  /\ user = "collection" => phase \notin WalkPhase
  /\ user = "liveness" => LivenessInv /\ ToldInv

LEMMA BitOfObject ==
  ASSUME BitmapInv, BitSet, NEW o \in Object
  PROVE  Slot[o] \in Nat /\ (HasBit(Slot[o]) <=> o \in marked)
<1>1. Slot[o] \in Nat
  BY SlotAssumption
<1> QED BY <1>1, HasBitTrue DEF BitSet

LEMMA MarkKeeps ==
  ASSUME BitmapInv, BitSet, NEW o \in Object, Mark(Slot[o]), marked' = marked \cup {o}
  PROVE  BitmapInv' /\ BitSet'
<1>1. Slot[o] \in Nat
  BY SlotAssumption
<1>2. BitmapInv' /\ \A b \in Nat : Has(b)' <=> Has(b) \/ b = Slot[o]
  BY <1>1, MarkHas
<1>3. ASSUME NEW p \in Object PROVE Has(Slot[p])' <=> p \in marked'
  <2>1. Slot[p] \in Nat /\ (Slot[p] = Slot[o] <=> p = o)
    BY SlotAssumption
  <2>2. PICK b \in Nat : b = Slot[p]
    BY <2>1
  <2>3. Has(b)' <=> Has(b) \/ b = Slot[o]
    BY <1>2
  <2>4. Has(Slot[p])' <=> Has(b)'
    BY <2>2 DEF Has
  <2> QED BY <2>1, <2>2, <2>3, <2>4 DEF BitSet
<1> QED BY <1>2, <1>3 DEF BitSet

LEMMA DistinctAppend ==
  ASSUME NEW S, NEW s \in Seq(S), NEW x \in S, x \notin Elems(s),
         \A i, j \in 1 .. Len(s) : s[i] = s[j] => i = j
  PROVE  \A i, j \in 1 .. Len(Append(s, x)) : Append(s, x)[i] = Append(s, x)[j] => i = j
<1>1. PICK n \in Nat : n = Len(s)
  OBVIOUS
<1>2. PICK t : t = Append(s, x)
  OBVIOUS
<1>3. Len(t) = n + 1 /\ t[n + 1] = x /\ \A i \in 1 .. n : t[i] = s[i] /\ s[i] # x
  BY <1>1, <1>2, ElemsAppend DEF Elems
<1>4. \A i \in 1 .. n + 1 : i \in 1 .. n \/ i = n + 1
  BY <1>1
<1>5. \A i, j \in 1 .. n + 1 : t[i] = t[j] => i = j
  BY <1>1, <1>3, <1>4
<1> QED BY <1>2, <1>3, <1>5

(* Whether the batch is full or not, o comes after all that was told.      *)
LEMMA AddPendingTold ==
  ASSUME batch \in Seq(Object), reported \in Seq(Object), NEW o \in Object, o \in wanted, AddPending(o)
  PROVE  /\ Told' = Append(Told, o) /\ Told \in Seq(Object)
         /\ batch' \in Seq(Object) /\ reported' \in Seq(Object)
<1>1. PICK r \in Seq(Object), b \in Seq(Object) : r = reported /\ b = batch
  OBVIOUS
<1>2. r \o Append(b, o) = Append(r \o b, o) /\ Append(b, o) \in Seq(Object)
      /\ r \o Append(b, o) \in Seq(Object) /\ r \o b \in Seq(Object)
  BY <1>1
<1>3. CASE batch' = <<>> /\ reported' = reported \o Append(batch, o)
  BY <1>1, <1>2, <1>3 DEF Told
<1>4. CASE batch' = Append(batch, o) /\ reported' = reported
  BY <1>1, <1>2, <1>4 DEF Told
<1> QED BY <1>1, <1>2, <1>3, <1>4 DEF AddPending, reportVars, Told

LEMMA ReportKeeps ==
  ASSUME ToldInv, NEW o \in Object, marked' = marked \cup {o}, wanted' = wanted,
         IF o \in marked THEN UNCHANGED reportVars ELSE AddPending(o)
  PROVE  ToldInv'
<1>1. CASE o \in marked \/ o \notin wanted
  <2>1. UNCHANGED reportVars
    BY <1>1 DEF AddPending
  <2> QED BY <1>1, <2>1 DEF ToldInv, Told, reportVars
<1>2. CASE o \notin marked /\ o \in wanted
  <2>1. /\ Told' = Append(Told, o) /\ Told \in Seq(Object)
        /\ batch' \in Seq(Object) /\ reported' \in Seq(Object)
    BY <1>2, AddPendingTold DEF ToldInv
  <2>2. o \notin Elems(Told)
    BY <1>2 DEF ToldInv
  <2>3. PICK t \in Seq(Object) : t = Told
    BY <2>1
  <2>4. o \notin Elems(t) /\ \A i, j \in 1 .. Len(t) : t[i] = t[j] => i = j
    BY <2>2, <2>3 DEF ToldInv
  <2>5. \A i, j \in 1 .. Len(Append(t, o)) : Append(t, o)[i] = Append(t, o)[j] => i = j
    BY <2>4, DistinctAppend
  <2>6. Elems(Append(t, o)) = Elems(t) \cup {o}
    BY ElemsAppend
  <2>7. Told' = Append(t, o) /\ Elems(Told') = Elems(Append(t, o)) /\ Elems(t) = wanted \cap marked
    BY <2>1, <2>3 DEF ToldInv
  <2>8. Elems(Told') = wanted' \cap marked'
    BY <1>2, <2>6, <2>7
  <2> QED BY <2>1, <2>5, <2>7, <2>8 DEF ToldInv, Elems
<1> QED BY <1>1, <1>2

--------------------------------------------------------------------------------
(* The steps of a liveness walk, in terms of sets. *)

LEMMA AskedFacts ==
  ASSUME WalkInv
  PROVE  /\ Asked \in SUBSET Object /\ Asked \subseteq Reach(Asked) /\ Reach(Asked) \subseteq Object
         /\ \A o \in Reach(Asked) : slots[o] \subseteq Reach(Asked)
<1>1. Asked \in SUBSET Object /\ TypeOK
  BY DEF WalkInv, IInv, TypeOK, Asked
<1> QED BY <1>1, ReachContains, ReachClosed DEF Closed

LEMMA ReachHeap ==
  ASSUME UNCHANGED heapVars
  PROVE  Reach(Asked)' = Reach(Asked')
BY DEF Reach, Closed, heapVars

(* A step of the scan itself. *)
LEMMA LivenessByScan ==
  ASSUME WalkInv, LivenessInv, Kept, NothingAdded, UNCHANGED <<promoted, todo, plan>>,
         phase \notin {"host", "done"}, phase' \in WalkPhase,
         phase' = "host" => stack' = <<>> /\ queue' = <<>> /\ batch' = <<>>
  PROVE  LivenessInv'
<1>1. UNCHANGED <<slots, roots, statics, registered>> /\ marked \subseteq marked' /\ UNCHANGED heapVars
  BY DEF Kept, heapVars
<1>2. Asked' = Asked /\ Reach(Asked)' = Reach(Asked)
  BY <1>1, ReachHeap DEF Asked
<1>3. marked' \subseteq Reach(Asked)
  BY DEF LivenessInv, NothingAdded
<1>4. \A g \in Frames' : g.left \subseteq Reach(Asked)
  BY <1>3, AskedFacts DEF LivenessInv, NothingAdded
<1>5. Null \notin plan => \A c \in statics : c \in marked' \/ \E f \in Frames' : f.obj = Null /\ c \in f.left
  <2> SUFFICES ASSUME Null \notin plan, NEW c \in statics
               PROVE  c \in marked' \/ \E f \in Frames' : f.obj = Null /\ c \in f.left
    OBVIOUS
  <2>1. c \in marked \/ \E f \in Frames : f.obj = Null /\ c \in f.left
    BY DEF LivenessInv
  <2> QED BY <2>1, <1>1 DEF Kept, NothingLost
<1>6. phase' # "done"
  BY DEF WalkPhase
<1> QED BY <1>1, <1>2, <1>3, <1>4, <1>5, <1>6 DEF LivenessInv

(* In the phases of a liveness walk the scanner's invariant asks for no    *)
(* more than a step keeps.                                                 *)
LEMMA KeptByWalk ==
  ASSUME IInv, Kept, phase' \in WalkPhase
  PROVE  IInv'
<1>1. TypeOK' /\ SlotsInv' /\ MarkedCovered' /\ ScanSound' /\ StackShape' /\ QueueShort'
  BY KeptCovered
<1>2. PhaseInv'
  BY DEF PhaseInv, WalkPhase
<1>3. QueueBounded'
  BY <1>1 DEF QueueBounded, QueueShort, WalkPhase
<1> QED BY <1>1, <1>2, <1>3 DEF IInv

(* When the scanner is idle, what is marked is what was asked for.         *)
LEMMA IdleExact ==
  ASSUME WalkInv, LivenessInv, stack = <<>>, queue = <<>>
  PROVE  marked = Reach(Asked)
<1>1. Frames = {} /\ Queued = {}
  <2>1. Len(stack) = 0 /\ Len(queue) = 0
    OBVIOUS
  <2> QED BY <2>1 DEF Frames, Queued
<1>2. TypeOK /\ marked \in SUBSET Object /\ Asked \in SUBSET Object
  BY AskedFacts DEF WalkInv, IInv, TypeOK
<1>3. Closed(marked)
  BY <1>1 DEF WalkInv, IInv, MarkedCovered, Closed
<1>4. Asked \subseteq marked
  BY <1>1 DEF LivenessInv, Asked
<1>5. Reach(Asked) \subseteq marked
  BY <1>2, <1>3, <1>4, ReachMinimal
<1> QED BY <1>5 DEF LivenessInv

(* The host's calls. *)
LEMMA FromRootInv ==
  ASSUME WalkInv, NEW r \in Object, FromRoot(r)
  PROVE  WalkInv'
<1>1. /\ phase = "host" /\ stack = <<>> /\ r \in plan /\ r # Null /\ phase' = "walk"
      /\ VisitObject(r) /\ Mark(Slot[r]) /\ marked' = marked \cup {r}
      /\ plan' = plan \ {r} /\ UNCHANGED <<heapVars, promoted, todo, user, wanted>>
      /\ IInv /\ BitmapInv /\ BitSet /\ TypeOK
  BY DEF FromRoot, Idle, VisitObject, WalkInv, IInv
<1>2. user = "liveness" /\ LivenessInv /\ ToldInv
  BY <1>1 DEF WalkInv, WalkPhase
<1>3. r \in roots /\ roots' = roots /\ statics' = statics /\ slots' = slots /\ registered' = registered
  BY <1>1 DEF WalkInv, heapVars
<1>4. Asked' = Asked \cup {r}
  <2>1. roots \ (plan \ {r}) = (roots \ plan) \cup {r} /\ (Null \in plan \ {r} <=> Null \in plan)
    BY <1>1, <1>3
  <2> QED BY <2>1, <1>1, <1>3 DEF Asked
<1>5. Kept
  <2>1. r \in Reach(roots \cup statics \cup promoted')
    <3>1. roots \cup statics \cup promoted \in SUBSET Object
      BY <1>1 DEF TypeOK
    <3> QED BY <3>1, <1>1, <1>3, ReachContains
  <2> QED BY <2>1, <1>1, VisitKept DEF TypeOK, Phase
<1>6. IInv'
  BY <1>1, <1>5, KeptByWalk DEF WalkPhase
<1>7. BitmapInv' /\ BitSet'
  BY <1>1, MarkKeeps
<1>8. ToldInv'
  <2>1. IF r \in marked THEN UNCHANGED reportVars ELSE AddPending(r)
    BY <1>1, BitOfObject DEF FromRoot
  <2> QED BY <2>1, <1>1, <1>2, ReportKeeps
<1>9. LivenessInv'
  <2>1. PICK L : L = Reach(Asked')
    OBVIOUS
  <2>2. Asked \in SUBSET Object /\ Asked' \in SUBSET Object
    BY <1>4, AskedFacts
  <2>3. Reach(Asked) \subseteq L /\ r \in L /\ slots[r] \subseteq L
    BY <1>1, <1>4, <2>1, <2>2, ReachMonotone, ReachContains, ReachClosed DEF Closed
  <2>4. Reach(Asked)' = L
    BY <1>1, <2>1, ReachHeap
  <2>5. \A f \in Frames' : f.left \subseteq L
    <3>1. CASE r \in marked \cup plain
      <4>1. Len(stack') = 0
        BY <3>1, <1>1 DEF VisitObject
      <4> QED BY <4>1 DEF Frames
    <3>2. CASE r \notin marked \cup plain
      <4>1. PICK g : g = Scan("root", r, slots[r])
        OBVIOUS
      <4>2. g \in Activation /\ g.left = slots[r] /\ stack' = <<g>>
        BY <3>2, <4>1, <1>1 DEF Scan, Activation, VisitObject, TypeOK
      <4> QED BY <4>2, <2>3, <1>1, OnePushed
    <3> QED BY <3>1, <3>2
  <2>6. Frames = {}
    <3>1. Len(stack) = 0
      BY <1>1
    <3> QED BY <3>1 DEF Frames
  <2>7. Null \notin plan' => \A c \in statics : c \in marked'
    BY <2>6, <1>1, <1>2 DEF LivenessInv
  <2> QED BY <2>3, <2>4, <2>5, <2>7, <1>1, <1>2, <1>3 DEF LivenessInv, WalkPhase
<1>10. plan' \subseteq roots' \cup {Null} /\ user' = user /\ phase' \in WalkPhase
  BY <1>1, <1>3 DEF WalkInv, WalkPhase
<1> QED BY <1>2, <1>6, <1>7, <1>8, <1>9, <1>10 DEF WalkInv

LEMMA FromStaticsInv ==
  ASSUME WalkInv, FromStatics
  PROVE  WalkInv'
<1>1. /\ phase = "host" /\ stack = <<>> /\ Null \in plan /\ phase' = "walk"
      /\ stack' = <<Scan("root", Null, statics)>> /\ plan' = plan \ {Null}
      /\ UNCHANGED <<heapVars, promoted, todo, marked, queue, flushes, depth,
                     segments, cache, user, wanted, batch, reported>>
      /\ IInv /\ TypeOK
  BY DEF FromStatics, Idle, WalkInv, IInv
<1>2. user = "liveness" /\ LivenessInv /\ ToldInv
  BY <1>1 DEF WalkInv, WalkPhase
<1>3. roots' = roots /\ statics' = statics /\ slots' = slots /\ registered' = registered
  BY <1>1 DEF heapVars
<1>4. Asked' = Asked \cup statics /\ roots \ plan' = roots \ plan
  <2>1. roots \ (plan \ {Null}) = roots \ plan
    BY <1>1, NullAssumption DEF TypeOK
  <2> QED BY <2>1, <1>1, <1>3 DEF Asked
<1>5. PICK g \in Activation : g.obj = Null /\ g.left = statics /\ Frames' = {g} /\ Kept
  BY <1>1, StaticsKept DEF TypeOK, Phase
<1>6. IInv'
  BY <1>1, <1>5, KeptByWalk DEF WalkPhase
<1>7. BitmapInv' /\ BitSet' /\ ToldInv'
  BY <1>1, <1>2 DEF WalkInv, BitmapInv, BitSet, Has, ToldInv, Told
<1>8. LivenessInv'
  <2>1. Asked \in SUBSET Object /\ Asked' \in SUBSET Object
    BY <1>1, <1>4, AskedFacts DEF TypeOK
  <2>2. Reach(Asked) \subseteq Reach(Asked') /\ statics \subseteq Reach(Asked')
    BY <1>1, <1>4, <2>1, ReachMonotone, ReachContains
  <2>3. Reach(Asked)' = Reach(Asked')
    BY <1>1, ReachHeap
  <2> QED BY <2>2, <2>3, <1>1, <1>2, <1>3, <1>4, <1>5 DEF LivenessInv, WalkPhase
<1>9. plan' \subseteq roots' \cup {Null} /\ user' = user /\ phase' \in WalkPhase
  BY <1>1, <1>3 DEF WalkInv, WalkPhase
<1> QED BY <1>2, <1>6, <1>7, <1>8, <1>9 DEF WalkInv

LEMMA FinishWalkInv ==
  ASSUME WalkInv, FinishWalk
  PROVE  WalkInv'
<1>1. /\ phase = "walk" /\ stack = <<>> /\ stack' = <<Flush>> /\ flushes' = flushes + 1
      /\ phase' = "endWalk"
      /\ UNCHANGED <<heapVars, promoted, todo, marked, queue, depth, walkVars>>
      /\ IInv /\ TypeOK
  BY DEF FinishWalk, WalkInv, IInv
<1>2. user = "liveness" /\ LivenessInv /\ ToldInv
  BY <1>1 DEF WalkInv, WalkPhase
<1>3. Kept /\ NothingAdded
  BY <1>1, FlushKept DEF TypeOK, Phase
<1>4. IInv'
  BY <1>1, <1>3, KeptByWalk DEF WalkPhase
<1>5. LivenessInv'
  BY <1>1, <1>2, <1>3, LivenessByScan DEF walkVars, WalkPhase
<1>6. BitmapInv' /\ BitSet' /\ ToldInv'
  BY <1>1, <1>2 DEF WalkInv, BitmapInv, BitSet, Has, ToldInv, Told, walkVars
<1>7. plan' \subseteq roots' \cup {Null} /\ user' = user /\ phase' \in WalkPhase
  BY <1>1 DEF WalkInv, WalkPhase, walkVars, heapVars
<1> QED BY <1>2, <1>4, <1>5, <1>6, <1>7 DEF WalkInv

(* The last batch is reported. *)
LEMMA WalkEndsInv ==
  ASSUME WalkInv, WalkEnds
  PROVE  WalkInv'
<1>1. /\ phase = "endWalk" /\ Flushing /\ queue = <<>> /\ Len(stack) = 1
      /\ phase' = "host" /\ stack' = <<>> /\ flushes' = flushes - 1
      /\ batch' = <<>> /\ reported' = reported \o batch /\ stack # <<>>
      /\ UNCHANGED <<heapVars, promoted, todo, marked, queue, depth, bitmapVars, hostVars>>
      /\ IInv /\ TypeOK
  BY DEF WalkEnds, WalkInv, IInv, CallFinal, Flushing
<1>2. user = "liveness" /\ LivenessInv /\ ToldInv
  BY <1>1 DEF WalkInv, WalkPhase
<1>3. stack' = Popped
  BY <1>1, TopFacts, EmptySeq
<1>4. Kept /\ NothingAdded
  BY <1>1, <1>3, FlushReturnKept DEF TypeOK, Phase
<1>5. IInv'
  BY <1>1, <1>4, KeptByWalk DEF WalkPhase
<1>6. LivenessInv'
  BY <1>1, <1>2, <1>4, LivenessByScan DEF hostVars, WalkPhase
<1>7. ToldInv'
  <2>1. PICK r \in Seq(Object), b \in Seq(Object) : r = reported /\ b = batch
    BY <1>2 DEF ToldInv
  <2>2. r \o b \in Seq(Object) /\ (r \o b) \o <<>> = r \o b
    OBVIOUS
  <2>3. Told' = Told /\ batch' \in Seq(Object) /\ reported' \in Seq(Object)
    BY <1>1, <2>1, <2>2 DEF Told
  <2> QED BY <2>3, <1>1, <1>2 DEF ToldInv, Elems, hostVars
<1>8. BitmapInv' /\ BitSet'
  BY <1>1 DEF WalkInv, BitmapInv, BitSet, Has, bitmapVars
<1>9. plan' \subseteq roots' \cup {Null} /\ user' = user /\ phase' \in WalkPhase
  BY <1>1 DEF WalkInv, WalkPhase, hostVars, heapVars
<1> QED BY <1>2, <1>5, <1>6, <1>7, <1>8, <1>9 DEF WalkInv

LEMMA FreeStructInv ==
  ASSUME WalkInv, FreeStruct
  PROVE  WalkInv'
<1>1. /\ phase = "host" /\ stack = <<>> /\ plan = {} /\ phase' = "done"
      /\ UNCHANGED <<heapVars, scanVars, promoted, todo, walkVars>>
      /\ IInv /\ TypeOK
  BY DEF FreeStruct, Idle, WalkInv, IInv
<1>2. user = "liveness" /\ LivenessInv /\ ToldInv
  BY <1>1 DEF WalkInv, WalkPhase
<1>3. Reach(roots \cup statics) \subseteq marked
  <2>1. marked = Reach(Asked)
    BY <1>1, <1>2, IdleExact DEF LivenessInv
  <2>2. Asked = roots \cup statics
    BY <1>1 DEF Asked
  <2> QED BY <2>1, <2>2
<1>4. PhaseInv'
  <2>1. Reach(roots \cup statics)' = Reach(roots \cup statics)
    BY <1>1, ReachSame
  <2> QED BY <2>1, <1>1, <1>2, <1>3 DEF PhaseInv, LivenessInv, scanVars, heapVars
<1>5. TypeOK' /\ QueueBounded'
  BY <1>1, <1>2 DEF TypeOK, Phase, heapVars, scanVars, IInv, QueueBounded, LivenessInv
<1>6. SlotsInv' /\ MarkedCovered' /\ ScanSound' /\ StackShape'
  BY <1>1 DEF IInv, SlotsInv, MarkedCovered, ScanSound, StackShape, Recursion, Reach, Closed,
              Sources, Queued, Frames, Top, heapVars, scanVars
<1>7. LivenessInv'
  BY <1>1, <1>2 DEF LivenessInv, WalkPhase, Asked, Reach, Closed, Frames, heapVars, scanVars, walkVars
<1>8. BitmapInv' /\ BitSet' /\ ToldInv'
  BY <1>1, <1>2 DEF WalkInv, BitmapInv, BitSet, Has, ToldInv, Told, walkVars, scanVars
<1>9. plan' \subseteq roots' \cup {Null} /\ user' = user /\ phase' \notin WalkPhase
  BY <1>1 DEF WalkInv, WalkPhase, walkVars, heapVars
<1> QED BY <1>2, <1>4, <1>5, <1>6, <1>7, <1>8, <1>9 DEF WalkInv, IInv

(* A visit that the scanner makes goes through the bitmap, whoever walks.  *)
LEMMA VisitKeeps ==
  ASSUME WalkInv, NEW o \in Object, Visit(o), marked' = marked \cup {o}
  PROVE  /\ BitmapInv' /\ BitSet' /\ UNCHANGED <<user, plan, wanted>>
         /\ user = "liveness" => ToldInv'
<1>1. Mark(Slot[o]) /\ UNCHANGED <<user, plan, wanted>>
  BY DEF Visit, hostVars
<1>2. BitmapInv' /\ BitSet'
  BY <1>1, MarkKeeps DEF WalkInv
<1>3. ASSUME user = "liveness" PROVE ToldInv'
  <2>1. IF o \in marked THEN UNCHANGED reportVars ELSE AddPending(o)
    BY <1>3, BitOfObject DEF Visit, WalkInv
  <2> QED BY <2>1, <1>1, <1>3, ReportKeeps DEF WalkInv
<1> QED BY <1>1, <1>2, <1>3

(* A step of the scan, for either user. *)
LEMMA ScanStepInv ==
  ASSUME WalkInv, Kept, NothingAdded, stack # <<>>,
         UNCHANGED <<promoted, phase, todo, user, plan>>,
         BitmapInv', BitSet', user = "liveness" => ToldInv'
  PROVE  WalkInv'
<1>1. IInv /\ phase # "done"
  BY DEF WalkInv, IInv, PhaseInv
<1>2. IInv'
  BY <1>1, KeptByScan
<1>3. ASSUME user = "liveness" PROVE LivenessInv'
  <2>1. LivenessInv /\ phase \notin {"host", "done"}
    BY <1>3 DEF WalkInv, LivenessInv
  <2>2. phase' \in WalkPhase /\ phase' # "host"
    BY <2>1 DEF LivenessInv
  <2> QED BY <2>1, <2>2, LivenessByScan
<1> QED BY <1>2, <1>3 DEF WalkInv, Kept, heapVars

LEMMA WalkSlotInv ==
  ASSUME WalkInv, WalkSlot
  PROVE  WalkInv'
<1>1. PICK c \in Top.left : /\ PassOver(c) \/ Recurse(c) \/ Defer(c)
                            /\ UNCHANGED <<heapVars, promoted, phase, todo>> /\ Visit(c)
  BY DEF WalkSlot, VisitSlot
<1>2. Scanning /\ stack # <<>> /\ IInv
  BY DEF WalkSlot, Scanning, WalkInv
<1>3. Kept /\ NothingAdded
  BY <1>1, <1>2, PassOverKept, RecurseKept, DeferKept
<1>4. marked' = marked \cup {c}
  BY <1>1 DEF PassOver, Recurse, Defer
<1>5. c \in Object
  BY <1>2, NextSlot
<1> QED BY <1>1, <1>2, <1>3, <1>4, <1>5, VisitKeeps, ScanStepInv

LEMMA BitsUnchanged ==
  ASSUME WalkInv, marked' = marked, UNCHANGED walkVars
  PROVE  BitmapInv' /\ BitSet' /\ (user = "liveness" => ToldInv')
BY DEF WalkInv, BitmapInv, BitSet, Has, ToldInv, Told, walkVars

LEMMA WalkOnInv ==
  ASSUME WalkInv, WalkOn, UNCHANGED walkVars
  PROVE  WalkInv'
<1>1. IInv /\ TypeOK
  BY DEF WalkInv, IInv
<1>2. /\ Kept /\ NothingAdded /\ stack # <<>> /\ marked' = marked
      /\ UNCHANGED <<promoted, phase, todo>>
  <2>1. CASE ScanEnds
    BY <2>1, <1>1, ScanEndsKept DEF ScanEnds, Scanning
  <2>2. CASE FlushNext
    BY <2>2, <1>1, FlushNextKept DEF FlushNext, Flushing
  <2>3. CASE FlushEnds
    <3>1. /\ Flushing /\ queue = <<>> /\ stack' = Popped /\ flushes' = flushes - 1 /\ stack # <<>>
          /\ UNCHANGED <<heapVars, promoted, phase, todo, marked, queue, depth>>
      BY <2>3 DEF FlushEnds, Flushing
    <3>2. phase' \in Phase /\ todo' \in SUBSET Object
      BY <3>1, <1>1 DEF TypeOK
    <3> QED BY <3>1, <3>2, <1>1, FlushReturnKept
  <2> QED BY <2>1, <2>2, <2>3 DEF WalkOn
<1> QED BY <1>2, BitsUnchanged, ScanStepInv DEF walkVars

(* The passes of a collection are as ObjScanner has them. *)
LEMMA PassInv ==
  ASSUME WalkInv, IInv', user = "collection", phase' \notin WalkPhase,
         UNCHANGED <<heapVars, user, plan>>, BitmapInv', BitSet'
  PROVE  WalkInv'
BY DEF WalkInv, heapVars

LEMMA CollectionPhase ==
  ASSUME WalkInv, phase \notin WalkPhase \cup {"done"}
  PROVE  user = "collection"
BY DEF WalkInv, LivenessInv

LEMMA PassesInv ==
  ASSUME WalkInv, VisitStatics \/ Finish \/ PassEnds, UNCHANGED walkVars
  PROVE  WalkInv'
<1>1. /\ phase \notin WalkPhase \cup {"done"} /\ phase' \notin WalkPhase /\ marked' = marked
      /\ UNCHANGED heapVars
  BY DEF VisitStatics, Finish, PassEnds, WalkPhase
<1>2. IInv'
  BY VisitStaticsInv, FinishInv, PassEndsInv DEF WalkInv
<1> QED BY <1>1, <1>2, BitsUnchanged, CollectionPhase, PassInv DEF walkVars

LEMMA MarkRootInv ==
  ASSUME WalkInv, NEW r \in Object, MarkRoot(r)
  PROVE  WalkInv'
<1>1. /\ phase = "roots" /\ UNCHANGED <<heapVars, phase>> /\ marked' = marked \cup {r}
      /\ VisitRoot(r) /\ Visit(r)
  BY DEF MarkRoot, VisitRoot, VisitObject
<1>2. IInv'
  BY <1>1, VisitRootInv DEF WalkInv
<1> QED BY <1>1, <1>2, VisitKeeps, CollectionPhase, PassInv DEF WalkPhase

LEMMA AskedBit ==
  ASSUME WalkInv, NEW o \in Object, IsMarked(Slot[o]), marked' = marked
  PROVE  BitmapInv' /\ BitSet'
<1>1. Slot[o] \in Nat /\ \A p \in Object : Slot[p] \in Nat
  BY SlotAssumption
<1>2. BitmapInv' /\ \A b \in Nat : Has(b)' <=> Has(b)
  BY <1>1, AskKeeps DEF WalkInv
<1>3. ASSUME NEW p \in Object PROVE Has(Slot[p])' <=> p \in marked'
  <2>1. PICK b \in Nat : b = Slot[p]
    BY <1>1
  <2>2. Has(b)' <=> Has(b)
    BY <1>2
  <2>3. Has(Slot[p])' <=> Has(b)'
    BY <2>1 DEF Has
  <2> QED BY <2>1, <2>2, <2>3 DEF WalkInv, BitSet
<1> QED BY <1>2, <1>3 DEF BitSet

LEMMA PromoteUnmarkedInv ==
  ASSUME WalkInv, NEW o \in Object, PromoteUnmarked(o)
  PROVE  WalkInv'
<1>1. phase = "promote" /\ UNCHANGED <<heapVars, phase>> /\ Promote(o)
  BY DEF PromoteUnmarked, Promote
<1>2. IInv' /\ user = "collection"
  BY <1>1, PromoteInv, CollectionPhase DEF WalkInv, WalkPhase
<1>3. BitmapInv' /\ BitSet' /\ UNCHANGED <<user, plan>>
  <2>1. CASE o \in marked
    <3>1. IsMarked(Slot[o]) /\ UNCHANGED hostVars /\ marked' = marked
      BY <2>1, <1>1, BitOfObject DEF WalkInv, PromoteUnmarked, Promote, scanVars
    <3> QED BY <3>1, AskedBit DEF hostVars
  <2>2. CASE o \notin marked
    <3>1. Visit(o) /\ marked' = marked \cup {o}
      BY <2>2, <1>1, BitOfObject DEF WalkInv, PromoteUnmarked, Promote, VisitObject
    <3> QED BY <3>1, VisitKeeps
  <2> QED BY <2>1, <2>2
<1> QED BY <1>1, <1>2, <1>3, PassInv DEF WalkPhase

LEMMA ScannerUnchanged ==
  ASSUME IInv, UNCHANGED vars
  PROVE  IInv'
BY StepPreserves

LEMMA AskInv ==
  ASSUME WalkInv, NEW o \in Object, Ask(o)
  PROVE  WalkInv'
<1>1. user = "collection" /\ IsMarked(Slot[o]) /\ UNCHANGED <<vars, hostVars>> /\ phase = "done"
  BY DEF Ask
<1>2. IInv' /\ marked' = marked
  BY <1>1, ScannerUnchanged DEF vars, WalkInv
<1> QED BY <1>1, <1>2, AskedBit, PassInv DEF vars, hostVars, heapVars, WalkPhase

LEMMA WalkStutters ==
  ASSUME WalkInv, UNCHANGED allVars
  PROVE  WalkInv'
<1>1. UNCHANGED vars /\ UNCHANGED walkVars
  BY DEF allVars
<1>2. IInv' /\ marked' = marked
  BY <1>1, ScannerUnchanged DEF WalkInv, vars
<1>3. LivenessInv => LivenessInv'
  BY <1>1 DEF LivenessInv, Asked, Reach, Closed, Frames, vars, walkVars
<1> QED BY <1>1, <1>2, <1>3, BitsUnchanged DEF WalkInv, vars, walkVars

LEMMA WalksInitInv == WalksInit => WalkInv
<1> SUFFICES ASSUME WalksInit PROVE WalkInv
  OBVIOUS
<1>1. /\ Start /\ BitmapInit /\ batch = <<>> /\ reported = <<>> /\ marked = {} /\ stack = <<>> /\ queue = <<>>
      /\ CollectionInit \/ LivenessInit
  BY DEF WalksInit, Start
<1>2. IInv
  <2>1. \/ phase = "roots" /\ todo = roots
        \/ phase = "host" /\ todo = {}
    BY <1>1 DEF CollectionInit, LivenessInit
  <2> QED BY <2>1, <1>1, StartEstablishes
<1>3. BitmapInv
  <2>1. \A k \in 0 .. CacheSize - 1 : cache[k] = [index |-> Invalid, segment |-> NullSegment]
    BY <1>1 DEF BitmapInit
  <2> QED BY <2>1, <1>1 DEF BitmapInit, BitmapInv, Invalid, NullSegment
<1>4. BitSet
  BY <1>1 DEF BitmapInit, BitSet, Has
<1>5. Frames = {} /\ Elems(Told) = {} /\ Len(Told) = 0
  <2>1. Len(stack) = 0 /\ Told = <<>>
    BY <1>1 DEF Told
  <2> QED BY <2>1 DEF Frames, Elems
<1>6. CASE CollectionInit
  BY <1>2, <1>3, <1>4, <1>6 DEF CollectionInit, WalkInv, WalkPhase
<1>7. CASE LivenessInit
  <2>1. /\ user = "liveness" /\ plan = roots \cup {Null} /\ registered = {} /\ promoted = {}
        /\ phase = "host" /\ todo = {}
    BY <1>1, <1>7 DEF LivenessInit, Start
  <2>2. LivenessInv
    BY <2>1, <1>1, <1>5 DEF LivenessInv, WalkPhase
  <2>3. ToldInv
    BY <1>1, <1>5 DEF ToldInv
  <2> QED BY <2>1, <2>2, <2>3, <1>2, <1>3, <1>4 DEF WalkInv
<1> QED BY <1>1, <1>6, <1>7

LEMMA WalkStep == WalkInv /\ [WalksNext]_allVars => WalkInv'
<1> SUFFICES ASSUME WalkInv, [WalksNext]_allVars PROVE WalkInv'
  OBVIOUS
<1>1. CASE WalkSlot
  BY <1>1, WalkSlotInv
<1>2. CASE \E o \in Object : MarkRoot(o) \/ PromoteUnmarked(o) \/ Ask(o) \/ FromRoot(o)
  BY <1>2, MarkRootInv, PromoteUnmarkedInv, AskInv, FromRootInv
<1>3. CASE (WalkOn \/ VisitStatics \/ Finish \/ PassEnds) /\ UNCHANGED walkVars
  BY <1>3, WalkOnInv, PassesInv
<1>4. CASE FromStatics \/ FinishWalk \/ WalkEnds \/ FreeStruct
  BY <1>4, FromStaticsInv, FinishWalkInv, WalkEndsInv, FreeStructInv
<1>5. CASE UNCHANGED allVars
  BY <1>5, WalkStutters
<1> QED BY <1>1, <1>2, <1>3, <1>4, <1>5 DEF WalksNext

LEMMA WalksInductive == WalksSpec => []WalkInv
BY WalksInitInv, WalkStep, PTL DEF WalksSpec

--------------------------------------------------------------------------------
(* The bitmap, with its segments created on demand and its small cache of  *)
(* segments that exist and of segments that do not, answers every question *)
(* of a collection and of a liveness walk truly, whatever the addresses,   *)
(* the segment size and the cache size.                                    *)
THEOREM BitmapIsVisitedSet == WalksSpec => []BitmapFaithful
<1>1. WalkInv => BitmapFaithful
  BY BitOfObject DEF WalkInv, BitmapFaithful
<1> QED BY <1>1, WalksInductive, PTL

(* When a call of a liveness walk returns, the host has been given each of *)
(* the wanted objects that its calls reach, once, and no other, whatever   *)
(* the graph, the batch size and the order of the calls.                   *)
THEOREM LivenessReportsExactly == WalksSpec => []ReportedExact
<1>1. WalkInv => ReportedExact
  <2> SUFFICES ASSUME WalkInv, user = "liveness", phase \in {"host", "done"}
               PROVE  /\ \A i, j \in 1 .. Len(reported) : reported[i] = reported[j] => i = j
                      /\ Elems(reported) = wanted \cap Reach(Asked)
    BY DEF ReportedExact, Elems
  <2>1. LivenessInv /\ ToldInv /\ stack = <<>> /\ queue = <<>> /\ batch = <<>>
    BY DEF WalkInv, LivenessInv
  <2>2. Told = reported
    <3>1. reported \in Seq(Object) /\ batch = <<>>
      BY <2>1 DEF ToldInv
    <3> QED BY <3>1 DEF Told
  <2>3. marked = Reach(Asked)
    BY <2>1, IdleExact
  <2> QED BY <2>1, <2>2, <2>3 DEF ToldInv, Elems
<1> QED BY <1>1, WalksInductive, PTL

(* Marking over the bitmap is as exact as marking over a set.              *)
THEOREM WalksMarkExactly == WalksSpec => []MarkingExact
<1>1. WalkInv => MarkingExact
  BY InvMarksExactly DEF WalkInv
<1> QED BY <1>1, WalksInductive, PTL

(* Neither walk scans the slots of an object twice, nor do the calls of a  *)
(* liveness walk, which share one bitmap.                                  *)
THEOREM WalksScanOnce == WalksSpec => []ScannedOnce
<1>1. WalksInit => OnceInv
  BY OnceStart DEF WalksInit
<1>2. WalkInv /\ OnceInv /\ [WalksNext]_allVars => OnceInv'
  <2> SUFFICES ASSUME WalkInv, OnceInv, [WalksNext]_allVars PROVE OnceInv'
    OBVIOUS
  <2>1. IInv
    BY DEF WalkInv
  <2>2. CASE WalkSlot
    BY <2>1, <2>2, OnceSlot DEF WalkSlot, VisitSlot
  <2>3. ASSUME NEW o \in Object, MarkRoot(o) \/ PromoteUnmarked(o) \/ Ask(o) \/ FromRoot(o)
        PROVE  OnceInv'
    <3>1. CASE MarkRoot(o) \/ PromoteUnmarked(o)
      BY <2>1, <3>1, OnceSteps DEF MarkRoot, PromoteUnmarked
    <3>2. CASE Ask(o)
      BY <2>1, <3>2, OnceCleared DEF Ask, vars
    <3>3. CASE FromRoot(o)
      BY <2>1, <3>3, OnceVisit DEF FromRoot, Idle
    <3> QED BY <2>3, <3>1, <3>2, <3>3
  <2>4. CASE (WalkOn \/ VisitStatics \/ Finish \/ PassEnds) /\ UNCHANGED walkVars
    BY <2>1, <2>4, OnceSteps DEF WalkOn
  <2>5. CASE FromStatics
    BY <2>1, <2>5, NullFrames, OnceFirst DEF FromStatics, Idle
  <2>6. CASE FinishWalk
    BY <2>1, <2>6, NullFrames, OnceFirst DEF FinishWalk
  <2>7. CASE WalkEnds \/ FreeStruct
    BY <2>1, <2>7, OnceCleared DEF WalkEnds, FreeStruct, scanVars
  <2>8. CASE UNCHANGED allVars
    BY <2>1, <2>8, OnceCleared DEF allVars, vars
  <2> QED BY <2>2, <2>3, <2>4, <2>5, <2>6, <2>7, <2>8 DEF WalksNext
<1>3. OnceInv => ScannedOnce
  BY DEF OnceInv
<1> QED BY <1>1, <1>2, <1>3, WalksInductive, PTL DEF WalksSpec
================================================================================
