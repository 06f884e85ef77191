--------------------------- MODULE SmallHeap_proofs ----------------------------
(***************************************************************************)
(* For any number of arenas, blocks and bits in a word: free lists and     *)
(* chunk masks are exact, and the pool grows only when it is full.         *)
(***************************************************************************)
EXTENDS SmallHeap, SequenceTheorems, TLAPS

(* Lists without repetition. *)
LEMMA ListPop ==
  ASSUME NEW S, NEW s \in Seq(S), s # <<>>, NoRepeat(s)
  PROVE  /\ Head(s) \in Elements(s) /\ Head(s) \in S
         /\ Tail(s) \in Seq(S) /\ NoRepeat(Tail(s))
         /\ Elements(Tail(s)) = Elements(s) \ {Head(s)}
<1>1. Len(s) \in Nat /\ Len(s) >= 1 /\ Head(s) = s[1] /\ 1 \in 1 .. Len(s) /\ s[1] \in S
  OBVIOUS
<1>2. /\ Tail(s) \in Seq(S) /\ Len(Tail(s)) = Len(s) - 1
      /\ \A k \in 1 .. Len(Tail(s)) : Tail(s)[k] = s[k + 1] /\ k + 1 \in 1 .. Len(s) /\ k + 1 # 1
  BY <1>1
<1>3. NoRepeat(Tail(s))
  BY <1>1, <1>2 DEF NoRepeat
<1>4. Elements(Tail(s)) \subseteq Elements(s) \ {Head(s)}
  BY <1>1, <1>2 DEF Elements, NoRepeat
<1>5. \A k \in 1 .. Len(s) : k # 1 => k - 1 \in 1 .. Len(Tail(s)) /\ Tail(s)[k - 1] = s[k]
  BY <1>1, <1>2
<1>6. Elements(s) \ {Head(s)} \subseteq Elements(Tail(s))
  <2> SUFFICES ASSUME NEW x \in Elements(s), x # Head(s) PROVE x \in Elements(Tail(s))
    OBVIOUS
  <2>1. PICK k \in 1 .. Len(s) : x = s[k]
    BY DEF Elements
  <2>2. k # 1
    BY <1>1, <2>1
  <2>3. PICK j \in 1 .. Len(Tail(s)) : Tail(s)[j] = x
    BY <1>5, <2>1, <2>2
  <2> QED BY <2>3 DEF Elements
<1> QED BY <1>1, <1>2, <1>3, <1>4, <1>6 DEF Elements

LEMMA ListPush ==
  ASSUME NEW S, NEW s \in Seq(S), NEW x \in S, x \notin Elements(s), NoRepeat(s)
  PROVE  /\ <<x>> \o s \in Seq(S) /\ NoRepeat(<<x>> \o s)
         /\ Elements(<<x>> \o s) = Elements(s) \cup {x}
<1> DEFINE t == <<x>> \o s
<1>1. PICK n \in Nat : n = Len(s)
  OBVIOUS
<1>2. /\ t \in Seq(S) /\ Len(t) = n + 1 /\ t[1] = x
      /\ \A k \in 1 .. n + 1 : k # 1 => t[k] = s[k - 1]
      /\ \A k \in 1 .. n : t[k + 1] = s[k]
  BY <1>1
<1> HIDE DEF t
<1>3. \A k \in 1 .. n + 1 : k # 1 => k - 1 \in 1 .. n
  BY <1>1
<1>4. \A k \in 1 .. n : s[k] # x
  BY <1>1 DEF Elements
<1>5. NoRepeat(t)
  BY <1>1, <1>2, <1>3, <1>4 DEF NoRepeat
<1>6. Elements(t) \subseteq Elements(s) \cup {x}
  BY <1>1, <1>2, <1>3 DEF Elements
<1>7. 1 \in 1 .. n + 1 /\ \A k \in 1 .. n : k + 1 \in 1 .. n + 1
  BY <1>1
<1>8. Elements(s) \cup {x} \subseteq Elements(t)
  BY <1>1, <1>2, <1>7 DEF Elements
<1> QED BY <1>2, <1>5, <1>6, <1>8 DEF t

LEMMA ListAppend ==
  ASSUME NEW S, NEW s \in Seq(S), NEW x \in S, x \notin Elements(s), NoRepeat(s)
  PROVE  /\ Append(s, x) \in Seq(S) /\ NoRepeat(Append(s, x))
         /\ Elements(Append(s, x)) = Elements(s) \cup {x}
         /\ Len(Append(s, x)) = Len(s) + 1
         /\ \A k \in 1 .. Len(s) : Append(s, x)[k] = s[k]
         /\ Append(s, x)[Len(s) + 1] = x
<1> DEFINE t == Append(s, x)
<1>1. /\ t \in Seq(S) /\ Len(s) \in Nat /\ Len(t) = Len(s) + 1 /\ t[Len(s) + 1] = x
      /\ \A k \in 1 .. Len(s) : t[k] = s[k] /\ k \in 1 .. Len(t)
      /\ \A k \in 1 .. Len(t) : k # Len(s) + 1 => k \in 1 .. Len(s)
      /\ Len(s) + 1 \in 1 .. Len(t)
  BY AppendProperties
<1> HIDE DEF t
<1>3. NoRepeat(t)
  BY <1>1 DEF NoRepeat, Elements
<1>4. Elements(t) = Elements(s) \cup {x}
  BY <1>1 DEF Elements
<1> QED BY <1>1, <1>3, <1>4 DEF t

(* Removing a position by moving the last element there. *)
LEMMA ListMoveLast ==
  ASSUME arenas \in Seq(Arena), NoRepeat(arenas), NEW i \in 1 .. Len(arenas)
  PROVE  /\ LastMovedTo(i) \in Seq(Arena) /\ NoRepeat(LastMovedTo(i))
         /\ Elements(LastMovedTo(i)) = Elements(arenas) \ {arenas[i]}
         /\ Len(LastMovedTo(i)) = Len(arenas) - 1
         /\ \A k \in 1 .. i - 1 : LastMovedTo(i)[k] = arenas[k]
<1> DEFINE t == LastMovedTo(i)
<1>0. PICK n \in Nat : n = Len(arenas) /\ n >= 1 /\ i <= n /\ i >= 1 /\ n - 1 \in Nat
  OBVIOUS
<1>1. /\ t \in Seq(Arena) /\ Len(t) = n - 1
      /\ \A k \in 1 .. n - 1 : t[k] = IF k = i THEN arenas[n] ELSE arenas[k]
  <2>1. t = [k \in 1 .. n - 1 |-> IF k = i THEN arenas[n] ELSE arenas[k]]
    BY <1>0 DEF LastMovedTo
  <2>2. \A k \in 1 .. n - 1 : (IF k = i THEN arenas[n] ELSE arenas[k]) \in Arena
    BY <1>0
  <2> QED BY <1>0, <2>1, <2>2
<1>2. NoRepeat(t)
  BY <1>0, <1>1 DEF NoRepeat
<1>3. Elements(t) \subseteq Elements(arenas) \ {arenas[i]}
  BY <1>0, <1>1 DEF NoRepeat, Elements
<1>4. ASSUME NEW k \in 1 .. n, k # i PROVE arenas[k] \in Elements(t)
  <2>1. CASE k = n
    <3>1. i \in 1 .. n - 1
      BY <1>0, <1>4, <2>1
    <3> QED BY <1>1, <2>1, <3>1 DEF Elements
  <2>2. CASE k # n
    <3>1. k \in 1 .. n - 1
      BY <1>0, <2>2
    <3> QED BY <1>1, <1>4, <3>1 DEF Elements
  <2> QED BY <2>1, <2>2
<1>5. Elements(arenas) \ {arenas[i]} \subseteq Elements(t)
  BY <1>0, <1>4 DEF Elements
<1>6. \A k \in 1 .. i - 1 : t[k] = arenas[k]
  BY <1>0, <1>1
<1> QED BY <1>0, <1>1, <1>2, <1>3, <1>5, <1>6

LEMMA FreshListExact ==
  /\ FreshList \in Seq(Index) /\ NoRepeat(FreshList) /\ Elements(FreshList) = Index
  /\ FreshList # <<>>
<1>1. /\ FreshList \in Seq(Index) /\ Len(FreshList) = BlockCount
      /\ \A k \in 1 .. BlockCount : FreshList[k] = BlockCount - k
  BY SizesAssumption DEF FreshList, Index
<1>2. \A i \in Index : BlockCount - i \in 1 .. BlockCount /\ BlockCount - (BlockCount - i) = i
  BY SizesAssumption DEF Index
<1>3. Elements(FreshList) = Index
  BY <1>1, <1>2, SizesAssumption DEF Elements, Index
<1> QED BY <1>1, <1>3, SizesAssumption DEF NoRepeat

--------------------------------------------------------------------------------
(* One arena. *)

ArenaExact(a) ==
  /\ Elements(free[a]) = Index \ use[a] /\ NoRepeat(free[a])
  /\ chunks[a] = {Word(i) : i \in use[a]}

Typed == /\ free \in [Arena -> Seq(Index)]
         /\ use \in [Arena -> SUBSET Index]
         /\ chunks \in [Arena -> SUBSET Nat]

LEMMA WordTyped == ASSUME NEW i \in Index PROVE Word(i) \in Nat
BY SizesAssumption DEF Word, Index

LEMMA AllExact ==
  ASSUME IInv
  PROVE  Typed /\ \A a \in Arena : ArenaExact(a)
<1>1. Typed
  BY DEF IInv, TypeOK, Typed
<1>2. \A a \in Listed : ArenaExact(a)
  BY DEF IInv, FreeListExact, ChunkMaskExact, ArenaExact
<1>3. \A a \in Arena \ Listed : ArenaExact(a)
  BY FreshListExact DEF IInv, UnlistedAsNew, ArenaExact
<1> QED BY <1>1, <1>2, <1>3

LEMMA TakeEffect ==
  ASSUME Typed, NEW a \in Arena, ArenaExact(a), ~Full(a), Take(a)
  PROVE  /\ Typed' /\ ArenaExact(a)'
         /\ Head(free[a]) \in Index \ use[a]
         /\ use'[a] = use[a] \cup {Head(free[a])}
         /\ \A b \in Arena : b # a => /\ free'[b] = free[b]
                                      /\ use'[b] = use[b]
                                      /\ chunks'[b] = chunks[b]
         /\ UNCHANGED <<marked, at>>
<1> DEFINE h == Head(free[a])
<1>1. free[a] \in Seq(Index) /\ free[a] # <<>> /\ NoRepeat(free[a])
  BY DEF Typed, ArenaExact, Full
<1>2. /\ h \in Elements(free[a]) /\ h \in Index /\ Tail(free[a]) \in Seq(Index)
      /\ NoRepeat(Tail(free[a])) /\ Elements(Tail(free[a])) = Elements(free[a]) \ {h}
  BY <1>1, ListPop
<1>3. h \in Index \ use[a] /\ Word(h) \in Nat
  BY <1>2, WordTyped DEF ArenaExact
<1> HIDE DEF h
<1>4. /\ free' = [free EXCEPT ![a] = Tail(@)]
      /\ use' = [use EXCEPT ![a] = @ \cup {h}]
      /\ chunks' = [chunks EXCEPT ![a] = @ \cup {Word(h)}]
      /\ UNCHANGED <<marked, at>>
  BY DEF Take, h
<1>5. Typed'
  BY <1>2, <1>3, <1>4 DEF Typed
<1>6. /\ free'[a] = Tail(free[a]) /\ use'[a] = use[a] \cup {h}
      /\ chunks'[a] = chunks[a] \cup {Word(h)}
  BY <1>4 DEF Typed
<1>7. ArenaExact(a)'
  <2>1. Elements(free'[a]) = Index \ use'[a]
    BY <1>2, <1>6 DEF ArenaExact
  <2>2. chunks'[a] = {Word(i) : i \in use'[a]}
    BY <1>6 DEF ArenaExact
  <2> QED BY <1>2, <1>6, <2>1, <2>2 DEF ArenaExact
<1>8. \A b \in Arena : b # a => /\ free'[b] = free[b]
                                /\ use'[b] = use[b]
                                /\ chunks'[b] = chunks[b]
  BY <1>4 DEF Typed
<1> QED BY <1>3, <1>4, <1>5, <1>6, <1>7, <1>8 DEF h

LEMMA SweepBlockEffect ==
  ASSUME Typed, NEW a \in Arena, ArenaExact(a), NEW i \in Index, SweepBlock(a, i)
  PROVE  /\ Typed' /\ ArenaExact(a)'
         /\ i \in use[a] /\ use'[a] = use[a] \ {i} /\ <<a, i>> \notin marked
         /\ \A b \in Arena : b # a => /\ free'[b] = free[b]
                                      /\ use'[b] = use[b]
                                      /\ chunks'[b] = chunks[b]
<1>1. /\ i \in use[a] /\ <<a, i>> \notin marked
      /\ free' = [free EXCEPT ![a] = <<i>> \o @]
      /\ use' = [use EXCEPT ![a] = @ \ {i}]
      /\ chunks' = [chunks EXCEPT ![a] =
                  {w \in @ : w # Word(i) \/ \E j \in use[a] \ {i} : Word(j) = w}]
  BY DEF SweepBlock, Dead, Clear
<1>2. free[a] \in Seq(Index) /\ i \notin Elements(free[a]) /\ NoRepeat(free[a])
  BY <1>1 DEF Typed, ArenaExact
<1>3. /\ <<i>> \o free[a] \in Seq(Index) /\ NoRepeat(<<i>> \o free[a])
      /\ Elements(<<i>> \o free[a]) = Elements(free[a]) \cup {i}
  BY <1>2, ListPush
<1>4. Typed'
  BY <1>1, <1>3 DEF Typed
<1>5. /\ free'[a] = <<i>> \o free[a] /\ use'[a] = use[a] \ {i}
      /\ chunks'[a] = {w \in chunks[a] : w # Word(i) \/ \E j \in use[a] \ {i} : Word(j) = w}
  BY <1>1 DEF Typed
<1>6. ArenaExact(a)'
  <2>1. Elements(free'[a]) = Index \ use'[a]
    BY <1>1, <1>3, <1>5 DEF ArenaExact, Typed
  <2>2. chunks'[a] = {Word(j) : j \in use'[a]}
    BY <1>1, <1>5 DEF ArenaExact
  <2> QED BY <1>3, <1>5, <2>1, <2>2 DEF ArenaExact
<1>7. \A b \in Arena : b # a => /\ free'[b] = free[b]
                                /\ use'[b] = use[b]
                                /\ chunks'[b] = chunks[b]
  BY <1>1 DEF Typed
<1> QED BY <1>1, <1>4, <1>5, <1>6, <1>7

--------------------------------------------------------------------------------
(* Preservation. *)

LEMMA ListedElements == Listed = Elements(arenas)
BY DEF Listed, Elements

LEMMA InitEstablishes == Init => IInv
<1> SUFFICES ASSUME Init PROVE IInv
  OBVIOUS
<1>1. arenas = <<>> /\ Len(arenas) = 0 /\ Listed = {} /\ at = 0 /\ start = 1
  BY DEF Init, Listed
<1>2. TypeOK
  BY <1>1, FreshListExact DEF Init, TypeOK, NoRepeat
<1> QED BY <1>1, <1>2
        DEF Init, IInv, FreeListExact, ChunkMaskExact, NoEmptyArena, UnlistedAsNew,
            CursorSkipsFull, SweptSoFar, Idle

LEMMA AllocatePreserves ==
  ASSUME IInv, Idle, NEW a \in Arena, ~Full(a), Take(a),
         arenas' \in Seq(Arena), NoRepeat(arenas'), Listed' = Listed \cup {a},
         current' = a, start' \in Nat \ {0},
         \A k \in 1 .. Len(arenas') :
           k < start' /\ arenas'[k] # a => Full(arenas'[k])
  PROVE  IInv'
<1>1. Typed /\ \A b \in Arena : ArenaExact(b)
  BY AllExact
<1>2. /\ Typed' /\ ArenaExact(a)'
      /\ use'[a] = use[a] \cup {Head(free[a])}
      /\ \A b \in Arena : b # a => /\ free'[b] = free[b]
                                   /\ use'[b] = use[b]
                                   /\ chunks'[b] = chunks[b]
      /\ marked' = marked /\ at' = at /\ at = 0
  BY <1>1, TakeEffect DEF Idle
<1>3. \A b \in Arena : ArenaExact(b)'
  BY <1>1, <1>2 DEF ArenaExact
<1>4. Listed' \subseteq Arena
  BY DEF Listed
<1>5. TypeOK'
  BY <1>2 DEF IInv, TypeOK, Typed
<1>6. FreeListExact' /\ ChunkMaskExact'
  BY <1>3, <1>4 DEF FreeListExact, ChunkMaskExact, ArenaExact
<1>7. NoEmptyArena'
  BY <1>2, <1>4 DEF IInv, NoEmptyArena
<1>8. UnlistedAsNew'
  BY <1>2 DEF IInv, UnlistedAsNew
<1>9. CursorSkipsFull'
  <2>1. \A k \in 1 .. Len(arenas') : arenas'[k] \in Arena
    OBVIOUS
  <2> QED BY <1>2, <2>1 DEF CursorSkipsFull, Full
<1>10. SweptSoFar'
  BY <1>2 DEF SweptSoFar, Idle
<1> QED BY <1>5, <1>6, <1>7, <1>8, <1>9, <1>10 DEF IInv

LEMMA FromCurrentPreserves ==
  ASSUME IInv, AllocateFromCurrent
  PROVE  IInv'
<1>1. Idle /\ current # NoArena /\ ~Full(current) /\ Take(current)
      /\ UNCHANGED <<arenas, current, start>>
  BY DEF AllocateFromCurrent, CurrentExhausted
<1>2. current \in Listed /\ current \in Arena
  BY <1>1 DEF IInv, TypeOK
<1>3. Listed' = Listed
  BY <1>1 DEF Listed
<1>4. \A k \in 1 .. Len(arenas') :
         k < start' /\ arenas'[k] # current => Full(arenas'[k])
  BY <1>1 DEF IInv, CursorSkipsFull
<1> QED BY <1>1, <1>2, <1>3, <1>4, AllocatePreserves DEF IInv, TypeOK

(* Before the cursor every arena is full but the current one, and that is  *)
(* exhausted too.                                                          *)
LEMMA PassedAreFull ==
  ASSUME IInv, Idle, CurrentExhausted
  PROVE  \A k \in 1 .. Len(arenas) : k < start => Full(arenas[k])
<1> TAKE k \in 1 .. Len(arenas)
<1>1. arenas[k] \in Arena /\ arenas[k] # NoArena
  BY NoArenaAssumption DEF IInv, TypeOK
<1> QED BY <1>1 DEF IInv, CursorSkipsFull, CurrentExhausted

LEMMA FromNextPreserves ==
  ASSUME IInv, NEW i \in 1 .. Len(arenas), AllocateFromNext(i)
  PROVE  IInv'
<1>1. /\ Idle /\ CurrentExhausted /\ ~Full(arenas[i]) /\ Take(arenas[i])
      /\ current' = arenas[i] /\ start' = i + 1 /\ arenas' = arenas
      /\ i \in start .. Len(arenas)
      /\ \A j \in start .. i - 1 : Full(arenas[j])
  BY DEF AllocateFromNext, FirstWithRoom
<1>2. arenas[i] \in Arena /\ arenas[i] \in Listed /\ Listed' = Listed
  BY <1>1 DEF IInv, TypeOK, Listed
<1>3. \A k \in 1 .. Len(arenas) : k < i + 1 /\ arenas[k] # arenas[i] => Full(arenas[k])
  <2>1. start \in Nat \ {0} /\ Len(arenas) \in Nat
    BY DEF IInv, TypeOK
  <2>2. \A k \in 1 .. Len(arenas) : k < i + 1 /\ k # i => k < start \/ k \in start .. i - 1
    BY <2>1
  <2> QED BY <1>1, <2>2, PassedAreFull
<1> QED BY <1>1, <1>2, <1>3, AllocatePreserves DEF IInv, TypeOK

LEMMA ExhaustedMeansFull ==
  ASSUME IInv, Idle, CurrentExhausted, NoneWithRoom
  PROVE  \A k \in 1 .. Len(arenas) : Full(arenas[k])
<1>1. start \in Nat \ {0} /\ Len(arenas) \in Nat
  BY DEF IInv, TypeOK
<1>2. \A k \in 1 .. Len(arenas) : k < start \/ k \in start .. Len(arenas)
  BY <1>1
<1> QED BY <1>2, PassedAreFull DEF NoneWithRoom

LEMMA FromNewPreserves ==
  ASSUME IInv, NEW a \in Arena, AllocateFromNew(a)
  PROVE  IInv'
<1>1. /\ Idle /\ CurrentExhausted /\ NoneWithRoom /\ a \notin Listed
      /\ arenas' = Append(arenas, a) /\ current' = a /\ start' = Len(arenas) + 2 /\ Take(a)
  BY DEF AllocateFromNew
<1>2. arenas \in Seq(Arena) /\ NoRepeat(arenas) /\ a \notin Elements(arenas) /\ Len(arenas) \in Nat
  BY <1>1, ListedElements DEF IInv, TypeOK
<1>3. /\ arenas' \in Seq(Arena) /\ NoRepeat(arenas') /\ Elements(arenas') = Elements(arenas) \cup {a}
      /\ Len(arenas') = Len(arenas) + 1
      /\ \A k \in 1 .. Len(arenas) : arenas'[k] = arenas[k]
      /\ arenas'[Len(arenas) + 1] = a
  BY <1>1, <1>2, ListAppend
<1>4. Listed' = Listed \cup {a}
  BY <1>3, ListedElements DEF Listed, Elements
<1>5. ~Full(a)
  BY <1>1, FreshListExact DEF IInv, UnlistedAsNew, Full
<1>6. \A k \in 1 .. Len(arenas') : k < start' /\ arenas'[k] # a => Full(arenas'[k])
  <2>1. \A k \in 1 .. Len(arenas) + 1 : k # Len(arenas) + 1 => k \in 1 .. Len(arenas)
    BY <1>2
  <2> QED BY <1>1, <1>3, <2>1, ExhaustedMeansFull
<1>7. start' \in Nat \ {0}
  BY <1>1, <1>2
<1> QED BY <1>1, <1>3, <1>4, <1>5, <1>6, <1>7, AllocatePreserves

LEMMA FailsPreserves ==
  ASSUME IInv, AllocateFails
  PROVE  IInv'
<1>1. /\ Idle /\ CurrentExhausted /\ NoneWithRoom
      /\ current' = NoArena /\ start' = Len(arenas) + 1
      /\ UNCHANGED <<arenas, free, use, chunks, marked, at>>
  BY DEF AllocateFails, arenaVars
<1>2. Listed' = Listed /\ Len(arenas) \in Nat
  BY <1>1 DEF Listed, IInv, TypeOK
<1>3. TypeOK'
  BY <1>1, <1>2 DEF IInv, TypeOK
<1>4. CursorSkipsFull'
  BY <1>1, ExhaustedMeansFull DEF CursorSkipsFull, Full
<1>5. FreeListExact' /\ ChunkMaskExact' /\ UnlistedAsNew' /\ NoEmptyArena' /\ SweptSoFar'
  BY <1>1, <1>2
  DEF IInv, FreeListExact, ChunkMaskExact, UnlistedAsNew, NoEmptyArena, SweptSoFar, Idle, Lent
<1> QED BY <1>3, <1>4, <1>5 DEF IInv

LEMMA BeginPreserves ==
  ASSUME IInv, NEW m \in SUBSET Lent, BeginSweep(m)
  PROVE  IInv'
<1>1. /\ marked' = m /\ at' = 1 /\ UNCHANGED <<arenas, current, start, free, use, chunks>>
  BY DEF BeginSweep, arenaVars
<1>2. Listed' = Listed /\ Lent' = Lent
  BY <1>1 DEF Listed, Lent
<1>3. TypeOK'
  BY <1>1 DEF IInv, TypeOK, Lent, Idle
<1>4. FreeListExact' /\ ChunkMaskExact' /\ UnlistedAsNew' /\ NoEmptyArena' /\ CursorSkipsFull'
  BY <1>1, <1>2
  DEF IInv, FreeListExact, ChunkMaskExact, UnlistedAsNew, NoEmptyArena, Idle, CursorSkipsFull
<1>5. SweptSoFar'
  <2>1. Len(arenas) \in Nat
    BY DEF IInv, TypeOK
  <2> QED BY <1>1, <1>2, <2>1 DEF SweptSoFar
<1> QED BY <1>3, <1>4, <1>5 DEF IInv

LEMMA AtPosition ==
  ASSUME IInv, NEW a \in Arena, at \in 1 .. Len(arenas), a = arenas[at]
  PROVE  /\ a \in Listed /\ ~Idle
         /\ \A k \in 1 .. at - 1 : k \in 1 .. Len(arenas) /\ arenas[k] \in Arena /\ arenas[k] # a
         /\ marked \subseteq Lent
<1>1. arenas \in Seq(Arena) /\ NoRepeat(arenas) /\ at \in Nat /\ Len(arenas) \in Nat
  BY DEF IInv, TypeOK
<1>2. \A k \in 1 .. at - 1 : k \in 1 .. Len(arenas) /\ k # at
  BY <1>1
<1>3. ~Idle
  BY DEF Idle
<1> QED BY <1>1, <1>2, <1>3 DEF NoRepeat, Listed, IInv, SweptSoFar

LEMMA BlockPreserves ==
  ASSUME IInv, NEW a \in Arena, NEW i \in Index, SweepBlock(a, i)
  PROVE  IInv'
<1>1. Typed /\ \A b \in Arena : ArenaExact(b)
  BY AllExact
<1>2. /\ at \in 1 .. Len(arenas) /\ a = arenas[at]
      /\ UNCHANGED <<arenas, current, start, marked, at>>
  BY DEF SweepBlock
<1>3. /\ Typed' /\ ArenaExact(a)'
      /\ i \in use[a] /\ use'[a] = use[a] \ {i} /\ <<a, i>> \notin marked
      /\ \A b \in Arena : b # a => /\ free'[b] = free[b]
                                   /\ use'[b] = use[b]
                                   /\ chunks'[b] = chunks[b]
  BY <1>1, SweepBlockEffect
<1>4. /\ a \in Listed /\ ~Idle
      /\ \A k \in 1 .. at - 1 : k \in 1 .. Len(arenas) /\ arenas[k] \in Arena /\ arenas[k] # a
      /\ marked \subseteq Lent
  BY <1>2, AtPosition
<1>5. Listed' = Listed /\ ~Idle'
  BY <1>2, <1>4 DEF Listed, Idle
<1>6. \A b \in Arena : ArenaExact(b)'
  BY <1>1, <1>3 DEF ArenaExact
<1>7. TypeOK'
  BY <1>2, <1>3, <1>5 DEF IInv, TypeOK, Typed
<1>8. FreeListExact' /\ ChunkMaskExact'
  <2>1. Listed \subseteq Arena
    BY DEF Listed, IInv, TypeOK
  <2> QED BY <1>5, <1>6, <2>1 DEF FreeListExact, ChunkMaskExact, ArenaExact
<1>9. NoEmptyArena' /\ CursorSkipsFull'
  BY <1>5 DEF NoEmptyArena, CursorSkipsFull
<1>10. UnlistedAsNew'
  BY <1>3, <1>4, <1>5 DEF IInv, UnlistedAsNew
<1>11. SweptSoFar'
  <2>1. marked \subseteq Lent'
    <3> SUFFICES ASSUME NEW b \in marked PROVE b \in Lent'
      OBVIOUS
    <3>1. b \in Arena \X Index /\ b[1] \in Listed /\ b[2] \in use[b[1]] /\ b = <<b[1], b[2]>>
      BY <1>4 DEF Lent
    <3>2. b[2] \in use'[b[1]]
      BY <1>3, <3>1
    <3> QED BY <1>5, <3>1, <3>2 DEF Lent
  <2>2. \A k \in 1 .. at - 1 :
          /\ use'[arenas[k]] # {}
          /\ \A j \in use'[arenas[k]] : <<arenas[k], j>> \in marked
    BY <1>3, <1>4 DEF IInv, SweptSoFar
  <2>3. at <= Len(arenas) + 1
    BY DEF IInv, SweptSoFar
  <2> QED BY <1>2, <2>1, <2>2, <2>3 DEF SweptSoFar
<1> QED BY <1>7, <1>8, <1>9, <1>10, <1>11 DEF IInv

(* When the loop is done with an arena, what is left there is marked.      *)
LEMMA SweptMeansMarked ==
  ASSUME IInv, NEW a \in Arena, Swept(a)
  PROVE  /\ \A i \in use[a] : <<a, i>> \in marked
         /\ chunks[a] = {} <=> use[a] = {}
<1>1. chunks[a] = {Word(i) : i \in use[a]}
  BY AllExact DEF ArenaExact
<1>2. \A i \in use[a] : i \notin Dead(a) /\ Word(i) \in chunks[a]
  BY <1>1 DEF Swept
<1> QED BY <1>1, <1>2 DEF Dead

LEMMA KeptPreserves ==
  ASSUME IInv, NEW a \in Arena, SweepArenaKept(a)
  PROVE  IInv'
<1>1. /\ Swept(a) /\ chunks[a] # {} /\ at' = at + 1
      /\ at \in 1 .. Len(arenas) /\ a = arenas[at]
      /\ UNCHANGED <<arenas, current, start, free, use, chunks, marked>>
  BY DEF SweepArenaKept, Swept, arenaVars
<1>2. Listed' = Listed /\ Lent' = Lent /\ at \in Nat /\ Len(arenas) \in Nat
  BY <1>1 DEF Listed, Lent, IInv, TypeOK
<1>3. ~Idle' /\ ~Idle
  BY <1>1, <1>2 DEF Idle
<1>4. TypeOK'
  BY <1>1, <1>2, <1>3 DEF IInv, TypeOK
<1>5. FreeListExact' /\ ChunkMaskExact' /\ UnlistedAsNew' /\ NoEmptyArena' /\ CursorSkipsFull'
  BY <1>1, <1>2, <1>3
  DEF IInv, FreeListExact, ChunkMaskExact, UnlistedAsNew, NoEmptyArena, CursorSkipsFull
<1>6. SweptSoFar'
  <2>1. \A k \in 1 .. at' - 1 : k \in 1 .. at - 1 \/ k = at
    BY <1>1, <1>2
  <2>2. at' <= Len(arenas) + 1
    BY <1>1, <1>2
  <2> QED BY <1>1, <1>2, <1>3, <2>1, <2>2, SweptMeansMarked DEF IInv, SweptSoFar
<1> QED BY <1>4, <1>5, <1>6 DEF IInv

LEMMA FreedPreserves ==
  ASSUME IInv, NEW a \in Arena, SweepArenaFreed(a)
  PROVE  IInv'
<1>1. /\ Swept(a) /\ chunks[a] = {} /\ arenas' = LastMovedTo(at)
      /\ at \in 1 .. Len(arenas) /\ a = arenas[at]
      /\ free' = [free EXCEPT ![a] = FreshList]
      /\ use' = [use EXCEPT ![a] = {}]
      /\ chunks' = [chunks EXCEPT ![a] = {}]
      /\ UNCHANGED <<current, start, marked, at>>
  BY DEF SweepArenaFreed, Swept, Release
<1>2. use[a] = {}
  BY <1>1, SweptMeansMarked
<1>3. Typed /\ arenas \in Seq(Arena) /\ NoRepeat(arenas) /\ Len(arenas) \in Nat /\ at \in Nat
  BY AllExact DEF IInv, TypeOK
<1>4. /\ arenas' \in Seq(Arena) /\ NoRepeat(arenas')
      /\ Elements(arenas') = Elements(arenas) \ {a}
      /\ Len(arenas') = Len(arenas) - 1
      /\ \A k \in 1 .. at - 1 : arenas'[k] = arenas[k]
  BY <1>1, <1>3, ListMoveLast
<1>5. Listed' = Listed \ {a}
  BY <1>4, ListedElements DEF Listed, Elements
<1>6. /\ a \in Listed /\ ~Idle /\ ~Idle'
      /\ \A k \in 1 .. at - 1 : k \in 1 .. Len(arenas) /\ arenas[k] \in Arena /\ arenas[k] # a
      /\ marked \subseteq Lent
  BY <1>1, AtPosition DEF Idle
<1>7. /\ free'[a] = FreshList /\ use'[a] = {} /\ chunks'[a] = {}
      /\ \A b \in Arena : b # a => /\ free'[b] = free[b]
                                   /\ use'[b] = use[b]
                                   /\ chunks'[b] = chunks[b]
  BY <1>1, <1>3 DEF Typed
<1>8. TypeOK'
  <2>1. free' \in [Arena -> Seq(Index)] /\ use' \in [Arena -> SUBSET Index]
    BY <1>1, <1>3, FreshListExact DEF Typed
  <2>2. chunks' \in [Arena -> SUBSET Nat]
    BY <1>1, <1>3 DEF Typed
  <2> QED BY <1>1, <1>3, <1>4, <1>6, <2>1, <2>2 DEF IInv, TypeOK
<1>9. FreeListExact' /\ ChunkMaskExact'
  <2>1. Listed \subseteq Arena
    BY DEF Listed, IInv, TypeOK
  <2> QED BY <1>5, <1>7, <2>1 DEF IInv, FreeListExact, ChunkMaskExact
<1>10. NoEmptyArena' /\ CursorSkipsFull'
  BY <1>6 DEF NoEmptyArena, CursorSkipsFull
<1>11. UnlistedAsNew'
  BY <1>5, <1>7 DEF IInv, UnlistedAsNew
<1>12. SweptSoFar'
  <2>1. Lent \subseteq Lent'
    <3> SUFFICES ASSUME NEW b \in Lent PROVE b \in Lent'
      OBVIOUS
    <3>1. b \in Arena \X Index /\ b[1] \in Listed /\ b[2] \in use[b[1]] /\ b[1] # a
      BY <1>2 DEF Lent
    <3>2. b[1] \in Listed' /\ b[2] \in use'[b[1]]
      BY <1>5, <1>7, <3>1
    <3> QED BY <3>1, <3>2 DEF Lent
  <2>2. at <= Len(arenas') + 1
    BY <1>1, <1>3, <1>4
  <2>3. \A k \in 1 .. at - 1 :
          /\ use'[arenas'[k]] # {}
          /\ \A j \in use'[arenas'[k]] : <<arenas'[k], j>> \in marked
    BY <1>4, <1>6, <1>7 DEF IInv, SweptSoFar
  <2> QED BY <1>1, <1>6, <2>1, <2>2, <2>3 DEF SweptSoFar
<1> QED BY <1>8, <1>9, <1>10, <1>11, <1>12 DEF IInv

LEMMA EndPreserves ==
  ASSUME IInv, EndSweep
  PROVE  IInv'
<1>1. /\ at > Len(arenas) /\ at' = 0 /\ marked' = {}
      /\ UNCHANGED <<arenas, free, use, chunks>>
  BY DEF EndSweep, arenaVars
<1>2. \/ \E i \in 1 .. Len(arenas) :
           /\ \A j \in 1 .. i - 1 : Full(arenas[j])
           /\ current' = arenas[i] /\ start' = i + 1
      \/ /\ \A i \in 1 .. Len(arenas) : Full(arenas[i])
         /\ current' = NoArena /\ start' = Len(arenas) + 1
  BY DEF EndSweep
<1>3. Listed' = Listed /\ Len(arenas) \in Nat /\ arenas \in Seq(Arena) /\ at \in Nat /\ Idle'
  BY <1>1 DEF Listed, IInv, TypeOK, Idle
<1>4. CursorSkipsFull' /\ current' \in Listed \cup {NoArena} /\ start' \in Nat \ {0}
  <2>1. CASE \E i \in 1 .. Len(arenas) :
           /\ \A j \in 1 .. i - 1 : Full(arenas[j])
           /\ current' = arenas[i] /\ start' = i + 1
    <3>1. PICK i \in 1 .. Len(arenas) :
           /\ \A j \in 1 .. i - 1 : Full(arenas[j])
           /\ current' = arenas[i] /\ start' = i + 1
      BY <2>1
    <3>2. \A k \in 1 .. Len(arenas) : k < i + 1 => k = i \/ k \in 1 .. i - 1
      BY <1>3
    <3> QED BY <1>1, <1>3, <3>1, <3>2 DEF CursorSkipsFull, Full, Listed
  <2>2. CASE /\ \A i \in 1 .. Len(arenas) : Full(arenas[i])
             /\ current' = NoArena /\ start' = Len(arenas) + 1
    BY <1>1, <1>3, <2>2 DEF CursorSkipsFull, Full
  <2> QED BY <1>2, <2>1, <2>2
<1>5. TypeOK'
  <2>1. Listed \subseteq Arena
    BY <1>3 DEF Listed
  <2> QED BY <1>1, <1>3, <1>4, <2>1 DEF IInv, TypeOK
<1>6. NoEmptyArena'
  <2>1. \A k \in 1 .. Len(arenas) : k \in 1 .. at - 1
    BY <1>1, <1>3
  <2> QED BY <1>1, <1>3, <2>1 DEF IInv, SweptSoFar, NoEmptyArena, Listed
<1>7. FreeListExact' /\ ChunkMaskExact' /\ UnlistedAsNew' /\ SweptSoFar'
  BY <1>1, <1>3 DEF IInv, FreeListExact, ChunkMaskExact, UnlistedAsNew, SweptSoFar
<1> QED BY <1>4, <1>5, <1>6, <1>7 DEF IInv

LEMMA StepPreserves ==
  ASSUME IInv, [Next]_vars
  PROVE  IInv'
<1>1. CASE UNCHANGED vars
  <2>1. /\ UNCHANGED <<arenas, current, start, free, use, chunks, marked, at>>
        /\ Listed' = Listed /\ Idle' = Idle /\ Lent' = Lent
    BY <1>1 DEF vars, Listed, Idle, Lent
  <2>2. TypeOK'
    BY <2>1 DEF IInv, TypeOK
  <2>3. FreeListExact' /\ ChunkMaskExact' /\ NoEmptyArena' /\ UnlistedAsNew'
    BY <2>1 DEF IInv, FreeListExact, ChunkMaskExact, NoEmptyArena, UnlistedAsNew
  <2>4. CursorSkipsFull'
    BY <2>1 DEF IInv, CursorSkipsFull, Full
  <2>5. SweptSoFar'
    BY <2>1 DEF IInv, SweptSoFar
  <2> QED BY <2>2, <2>3, <2>4, <2>5 DEF IInv
<1>2. CASE Next
  BY <1>2, FromCurrentPreserves, FromNextPreserves, FromNewPreserves, FailsPreserves,
     BeginPreserves, BlockPreserves, KeptPreserves, FreedPreserves, EndPreserves DEF Next
<1> QED BY <1>1, <1>2

(* Every arena's free list and chunk mask agree with its use bits, and no  *)
(* empty arena outlives a sweep.                                           *)
THEOREM ArenasExact ==
  Spec => [](TypeOK /\ FreeListExact /\ ChunkMaskExact /\ NoEmptyArena)
<1>1. IInv => TypeOK /\ FreeListExact /\ ChunkMaskExact /\ NoEmptyArena
  BY DEF IInv
<1> QED BY <1>1, InitEstablishes, StepPreserves, PTL DEF Spec

(* A new arena is asked for only when every block of every arena is in use. *)
THEOREM PoolGrowsOnlyWhenFull == Spec => GrowsOnlyWhenFull
<1> DEFINE A == Len(arenas') > Len(arenas) => \A a \in Listed : use[a] = Index
<1>1. ASSUME IInv, [Next]_vars PROVE A
  <2>1. CASE \E a \in Arena : AllocateFromNew(a)
    <3>1. \A k \in 1 .. Len(arenas) : Full(arenas[k])
      BY <1>1, <2>1, ExhaustedMeansFull DEF AllocateFromNew
    <3>2. \A a \in Listed : a \in Arena /\ Full(a)
      BY <1>1, <3>1 DEF Listed, IInv, TypeOK
    <3>3. \A a \in Arena : Full(a) => Elements(free[a]) = {}
      <4>1. Elements(<<>>) = {}
        BY DEF Elements
      <4> QED BY <4>1 DEF Full
    <3>4. \A a \in Listed : use[a] \subseteq Index /\ Elements(free[a]) = Index \ use[a]
      BY <1>1, <3>2 DEF IInv, TypeOK, FreeListExact
    <3> QED BY <3>2, <3>3, <3>4
  <2>2. CASE \E a \in Arena : SweepArenaFreed(a)
    <3>1. at \in 1 .. Len(arenas) /\ arenas' = LastMovedTo(at)
      BY <2>2 DEF SweepArenaFreed, Swept
    <3>2. arenas \in Seq(Arena) /\ NoRepeat(arenas) /\ Len(arenas) \in Nat
      BY <1>1 DEF IInv, TypeOK
    <3>3. Len(arenas') = Len(arenas) - 1
      BY <3>1, <3>2, ListMoveLast
    <3> QED BY <3>2, <3>3
  <2>3. CASE ~(\E a \in Arena : AllocateFromNew(a) \/ SweepArenaFreed(a))
    <3>1. Len(arenas) \in Nat
      BY <1>1 DEF IInv, TypeOK
    <3>2. arenas' = arenas => A
      BY <3>1
    <3> SUFFICES arenas' = arenas
      BY <3>2
    <3>3. CASE \E a \in Arena : SweepArenaKept(a)
      BY <3>3 DEF SweepArenaKept
    <3>4. CASE \E a \in Arena, i \in Index : SweepBlock(a, i)
      BY <3>4 DEF SweepBlock
    <3>5. CASE \E i \in 1 .. Len(arenas) : AllocateFromNext(i)
      BY <3>5 DEF AllocateFromNext
    <3>6. CASE \E m \in SUBSET Lent : BeginSweep(m)
      BY <3>6 DEF BeginSweep
    <3>7. CASE AllocateFromCurrent \/ AllocateFails \/ EndSweep \/ UNCHANGED vars
      BY <3>7 DEF AllocateFromCurrent, AllocateFails, EndSweep, vars
    <3> QED BY <1>1, <2>3, <3>3, <3>4, <3>5, <3>6, <3>7 DEF Next
  <2> QED BY <2>1, <2>2, <2>3
<1>2. IInv /\ [Next]_vars => [A]_vars
  BY <1>1
<1> QED BY <1>2, InitEstablishes, StepPreserves, PTL DEF Spec, GrowsOnlyWhenFull

--------------------------------------------------------------------------------
(* Refinement. *)

Bar == IF Idle THEN Lent ELSE marked

LEMMA TakeLends ==
  ASSUME IInv, Idle, NEW a \in Arena, ~Full(a), Take(a), Listed' = Listed \cup {a}
  PROVE  [Pool!Next]_Bar
<1> DEFINE b == <<a, Head(free[a])>>
<1>1. Typed /\ ArenaExact(a)
  BY AllExact
<1>2. /\ Head(free[a]) \in Index \ use[a]
      /\ use'[a] = use[a] \cup {Head(free[a])}
      /\ \A c \in Arena : c # a => use'[c] = use[c]
      /\ UNCHANGED at
  BY <1>1, TakeEffect
<1>3. a \notin Listed => use[a] = {}
  BY DEF IInv, UnlistedAsNew
<1>4. b \in Arena \X Index /\ b \notin Lent
  BY <1>2 DEF Lent
<1>5. Lent' = Lent \cup {b}
  <2>1. Lent' \subseteq Lent \cup {b}
    <3> SUFFICES ASSUME NEW c \in Lent', c # b PROVE c \in Lent
      OBVIOUS
    <3>1. c \in Arena \X Index /\ c[1] \in Listed \cup {a} /\ c[2] \in use'[c[1]] /\ c = <<c[1], c[2]>>
      BY DEF Lent
    <3> QED BY <1>2, <1>3, <3>1 DEF Lent
  <2>2. Lent \subseteq Lent'
    <3> SUFFICES ASSUME NEW c \in Lent PROVE c \in Lent'
      OBVIOUS
    <3>1. c \in Arena \X Index /\ c[1] \in Listed /\ c[2] \in use[c[1]]
      BY DEF Lent
    <3>2. c[2] \in use'[c[1]]
      BY <1>2, <3>1
    <3> QED BY <3>1, <3>2 DEF Lent
  <2>3. b \in Lent'
    BY <1>2, <1>4 DEF Lent
  <2> QED BY <2>1, <2>2, <2>3
<1>6. Bar = Lent /\ Bar' = Lent'
  BY <1>2 DEF Bar, Idle
<1>7. Pool!Allocate(b)
  BY <1>4, <1>5, <1>6 DEF Pool!Allocate, Bar
<1> QED BY <1>4, <1>7 DEF Pool!Next

(* A block is never handed out twice, and a sweep takes back exactly the   *)
(* blocks that were not marked.                                            *)
THEOREM PoolCorrect == Spec => ImplementsPool
<1>1. Init => Pool!Init
  BY DEF Init, Pool!Init, Idle, Lent, Listed
<1>2. ASSUME IInv, [Next]_vars PROVE [Pool!Next]_Bar
  <2>1. CASE AllocateFromCurrent
    <3>1. /\ Idle /\ current # NoArena /\ ~Full(current) /\ Take(current) /\ arenas' = arenas
      BY <2>1 DEF AllocateFromCurrent, CurrentExhausted
    <3>2. current \in Arena /\ current \in Listed /\ Listed' = Listed
      BY <1>2, <3>1 DEF IInv, TypeOK, Listed
    <3> QED BY <1>2, <3>1, <3>2, TakeLends
  <2>2. ASSUME NEW i \in 1 .. Len(arenas), AllocateFromNext(i) PROVE [Pool!Next]_Bar
    <3>1. Idle /\ ~Full(arenas[i]) /\ Take(arenas[i]) /\ arenas' = arenas
      BY <2>2 DEF AllocateFromNext, FirstWithRoom
    <3>2. arenas[i] \in Arena /\ arenas[i] \in Listed /\ Listed' = Listed
      BY <1>2, <3>1 DEF IInv, TypeOK, Listed
    <3> QED BY <1>2, <3>1, <3>2, TakeLends
  <2>3. ASSUME NEW a \in Arena, AllocateFromNew(a) PROVE [Pool!Next]_Bar
    <3>1. Idle /\ Take(a) /\ a \notin Listed /\ arenas' = Append(arenas, a)
      BY <2>3 DEF AllocateFromNew
    <3>2. ~Full(a)
      BY <1>2, <3>1, FreshListExact DEF IInv, UnlistedAsNew, Full
    <3>3. arenas \in Seq(Arena) /\ NoRepeat(arenas) /\ a \notin Elements(arenas)
      BY <1>2, <3>1, ListedElements DEF IInv, TypeOK
    <3>4. Elements(Append(arenas, a)) = Elements(arenas) \cup {a}
      BY <3>3, ListAppend
    <3>5. Listed' = Listed \cup {a}
      BY <3>1, <3>4 DEF Listed, Elements
    <3> QED BY <1>2, <3>1, <3>2, <3>5, TakeLends
  <2>4. CASE AllocateFails
    BY <2>4 DEF AllocateFails, arenaVars, Bar, Idle, Lent, Listed
  <2>5. ASSUME NEW m \in SUBSET Lent, BeginSweep(m) PROVE [Pool!Next]_Bar
    <3>1. Bar = Lent /\ Bar' = m
      BY <2>5 DEF BeginSweep, Bar, Idle
    <3>2. Pool!Sweep(m)
      BY <3>1 DEF Pool!Sweep, Bar
    <3> QED BY <3>1, <3>2 DEF Pool!Next, Bar
  <2>6. ASSUME NEW a \in Arena, NEW i \in Index, SweepBlock(a, i) PROVE [Pool!Next]_Bar
    BY <2>6 DEF SweepBlock, Bar, Idle
  <2>7. ASSUME NEW a \in Arena, SweepArenaKept(a) \/ SweepArenaFreed(a) PROVE [Pool!Next]_Bar
    <3>1. at \in 1 .. Len(arenas) /\ at' \in {at, at + 1} /\ marked' = marked
      BY <2>7 DEF SweepArenaKept, SweepArenaFreed, Swept
    <3>2. ~Idle /\ ~Idle'
      BY <3>1 DEF Idle
    <3> QED BY <3>1, <3>2 DEF Bar
  <2>8. CASE EndSweep
    <3>1. at > Len(arenas) /\ at' = 0 /\ UNCHANGED <<arenas, free, use, chunks>>
      BY <2>8 DEF EndSweep, arenaVars
    <3>2. at \in Nat /\ Len(arenas) \in Nat
      BY <1>2 DEF IInv, TypeOK
    <3>3. ~Idle /\ Idle' /\ Lent' = Lent
      BY <3>1, <3>2 DEF Idle, Lent, Listed
    <3>4. \A k \in 1 .. Len(arenas) : k \in 1 .. at - 1
      BY <3>1, <3>2
    <3>5. Lent \subseteq marked
      <4> SUFFICES ASSUME NEW b \in Lent PROVE b \in marked
        OBVIOUS
      <4>1. b = <<b[1], b[2]>> /\ b[1] \in Listed /\ b[2] \in use[b[1]]
        BY DEF Lent
      <4>2. PICK k \in 1 .. Len(arenas) : b[1] = arenas[k]
        BY <4>1 DEF Listed
      <4> QED BY <1>2, <3>4, <4>1, <4>2 DEF IInv, SweptSoFar
    <3>6. marked \subseteq Lent
      BY <1>2, <3>3 DEF IInv, SweptSoFar
    <3> QED BY <3>3, <3>5, <3>6 DEF Bar
  <2>9. CASE UNCHANGED vars
    BY <2>9 DEF vars, Bar, Idle, Lent, Listed
  <2> QED BY <1>2, <2>1, <2>2, <2>3, <2>4, <2>5, <2>6, <2>7, <2>8, <2>9 DEF Next
<1>3. IInv /\ [Next]_vars => [Pool!Next]_Bar
  BY <1>2
<1> QED BY <1>1, <1>3, InitEstablishes, StepPreserves, PTL DEF Spec, ImplementsPool, Pool!PSpec, Bar
================================================================================
