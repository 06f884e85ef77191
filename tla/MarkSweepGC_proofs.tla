-------------------------- MODULE MarkSweepGC_proofs ---------------------------
(***************************************************************************)
(* For any addresses, fields and nesting: as long as only the host         *)
(* collects, the collector frees nothing that is still used, and queue,    *)
(* registry and weak handles stay exact.  When managed code collects too,  *)
(* but only while no activation uses a reference again, all of this holds  *)
(* but for the queue.                                                      *)
(***************************************************************************)
EXTENDS MarkSweepGC, SequenceTheorems, TLAPS

(* What the mark phase computes contains its roots and is closed under     *)
(* following fields.                                                       *)
LEMMA ReachContains ==
  ASSUME NEW S \in SUBSET Addr
  PROVE  S \subseteq Reach(S) /\ Reach(S) \subseteq Addr
BY DEF Reach

LEMMA ReachClosed ==
  ASSUME TypeOK, NEW S \in SUBSET Addr,
         NEW a \in Reach(S), NEW f \in Field
  PROVE  refs[a][f] \in Reach(S) \cup {Null}
<1>1. a \in Addr /\ refs[a][f] \in Addr \cup {Null}
  BY DEF Reach, TypeOK
<1>2. ASSUME refs[a][f] # Null,
             NEW T \in SUBSET Addr, S \subseteq T, Closed(T)
      PROVE  refs[a][f] \in T
  <2>1. a \in T
    BY <1>2 DEF Reach
  <2> QED BY <2>1, <1>2 DEF Closed
<1> QED BY <1>1, <1>2 DEF Reach

(* Marking from a closed set of live objects stays inside it.              *)
LEMMA ReachMinimal ==
  ASSUME NEW S \in SUBSET Addr, NEW T \in SUBSET Addr, S \subseteq T, Closed(T)
  PROVE  Reach(S) \subseteq T
BY DEF Reach

--------------------------------------------------------------------------------
(* The control stack. *)

CallsOK == calls \in Seq(Activation) /\ Depth \in Nat /\ Depth >= 1 /\ IsManaged(calls[1])

LEMMA TypeCalls == ASSUME TypeOK PROVE CallsOK
BY DEF TypeOK, CallsOK, Depth

LEMMA LocalsMember ==
  ASSUME CallsOK, NEW a
  PROVE  a \in Locals <=> \E i \in 1 .. Depth : IsManaged(calls[i]) /\ a \in calls[i].locals
BY DEF Locals, CallsOK

LEMMA TodoMember ==
  ASSUME CallsOK, NEW r
  PROVE  r \in Todo <=> \E i \in 1 .. Depth : ~IsManaged(calls[i]) /\ r \in calls[i].todo
BY DEF Todo, CallsOK

(* Another activation on top, in place of the top one.                     *)
LEMMA ReplaceTop ==
  ASSUME CallsOK, NEW f \in Activation, f.kind = Top.kind, calls' = WithTop(f)
  PROVE  /\ CallsOK' /\ Depth' = Depth
         /\ \A i \in 1 .. Depth : i # Depth => calls'[i] = calls[i]
         /\ calls'[Depth] = f
         /\ \A i \in 1 .. Depth : calls'[i].kind = calls[i].kind
BY DEF CallsOK, WithTop, Top, Depth, IsManaged

LEMMA ManagedTyped ==
  ASSUME NEW S \in SUBSET Addr
  PROVE  Managed(S) \in Activation /\ Managed(S).kind = "Managed" /\ Managed(S).locals = S
BY DEF Managed, Activation

LEMMA RunnerTyped ==
  ASSUME NEW S \in SUBSET Ref0, NEW k \in {"Collect", "Wait"}
  PROVE  Runner(k, S) \in Activation /\ Runner(k, S).kind = k /\ Runner(k, S).todo = S
BY DEF Runner, Activation

LEMMA ActivationFields ==
  ASSUME NEW f \in Activation
  PROVE  /\ f.kind \in {"Managed", "Collect", "Wait"}
         /\ IsManaged(f) => f.locals \in SUBSET Addr
         /\ ~IsManaged(f) => f.todo \in SUBSET Ref0
BY DEF Activation, IsManaged

(* Below a collection no activation uses a reference it held: so it is     *)
(* with collections at the host, and with those of managed code that       *)
(* collects only while Locals = {}.                                        *)
BareBelow ==
  \A i \in 1 .. Depth : calls[i].kind = "Collect" =>
    \A j \in 1 .. i - 1 : IsManaged(calls[j]) => calls[j].locals = {}

(* What the invariants need to know of a change of the control stack.      *)
StackKept(S, R) ==
  /\ CallsOK'
  /\ Locals' \subseteq Locals \cup S
  /\ Todo' \subseteq Todo \cup R
  /\ CollectIsSecond => CollectIsSecond'
  /\ CollectIsSecond /\ Collecting' => Collecting /\ calls'[1] = calls[1]
  /\ BareBelow => BareBelow'

LEMMA BelowKept ==
  ASSUME Depth \in Nat, Depth' = Depth,
         \A i \in 1 .. Depth : i # Depth => calls'[i] = calls[i],
         \A i \in 1 .. Depth : calls'[i].kind = calls[i].kind
  PROVE  BareBelow => BareBelow'
<1>1. \A i \in 1 .. Depth : \A j \in 1 .. i - 1 : calls'[j] = calls[j]
  OBVIOUS
<1> QED BY <1>1 DEF BareBelow, IsManaged

LEMMA SameStack ==
  ASSUME CallsOK, UNCHANGED calls
  PROVE  StackKept({}, {})
BY DEF StackKept, CallsOK, Locals, Todo, CollectIsSecond, Collecting, BareBelow, Depth, IsManaged

LEMMA ManagedTop ==
  ASSUME CallsOK, IsManaged(Top), NEW S \in SUBSET Addr,
         calls' = WithTop(Managed(S))
  PROVE  StackKept(S, {})
<1>1. /\ CallsOK' /\ Depth' = Depth
      /\ \A i \in 1 .. Depth : i # Depth => calls'[i] = calls[i]
      /\ calls'[Depth] = Managed(S)
      /\ \A i \in 1 .. Depth : calls'[i].kind = calls[i].kind
  BY ManagedTyped, ReplaceTop DEF IsManaged
<1>2. Depth \in Nat /\ Depth >= 1 /\ IsManaged(calls[Depth])
  BY DEF CallsOK, Top
<1>3. Locals' \subseteq Locals \cup S
  <2>1. \A a : a \in Locals' <=> \E i \in 1 .. Depth : IsManaged(calls'[i]) /\ a \in calls'[i].locals
    BY <1>1 DEF Locals, IsManaged
  <2> QED BY <2>1, <1>1, <1>2, LocalsMember, ManagedTyped DEF IsManaged
<1>4. Todo' \subseteq Todo
  <2>1. \A r : r \in Todo' <=> \E i \in 1 .. Depth : ~IsManaged(calls'[i]) /\ r \in calls'[i].todo
    BY <1>1 DEF Todo, IsManaged
  <2> QED BY <2>1, <1>1, <1>2, TodoMember DEF IsManaged
<1>5. CollectIsSecond => CollectIsSecond'
  BY <1>1 DEF CollectIsSecond
<1>6. CollectIsSecond /\ Collecting' => Collecting /\ calls'[1] = calls[1]
  BY <1>1, <1>2 DEF Collecting, CollectIsSecond, IsManaged
<1>7. BareBelow => BareBelow'
  BY <1>1, <1>2, BelowKept
<1> QED BY <1>1, <1>3, <1>4, <1>5, <1>6, <1>7 DEF StackKept

LEMMA RunnerTop ==
  ASSUME CallsOK, ~IsManaged(Top), NEW R \in SUBSET Ref0,
         calls' = WithTop(Runner(Top.kind, R))
  PROVE  StackKept({}, R)
<1>0. Depth \in Nat /\ Depth >= 1 /\ Top \in Activation /\ Top.kind \in {"Collect", "Wait"}
  BY ActivationFields DEF CallsOK, Top, Depth, IsManaged
<1>1. /\ CallsOK' /\ Depth' = Depth
      /\ \A i \in 1 .. Depth : i # Depth => calls'[i] = calls[i]
      /\ calls'[Depth] = Runner(Top.kind, R)
      /\ \A i \in 1 .. Depth : calls'[i].kind = calls[i].kind
  BY <1>0, RunnerTyped, ReplaceTop
<1>2. Depth # 1
  BY <1>0 DEF CallsOK, Top
<1>3. Locals' \subseteq Locals
  <2>1. \A a : a \in Locals' <=> \E i \in 1 .. Depth : IsManaged(calls'[i]) /\ a \in calls'[i].locals
    BY <1>1 DEF Locals, IsManaged
  <2> QED BY <2>1, <1>0, <1>1, LocalsMember DEF IsManaged, Top
<1>4. Todo' \subseteq Todo \cup R
  <2>1. \A r : r \in Todo' <=> \E i \in 1 .. Depth : ~IsManaged(calls'[i]) /\ r \in calls'[i].todo
    BY <1>1 DEF Todo, IsManaged
  <2> QED BY <2>1, <1>0, <1>1, TodoMember, RunnerTyped DEF IsManaged, Top
<1>5. CollectIsSecond => CollectIsSecond'
  BY <1>1 DEF CollectIsSecond
<1>6. CollectIsSecond /\ Collecting' => Collecting /\ calls'[1] = calls[1]
  BY <1>0, <1>1, <1>2 DEF Collecting
<1>7. BareBelow => BareBelow'
  BY <1>0, <1>1, BelowKept
<1> QED BY <1>1, <1>3, <1>4, <1>5, <1>6, <1>7 DEF StackKept

LEMMA FrontOf ==
  ASSUME NEW S, NEW s \in Seq(S), Len(s) # 0
  PROVE  LET front == SubSeq(s, 1, Len(s) - 1)
         IN  /\ front \in Seq(S) /\ Len(front) = Len(s) - 1
             /\ \A i \in 1 .. Len(s) - 1 : front[i] = s[i]
<1>1. Len(s) \in Nat /\ \A i \in 1 .. Len(s) : s[i] \in S
  OBVIOUS
<1>2. PICK n \in Int : n = Len(s) - 1
  BY <1>1
<1>3. 0 <= n /\ \A i \in 1 .. n : s[i] \in S
  BY <1>1, <1>2
<1>4. /\ SubSeq(s, 1, n) \in Seq(S)
      /\ Len(SubSeq(s, 1, n)) = IF 1 <= n THEN n - 1 + 1 ELSE 0
      /\ \A i \in 1 .. n - 1 + 1 : SubSeq(s, 1, n)[i] = s[1 + i - 1]
  BY <1>3, SubSeqProperties
<1> QED BY <1>2, <1>3, <1>4

LEMMA PopStack ==
  ASSUME CallsOK, Depth # 1, calls' = Popped
  PROVE  StackKept({}, {})
<1>1. /\ calls' \in Seq(Activation) /\ Depth' = Depth - 1 /\ Depth' \in Nat /\ Depth' >= 1
      /\ \A i \in 1 .. Depth - 1 : calls'[i] = calls[i]
  BY FrontOf DEF CallsOK, Popped, Depth
<1>2. Depth \in Nat /\ IsManaged(calls[1])
  BY DEF CallsOK
<1>3. CallsOK'
  BY <1>1, <1>2 DEF CallsOK, IsManaged
<1>4. Locals' \subseteq Locals
  <2>1. \A a : a \in Locals' <=> \E i \in 1 .. Depth - 1 : IsManaged(calls'[i]) /\ a \in calls'[i].locals
    BY <1>1 DEF Locals, IsManaged
  <2> QED BY <2>1, <1>1, <1>2, LocalsMember DEF IsManaged
<1>5. Todo' \subseteq Todo
  <2>1. \A r : r \in Todo' <=> \E i \in 1 .. Depth - 1 : ~IsManaged(calls'[i]) /\ r \in calls'[i].todo
    BY <1>1 DEF Todo, IsManaged
  <2> QED BY <2>1, <1>1, <1>2, TodoMember DEF IsManaged
<1>6. CollectIsSecond => CollectIsSecond'
  BY <1>1, <1>2 DEF CollectIsSecond
<1>7. CollectIsSecond /\ Collecting' => Collecting /\ calls'[1] = calls[1]
  BY <1>1, <1>2 DEF Collecting
<1>8. BareBelow => BareBelow'
  <2>1. \A i \in 1 .. Depth' : i \in 1 .. Depth /\ calls'[i] = calls[i]
    BY <1>1, <1>2
  <2>2. \A i \in 1 .. Depth' : \A j \in 1 .. i - 1 : calls'[j] = calls[j]
    BY <1>1, <1>2
  <2> QED BY <2>1, <2>2 DEF BareBelow, IsManaged
<1> QED BY <1>3, <1>4, <1>5, <1>6, <1>7, <1>8 DEF StackKept

LEMMA TopTwo ==
  ASSUME NEW n \in Nat, n >= 1, n # 1
  PROVE  /\ \A i \in 1 .. n + 1 : (i \in 1 .. n /\ i # n) \/ i = n \/ i = n + 1
         /\ n \in 1 .. n /\ n + 1 # 2 /\ 1 \in 1 .. n /\ n + 1 # 1
OBVIOUS

(* A runner calls a finalizer. *)
LEMMA CallFinalizer ==
  ASSUME CallsOK, ~IsManaged(Top),
         NEW R \in SUBSET Ref0, NEW S \in SUBSET Addr,
         calls' = Append(WithTop(Runner(Top.kind, R)), Managed(S))
  PROVE  StackKept(S, R)
<1>0. Depth \in Nat /\ Depth >= 1 /\ Top \in Activation /\ Top.kind \in {"Collect", "Wait"}
  BY ActivationFields DEF CallsOK, Top, Depth, IsManaged
<1>1. /\ CallsOK' /\ Depth' = Depth + 1
      /\ \A i \in 1 .. Depth : i # Depth => calls'[i] = calls[i]
      /\ calls'[Depth] = Runner(Top.kind, R)
      /\ calls'[Depth + 1] = Managed(S)
  <2>1. Runner(Top.kind, R) \in Activation /\ Managed(S) \in Activation
    BY <1>0, RunnerTyped, ManagedTyped
  <2>2. Depth # 1
    BY DEF CallsOK, Top
  <2> DEFINE b == WithTop(Runner(Top.kind, R))
  <2>3. /\ b \in Seq(Activation) /\ Len(b) = Depth
        /\ \A i \in 1 .. Depth : i # Depth => b[i] = calls[i]
        /\ b[Depth] = Runner(Top.kind, R)
    BY <1>0, <2>1 DEF WithTop, CallsOK, Depth
  <2>4. /\ calls' \in Seq(Activation) /\ Len(calls') = Depth + 1
        /\ \A i \in 1 .. Depth : calls'[i] = b[i]
        /\ calls'[Depth + 1] = Managed(S)
    <3> HIDE DEF b
    <3>1. calls' = Append(b, Managed(S))
      BY DEF b
    <3> QED BY <3>1, <2>1, <2>3, AppendProperties
  <2> QED BY <1>0, <2>2, <2>3, <2>4 DEF CallsOK, Depth
<1>2. Depth # 1
  BY DEF CallsOK, Top
<1>3. /\ Runner(Top.kind, R).kind = Top.kind /\ Runner(Top.kind, R).todo = R
      /\ Managed(S).kind = "Managed" /\ Managed(S).locals = S
  BY <1>0, RunnerTyped, ManagedTyped
<1>a. /\ calls'[Depth].kind = Top.kind /\ calls'[Depth].todo = R /\ Top.kind = calls[Depth].kind
      /\ calls'[Depth + 1].kind = "Managed" /\ calls'[Depth + 1].locals = S
      /\ Top.kind # "Managed"
  BY <1>0, <1>1, <1>3 DEF Top
<1>b. /\ Depth \in Nat /\ CallsOK' /\ Depth' = Depth + 1 /\ Depth # 1 /\ Depth >= 1
      /\ \A i \in 1 .. Depth : i # Depth => calls'[i] = calls[i]
  BY <1>0, <1>1, <1>2
<1>c. /\ \A i \in 1 .. Depth + 1 : (i \in 1 .. Depth /\ calls'[i] = calls[i]) \/ i = Depth \/ i = Depth + 1
      /\ Depth \in 1 .. Depth /\ Depth + 1 # 2 /\ 1 \in 1 .. Depth /\ Depth + 1 # 1
  <2>1. Depth \in Nat /\ Depth >= 1 /\ Depth # 1
    BY <1>b
  <2>2. \A i \in 1 .. Depth : i # Depth => calls'[i] = calls[i]
    BY <1>b
  <2> QED BY <2>1, <2>2, TopTwo
<1>d. \A i \in 1 .. Depth' : calls'[i].kind = "Collect" =>
        i \in 1 .. Depth /\ calls[i].kind = "Collect"
  BY <1>a, <1>b, <1>c
<1>4. Locals' \subseteq Locals \cup S
  <2>1. \A a : a \in Locals' <=> \E i \in 1 .. Depth + 1 : IsManaged(calls'[i]) /\ a \in calls'[i].locals
    BY <1>1 DEF Locals, IsManaged
  <2> QED BY <2>1, <1>a, <1>c, LocalsMember DEF IsManaged
<1>5. Todo' \subseteq Todo \cup R
  <2>1. \A r : r \in Todo' <=> \E i \in 1 .. Depth + 1 : ~IsManaged(calls'[i]) /\ r \in calls'[i].todo
    BY <1>1 DEF Todo, IsManaged
  <2> QED BY <2>1, <1>a, <1>c, TodoMember DEF IsManaged
<1>6. CollectIsSecond => CollectIsSecond'
  BY <1>d DEF CollectIsSecond
<1>7. CollectIsSecond /\ Collecting' => Collecting /\ calls'[1] = calls[1]
  <2>1. calls'[1] = calls[1]
    BY <1>b, <1>c
  <2> QED BY <1>d, <2>1 DEF Collecting
<1>8. BareBelow => BareBelow'
  <2>1. \A i \in 1 .. Depth : \A j \in 1 .. i - 1 : j \in 1 .. Depth /\ j # Depth
    BY <1>b
  <2>2. \A i \in 1 .. Depth : \A j \in 1 .. i - 1 : calls'[j] = calls[j]
    BY <1>b, <2>1
  <2> QED BY <1>d, <2>2 DEF BareBelow, IsManaged
<1> QED BY <1>1, <1>4, <1>5, <1>6, <1>7, <1>8 DEF StackKept

(* A collection or a wait starts to work through what was queued.          *)
LEMMA StartRunner ==
  ASSUME CallsOK, NEW R \in SUBSET Ref0, NEW k \in {"Collect", "Wait"},
         calls' = Pushed(Runner(k, R))
  PROVE  /\ CallsOK' /\ Locals' \subseteq Locals /\ Todo' \subseteq Todo \cup R
         /\ Depth' = Depth + 1
         /\ \A i \in 1 .. Depth : calls'[i] = calls[i]
         /\ calls'[Depth + 1].kind = k
         /\ BareBelow /\ (k = "Collect" => Locals = {}) => BareBelow'
<1>1. /\ CallsOK' /\ Depth' = Depth + 1
      /\ \A i \in 1 .. Depth : calls'[i] = calls[i]
      /\ calls'[Depth + 1] = Runner(k, R)
  <2>1. Runner(k, R) \in Activation
    BY RunnerTyped
  <2> QED BY <2>1, AppendProperties DEF CallsOK, Pushed, Depth
<1>2. Depth \in Nat /\ Runner(k, R).kind = k /\ Runner(k, R).todo = R
  BY RunnerTyped DEF CallsOK
<1>3. Locals' \subseteq Locals
  <2>1. \A a : a \in Locals' <=> \E i \in 1 .. Depth + 1 : IsManaged(calls'[i]) /\ a \in calls'[i].locals
    BY <1>1 DEF Locals, IsManaged
  <2> QED BY <2>1, <1>1, <1>2, LocalsMember DEF IsManaged
<1>4. Todo' \subseteq Todo \cup R
  <2>1. \A r : r \in Todo' <=> \E i \in 1 .. Depth + 1 : ~IsManaged(calls'[i]) /\ r \in calls'[i].todo
    BY <1>1 DEF Todo, IsManaged
  <2> QED BY <2>1, <1>1, <1>2, TodoMember DEF IsManaged
<1>5. ASSUME BareBelow, k = "Collect" => Locals = {} PROVE BareBelow'
  <2>1. SUFFICES ASSUME NEW i \in 1 .. Depth', calls'[i].kind = "Collect",
                        NEW j \in 1 .. i - 1, IsManaged(calls'[j])
                 PROVE  calls'[j].locals = {}
    BY DEF BareBelow, IsManaged
  <2>2. j \in 1 .. Depth /\ calls'[j] = calls[j]
    BY <1>1, <1>2
  <2>3. CASE i = Depth + 1
    <3>1. Locals = {}
      BY <1>1, <1>2, <1>5, <2>1, <2>3
    <3>2. \A a : a \notin calls[j].locals
      BY <2>1, <2>2, <3>1, LocalsMember DEF IsManaged
    <3>3. calls[j] \in Activation /\ IsManaged(calls[j])
      BY <2>1, <2>2 DEF CallsOK, Depth, IsManaged
    <3>4. calls[j].locals \in SUBSET Addr
      BY <3>3, ActivationFields
    <3> QED BY <2>2, <3>2, <3>4
  <2>4. CASE i # Depth + 1
    <3>1. i \in 1 .. Depth /\ calls'[i] = calls[i]
      BY <1>1, <1>2, <2>4
    <3> QED BY <1>5, <2>1, <2>2, <3>1 DEF BareBelow, IsManaged
  <2> QED BY <2>3, <2>4
<1> QED BY <1>1, <1>2, <1>3, <1>4, <1>5

--------------------------------------------------------------------------------
(* Preservation. *)

(* What both invariants say of the heap; what they add is about the queue  *)
(* and the control stack.                                                  *)
Core ==
  TypeOK /\ NoDangling /\ RegistryExact /\ WeakFaithful /\ FreeMemoryZeroed

Kept == Core' /\ (BareBelow => BareBelow') /\ (IInv => IInv')

LEMMA InitEstablishes == Init => IInv /\ Core /\ BareBelow
<1> SUFFICES ASSUME Init PROVE IInv /\ Core /\ BareBelow
  OBVIOUS
<1>1. /\ Managed({}) \in Activation /\ IsManaged(Managed({})) /\ Managed({}).locals = {}
      /\ Managed({}).kind # "Collect"
  BY ManagedTyped DEF IsManaged
<1>2. /\ calls \in Seq(Activation) /\ Depth = 1 /\ calls[1] = Managed({})
  BY <1>1 DEF Init, Depth
<1>3. TypeOK
  <2>1. MaxSerial \in Nat
    BY BoundsAssumption
  <2> QED BY <1>1, <1>2, <2>1 DEF Init, TypeOK, Ref0, NoFields
<1>4. Locals = {} /\ Todo = {}
  BY <1>1, <1>2 DEF Locals, Todo
<1>5. /\ NoDangling /\ PendingIntact /\ RegistryExact /\ WeakFaithful
  BY <1>4 DEF Init, NoDangling, PendingIntact, Pending, RegistryExact, WeakFaithful
<1>6. CollectIsSecond /\ CollectIsQuiet
  BY <1>1, <1>2 DEF CollectIsSecond, CollectIsQuiet, Collecting, Init
<1>7. FreeMemoryZeroed
  BY DEF Init, FreeMemoryZeroed
<1>8. BareBelow
  BY <1>1, <1>2 DEF BareBelow
<1> QED BY <1>3, <1>5, <1>6, <1>7, <1>8 DEF IInv, Core

(* Steps of the mutator and of the runners leave every object where it is. *)
LEMMA HeapKept ==
  ASSUME Core, UNCHANGED <<heap, fin, serial>>, enabled' \in BOOLEAN,
         NEW S \in SUBSET heap, NEW R \in SUBSET Pending, StackKept(S, R),
         DOMAIN reg' = DOMAIN reg,
         reg' \in [DOMAIN reg' -> {"Active", "Suppressed", "Finalized"}],
         refs' \in [Addr -> [Field -> Addr \cup {Null}]],
         \A a \in Addr \ heap : refs'[a] = refs[a],
         \A a \in heap, f \in Field : refs'[a][f] \in heap \cup {Null},
         roots' \subseteq heap, freach' \subseteq freach,
         \A r \in weak' : r \in weak \/ (r \in Ref0 /\ r[1] \in heap /\ serial[r[1]] = r[2])
  PROVE  Kept
<1>1. TypeOK'
  BY DEF Core, TypeOK, StackKept, CallsOK
<1>2. NoDangling'
  BY DEF Core, NoDangling, StackKept
<1>3. RegistryExact'
  BY DEF Core, RegistryExact
<1>4. WeakFaithful'
  BY DEF Core, WeakFaithful
<1>5. FreeMemoryZeroed'
  BY DEF Core, FreeMemoryZeroed
<1>6. ASSUME IInv PROVE PendingIntact' /\ CollectIsSecond' /\ CollectIsQuiet'
  <2>1. PendingIntact'
    BY <1>6 DEF IInv, PendingIntact, Pending, StackKept
  <2> QED BY <1>6, <2>1 DEF IInv, CollectIsQuiet, StackKept
<1>7. BareBelow => BareBelow'
  BY DEF StackKept
<1> QED BY <1>1, <1>2, <1>3, <1>4, <1>5, <1>6, <1>7 DEF IInv, Core, Kept

LEMMA TopHeld ==
  ASSUME Core
  PROVE  /\ CallsOK
         /\ IsManaged(Top) => Top.locals \subseteq heap /\ Top.locals \in SUBSET Addr
         /\ ~IsManaged(Top) => /\ Top.todo \subseteq Todo /\ Top.todo \in SUBSET Ref0
                               /\ Top.kind \in {"Collect", "Wait"} /\ Depth # 1
         /\ Todo \subseteq Pending /\ heap \subseteq Addr
<1>1. CallsOK
  BY TypeCalls DEF Core
<1>2. Depth \in 1 .. Depth /\ Top = calls[Depth] /\ Top \in Activation
  BY <1>1 DEF CallsOK, Top, Depth
<1>3. IsManaged(Top) => Top.locals \subseteq heap /\ Top.locals \in SUBSET Addr
  BY <1>1, <1>2, ActivationFields, LocalsMember DEF Core, NoDangling
<1>4. ~IsManaged(Top) => /\ Top.todo \subseteq Todo /\ Top.todo \in SUBSET Ref0
                         /\ Top.kind \in {"Collect", "Wait"} /\ Depth # 1
  <2>1. ~IsManaged(Top) => Depth # 1
    BY <1>1, <1>2 DEF CallsOK
  <2>2. ~IsManaged(Top) => Top.todo \in SUBSET Ref0 /\ Top.kind \in {"Collect", "Wait"}
    BY <1>2, ActivationFields DEF IsManaged
  <2> QED BY <1>1, <1>2, <2>1, <2>2, TodoMember
<1> QED BY <1>1, <1>3, <1>4 DEF Pending, Core, TypeOK

LEMMA HoldPreserves ==
  ASSUME Core, IsManaged(Top), NEW S \in SUBSET heap,
         calls' = WithTop(Managed(S)),
         UNCHANGED <<heap, refs, roots, weak, mutVars>>
  PROVE  Kept
<1>1. StackKept(S, {})
  BY TopHeld, ManagedTop
<1>2. {} \in SUBSET Pending
  OBVIOUS
<1> QED BY <1>1, <1>2, HeapKept DEF Core, TypeOK, NoDangling, WeakFaithful, mutVars

LEMMA LoadPreserves ==
  ASSUME Core,
         \/ \E a \in Addr, f \in Field : LoadField(a, f)
         \/ \E a \in Addr : LoadRoot(a) \/ DropLocal(a)
         \/ \E r \in weak : LoadWeakHandle(r)
  PROVE  Kept
<1>1. ASSUME NEW a \in Addr, NEW f \in Field, LoadField(a, f) PROVE Kept
  <2>1. Top.locals \cup {refs[a][f]} \in SUBSET heap
    BY <1>1, TopHeld DEF LoadField, Core, NoDangling
  <2> QED BY <1>1, <2>1, HoldPreserves DEF LoadField, Hold
<1>2. ASSUME NEW a \in Addr, LoadRoot(a) PROVE Kept
  <2>1. Top.locals \cup {a} \in SUBSET heap
    BY <1>2, TopHeld DEF LoadRoot, Core, NoDangling
  <2> QED BY <1>2, <2>1, HoldPreserves DEF LoadRoot, Hold
<1>3. ASSUME NEW r \in weak, LoadWeakHandle(r) PROVE Kept
  <2>1. Top.locals \cup {r[1]} \in SUBSET heap
    BY <1>3, TopHeld DEF LoadWeakHandle, Core, WeakFaithful
  <2> QED BY <1>3, <2>1, HoldPreserves DEF LoadWeakHandle, Hold
<1>4. ASSUME NEW a \in Addr, DropLocal(a) PROVE Kept
  <2>1. Top.locals \ {a} \in SUBSET heap
    BY <1>4, TopHeld DEF DropLocal
  <2> QED BY <1>4, <2>1, HoldPreserves DEF DropLocal
<1> QED BY <1>1, <1>2, <1>3, <1>4

(* Steps that change a field, a root, a weak handle, a registration or     *)
(* the mode, and no activation.                                            *)
LEMMA StoreFieldPreserves ==
  ASSUME Core, NEW a \in Addr, NEW f \in Field, NEW b \in Addr \cup {Null}, StoreField(a, f, b)
  PROVE  Kept
<1>1. StackKept({}, {}) /\ {} \in SUBSET heap /\ {} \in SUBSET Pending
  BY TopHeld, SameStack DEF StoreField
<1>2. b \in heap \cup {Null}
  BY TopHeld DEF StoreField
<1>3. refs' \in [Addr -> [Field -> Addr \cup {Null}]]
  BY DEF Core, TypeOK, StoreField
<1>4. \A c \in heap, g \in Field : refs'[c][g] \in heap \cup {Null}
  BY <1>2 DEF Core, TypeOK, NoDangling, StoreField
<1>5. \A c \in Addr \ heap : refs'[c] = refs[c]
  BY TopHeld DEF Core, TypeOK, StoreField
<1> QED BY <1>1, <1>3, <1>4, <1>5, HeapKept
        DEF Core, TypeOK, NoDangling, WeakFaithful, mutVars, StoreField

LEMMA RootPreserves ==
  ASSUME Core, NEW a \in Addr, StoreRoot(a) \/ ClearRoot(a)
  PROVE  Kept
<1>1. StackKept({}, {}) /\ {} \in SUBSET heap /\ {} \in SUBSET Pending
  BY TopHeld, SameStack DEF StoreRoot, ClearRoot
<1>2. roots' \subseteq heap
  BY TopHeld DEF StoreRoot, ClearRoot, Core, NoDangling
<1> QED BY <1>1, <1>2, HeapKept DEF Core, TypeOK, NoDangling, WeakFaithful, mutVars, StoreRoot, ClearRoot

LEMMA WeakPreserves ==
  ASSUME Core,
         \/ \E a \in Addr : NewWeakHandle(a)
         \/ \E r \in weak : FreeWeakHandle(r)
  PROVE  Kept
<1>1. ASSUME NEW a \in Addr, NewWeakHandle(a) PROVE Kept
  <2>1. StackKept({}, {}) /\ {} \in SUBSET heap /\ {} \in SUBSET Pending
    BY <1>1, TopHeld, SameStack DEF NewWeakHandle
  <2>2. a \in heap /\ Ref(a) \in Ref0 /\ Ref(a)[1] = a /\ Ref(a)[2] = serial[a]
    BY <1>1, TopHeld DEF NewWeakHandle, Ref, Ref0, Core, TypeOK
  <2> QED BY <1>1, <2>1, <2>2, HeapKept
          DEF Core, TypeOK, NoDangling, WeakFaithful, mutVars, NewWeakHandle
<1>2. ASSUME NEW r \in weak, FreeWeakHandle(r) PROVE Kept
  <2>1. StackKept({}, {}) /\ {} \in SUBSET heap /\ {} \in SUBSET Pending
    BY <1>2, TopHeld, SameStack DEF FreeWeakHandle
  <2> QED BY <1>2, <2>1, HeapKept
          DEF Core, TypeOK, NoDangling, WeakFaithful, mutVars, FreeWeakHandle
<1> QED BY <1>1, <1>2

LEMMA RegistrationPreserves ==
  ASSUME Core, NEW a \in Addr, Suppress(a) \/ Reregister(a)
  PROVE  Kept
<1>1. StackKept({}, {}) /\ {} \in SUBSET heap /\ {} \in SUBSET Pending
  BY TopHeld, SameStack DEF Suppress, Reregister
<1>2. a \in heap \cap fin
  BY TopHeld DEF Suppress, Reregister
<1>3. DOMAIN reg' = DOMAIN reg
  BY <1>2 DEF Suppress, Reregister, Core, RegistryExact
<1>4. reg' \in [DOMAIN reg' -> {"Active", "Suppressed", "Finalized"}]
  BY DEF Suppress, Reregister, Core, TypeOK
<1> QED BY <1>1, <1>3, <1>4, HeapKept
        DEF Core, TypeOK, NoDangling, WeakFaithful, Suppress, Reregister

LEMMA SetModePreserves ==
  ASSUME Core, NEW on \in BOOLEAN, SetMode(on)
  PROVE  Kept
<1>1. StackKept({}, {}) /\ {} \in SUBSET heap /\ {} \in SUBSET Pending
  BY TopHeld, SameStack DEF SetMode
<1> QED BY <1>1, HeapKept DEF Core, TypeOK, NoDangling, WeakFaithful, SetMode

LEMMA ReturnPreserves ==
  ASSUME Core, ReturnToHost \/ FinalizerReturns \/ WaitReturns
  PROVE  Kept
<1>1. {} \in SUBSET heap /\ {} \in SUBSET Pending /\ CallsOK
  BY TopHeld
<1>2. CASE ReturnToHost
  <2>1. calls' = WithTop(Managed({})) /\ IsManaged(Top)
    <3>1. calls \in Seq(Activation) /\ Len(calls) = 1
      BY <1>1, <1>2 DEF CallsOK, ReturnToHost, Depth
    <3>2. calls' = <<Managed({})>>
      BY <1>2 DEF ReturnToHost
    <3> QED BY <1>1, <3>1, <3>2 DEF WithTop, Depth, CallsOK, Top
  <2>2. StackKept({}, {})
    BY <1>1, <2>1, ManagedTop
  <2> QED BY <1>1, <1>2, <2>2, HeapKept
          DEF Core, TypeOK, NoDangling, WeakFaithful, mutVars, ReturnToHost
<1>3. CASE FinalizerReturns \/ WaitReturns
  <2>1. Depth # 1 /\ calls' = Popped
    <3>1. Depth \in Nat
      BY <1>1 DEF CallsOK
    <3>2. WaitReturns => ~IsManaged(Top)
      BY DEF WaitReturns, IsManaged
    <3> QED BY <1>3, <3>1, <3>2, TopHeld DEF FinalizerReturns, WaitReturns
  <2>2. StackKept({}, {})
    BY <1>1, <2>1, PopStack
  <2>3. UNCHANGED <<heap, refs, fin, serial, roots, weak, reg, freach, enabled>>
    BY <1>3 DEF FinalizerReturns, WaitReturns, mutVars
  <2> QED BY <1>1, <2>2, <2>3, HeapKept DEF Core, TypeOK, NoDangling, WeakFaithful
<1> QED BY <1>2, <1>3

LEMMA RunnerPreserves ==
  ASSUME Core, NEW r \in Todo, SkipPending(r) \/ RunFinalizer(r)
  PROVE  Kept
<1>1. ~IsManaged(Top) /\ CallsOK
  BY TopHeld DEF SkipPending, RunFinalizer
<1>2. Top.todo \ {r} \in SUBSET Ref0 /\ Top.todo \ {r} \in SUBSET Pending
  BY <1>1, TopHeld
<1>4. CASE SkipPending(r)
  <2>1. StackKept({}, Top.todo \ {r})
    BY <1>1, <1>2, <1>4, RunnerTop DEF SkipPending
  <2> QED BY <1>2, <1>4, <2>1, HeapKept
          DEF Core, TypeOK, NoDangling, WeakFaithful, SkipPending
<1>5. CASE RunFinalizer(r)
  <2>1. {r[1]} \in SUBSET heap /\ {r[1]} \in SUBSET Addr
    BY <1>5, TopHeld DEF RunFinalizer, Core, RegistryExact
  <2>2. StackKept({r[1]}, Top.todo \ {r})
    BY <1>1, <1>2, <1>5, <2>1, CallFinalizer DEF RunFinalizer
  <2>3. DOMAIN reg' = DOMAIN reg /\ reg' \in [DOMAIN reg' -> {"Active", "Suppressed", "Finalized"}]
    BY <1>5 DEF RunFinalizer, Core, TypeOK
  <2> QED BY <1>2, <1>5, <2>1, <2>2, <2>3, HeapKept
          DEF Core, TypeOK, NoDangling, WeakFaithful, RunFinalizer
<1> QED BY <1>4, <1>5

(* The queue moves to a runner.  A wait cannot begin inside a collection,  *)
(* where the queue is empty; a collection begins at the host only.         *)
LEMMA StartPreserves ==
  ASSUME IInv, Wait \/ HostCollect
  PROVE  IInv'
<1>1. CallsOK /\ Depth \in Nat /\ Depth >= 1 /\ freach \in SUBSET Ref0
  BY TypeCalls DEF IInv, TypeOK, CallsOK
<1>2. PICK k \in {"Collect", "Wait"} :
         /\ calls' = Pushed(Runner(k, freach)) /\ freach' = {}
         /\ UNCHANGED <<heap, refs, fin, serial, roots, weak, reg, enabled>>
         /\ k = "Wait" => freach # {}
         /\ k = "Collect" => AtHost
  BY DEF Wait, HostCollect, StartCollect
<1>3. /\ CallsOK' /\ Locals' \subseteq Locals /\ Todo' \subseteq Todo \cup freach
      /\ Depth' = Depth + 1
      /\ \A i \in 1 .. Depth : calls'[i] = calls[i]
      /\ calls'[Depth + 1].kind = k
  BY <1>1, <1>2, StartRunner
<1>4. CollectIsSecond' /\ CollectIsQuiet'
  <2>1. CASE k = "Wait"
    <3>1. ~Collecting
      BY <1>2, <2>1 DEF IInv, CollectIsQuiet
    <3>2. ~Collecting'
      BY <1>1, <1>3, <2>1, <3>1 DEF Collecting
    <3> QED BY <3>2 DEF CollectIsSecond, CollectIsQuiet, Collecting
  <2>2. CASE k = "Collect"
    <3>1. Depth = 1 /\ calls[1] = Managed({})
      BY <1>2, <2>2 DEF AtHost, Depth
    <3>2. calls'[1].locals = {} /\ calls'[1].kind = "Managed"
      BY <1>3, <3>1, ManagedTyped
    <3>3. CollectIsSecond'
      BY <1>3, <3>1, <3>2 DEF CollectIsSecond
    <3> QED BY <1>2, <3>2, <3>3 DEF CollectIsQuiet
  <2> QED BY <2>1, <2>2
<1>5. TypeOK'
  BY <1>2, <1>3 DEF IInv, TypeOK, CallsOK
<1>6. NoDangling' /\ PendingIntact' /\ RegistryExact' /\ WeakFaithful' /\ FreeMemoryZeroed'
  BY <1>2, <1>3
  DEF IInv, NoDangling, PendingIntact, Pending, RegistryExact, WeakFaithful, FreeMemoryZeroed
<1> QED BY <1>4, <1>5, <1>6 DEF IInv

LEMMA AllocatePreserves ==
  ASSUME Core, NEW a \in Addr, NEW h \in BOOLEAN, Allocate(a, h)
  PROVE  Kept
<1>1. /\ IsManaged(Top) /\ a \notin heap /\ heap' = heap \cup {a}
      /\ Top.locals \cup {a} \in SUBSET Addr
      /\ calls' = WithTop(Managed(Top.locals \cup {a}))
      /\ UNCHANGED <<refs, roots, weak, freach, enabled>>
  BY TopHeld DEF Allocate, Hold
<1>2. StackKept(Top.locals \cup {a}, {})
  BY <1>1, TopHeld, ManagedTop
<1>3. /\ \A b \in Addr : b # a => serial'[b] = serial[b] /\ refs'[b] = refs[b]
      /\ serial' \in [Addr -> 0 .. MaxSerial]
      /\ refs' \in [Addr -> [Field -> Addr \cup {Null}]]
      /\ \A f \in Field : refs'[a][f] = Null
  <2>1. serial[a] \in 0 .. MaxSerial /\ serial[a] < MaxSerial /\ MaxSerial \in Nat
    BY BoundsAssumption DEF Allocate, Core, TypeOK
  <2>2. serial[a] + 1 \in 0 .. MaxSerial
    BY <2>1
  <2> QED BY <1>1, <2>2 DEF Allocate, Core, TypeOK, FreeMemoryZeroed, NoFields
<1>4. /\ fin' \subseteq Addr /\ DOMAIN reg' \subseteq Addr
      /\ reg' \in [DOMAIN reg' -> {"Active", "Suppressed", "Finalized"}]
      /\ DOMAIN reg' = heap' \cap fin'
      /\ DOMAIN reg \subseteq DOMAIN reg'
  <2>1. /\ reg \in [DOMAIN reg -> {"Active", "Suppressed", "Finalized"}]
        /\ DOMAIN reg = heap \cap fin /\ fin \subseteq Addr /\ heap \subseteq Addr
    BY DEF Core, TypeOK, RegistryExact
  <2>2. CASE h = TRUE
    BY <2>1, <2>2, <1>1 DEF Allocate
  <2>3. CASE h = FALSE
    BY <2>1, <2>3, <1>1 DEF Allocate
  <2> QED BY <2>2, <2>3
<1>5. TypeOK'
  BY <1>1, <1>2, <1>3, <1>4 DEF Core, TypeOK, StackKept, CallsOK
<1>6. NoDangling'
  BY <1>1, <1>2, <1>3, TopHeld DEF Core, TypeOK, NoDangling, StackKept
<1>7. RegistryExact' /\ WeakFaithful' /\ FreeMemoryZeroed'
  BY <1>1, <1>3, <1>4 DEF Core, TypeOK, RegistryExact, WeakFaithful, FreeMemoryZeroed
<1>8. ASSUME IInv PROVE PendingIntact' /\ CollectIsSecond' /\ CollectIsQuiet'
  <2>1. PendingIntact'
    BY <1>1, <1>2, <1>3, <1>4, <1>8 DEF IInv, TypeOK, PendingIntact, Pending, StackKept
  <2> QED BY <1>1, <1>2, <1>8, <2>1 DEF IInv, CollectIsQuiet, StackKept
<1>9. BareBelow => BareBelow'
  BY <1>2 DEF StackKept
<1> QED BY <1>5, <1>6, <1>7, <1>8, <1>9 DEF IInv, Core, Kept

--------------------------------------------------------------------------------
(* The collection proper.  It happens when the runner's copy is empty, and *)
(* then the invariant leaves nothing but the roots to hold an object.      *)

LEMMA AtFinish ==
  ASSUME IInv, Top.kind = "Collect", Top.todo = {}
  PROVE  /\ Depth = 2 /\ freach = {} /\ Locals = {} /\ Todo = {}
         /\ calls \in Seq(Activation) /\ IsManaged(calls[1])
<1>1. CallsOK /\ ~IsManaged(Top)
  BY TypeCalls DEF IInv, IsManaged
<1>2. Depth \in 1 .. Depth /\ calls[Depth].kind = "Collect"
  BY <1>1 DEF CallsOK, Top
<1>3. Depth = 2 /\ freach = {} /\ calls[1].locals = {}
  BY <1>2 DEF IInv, CollectIsSecond, CollectIsQuiet, Collecting
<1>4. \A i \in 1 .. Depth : i = 1 \/ i = Depth
  BY <1>3
<1>5. Locals = {}
  BY <1>1, <1>3, <1>4, LocalsMember DEF Top
<1>6. Todo = {}
  BY <1>1, <1>4, TodoMember DEF CallsOK, Top
<1> QED BY <1>1, <1>3, <1>5, <1>6 DEF CallsOK

(* When no activation uses a reference, the collection leaves a heap that  *)
(* is closed, registered and weakly referenced as before.                  *)
LEMMA FinishCore ==
  ASSUME Core, Locals = {}, NEW promoted \in SUBSET heap, FinishCollect(promoted)
  PROVE  /\ Core' /\ StackKept({}, {})
         /\ promoted \subseteq heap' /\ promoted \subseteq DOMAIN reg'
<1> DEFINE alive == Alive(promoted)
           freed == heap \ alive
<1>1. /\ Top.kind = "Collect" /\ Top.todo = {}
      /\ freach' = freach \cup {Ref(a) : a \in promoted}
      /\ heap' = heap \ freed
      /\ refs' = [a \in Addr |-> IF a \in freed THEN NoFields ELSE refs[a]]
      /\ reg' = SweptRegistry(freed)
      /\ weak' = {r \in weak : r[1] \in alive}
      /\ calls' = Popped
      /\ UNCHANGED <<fin, serial, roots, enabled>>
      /\ promoted \subseteq DOMAIN reg
  BY DEF FinishCollect, SweptWeak, SweptFields, Condemned
<1>2. Depth # 1 /\ CallsOK
  BY <1>1, TopHeld DEF IsManaged
<1>3. roots \cup promoted \in SUBSET Addr /\ heap \subseteq Addr
  BY DEF Core, TypeOK
<1>4. roots \cup promoted \subseteq alive /\ alive \subseteq Addr
  BY <1>3, ReachContains DEF Alive
<1>5. \A a \in alive, f \in Field : refs[a][f] \in alive \cup {Null}
  BY <1>3, ReachClosed DEF Alive, Core
<1>6. heap' = heap \cap alive
  BY <1>1
<1>7. StackKept({}, {}) /\ Locals' = {}
  BY <1>1, <1>2, PopStack DEF StackKept
<1>8. /\ DOMAIN reg' = DOMAIN reg \ (freed \cap fin)
      /\ reg' \in [DOMAIN reg' -> {"Active", "Suppressed", "Finalized"}]
  BY <1>1 DEF SweptRegistry, Core, TypeOK
<1>9. TypeOK'
  <2>1. refs' \in [Addr -> [Field -> Addr \cup {Null}]]
    BY <1>1 DEF Core, TypeOK, NoFields
  <2>2. freach' \subseteq Ref0
    BY <1>1, <1>3 DEF Ref, Ref0, Core, TypeOK
  <2>3. DOMAIN reg' \subseteq Addr /\ heap' \subseteq Addr /\ weak' \subseteq Ref0
    BY <1>1, <1>3, <1>8 DEF Core, TypeOK
  <2> QED BY <1>1, <1>7, <1>8, <2>1, <2>2, <2>3 DEF Core, TypeOK, StackKept, CallsOK
<1>10. NoDangling'
  <2>1. \A a \in heap', f \in Field : refs'[a][f] \in heap' \cup {Null}
    BY <1>1, <1>3, <1>5, <1>6 DEF Core, NoDangling
  <2> QED BY <1>1, <1>4, <1>6, <1>7, <2>1 DEF Core, NoDangling
<1>11. RegistryExact'
  BY <1>1, <1>8 DEF Core, RegistryExact
<1>12. WeakFaithful'
  BY <1>1, <1>6 DEF Core, WeakFaithful
<1>13. FreeMemoryZeroed'
  BY <1>1 DEF Core, FreeMemoryZeroed
<1>14. promoted \subseteq heap' /\ promoted \subseteq DOMAIN reg'
  BY <1>1, <1>4, <1>6, <1>8
<1> QED BY <1>7, <1>9, <1>10, <1>11, <1>12, <1>13, <1>14 DEF Core

LEMMA FinishPreserves ==
  ASSUME IInv, NEW promoted \in SUBSET heap, FinishCollect(promoted)
  PROVE  IInv'
<1>1. /\ Top.kind = "Collect" /\ Top.todo = {}
      /\ freach' = freach \cup {Ref(a) : a \in promoted}
      /\ calls' = Popped /\ serial' = serial
  BY DEF FinishCollect
<1>2. Depth = 2 /\ freach = {} /\ Locals = {} /\ Todo = {} /\ CallsOK /\ CollectIsSecond
  BY <1>1, AtFinish, TypeCalls DEF IInv
<1>3. /\ Core' /\ StackKept({}, {})
      /\ promoted \subseteq heap' /\ promoted \subseteq DOMAIN reg'
  BY <1>2, FinishCore DEF IInv, Core
<1>4. Depth' = 1
  BY <1>1, <1>2, FrontOf DEF Popped, Depth, CallsOK
<1>5. PendingIntact'
  <2>1. \A r \in Pending' : \E a \in promoted : r = Ref(a)
    BY <1>1, <1>2, <1>3 DEF Pending, StackKept
  <2>2. \A a \in promoted : Ref(a)[1] = a /\ Ref(a)[2] = serial[a]
    BY DEF Ref
  <2>3. \A r \in Pending' : r[1] \in heap' /\ serial[r[1]] = r[2] /\ r[1] \in DOMAIN reg'
    BY <1>3, <2>1, <2>2
  <2> QED BY <1>1, <2>3 DEF PendingIntact
<1>6. CollectIsSecond' /\ CollectIsQuiet'
  <2>1. ~Collecting'
    BY <1>3, <1>4 DEF StackKept, CallsOK, Collecting, IsManaged
  <2> QED BY <2>1 DEF CollectIsSecond, CollectIsQuiet, Collecting
<1> QED BY <1>3, <1>5, <1>6 DEF IInv, Core

(* Every step but the start and the end of a collection or a wait.         *)
LEMMA OtherSteps ==
  ASSUME Core, [Next]_vars,
         ~(Wait \/ HostCollect \/ CodeCollect),
         ~\E promoted \in SUBSET heap : FinishCollect(promoted)
  PROVE  Kept
<1>1. CASE Mutate
  BY <1>1, AllocatePreserves, LoadPreserves, StoreFieldPreserves, RootPreserves,
     WeakPreserves, RegistrationPreserves, SetModePreserves DEF Mutate
<1>2. CASE ReturnToHost \/ FinalizerReturns
  BY <1>2, ReturnPreserves
<1>3. CASE RunnerSteps
  BY <1>3, ReturnPreserves, RunnerPreserves DEF RunnerSteps
<1>4. CASE UNCHANGED vars
  <2>1. StackKept({}, {}) /\ {} \in SUBSET heap /\ {} \in SUBSET Pending
    BY <1>4, TopHeld, SameStack DEF vars
  <2> QED BY <1>4, <2>1, HeapKept DEF vars, Core, TypeOK, NoDangling, WeakFaithful
<1> QED BY <1>1, <1>2, <1>3, <1>4 DEF Next

LEMMA StepPreserves ==
  ASSUME ManagedCollect = "never", IInv, [Next]_vars
  PROVE  IInv'
<1>1. Core
  BY DEF IInv, Core
<1>2. CASE Wait \/ HostCollect
  BY <1>2, StartPreserves
<1>3. CASE \E promoted \in SUBSET heap : FinishCollect(promoted)
  BY <1>3, FinishPreserves
<1>4. ~CodeCollect
  BY DEF CodeCollect
<1> QED BY <1>1, <1>2, <1>3, <1>4, OtherSteps DEF Kept

(* While only the host collects, references never dangle, queued objects   *)
(* are kept, and registry and weak handles match the heap.                 *)
THEOREM CollectorSafe ==
  ASSUME ManagedCollect = "never"
  PROVE  Spec => [](/\ TypeOK /\ NoDangling /\ PendingIntact
                    /\ RegistryExact /\ WeakFaithful /\ FreeMemoryZeroed)
<1>1. IInv => /\ TypeOK /\ NoDangling /\ PendingIntact
              /\ RegistryExact /\ WeakFaithful /\ FreeMemoryZeroed
  BY DEF IInv
<1> QED BY <1>1, InitEstablishes, StepPreserves, PTL DEF Spec

(* In particular: an object whose finalizer is queued is not freed before  *)
(* its turn, although the queue is no root while its finalizers run.       *)
THEOREM QueuedObjectsKept ==
  ASSUME ManagedCollect = "never"
  PROVE  Spec => []PendingIntact
BY CollectorSafe, PTL

(* The registry, keyed by address, never speaks for an earlier object at   *)
(* an address that was handed out again.                                   *)
THEOREM RegistryFollowsObjects ==
  ASSUME ManagedCollect = "never"
  PROVE  Spec => []RegistryExact
BY CollectorSafe, PTL

(* A weak handle names the object it was made for or nothing, never the    *)
(* next object at its address.                                             *)
THEOREM WeakHandlesFaithful ==
  ASSUME ManagedCollect = "never"
  PROVE  Spec => []WeakFaithful
BY CollectorSafe, PTL

(* The assertion that opens promote_unreachable holds while only the host  *)
(* collects.                                                               *)
THEOREM QueueIsEmpty ==
  ASSUME ManagedCollect = "never"
  PROVE  Spec => []QueueEmptyAtPromotion
<1>1. IInv => QueueEmptyAtPromotion
  BY AtFinish DEF QueueEmptyAtPromotion
<1> QED BY <1>1, InitEstablishes, StepPreserves, PTL DEF Spec

LEMMA ReachMonotone ==
  ASSUME NEW S \in SUBSET Addr, NEW T \in SUBSET Addr, S \subseteq T
  PROVE  Reach(S) \subseteq Reach(T)
BY DEF Reach

LEMMA OnlyFinishFrees ==
  ASSUME [Next]_vars, ~\E promoted \in SUBSET heap : FinishCollect(promoted)
  PROVE  heap \subseteq heap'
BY DEF Next, Mutate, RunnerSteps, vars, mutVars, Allocate, LoadField, StoreField, LoadRoot,
       StoreRoot, ClearRoot, NewWeakHandle, LoadWeakHandle, FreeWeakHandle, DropLocal,
       ReturnToHost, FinalizerReturns, Suppress, Reregister, Wait, SetMode, HostCollect,
       CodeCollect, StartCollect, SkipPending, RunFinalizer, WaitReturns

(* While only the host collects, what a collection frees is reachable from *)
(* no root, no activation and no pending finalizer.                        *)
THEOREM FreesGarbageOnly ==
  ASSUME ManagedCollect = "never"
  PROVE  Spec => FreedOnlyGarbage
<1> DEFINE A == (heap \ heap') \cap Reach(roots \cup Locals \cup AddrsOf(Pending)) = {}
<1>1. ASSUME IInv, [Next]_vars PROVE A
  <2>1. CASE \E promoted \in SUBSET heap : FinishCollect(promoted)
    <3>1. PICK promoted \in SUBSET heap : FinishCollect(promoted)
      BY <2>1
    <3>2. Locals = {} /\ Pending = {}
      BY <1>1, <3>1, AtFinish DEF FinishCollect, Pending
    <3>3. roots \cup Locals \cup AddrsOf(Pending) = roots
      BY <3>2 DEF AddrsOf
    <3>4. roots \in SUBSET Addr /\ roots \cup promoted \in SUBSET Addr
      BY <1>1 DEF IInv, TypeOK
    <3>5. Reach(roots) \subseteq Alive(promoted)
      BY <3>4, ReachMonotone DEF Alive
    <3>6. heap \ heap' = heap \ Alive(promoted)
      BY <3>1 DEF FinishCollect
    <3> QED BY <3>3, <3>5, <3>6
  <2>2. CASE ~\E promoted \in SUBSET heap : FinishCollect(promoted)
    <3>1. heap \subseteq heap'
      BY <1>1, <2>2, OnlyFinishFrees
    <3> QED BY <3>1
  <2> QED BY <2>1, <2>2
<1>2. IInv /\ [Next]_vars => [A]_vars
  BY <1>1
<1> QED BY <1>2, InitEstablishes, StepPreserves, PTL DEF Spec, FreedOnlyGarbage

--------------------------------------------------------------------------------
(* Managed code collects as well, while no activation uses a reference     *)
(* again: collections nest, inside finalizers that an outer collection     *)
(* runs.                                                                   *)

NestedInv == Core /\ BareBelow

LEMMA StartNested ==
  ASSUME ManagedCollect \in {"never", "bare"}, NestedInv,
         Wait \/ HostCollect \/ CodeCollect
  PROVE  NestedInv'
<1>1. CallsOK /\ freach \in SUBSET Ref0
  BY TypeCalls DEF NestedInv, Core, TypeOK
<1>2. AtHost => Locals = {}
  <2>1. AtHost => Depth = 1 /\ calls[1].locals = {}
    BY ManagedTyped DEF AtHost, Depth
  <2> QED BY <1>1, <2>1, LocalsMember
<1>3. PICK k \in {"Collect", "Wait"} :
         /\ calls' = Pushed(Runner(k, freach)) /\ freach' = {}
         /\ UNCHANGED <<heap, refs, fin, serial, roots, weak, reg, enabled>>
         /\ k = "Collect" => Locals = {}
  <2>1. CASE Wait
    BY <2>1 DEF Wait
  <2>2. CASE HostCollect \/ CodeCollect
    BY <1>2, <2>2 DEF HostCollect, CodeCollect, StartCollect
  <2> QED BY <2>1, <2>2
<1>4. CallsOK' /\ Locals' \subseteq Locals /\ BareBelow'
  BY <1>1, <1>3, StartRunner DEF NestedInv
<1>5. TypeOK'
  BY <1>3, <1>4 DEF NestedInv, Core, TypeOK, CallsOK
<1>6. NoDangling' /\ RegistryExact' /\ WeakFaithful' /\ FreeMemoryZeroed'
  BY <1>3, <1>4 DEF NestedInv, Core, NoDangling, RegistryExact, WeakFaithful, FreeMemoryZeroed
<1> QED BY <1>4, <1>5, <1>6 DEF NestedInv, Core

(* When a collection comes to mark, every activation below it is bare, and *)
(* the runner that is on top holds nothing.                                *)
LEMMA BareAtFinish ==
  ASSUME NestedInv, Top.kind = "Collect"
  PROVE  Locals = {}
<1>1. CallsOK /\ Depth \in 1 .. Depth /\ calls[Depth].kind = "Collect"
  BY TypeCalls DEF NestedInv, Core, CallsOK, Top
<1>2. \A j \in 1 .. Depth - 1 : IsManaged(calls[j]) => calls[j].locals = {}
  BY <1>1 DEF NestedInv, BareBelow
<1>3. \A j \in 1 .. Depth : IsManaged(calls[j]) => j \in 1 .. Depth - 1
  BY <1>1 DEF IsManaged, CallsOK
<1> QED BY <1>1, <1>2, <1>3, LocalsMember

LEMMA NestedStep ==
  ASSUME ManagedCollect \in {"never", "bare"}, NestedInv, [Next]_vars
  PROVE  NestedInv'
<1>1. CASE Wait \/ HostCollect \/ CodeCollect
  BY <1>1, StartNested
<1>2. CASE \E promoted \in SUBSET heap : FinishCollect(promoted)
  <2>1. PICK promoted \in SUBSET heap : FinishCollect(promoted)
    BY <1>2
  <2>2. Locals = {}
    BY <2>1, BareAtFinish DEF FinishCollect
  <2> QED BY <2>1, <2>2, FinishCore DEF NestedInv, StackKept
<1>3. CASE /\ ~(Wait \/ HostCollect \/ CodeCollect)
           /\ ~\E promoted \in SUBSET heap : FinishCollect(promoted)
  BY <1>3, OtherSteps DEF NestedInv, Kept
<1> QED BY <1>1, <1>2, <1>3

(* A finalizer, or managed code that holds no reference, may collect, and  *)
(* finalizers that this collection runs may collect again: no reference    *)
(* dangles, and registry and weak handles follow the heap.                 *)
THEOREM NestedCollectionsSafe ==
  ASSUME ManagedCollect \in {"never", "bare"}
  PROVE  Spec => [](/\ TypeOK /\ NoDangling /\ RegistryExact
                    /\ WeakFaithful /\ FreeMemoryZeroed)
<1>1. NestedInv => /\ TypeOK /\ NoDangling /\ RegistryExact
                   /\ WeakFaithful /\ FreeMemoryZeroed
  BY DEF NestedInv, Core
<1>2. Init => NestedInv
  BY InitEstablishes DEF NestedInv
<1> QED BY <1>1, <1>2, NestedStep, PTL DEF Spec

(* What a nested collection frees is reachable from no root and from no    *)
(* activation; a queued object is not protected from it.                   *)
THEOREM NestedFreesUnused ==
  ASSUME ManagedCollect \in {"never", "bare"}
  PROVE  Spec => [][(heap \ heap') \cap Reach(roots \cup Locals) = {}]_vars
<1> DEFINE A == (heap \ heap') \cap Reach(roots \cup Locals) = {}
<1>1. ASSUME NestedInv, [Next]_vars PROVE A
  <2>1. CASE \E promoted \in SUBSET heap : FinishCollect(promoted)
    <3>1. PICK promoted \in SUBSET heap : FinishCollect(promoted)
      BY <2>1
    <3>2. roots \cup Locals = roots
      BY <1>1, <3>1, BareAtFinish DEF FinishCollect
    <3>3. roots \in SUBSET Addr /\ roots \cup promoted \in SUBSET Addr
      BY <1>1 DEF NestedInv, Core, TypeOK
    <3>4. Reach(roots) \subseteq Alive(promoted)
      BY <3>3, ReachMonotone DEF Alive
    <3>5. heap \ heap' = heap \ Alive(promoted)
      BY <3>1 DEF FinishCollect
    <3> QED BY <3>2, <3>4, <3>5
  <2>2. CASE ~\E promoted \in SUBSET heap : FinishCollect(promoted)
    <3>1. heap \subseteq heap'
      BY <1>1, <2>2, OnlyFinishFrees
    <3> QED BY <3>1
  <2> QED BY <2>1, <2>2
<1>2. NestedInv /\ [Next]_vars => [A]_vars
  BY <1>1
<1>3. Init => NestedInv
  BY InitEstablishes DEF NestedInv
<1> QED BY <1>2, <1>3, NestedStep, PTL DEF Spec
================================================================================
