-------------------------- MODULE ExceptionFlow_proofs -------------------------
(***************************************************************************)
(* For any program of Plain methods, any number of frames and exceptions   *)
(* and any interleaving of calls, throws and leaves: the stack of flows    *)
(* mirrors the handlers that run, no finally block is skipped, and no      *)
(* handler is entered but out of its try block.                            *)
(***************************************************************************)
EXTENDS ExceptionFlow, FiniteSetTheorems, NaturalsInduction, SequenceTheorems, TLAPS,
        WellFoundedInduction

(* The theorems are about methods whose flows the code gets right.         *)
PlainCode == \A m \in Method : Plain(m)

(***************************************************************************)
(* The least and the greatest of a set of numbers.                         *)
(***************************************************************************)
LEMMA MinOf ==
  ASSUME NEW S, S \subseteq Nat, NEW n \in S, \A s \in S : n <= s
  PROVE  Min(S) \in S /\ \A x \in S : Min(S) <= x
BY DEF Min

LEMMA MaxOf ==
  ASSUME NEW S, S \subseteq Int, NEW n \in S, \A s \in S : n >= s
  PROVE  Max(S) \in S /\ \A x \in S : Max(S) >= x
BY DEF Max

LEMMA MinIn ==
  ASSUME NEW S, S \subseteq Nat, S # {}
  PROVE  Min(S) \in S /\ \A x \in S : Min(S) <= x
<1>1. IsWellFoundedOn(OpToRel(<, Nat), Nat)
  BY NatLessThanWellFounded
<1>2. PICK n \in S : \A s \in S : ~ (<<s, n>> \in OpToRel(<, Nat))
  BY <1>1, WFMin
<1>3. \A s \in S : ~ (s < n)
  BY <1>2 DEF OpToRel
<1>4. \A s \in S : n <= s
  BY <1>3
<1> QED BY <1>4, MinOf

LEMMA MinIs ==
  ASSUME NEW S, S \subseteq Nat, NEW x \in S, \A y \in S : x <= y
  PROVE  Min(S) = x
<1>1. Min(S) \in S /\ Min(S) <= x
  BY MinOf
<1>2. x <= Min(S) /\ Min(S) \in Nat /\ x \in Nat
  BY <1>1
<1> QED BY <1>1, <1>2

LEMMA MaxIs ==
  ASSUME NEW S, S \subseteq Int, NEW x \in S, \A y \in S : y <= x
  PROVE  Max(S) = x
<1>1. \A y \in S : x >= y
  OBVIOUS
<1>2. Max(S) \in S /\ Max(S) >= x
  BY <1>1, MaxOf
<1>3. x >= Max(S) /\ Max(S) \in Int /\ x \in Int
  BY <1>1, <1>2
<1> QED BY <1>2, <1>3

LEMMA MaxUpTo ==
  ASSUME NEW n \in Nat, NEW S, S \subseteq 0..n, S # {}
  PROVE  Max(S) \in S /\ \A y \in S : y <= Max(S)
<1> DEFINE T == {n - y : y \in S}
<1>1. T \subseteq Nat /\ T # {}
  <2>1. PICK y \in S : TRUE
    OBVIOUS
  <2>2. n - y \in T
    BY <2>1
  <2>3. \A z \in S : n - z \in Nat
    OBVIOUS
  <2> QED BY <2>2, <2>3
<1>2. PICK x \in S : Min(T) = n - x
  BY <1>1, MinIn
<1>3. \A t \in T : n - x <= t
  BY <1>1, <1>2, MinIn
<1>4. \A y \in S : n - x <= n - y
  BY <1>3
<1>5. \A y \in S : y <= x
  BY <1>4
<1>6. Max(S) = x
  <2>1. S \subseteq Int
    OBVIOUS
  <2> QED BY <1>5, <2>1, MaxIs
<1> QED BY <1>5, <1>6

(***************************************************************************)
(* The regions of a clause table.                                          *)
(***************************************************************************)
Tables == Seq(Clause)
Idx(cs) == 1..Len(cs)

LEMMA ClauseFacts ==
  ASSUME NEW cs \in Tables, NEW i \in Idx(cs)
  PROVE  /\ cs[i].handler \subseteq Nat /\ Start(cs[i]) \in cs[i].handler
         /\ Start(cs[i]) \in Point /\ cs[i].try \subseteq Point /\ i \in Nat \ {0}
         /\ cs[i].kind \in {"catch", "filter", "finally", "fault"}
<1>1. cs[i] \in Clause
  BY DEF Tables, Idx
<1>2. /\ cs[i].handler \in (SUBSET Point) \ {{}} /\ cs[i].try \in SUBSET Point
      /\ cs[i].kind \in {"catch", "filter", "finally", "fault"}
  BY <1>1 DEF Clause
<1>3. cs[i].handler \subseteq Nat /\ cs[i].handler # {}
  BY <1>2, PointAssumption
<1> HIDE DEF Clause
<1>4. Start(cs[i]) \in cs[i].handler
  BY <1>3, MinIn DEF Start
<1> QED BY <1>2, <1>3, <1>4 DEF Idx, Tables

LEMMA SetsOfClauses ==
  ASSUME NEW cs \in Tables, NEW p
  PROVE  /\ Handlers(cs, p) \subseteq Idx(cs) /\ Trys(cs, p) \subseteq Idx(cs)
         /\ Idx(cs) \subseteq Nat \ {0} /\ Len(cs) \in Nat
BY DEF Handlers, Trys, Idx, Tables

LEMMA Innermost ==
  ASSUME NEW cs \in Tables, NEW p, Handlers(cs, p) # {}
  PROVE  /\ Min(Handlers(cs, p)) \in Handlers(cs, p) /\ Min(Handlers(cs, p)) \in Idx(cs)
         /\ \A i \in Handlers(cs, p) : Min(Handlers(cs, p)) <= i
<1>1. Handlers(cs, p) \subseteq Nat
  BY SetsOfClauses
<1> QED BY <1>1, MinIn, SetsOfClauses

\* Of two clauses that meet, the inner one lies in a region of the outer one.
LEMMA Meets ==
  ASSUME NEW cs \in Tables, WellNested(cs), NEW i \in Idx(cs), NEW j \in Idx(cs), i < j,
         NEW p, p \in Region(cs[i]), p \in Region(cs[j])
  PROVE  \/ p \in cs[j].try /\ Region(cs[i]) \subseteq cs[j].try
         \/ p \in cs[j].handler /\ Region(cs[i]) \subseteq cs[j].handler
         \/ /\ cs[i].try = cs[j].try /\ cs[i].handler \cap cs[j].handler = {}
            /\ cs[i].kind \in {"catch", "filter"} /\ cs[j].kind \in {"catch", "filter"}
<1>1. i \in 1..j - 1 /\ j \in 1..Len(cs)
  BY SetsOfClauses DEF Idx
<1> QED BY <1>1 DEF WellNested, Region

LEMMA Apart ==
  ASSUME NEW cs \in Tables, WellNested(cs), NEW i \in Idx(cs)
  PROVE  cs[i].try \cap cs[i].handler = {}
BY DEF WellNested, Idx

LEMMA HandlerAround ==
  ASSUME NEW cs \in Tables, WellNested(cs), NEW p,
         NEW i \in Handlers(cs, p), NEW j \in Handlers(cs, p), i < j
  PROVE  Region(cs[i]) \subseteq cs[j].handler
<1>1. i \in Idx(cs) /\ j \in Idx(cs) /\ p \in cs[i].handler /\ p \in cs[j].handler
  BY DEF Handlers, Idx
<1>2. p \in Region(cs[i]) /\ p \in Region(cs[j])
  BY <1>1 DEF Region
<1> QED BY <1>1, <1>2, Meets, Apart

LEMMA TryAround ==
  ASSUME NEW cs \in Tables, WellNested(cs), NEW p,
         NEW i \in Trys(cs, p), NEW j \in Trys(cs, p), i < j
  PROVE  \/ Region(cs[i]) \subseteq cs[j].try
         \/ /\ cs[i].try = cs[j].try
            /\ cs[i].kind \in {"catch", "filter"} /\ cs[j].kind \in {"catch", "filter"}
<1>1. i \in Idx(cs) /\ j \in Idx(cs) /\ p \in cs[i].try /\ p \in cs[j].try
  BY DEF Trys, Idx
<1>2. p \in Region(cs[i]) /\ p \in Region(cs[j])
  BY <1>1 DEF Region
<1> QED BY <1>1, <1>2, Meets, Apart

\* A handler and a try block that meet: the clause of one lies in the other.
LEMMA HandlerOrTry ==
  ASSUME NEW cs \in Tables, WellNested(cs), NEW p,
         NEW h \in Handlers(cs, p), NEW c \in Trys(cs, p)
  PROVE  /\ h # c
         /\ h < c => Region(cs[h]) \subseteq cs[c].try
         /\ c < h => Region(cs[c]) \subseteq cs[h].handler
<1>1. h \in Idx(cs) /\ c \in Idx(cs) /\ p \in cs[h].handler /\ p \in cs[c].try
  BY DEF Handlers, Trys, Idx
<1>2. p \in Region(cs[h]) /\ p \in Region(cs[c])
  BY <1>1 DEF Region
<1>3. h # c
  BY <1>1, Apart
<1>4. ASSUME h < c PROVE Region(cs[h]) \subseteq cs[c].try
  BY <1>1, <1>2, <1>4, Meets, Apart
<1>5. ASSUME c < h PROVE Region(cs[c]) \subseteq cs[h].handler
  BY <1>1, <1>2, <1>5, Meets, Apart
<1> QED BY <1>3, <1>4, <1>5

\* Where a handler starts no handler inside it starts or runs.
LEMMA AtStart ==
  ASSUME NEW cs \in Tables, WellNested(cs), NEW i \in Idx(cs)
  PROVE  /\ i \in Handlers(cs, Start(cs[i])) /\ Min(Handlers(cs, Start(cs[i]))) = i
         /\ \A j \in Handlers(cs, Start(cs[i])) \ {i} : i < j /\ Region(cs[i]) \subseteq cs[j].handler
<1> DEFINE H == Handlers(cs, Start(cs[i]))
<1>1. i \in H
  BY ClauseFacts DEF Handlers, Idx
<1>2. H \subseteq Nat /\ i \in Nat /\ H \subseteq Idx(cs)
  BY SetsOfClauses
<1>3. ASSUME NEW j \in H, j < i PROVE FALSE
  <2>1. j \in 1..i - 1 /\ i \in 1..Len(cs)
    BY <1>2, <1>3, SetsOfClauses DEF Idx
  <2>2. Start(cs[i]) \notin cs[j].handler
    BY <2>1 DEF WellNested
  <2> QED BY <2>2 DEF Handlers
<1>4. \A j \in H : i <= j
  BY <1>2, <1>3
<1>5. Min(H) = i
  <2> HIDE DEF H
  <2> QED BY <1>1, <1>2, <1>4, MinIs
<1>6. ASSUME NEW j \in H \ {i} PROVE i < j /\ Region(cs[i]) \subseteq cs[j].handler
  <2>1. i < j
    BY <1>2, <1>4
  <2> QED BY <1>1, <2>1, HandlerAround
<1> QED BY <1>1, <1>5, <1>6

\* The innermost handler says which handlers there are.
LEMMA SameHandlers ==
  ASSUME NEW cs \in Tables, WellNested(cs), NEW p, Handlers(cs, p) # {}
  PROVE  Handlers(cs, Start(cs[Min(Handlers(cs, p))])) = Handlers(cs, p)
<1> DEFINE h == Min(Handlers(cs, p))
           q == Start(cs[h])
<1>1. h \in Handlers(cs, p) /\ h \in Idx(cs) /\ \A i \in Handlers(cs, p) : h <= i
  BY Innermost
<1>2. Handlers(cs, p) \subseteq Nat
  BY SetsOfClauses
<1>3. h \in Handlers(cs, q) /\ \A j \in Handlers(cs, q) \ {h} : Region(cs[h]) \subseteq cs[j].handler
  BY <1>1, AtStart
<1>4. q \in cs[h].handler /\ p \in cs[h].handler
  BY <1>1, ClauseFacts DEF Handlers
<1> HIDE DEF h
<1>5. ASSUME NEW i \in Handlers(cs, p) PROVE i \in Handlers(cs, q)
  <2>1. CASE i = h
    BY <1>3, <2>1
  <2>2. CASE i # h
    <3>1. Region(cs[h]) \subseteq cs[i].handler
      BY <1>1, <1>2, <2>2, HandlerAround
    <3> QED BY <1>4, <3>1 DEF Region, Handlers
  <2> QED BY <2>1, <2>2
<1>6. ASSUME NEW i \in Handlers(cs, q) PROVE i \in Handlers(cs, p)
  <2>1. CASE i = h
    BY <1>1, <2>1
  <2>2. CASE i # h
    BY <1>3, <1>4, <2>2 DEF Region, Handlers
  <2> QED BY <2>1, <2>2
<1> QED BY <1>5, <1>6 DEF h

(***************************************************************************)
(* Flows and frames.                                                       *)
(***************************************************************************)
ThrowRec ==
  [throw : {TRUE}, m : Method, frame : Nat, ip : Point, ex : Ex, next : Nat,
   cur : Nat, handled : BOOLEAN]
LeaveRec ==
  [throw : {FALSE}, m : Method, frame : Nat, ip : Point, target : Point,
   next : Nat, cur : Nat, remain : Nat]
FlowRec == ThrowRec \cup LeaveRec
FrameRec == [m : Method, ip : Point, at : Point, native : BOOLEAN]

\* The handlers that run behind the one of a flow, as the flow left them.
Behind(f) ==
  LET cs == Clauses[f.m]
  IN IF ~f.throw THEN Handlers(cs, f.target)
     ELSE IF f.handled THEN Handlers(cs, Start(cs[f.cur])) \ {f.cur}
     ELSE Handlers(cs, f.ip)

\* Of the first n flows of s, the last one of the frame at depth d runs the innermost of the
\* handlers X, and there is one only if there are handlers.
Under(s, n, d, X) ==
  IF X = {} THEN \A k \in 1..n : s[k].frame # d
  ELSE \E k \in 1..n : /\ s[k].frame = d /\ s[k].next - 1 = Min(X)
                       /\ \A j \in 1..n : k < j => s[j].frame # d

(* The clause that a flow names: one that guards where the exception was   *)
(* thrown, or one of the finally blocks that the leave still has to run.   *)
ThrowOk(f, cs) ==
  /\ f.cur = f.next - 1 /\ f.cur \in 0..Len(cs)
  /\ f.cur # 0 => f.ip \in cs[f.cur].try /\ (f.handled <=> cs[f.cur].kind = "catch")
  /\ f.handled => f.cur # 0
LeaveOk(f, cs) ==
  LET F == Finallys(cs, f.ip, f.target)
  IN /\ <<f.ip, f.target>> \in Leaves[f.m] /\ f.next - 1 \in F
     /\ f.cur = Min(F) /\ f.remain = Cardinality({i \in F : i >= f.next})
FlowOk(f) == IF f.throw THEN ThrowOk(f, Clauses[f.m]) ELSE LeaveOk(f, Clauses[f.m])

(* A call returns into the handlers, and at least the try blocks, that it  *)
(* was made in.                                                            *)
FrameOk(fr) ==
  LET cs == Clauses[fr.m]
  IN Handlers(cs, fr.at) = Handlers(cs, fr.ip) /\ Trys(cs, fr.at) \subseteq Trys(cs, fr.ip)

(* Flows lie in the order of their frames; the flow behind each one runs   *)
(* the innermost of the handlers that were running when it was pushed.     *)
FlowsOk(fr, s) ==
  /\ fr \in Seq(FrameRec) /\ s \in Seq(FlowRec)
  /\ \A j, k \in 1..Len(s) : j < k => s[j].frame <= s[k].frame
  /\ \A k \in 1..Len(s) :
       /\ s[k].frame \in 1..Len(fr) /\ s[k].m = fr[s[k].frame].m
       /\ FlowOk(s[k]) /\ Under(s, k - 1, s[k].frame, Behind(s[k]))
FramesOk(fr) == \A d \in 1..Len(fr) : FrameOk(fr[d])
Entered(s, n) == \A k \in 1..n : s[k].cur # 0
Mirrors(fr, s, n) == \A d \in 1..n : Under(s, Len(s), d, Handlers(Clauses[fr[d].m], fr[d].ip))

\* The innermost frame is entered, left or moved over flows that mirror the frames below it.
Base(fr, s) ==
  fr # <<>> /\ FlowsOk(fr, s) /\ FramesOk(fr) /\ Entered(s, Len(s)) /\ Mirrors(fr, s, Len(fr) - 1)

(* Where a frame runs, the last of its flows runs its innermost handler.   *)
Settled(fr, s) == FlowsOk(fr, s) /\ FramesOk(fr) /\ Entered(s, Len(s)) /\ Mirrors(fr, s, Len(fr))
AtIp(fr) == fr # <<>> => fr[Len(fr)].at = fr[Len(fr)].ip

\* While unwinding the top flow is one of the innermost frame: a new one, or one
\* whose handler has ended.
Unwound(f, cs, p) ==
  IF f.cur = 0 THEN f.throw /\ f.ip = p
  ELSE /\ f.throw => ~f.handled
       /\ Handlers(cs, p) # {} /\ f.next - 1 = Min(Handlers(cs, p))
       /\ \A i \in Trys(cs, p) : ~ (cs[i].try \subseteq cs[f.next - 1].handler)
Unsettled(fr, s) ==
  /\ s # <<>> /\ fr # <<>>
  /\ FlowsOk(fr, s) /\ FramesOk(fr) /\ Entered(s, Len(s) - 1) /\ Mirrors(fr, s, Len(fr) - 1)
  /\ s[Len(s)].frame = Len(fr)
  /\ Unwound(s[Len(s)], Clauses[fr[Len(fr)].m], fr[Len(fr)].ip)

(* The inductive invariant, with Hosted below. *)
FlowInv ==
  /\ mode \in {"run", "unwind"}
  /\ mode = "run" => Settled(frames, flows) /\ AtIp(frames)
  /\ mode = "unwind" => Unsettled(frames, flows)

--------------------------------------------------------------------------------
LEMMA Prefix ==
  ASSUME NEW T, NEW s \in Seq(T), NEW n \in 0..Len(s)
  PROVE  /\ SubSeq(s, 1, n) \in Seq(T) /\ Len(SubSeq(s, 1, n)) = n /\ n \in Nat
         /\ \A k \in 1..n : SubSeq(s, 1, n)[k] = s[k]
OBVIOUS

LEMMA Pushed ==
  ASSUME NEW T, NEW s \in Seq(T), NEW f \in T
  PROVE  /\ Append(s, f) \in Seq(T) /\ Len(Append(s, f)) = Len(s) + 1 /\ Len(s) \in Nat
         /\ Append(s, f)[Len(s) + 1] = f /\ \A k \in 1..Len(s) : Append(s, f)[k] = s[k]
OBVIOUS

LEMMA UnderSame ==
  ASSUME NEW n \in Nat, NEW s, NEW t, \A k \in 1..n : s[k] = t[k], NEW d, NEW X, Under(s, n, d, X)
  PROVE  Under(t, n, d, X)
BY DEF Under

LEMMA UnderPush ==
  ASSUME NEW n \in Nat, NEW s, NEW d, NEW X, X # {},
         s[n + 1].frame = d, s[n + 1].next - 1 = Min(X)
  PROVE  Under(s, n + 1, d, X)
<1>1. n + 1 \in 1..n + 1 /\ \A j \in 1..n + 1 : ~ (n + 1 < j)
  OBVIOUS
<1> QED BY <1>1 DEF Under

LEMMA UnderOther ==
  ASSUME NEW n \in Nat, NEW s, NEW d, NEW X, NEW m \in 0..n, \A k \in m + 1..n : s[k].frame # d
  PROVE  Under(s, n, d, X) <=> Under(s, m, d, X)
<1>1. \A k \in 1..n : k \in 1..m \/ k \in m + 1..n
  OBVIOUS
<1>2. \A k \in 1..m : k \in 1..n
  OBVIOUS
<1>3. CASE X = {}
  BY <1>1, <1>2, <1>3 DEF Under
<1>4. CASE X # {}
  BY <1>1, <1>2, <1>4 DEF Under
<1> QED BY <1>3, <1>4

LEMMA UnderNone ==
  ASSUME NEW n, NEW s, NEW d, \A k \in 1..n : s[k].frame # d
  PROVE  Under(s, n, d, {}) /\ \A X : Under(s, n, d, X) => X = {}
BY DEF Under

LEMMA UnderTop ==
  ASSUME NEW n \in Nat \ {0}, NEW s, NEW d, NEW X, Under(s, n, d, X), s[n].frame = d
  PROVE  X # {} /\ s[n].next - 1 = Min(X)
<1>1. n \in 1..n
  OBVIOUS
<1>2. X # {}
  BY <1>1 DEF Under
<1>3. PICK k \in 1..n : s[k].frame = d /\ s[k].next - 1 = Min(X) /\ \A j \in 1..n : k < j => s[j].frame # d
  BY <1>2 DEF Under
<1>4. k = n
  BY <1>1, <1>3
<1> QED BY <1>2, <1>3, <1>4

LEMMA PrefixFlows ==
  ASSUME NEW fr, NEW s, FlowsOk(fr, s), NEW n \in 0..Len(s)
  PROVE  FlowsOk(fr, SubSeq(s, 1, n))
<1> DEFINE t == SubSeq(s, 1, n)
<1>1. t \in Seq(FlowRec) /\ Len(t) = n /\ n \in Nat /\ \A k \in 1..n : t[k] = s[k]
  BY Prefix DEF FlowsOk
<1>2. Len(s) \in Nat /\ \A k \in 1..n : k \in 1..Len(s)
  BY DEF FlowsOk
<1> HIDE DEF t
<1>3. ASSUME NEW k \in 1..n PROVE Under(t, k - 1, t[k].frame, Behind(t[k]))
  <2>1. Under(s, k - 1, s[k].frame, Behind(s[k])) /\ t[k] = s[k]
    BY <1>1, <1>2 DEF FlowsOk
  <2>2. k - 1 \in Nat /\ \A j \in 1..k - 1 : s[j] = t[j]
    BY <1>1
  <2> QED BY <2>1, <2>2, UnderSame
<1> QED BY <1>1, <1>2, <1>3 DEF FlowsOk, t

LEMMA PushedFlows ==
  ASSUME NEW fr, NEW s, FlowsOk(fr, s), fr # <<>>, NEW f \in FlowRec,
         f.frame = Len(fr), f.m = fr[Len(fr)].m, FlowOk(f), Under(s, Len(s), f.frame, Behind(f))
  PROVE  FlowsOk(fr, Append(s, f))
<1> DEFINE t == Append(s, f)
           n == Len(s)
<1>1. t \in Seq(FlowRec) /\ Len(t) = n + 1 /\ n \in Nat /\ t[n + 1] = f /\ \A k \in 1..n : t[k] = s[k]
  BY Pushed DEF FlowsOk
<1>2. Len(fr) \in Nat /\ Len(fr) \in 1..Len(fr) /\ fr \in Seq(FrameRec)
  BY DEF FlowsOk
<1>3. \A k \in 1..n : s[k].frame \in 1..Len(fr) /\ s[k].m = fr[s[k].frame].m
                      /\ FlowOk(s[k]) /\ Under(s, k - 1, s[k].frame, Behind(s[k]))
  BY DEF FlowsOk
<1>4. \A j, k \in 1..n : j < k => s[j].frame <= s[k].frame
  BY DEF FlowsOk
<1>5. \A k \in 1..n + 1 : k \in 1..n \/ k = n + 1
  BY <1>1
<1> HIDE DEF t, n
<1>6. ASSUME NEW k \in 1..n + 1 PROVE Under(t, k - 1, t[k].frame, Behind(t[k]))
  <2>1. CASE k \in 1..n
    <3>1. k - 1 \in Nat /\ \A j \in 1..k - 1 : s[j] = t[j]
      BY <1>1, <2>1
    <3> QED BY <1>1, <1>3, <2>1, <3>1, UnderSame
  <2>2. CASE k = n + 1
    <3>1. k - 1 = n /\ t[k] = f
      BY <1>1, <2>2
    <3>2. Under(t, n, f.frame, Behind(f))
      BY <1>1, UnderSame DEF n
    <3> QED BY <3>1, <3>2
  <2> QED BY <1>5, <2>1, <2>2
<1>7. \A j, k \in 1..n + 1 : j < k => t[j].frame <= t[k].frame
  <2> SUFFICES ASSUME NEW j \in 1..n + 1, NEW k \in 1..n + 1, j < k PROVE t[j].frame <= t[k].frame
    OBVIOUS
  <2>1. j \in 1..n
    BY <1>1
  <2>2. t[j] = s[j] /\ s[j].frame \in 1..Len(fr)
    BY <1>1, <1>3, <2>1
  <2>3. CASE k \in 1..n
    BY <1>1, <1>4, <2>1, <2>3
  <2>4. CASE k = n + 1
    BY <1>1, <1>2, <2>2, <2>4
  <2> QED BY <1>5, <2>3, <2>4
<1>8. \A k \in 1..n + 1 : t[k].frame \in 1..Len(fr) /\ t[k].m = fr[t[k].frame].m /\ FlowOk(t[k])
  BY <1>1, <1>2, <1>3, <1>5
<1> QED BY <1>1, <1>2, <1>6, <1>7, <1>8 DEF FlowsOk, t

LEMMA OtherFrames ==
  ASSUME NEW fr, NEW s, FlowsOk(fr, s), NEW gr \in Seq(FrameRec),
         \A k \in 1..Len(s) : s[k].frame <= Len(gr),
         \A d \in 1..Len(fr) : d <= Len(gr) => gr[d].m = fr[d].m
  PROVE  FlowsOk(gr, s)
<1>1. Len(gr) \in Nat /\ \A k \in 1..Len(s) : s[k].frame \in 1..Len(gr) /\ s[k].frame \in 1..Len(fr)
  BY DEF FlowsOk
<1>2. \A k \in 1..Len(s) : s[k].m = gr[s[k].frame].m
  BY <1>1 DEF FlowsOk
<1> QED BY <1>1, <1>2 DEF FlowsOk

LEMMA BaseOf ==
  ASSUME NEW fr, NEW s, FlowsOk(fr, s), FramesOk(fr), fr # <<>>, NEW n \in 0..Len(s),
         Entered(s, n), Mirrors(fr, s, Len(fr) - 1), \A k \in n + 1..Len(s) : s[k].frame = Len(fr)
  PROVE  Base(fr, SubSeq(s, 1, n))
<1> DEFINE t == SubSeq(s, 1, n)
<1>1. t \in Seq(FlowRec) /\ Len(t) = n /\ n \in Nat /\ \A k \in 1..n : t[k] = s[k]
  BY Prefix DEF FlowsOk
<1>2. FlowsOk(fr, t)
  BY PrefixFlows
<1>3. Len(s) \in Nat /\ Len(fr) \in Nat
  BY DEF FlowsOk
<1> HIDE DEF t
<1>4. Entered(t, Len(t))
  BY <1>1 DEF Entered
<1>5. ASSUME NEW d \in 1..Len(fr) - 1, NEW X, Under(s, Len(s), d, X) PROVE Under(t, Len(t), d, X)
  <2>1. \A k \in n + 1..Len(s) : s[k].frame # d
    BY <1>3
  <2>2. Under(s, n, d, X)
    BY <1>3, <1>5, <2>1, UnderOther
  <2> QED BY <1>1, <2>2, UnderSame
<1>6. Mirrors(fr, t, Len(fr) - 1)
  BY <1>5 DEF Mirrors
<1> QED BY <1>2, <1>4, <1>6 DEF Base, t

LEMMA PlainTable ==
  ASSUME PlainCode, NEW m \in Method
  PROVE  /\ Clauses[m] \in Tables /\ WellNested(Clauses[m]) /\ PlainFilters(Clauses[m])
         /\ Leaves[m] \subseteq Point \X Point
         /\ \A l \in Leaves[m] : PlainLeave(Clauses[m], l[1], l[2])
BY ClausesAssumption DEF PlainCode, Plain, Tables

--------------------------------------------------------------------------------
(* The frames. *)
Moved(fr, p) == [fr EXCEPT ![Len(fr)].ip = p, ![Len(fr)].at = p]

LEMMA MovedFrame ==
  ASSUME NEW fr \in Seq(FrameRec), fr # <<>>, NEW p \in Point
  PROVE  /\ Moved(fr, p) \in Seq(FrameRec) /\ Len(Moved(fr, p)) = Len(fr) /\ Len(fr) \in Nat \ {0}
         /\ \A d \in 1..Len(fr) : Moved(fr, p)[d].m = fr[d].m
         /\ \A d \in 1..Len(fr) - 1 : Moved(fr, p)[d] = fr[d]
         /\ Moved(fr, p)[Len(fr)].ip = p /\ Moved(fr, p)[Len(fr)].at = p
<1> DEFINE D == Len(fr)
           a == [fr[D] EXCEPT !.ip = p, !.at = p]
<1>1. D \in 1..D /\ D \in Nat \ {0} /\ fr[D] \in FrameRec
  OBVIOUS
<1>2. a \in FrameRec /\ a.m = fr[D].m /\ a.ip = p /\ a.at = p
  BY <1>1 DEF FrameRec
<1>3. Moved(fr, p) = [fr EXCEPT ![D] = a]
  BY <1>1 DEF Moved
<1> HIDE DEF a
<1>4. [fr EXCEPT ![D] = a] \in Seq(FrameRec) /\ Len([fr EXCEPT ![D] = a]) = D
  BY <1>1, <1>2
<1>5. \A d \in 1..D : [fr EXCEPT ![D] = a][d] = IF d = D THEN a ELSE fr[d]
  OBVIOUS
<1>6. \A d \in 1..D : Moved(fr, p)[d] = IF d = D THEN a ELSE fr[d]
  BY <1>3, <1>5
<1>7. Moved(fr, p) \in Seq(FrameRec) /\ Len(Moved(fr, p)) = D
  BY <1>3, <1>4
<1>8. D \notin 1..D - 1 /\ \A d \in 1..D - 1 : d \in 1..D
  BY <1>1
<1> HIDE DEF D
<1> QED BY <1>1, <1>2, <1>6, <1>7, <1>8 DEF D

LEMMA MovedFrames ==
  ASSUME NEW fr, NEW s, Base(fr, s), NEW p \in Point
  PROVE  /\ FlowsOk(Moved(fr, p), s) /\ FramesOk(Moved(fr, p)) /\ AtIp(Moved(fr, p))
         /\ Moved(fr, p) # <<>> /\ Mirrors(Moved(fr, p), s, Len(fr) - 1)
<1> DEFINE gr == Moved(fr, p)
           D == Len(fr)
<1>1. fr \in Seq(FrameRec) /\ fr # <<>> /\ FlowsOk(fr, s)
  BY DEF Base, FlowsOk
<1>2. /\ gr \in Seq(FrameRec) /\ Len(gr) = D /\ D \in Nat \ {0}
      /\ \A d \in 1..D : gr[d].m = fr[d].m
      /\ \A d \in 1..D - 1 : gr[d] = fr[d]
      /\ gr[D].ip = p /\ gr[D].at = p
  BY <1>1, MovedFrame
<1> HIDE DEF gr
<1>3. \A k \in 1..Len(s) : s[k].frame <= Len(gr)
  BY <1>1, <1>2 DEF FlowsOk
<1>4. FlowsOk(gr, s)
  BY <1>1, <1>2, <1>3, OtherFrames
<1>5. FramesOk(gr)
  <2> SUFFICES ASSUME NEW d \in 1..D PROVE FrameOk(gr[d])
    BY <1>2 DEF FramesOk
  <2>1. CASE d = D
    BY <1>2, <2>1 DEF FrameOk
  <2>2. CASE d # D
    BY <1>2, <2>2 DEF Base, FramesOk
  <2> QED BY <2>1, <2>2
<1>6. Mirrors(gr, s, D - 1)
  BY <1>2 DEF Base, Mirrors
<1>7. gr # <<>> /\ AtIp(gr)
  BY <1>2 DEF AtIp
<1> QED BY <1>4, <1>5, <1>6, <1>7 DEF gr

\* The innermost frame goes to p over the flows that mirror p.
LEMMA GoTo ==
  ASSUME NEW fr, NEW s, Base(fr, s), NEW p \in Point,
         Under(s, Len(s), Len(fr), Handlers(Clauses[fr[Len(fr)].m], p))
  PROVE  Settled(Moved(fr, p), s) /\ AtIp(Moved(fr, p))
<1> DEFINE gr == Moved(fr, p)
           D == Len(fr)
<1>1. FlowsOk(gr, s) /\ FramesOk(gr) /\ AtIp(gr) /\ Mirrors(gr, s, D - 1)
  BY MovedFrames
<1>2. Len(gr) = D /\ D \in Nat \ {0} /\ gr[D].ip = p /\ gr[D].m = fr[D].m
  BY MovedFrame DEF Base, FlowsOk
<1> HIDE DEF gr
<1>3. ASSUME NEW d \in 1..D PROVE Under(s, Len(s), d, Handlers(Clauses[gr[d].m], gr[d].ip))
  <2>1. CASE d = D
    BY <1>2, <2>1
  <2>2. CASE d # D
    BY <1>1, <1>2, <2>2 DEF Mirrors
  <2> QED BY <2>1, <2>2
<1> QED BY <1>1, <1>2, <1>3 DEF Settled, Mirrors, Base, gr

\* The innermost frame enters a handler, which the flow f runs.
LEMMA EnterAt ==
  ASSUME NEW fr, NEW s, Base(fr, s), NEW p \in Point, NEW f \in FlowRec,
         f.frame = Len(fr), f.m = fr[Len(fr)].m, FlowOk(f), f.cur # 0,
         Under(s, Len(s), Len(fr), Behind(f)),
         Handlers(Clauses[f.m], p) # {}, f.next - 1 = Min(Handlers(Clauses[f.m], p))
  PROVE  Settled(Moved(fr, p), Append(s, f)) /\ AtIp(Moved(fr, p))
<1> DEFINE gr == Moved(fr, p)
           D == Len(fr)
           t == Append(s, f)
           n == Len(s)
<1>1. FlowsOk(gr, s) /\ FramesOk(gr) /\ AtIp(gr) /\ Mirrors(gr, s, D - 1) /\ gr # <<>>
  BY MovedFrames
<1>2. Len(gr) = D /\ D \in Nat \ {0} /\ gr[D].ip = p /\ gr[D].m = fr[D].m
  <2>1. fr \in Seq(FrameRec) /\ fr # <<>>
    BY DEF Base, FlowsOk
  <2> QED BY <2>1, MovedFrame
<1> HIDE DEF gr
<1>3. FlowsOk(gr, t)
  BY <1>1, <1>2, PushedFlows
<1>4. Len(t) = n + 1 /\ n \in Nat /\ t[n + 1] = f /\ \A k \in 1..n : t[k] = s[k]
  BY Pushed DEF Base, FlowsOk
<1> HIDE DEF t, n
<1>5. Entered(t, n + 1)
  <2> SUFFICES ASSUME NEW k \in 1..n + 1 PROVE t[k].cur # 0
    BY DEF Entered
  <2>1. CASE k = n + 1
    BY <1>4, <2>1
  <2>2. CASE k # n + 1
    BY <1>4, <2>2 DEF Base, Entered, n
  <2> QED BY <2>1, <2>2
<1>6. ASSUME NEW d \in 1..D PROVE Under(t, n + 1, d, Handlers(Clauses[gr[d].m], gr[d].ip))
  <2>1. CASE d = D
    <3>1. Under(t, n + 1, D, Handlers(Clauses[f.m], p))
      BY <1>4, UnderPush
    <3> QED BY <1>2, <2>1, <3>1
  <2>2. CASE d # D
    <3> DEFINE X == Handlers(Clauses[gr[d].m], gr[d].ip)
    <3>1. Under(s, n, d, X)
      BY <1>1, <1>2, <2>2 DEF Mirrors, n
    <3> HIDE DEF X
    <3>2. Under(t, n, d, X)
      BY <1>4, <3>1, UnderSame
    <3>3. \A k \in n + 1..n + 1 : t[k].frame # d
      BY <1>4, <2>2
    <3>4. n + 1 \in Nat /\ n \in 0..n + 1
      BY <1>4
    <3> QED BY <3>2, <3>3, <3>4, UnderOther DEF X
  <2> QED BY <2>1, <2>2
<1>7. Mirrors(gr, t, D)
  BY <1>4, <1>6 DEF Mirrors
<1> QED BY <1>1, <1>2, <1>3, <1>4, <1>5, <1>7 DEF Settled, gr, t

\* A new flow is raised in the innermost frame.
LEMMA PushThrow ==
  ASSUME PlainCode, NEW fr, NEW s, Settled(fr, s), fr # <<>>, NEW e \in Ex
  PROVE  Unsettled(fr, Append(s, ThrowFlow(fr[Len(fr)].m, Len(fr), fr[Len(fr)].ip, e)))
<1> DEFINE D == Len(fr)
           f == ThrowFlow(fr[D].m, D, fr[D].ip, e)
           t == Append(s, f)
           n == Len(s)
<1>1. D \in Nat \ {0} /\ D \in 1..D /\ fr[D] \in FrameRec /\ FlowsOk(fr, s)
  BY DEF Settled, FlowsOk
<1>2. fr[D].m \in Method /\ fr[D].ip \in Point
  BY <1>1 DEF FrameRec
<1>3. f \in FlowRec /\ f.throw = TRUE /\ f.frame = D /\ f.m = fr[D].m /\ f.ip = fr[D].ip
      /\ f.cur = 0 /\ f.next = 1 /\ f.handled = FALSE
  BY <1>1, <1>2 DEF ThrowFlow, FlowRec, ThrowRec
<1> HIDE DEF f
<1>4. Len(Clauses[fr[D].m]) \in Nat
  BY <1>2, PlainTable, SetsOfClauses
<1>5. FlowOk(f)
  BY <1>3, <1>4 DEF FlowOk, ThrowOk
<1>6. Behind(f) = Handlers(Clauses[fr[D].m], fr[D].ip)
  BY <1>3 DEF Behind
<1>7. Under(s, n, D, Behind(f))
  BY <1>1, <1>6 DEF Settled, Mirrors
<1>8. FlowsOk(fr, t)
  BY <1>1, <1>3, <1>5, <1>7, PushedFlows
<1>9. Len(t) = n + 1 /\ n \in Nat /\ t[n + 1] = f /\ \A k \in 1..n : t[k] = s[k]
  BY <1>1, <1>3, Pushed DEF FlowsOk
<1> HIDE DEF t, n
<1>10. Entered(t, Len(t) - 1)
  BY <1>9 DEF Settled, Entered, n
<1>11. ASSUME NEW d \in 1..D - 1, NEW X, Under(s, n, d, X) PROVE Under(t, n + 1, d, X)
  <2>1. Under(t, n, d, X)
    BY <1>9, <1>11, UnderSame
  <2>2. \A k \in n + 1..n + 1 : t[k].frame # d
    BY <1>1, <1>3, <1>9
  <2>3. n + 1 \in Nat /\ n \in 0..n + 1
    BY <1>9
  <2> QED BY <2>1, <2>2, <2>3, UnderOther
<1>12. Mirrors(fr, t, D - 1)
  BY <1>1, <1>9, <1>11 DEF Settled, Mirrors, n
<1>13. t # <<>>
  BY <1>9
<1>14. Unwound(t[Len(t)], Clauses[fr[D].m], fr[D].ip)
  BY <1>3, <1>9 DEF Unwound
<1> QED BY <1>1, <1>3, <1>8, <1>9, <1>10, <1>12, <1>13, <1>14 DEF Unsettled, Settled, t, f

LEMMA RaisedFlows ==
  ASSUME PlainCode, NEW fr, NEW s, Settled(fr, s), fr # <<>>, NEW e \in Ex
  PROVE  Unsettled(fr, Raised(fr, s, e))
<1> DEFINE D == Len(fr)
<1>1. CASE ~ InFilterCheck(s, D)
  BY <1>1, PushThrow DEF Raised
<1>2. CASE InFilterCheck(s, D)
  <2> DEFINE f == s[Len(s)]
             cs == Clauses[fr[D].m]
             p == fr[D].ip
  <2>1. s # <<>> /\ f.throw /\ f.frame = D /\ f.cur # 0 /\ ~f.handled /\ Clauses[f.m][f.cur].kind = "filter"
    BY <1>2 DEF InFilterCheck
  <2>2. /\ Len(s) \in Nat \ {0} /\ Len(s) \in 1..Len(s) /\ D \in Nat \ {0}
        /\ fr[D] \in FrameRec /\ FlowsOk(fr, s)
    BY <2>1 DEF Settled, FlowsOk
  <2>3. f.m = fr[D].m /\ FlowOk(f) /\ fr[D].m \in Method
    BY <2>1, <2>2 DEF FlowsOk, FrameRec
  <2>4. Under(s, Len(s), D, Handlers(cs, p))
    BY <2>2 DEF Settled, Mirrors
  <2>5. Handlers(cs, p) # {} /\ f.next - 1 = Min(Handlers(cs, p))
    BY <2>1, <2>2, <2>4, UnderTop
  <2>6. f.cur = f.next - 1 /\ f.cur \in Handlers(cs, p)
    <3>1. f.cur = f.next - 1
      BY <2>1, <2>3 DEF FlowOk, ThrowOk
    <3> QED BY <2>3, <2>5, <3>1, PlainTable, Innermost
  <2> HIDE DEF f, p
  <2>7. ASSUME NEW i \in Trys(cs, p), cs[i].try \subseteq cs[f.next - 1].handler PROVE FALSE
    <3>1. i \in 1..Len(cs) /\ p \in cs[i].try
      BY DEF Trys
    <3>2. f.cur \in 1..Len(cs) /\ cs[f.cur].kind = "filter" /\ p \in cs[f.cur].handler
      BY <2>1, <2>3, <2>6 DEF Handlers
    <3>3. i # f.cur
      BY <2>3, <3>1, <3>2, PlainTable, Apart DEF Idx
    <3>4. cs[i].try \cap cs[f.cur].handler = {}
      BY <2>3, <3>1, <3>2, <3>3, PlainTable DEF PlainFilters
    <3> QED BY <2>7, <3>1, <3>2, <3>4
  <2>8. Unwound(f, cs, p)
    BY <2>1, <2>5, <2>7 DEF Unwound
  <2>9. Entered(s, Len(s) - 1) /\ Mirrors(fr, s, D - 1)
    BY <2>2 DEF Settled, Entered, Mirrors
  <2> QED BY <1>2, <2>1, <2>2, <2>8, <2>9 DEF Unsettled, Settled, Raised, f, p
<1> QED BY <1>1, <1>2

--------------------------------------------------------------------------------
(* pop_outscope_flows and pop_all_flow_of_cur_frame_exclude_last. *)
LEMMA PopOutscopeIs ==
  ASSUME NEW T, NEW s \in Seq(T), NEW d, NEW p
  PROVE  \E n \in 0..Len(s) :
           /\ PopOutscope(s, d, p) = SubSeq(s, 1, n)
           /\ n = 0 \/ s[n].frame # d \/ p \in CurHandler(s[n])
           /\ \A k \in n + 1..Len(s) : s[k].frame = d /\ p \notin CurHandler(s[k])
<1> DEFINE S == {0} \cup {k \in 1..Len(s) : s[k].frame # d \/ p \in CurHandler(s[k])}
<1>1. PopOutscope(s, d, p) = SubSeq(s, 1, Max(S))
  BY DEF PopOutscope, PrefixTo
<1>2. Len(s) \in Nat /\ S \subseteq 0..Len(s) /\ S # {}
  OBVIOUS
<1>3. PICK n \in S : n = Max(S) /\ \A y \in S : y <= n
  BY <1>2, MaxUpTo
<1>4. n \in 0..Len(s)
  BY <1>2, <1>3
<1>5. n = 0 \/ s[n].frame # d \/ p \in CurHandler(s[n])
  BY <1>3
<1>6. ASSUME NEW k \in n + 1..Len(s) PROVE s[k].frame = d /\ p \notin CurHandler(s[k])
  <2>1. k \in 1..Len(s) /\ ~ (k <= n)
    BY <1>4
  <2>2. k \notin S
    BY <1>3, <2>1
  <2> QED BY <2>1, <2>2
<1> QED BY <1>1, <1>3, <1>4, <1>5, <1>6

LEMMA PopFrameFlowsIs ==
  ASSUME NEW T, NEW s \in Seq(T), NEW d
  PROVE  \E n \in 0..Len(s) :
           /\ PopFrameFlows(s, d) = SubSeq(s, 1, n)
           /\ n = 0 \/ s[n].frame # d
           /\ \A k \in n + 1..Len(s) : s[k].frame = d
<1> DEFINE S == {0} \cup {k \in 1..Len(s) : s[k].frame # d}
<1>1. PopFrameFlows(s, d) = SubSeq(s, 1, Max(S))
  BY DEF PopFrameFlows, PrefixTo
<1>2. Len(s) \in Nat /\ S \subseteq 0..Len(s) /\ S # {}
  OBVIOUS
<1>3. PICK n \in S : n = Max(S) /\ \A y \in S : y <= n
  BY <1>2, MaxUpTo
<1>4. n \in 0..Len(s)
  BY <1>2, <1>3
<1>5. n = 0 \/ s[n].frame # d
  BY <1>3
<1>6. ASSUME NEW k \in n + 1..Len(s) PROVE s[k].frame = d
  <2>1. k \in 1..Len(s) /\ ~ (k <= n)
    BY <1>4
  <2>2. k \notin S
    BY <1>3, <2>1
  <2> QED BY <2>1, <2>2
<1> QED BY <1>1, <1>3, <1>4, <1>5, <1>6

(* The flows under a catch clause c: behind every flow that is popped are  *)
(* all the handlers that c lies in, and the flow was left in its try block.*)
Around(s, k, d, cs, c) ==
  \E X \in SUBSET Nat, q \in Point :
     /\ Under(s, k, d, X) /\ Handlers(cs, Start(cs[c])) \ {c} \subseteq X
     /\ X \subseteq Handlers(cs, q) /\ c \in Trys(cs, q)

LEMMA LeaveFacts ==
  ASSUME PlainCode, NEW f, f.m \in Method, ~f.throw, FlowOk(f)
  PROVE  LET cs == Clauses[f.m]
             h == f.next - 1
             F == Finallys(cs, f.ip, f.target)
         IN /\ f.ip \in Point /\ f.target \in Point
            /\ h \in F /\ f.cur \in F /\ \A i \in F : f.cur <= i
            /\ F \subseteq Idx(cs) /\ F \subseteq Trys(cs, f.ip) \ Trys(cs, f.target)
            /\ \A i \in F : cs[i].kind = "finally"
            /\ PlainLeave(cs, f.ip, f.target) /\ <<f.ip, f.target>> \in Leaves[f.m]
<1> DEFINE cs == Clauses[f.m]
           F == Finallys(cs, f.ip, f.target)
<1>1. LeaveOk(f, cs)
  BY DEF FlowOk
<1>2. <<f.ip, f.target>> \in Leaves[f.m] /\ f.next - 1 \in F /\ f.cur = Min(F)
  BY <1>1 DEF LeaveOk
<1>3. f.ip \in Point /\ f.target \in Point
  BY <1>2, PlainTable
<1>4. PlainLeave(cs, f.ip, f.target)
  <2> DEFINE l == <<f.ip, f.target>>
  <2>1. PlainLeave(cs, l[1], l[2])
    BY <1>2, PlainTable
  <2> QED BY <2>1
<1>5. /\ F \subseteq Trys(cs, f.ip) \ Trys(cs, f.target)
      /\ \A i \in F : cs[i].kind = "finally"
  BY DEF Finallys
<1>6. cs \in Tables
  BY PlainTable
<1> HIDE DEF cs, F
<1>7. F \subseteq Idx(cs) /\ F \subseteq Nat
  BY <1>5, <1>6, SetsOfClauses
<1>8. f.cur \in F /\ \A i \in F : f.cur <= i
  <2>1. F # {}
    BY <1>2
  <2>2. Min(F) \in F /\ \A i \in F : Min(F) <= i
    BY <1>7, <2>1, MinIn
  <2> QED BY <1>2, <2>2
<1> QED BY <1>2, <1>3, <1>4, <1>5, <1>7, <1>8 DEF cs, F

LEMMA ThrowFacts ==
  ASSUME PlainCode, NEW f, f.m \in Method, f.throw, FlowOk(f), f.cur # 0
  PROVE  LET cs == Clauses[f.m]
             h == f.next - 1
         IN h = f.cur /\ h \in Idx(cs) /\ f.ip \in cs[h].try /\ (f.handled <=> cs[h].kind = "catch")
<1>1. ThrowOk(f, Clauses[f.m]) /\ Len(Clauses[f.m]) \in Nat
  BY PlainTable, SetsOfClauses DEF FlowOk
<1>2. /\ f.cur = f.next - 1 /\ f.cur \in 0..Len(Clauses[f.m])
  BY <1>1, Zenon DEF ThrowOk
<1>3. f.ip \in Clauses[f.m][f.cur].try /\ (f.handled <=> Clauses[f.m][f.cur].kind = "catch")
  BY <1>1, Zenon DEF ThrowOk
<1>4. f.cur \in Idx(Clauses[f.m])
  <2>1. \A n \in Nat : \A i \in 0..n : i # 0 => i \in 1..n
    OBVIOUS
  <2> QED BY <1>1, <1>2, <2>1, Zenon DEF Idx
<1> QED BY <1>2, <1>3, <1>4, Zenon

(* From one flow of the frame to the one behind it. *)
LEMMA AroundDown ==
  ASSUME PlainCode, NEW fr, NEW s, FlowsOk(fr, s), NEW k \in 1..Len(s), NEW m \in Method,
         s[k].m = m, s[k].cur # 0, NEW c \in Idx(Clauses[m]), Clauses[m][c].kind = "catch",
         Start(Clauses[m][c]) \notin CurHandler(s[k]),
         Around(s, k, s[k].frame, Clauses[m], c)
  PROVE  Around(s, k - 1, s[k].frame, Clauses[m], c)
<1> DEFINE f == s[k]
           d == f.frame
           cs == Clauses[m]
           b == Start(cs[c])
           Y == Handlers(cs, b) \ {c}
           h == f.next - 1
<1>1. PICK X \in SUBSET Nat, q \in Point :
         Under(s, k, d, X) /\ Y \subseteq X /\ X \subseteq Handlers(cs, q) /\ c \in Trys(cs, q)
  BY DEF Around
<1>2. cs \in Tables /\ WellNested(cs)
  BY PlainTable
<1>3. k \in Nat \ {0} /\ FlowOk(f) /\ f \in FlowRec /\ f.m = m /\ Under(s, k - 1, d, Behind(f)) /\ f.cur # 0
  BY DEF FlowsOk
<1>4. X # {} /\ h = Min(X)
  BY <1>1, <1>3, UnderTop
<1>5. /\ b \notin CurHandler(f)
      /\ cs[c].kind = "catch"
      /\ \A y \in Y : c < y /\ Region(cs[c]) \subseteq cs[y].handler
      /\ CurHandler(f) = cs[f.cur].handler
  BY <1>2, <1>3, AtStart DEF CurHandler
<1>6. b \in cs[c].handler /\ c \in Nat
  BY <1>2, ClauseFacts
<1> HIDE DEF f, d, cs, b, h
<1>7. h \in X /\ (\A x \in X : h <= x) /\ h \in Handlers(cs, q) /\ h \in Idx(cs) /\ h \in Nat
  <2>1. h \in X /\ \A x \in X : h <= x
    BY <1>4, MinIn
  <2> QED BY <1>1, <1>2, <2>1, SetsOfClauses
<1>8. /\ h # c
      /\ h < c => Region(cs[h]) \subseteq cs[c].try
      /\ c < h => Region(cs[c]) \subseteq cs[h].handler
  BY <1>1, <1>2, <1>7, HandlerOrTry
<1>9. f.throw => /\ f.cur = h /\ f.ip \in cs[h].try
  BY <1>3, ThrowFacts DEF cs, h
<1>10. ~f.throw => /\ h \in Finallys(cs, f.ip, f.target) /\ f.cur \in Finallys(cs, f.ip, f.target)
                   /\ f.cur <= h /\ f.ip \in cs[h].try /\ f.ip \in Point
                   /\ PlainLeave(cs, f.ip, f.target)
  BY <1>3, LeaveFacts DEF cs, h, Trys
<1>11. h < c
  <2> SUFFICES ASSUME c < h PROVE FALSE
    BY <1>6, <1>7, <1>8
  <2>1. b \in cs[h].handler
    BY <1>6, <1>8 DEF Region
  <2>2. f.cur # h
    BY <1>5, <2>1
  <2>3. ~f.throw
    BY <1>9, <2>2
  <2>4. f.cur < h
    <3>1. f.cur \in Nat
      BY <1>2, <1>10, <2>3, SetsOfClauses DEF Finallys
    <3> QED BY <1>7, <1>10, <2>2, <2>3, <3>1
  <2>5. cs[c].try \cap cs[h].handler = {}
    <3>1. c \in 1..Len(cs)
      BY DEF Idx, cs
    <3> QED BY <1>5, <1>10, <2>3, <2>4, <3>1 DEF PlainLeave
  <2> QED BY <1>1, <1>7, <2>5 DEF Trys, Handlers
<1>12. ASSUME NEW y \in Y PROVE y # h /\ Region(cs[h]) \subseteq cs[y].handler /\ y \in Idx(cs)
  <2>1. y \in X /\ y \in Handlers(cs, q)
    BY <1>1
  <2>2. y \in Idx(cs) /\ y \in Nat
    BY <1>2, <2>1, SetsOfClauses
  <2>3. h < y
    BY <1>5, <1>6, <1>7, <1>11, <2>2
  <2> QED BY <1>2, <1>7, <2>1, <2>2, <2>3, HandlerAround
<1>13. Region(cs[h]) \subseteq cs[c].try
  BY <1>8, <1>11
<1>14. \A p : p \in Region(cs[h]) => c \in Trys(cs, p) /\ Y \subseteq Handlers(cs, p)
  <2>1. c \in 1..Len(cs)
    BY DEF Idx, cs
  <2> QED BY <1>12, <1>13, <2>1 DEF Trys, Handlers, Idx
<1>15. \A p : Handlers(cs, p) \in SUBSET Nat
  BY <1>2, SetsOfClauses
<1> HIDE DEF Y
<1>16. CASE f.throw /\ f.handled
  <2>1. Behind(f) = Handlers(cs, Start(cs[h])) \ {h}
    BY <1>3, <1>9, <1>16 DEF Behind, cs
  <2>2. Start(cs[h]) \in Region(cs[h]) /\ Start(cs[h]) \in Point
    BY <1>2, <1>7, ClauseFacts DEF Region
  <2>3. /\ Y \subseteq Behind(f) /\ Behind(f) \subseteq Handlers(cs, Start(cs[h]))
        /\ c \in Trys(cs, Start(cs[h]))
    BY <1>12, <1>14, <2>1, <2>2
  <2>4. Behind(f) \in SUBSET Nat
    BY <1>15, <2>3
  <2> QED BY <1>3, <2>2, <2>3, <2>4 DEF Around, Y, d, f, cs, b
<1>17. CASE f.throw /\ ~f.handled
  <2>1. Behind(f) = Handlers(cs, f.ip)
    BY <1>3, <1>17 DEF Behind, cs
  <2>2. f.ip \in Region(cs[h]) /\ f.ip \in Point
    BY <1>2, <1>7, <1>9, <1>17, ClauseFacts DEF Region
  <2>3. Y \subseteq Behind(f) /\ Behind(f) \subseteq Handlers(cs, f.ip) /\ c \in Trys(cs, f.ip)
    BY <1>14, <2>1, <2>2
  <2>4. Behind(f) \in SUBSET Nat
    BY <1>15, <2>3
  <2> QED BY <1>3, <2>2, <2>3, <2>4 DEF Around, Y, d, f, cs, b
<1>18. CASE ~f.throw
  <2>1. Behind(f) = Handlers(cs, f.target)
    BY <1>3, <1>18 DEF Behind, cs
  <2>2. f.ip \in Region(cs[h]) /\ f.ip \in Point
    BY <1>10, <1>18 DEF Region
  <2>3. Y \subseteq Handlers(cs, f.ip) /\ c \in Trys(cs, f.ip)
    BY <1>14, <2>2
  <2>4. Behind(f) \subseteq Handlers(cs, f.ip)
    BY <1>10, <1>18, <2>1 DEF PlainLeave
  <2>5. ASSUME NEW y \in Y, y \notin Behind(f) PROVE FALSE
    <3>1. y \in Handlers(cs, f.ip) \ Handlers(cs, f.target)
      BY <2>1, <2>3, <2>5
    <3>2. f.target \notin cs[y].handler
      BY <1>12, <3>1 DEF Handlers, Idx
    <3>3. f.target \notin cs[c].try
      BY <1>5, <3>2 DEF Region
    <3>4. c \in Trys(cs, f.ip) \ Trys(cs, f.target)
      BY <2>3, <3>3 DEF Trys
    <3>5. cs[c].kind # "catch"
      BY <1>10, <1>11, <1>18, <3>1, <3>4 DEF PlainLeave
    <3> QED BY <1>5, <3>5
  <2>6. Y \subseteq Behind(f)
    BY <2>5
  <2>7. Behind(f) \in SUBSET Nat
    BY <1>15, <2>4
  <2> QED BY <1>3, <2>2, <2>3, <2>4, <2>6, <2>7 DEF Around, Y, d, f, cs, b
<1> QED BY <1>16, <1>17, <1>18 DEF d, f, cs

(* Down to the flow at which pop_outscope_flows stops. *)
LEMMA AroundAll ==
  ASSUME PlainCode, NEW fr, NEW s, FlowsOk(fr, s), Entered(s, Len(s)), NEW m \in Method, NEW d,
         \A k \in 1..Len(s) : s[k].frame = d => s[k].m = m,
         NEW c \in Idx(Clauses[m]), Clauses[m][c].kind = "catch",
         Around(s, Len(s), d, Clauses[m], c), NEW n \in 0..Len(s),
         \A k \in n + 1..Len(s) : s[k].frame = d /\ Start(Clauses[m][c]) \notin CurHandler(s[k])
  PROVE  Around(s, n, d, Clauses[m], c)
<1> DEFINE cs == Clauses[m]
           K == {k \in n..Len(s) : Around(s, k, d, cs, c)}
           j == Min(K)
<1>1. Len(s) \in Nat /\ n \in Nat /\ Len(s) \in n..Len(s)
  BY DEF FlowsOk
<1>2. K \subseteq Nat /\ K # {}
  BY <1>1
<1>3. j \in K /\ \A k \in K : j <= k
  <2> HIDE DEF K
  <2> QED BY <1>2, MinIn
<1>4. j \in n..Len(s) /\ j \in Nat /\ Around(s, j, d, cs, c)
  BY <1>1, <1>3
<1> HIDE DEF j, cs
<1>5. CASE j > n
  <2>1. j \in 1..Len(s) /\ j \in n + 1..Len(s) /\ j - 1 \in n..Len(s)
    BY <1>1, <1>4, <1>5
  <2>2. s[j].frame = d /\ s[j].m = m /\ s[j].cur # 0 /\ Start(Clauses[m][c]) \notin CurHandler(s[j])
    BY <2>1 DEF Entered
  <2>3. Around(s, j, s[j].frame, Clauses[m], c)
    BY <1>4, <2>2 DEF cs
  <2>4. Around(s, j - 1, s[j].frame, Clauses[m], c)
    BY <2>1, <2>2, <2>3, AroundDown
  <2>5. j - 1 \in K
    BY <2>1, <2>2, <2>4 DEF cs
  <2>6. j <= j - 1
    BY <1>3, <2>5
  <2> QED BY <1>4, <2>6
<1>6. CASE j = n
  BY <1>4, <1>6 DEF cs
<1> QED BY <1>1, <1>4, <1>5, <1>6

LEMMA UnderMin ==
  ASSUME NEW s, NEW n, NEW d, NEW X, NEW Y, X # {}, Y # {}, Min(X) = Min(Y), Under(s, n, d, X)
  PROVE  Under(s, n, d, Y)
BY DEF Under

\* After pop_outscope_flows the top flow of the frame runs the handler that the catch handler lies in.
LEMMA Unpopped ==
  ASSUME PlainCode, NEW fr, NEW s, FlowsOk(fr, s), Entered(s, Len(s)), NEW m \in Method, NEW d \in Nat,
         \A k \in 1..Len(s) : s[k].frame <= d /\ (s[k].frame = d => s[k].m = m),
         NEW c \in Idx(Clauses[m]), Clauses[m][c].kind = "catch",
         NEW p \in Point, c \in Trys(Clauses[m], p), Under(s, Len(s), d, Handlers(Clauses[m], p)),
         NEW n \in 0..Len(s),
         n = 0 \/ s[n].frame # d \/ Start(Clauses[m][c]) \in CurHandler(s[n]),
         \A k \in n + 1..Len(s) : s[k].frame = d /\ Start(Clauses[m][c]) \notin CurHandler(s[k])
  PROVE  Under(s, n, d, Handlers(Clauses[m], Start(Clauses[m][c])) \ {c})
<1> DEFINE cs == Clauses[m]
           b == Start(cs[c])
           Y == Handlers(cs, b) \ {c}
<1>1. cs \in Tables /\ WellNested(cs)
  BY PlainTable
<1>2. \A y \in Y : c < y /\ Region(cs[c]) \subseteq cs[y].handler
  BY <1>1, AtStart
<1>3. Around(s, Len(s), d, cs, c)
  <2>1. Handlers(cs, p) \in SUBSET Nat
    BY <1>1, SetsOfClauses
  <2>2. Y \subseteq Handlers(cs, p)
    <3> SUFFICES ASSUME NEW y \in Y PROVE y \in Handlers(cs, p)
      OBVIOUS
    <3>1. y \in 1..Len(cs)
      BY DEF Handlers
    <3> QED BY <1>2, <3>1 DEF Region, Trys, Handlers
  <2> HIDE DEF cs
  <2> QED BY <2>1, <2>2 DEF Around, cs
<1>4. Around(s, n, d, cs, c)
  BY <1>3, AroundAll
<1>5. PICK X \in SUBSET Nat, q \in Point :
         Under(s, n, d, X) /\ Y \subseteq X /\ X \subseteq Handlers(cs, q) /\ c \in Trys(cs, q)
  BY <1>4 DEF Around
<1>6. Len(s) \in Nat /\ n \in Nat /\ \A k \in 1..n : k \in 1..Len(s)
  BY DEF FlowsOk
<1>7. ASSUME \A k \in 1..n : s[k].frame # d PROVE Under(s, n, d, Y)
  <2>1. X = {}
    BY <1>5, <1>7, UnderNone
  <2> QED BY <1>5, <2>1
<1>8. CASE n = 0
  BY <1>7, <1>8
<1>9. CASE n # 0 /\ s[n].frame # d
  <2>1. n \in 1..Len(s)
    BY <1>6, <1>9
  <2>2. \A k \in 1..n : s[k].frame <= s[n].frame /\ s[k].frame \in Nat
    <3> SUFFICES ASSUME NEW k \in 1..n PROVE s[k].frame <= s[n].frame /\ s[k].frame \in Nat
      OBVIOUS
    <3>1. k \in 1..Len(s) /\ (k < n \/ k = n)
      BY <1>6
    <3>2. s[k].frame \in Nat
      BY <3>1 DEF FlowsOk
    <3> QED BY <2>1, <3>1, <3>2 DEF FlowsOk
  <2>3. s[n].frame < d
    BY <1>9, <2>1, <2>2
  <2>4. \A k \in 1..n : s[k].frame # d
    BY <2>1, <2>2, <2>3
  <2> QED BY <1>7, <2>4
<1>10. CASE n # 0 /\ s[n].frame = d /\ b \in CurHandler(s[n])
  <2> DEFINE f == s[n]
             h == f.next - 1
  <2>1. n \in 1..Len(s) /\ n \in Nat \ {0}
    BY <1>6, <1>10
  <2>2. f.m = m /\ f.cur # 0 /\ FlowOk(f)
    BY <1>10, <2>1 DEF Entered, FlowsOk
  <2>3. X # {} /\ h = Min(X)
    BY <1>5, <1>10, <2>1, UnderTop
  <2>4. h \in X /\ \A x \in X : h <= x
    <3>1. X \subseteq Nat /\ X # {}
      BY <2>3
    <3>2. Min(X) \in X /\ \A x \in X : Min(X) <= x
      BY <3>1, MinIn
    <3> QED BY <2>3, <3>2
  <2>5. b \in cs[f.cur].handler
    BY <1>10, <2>2 DEF CurHandler
  <2> HIDE DEF f, h, b, cs, Y
  <2>6. h # c
    BY <1>1, <1>5, <2>4, HandlerOrTry
  <2>7. f.throw => h = f.cur /\ h \in Idx(cs)
    BY <2>2, ThrowFacts DEF h, cs
  <2>8. ~f.throw => /\ cs[f.cur].kind = "finally" /\ f.cur \in Idx(cs) /\ f.cur <= h
    BY <2>2, LeaveFacts DEF h, cs
  <2>9. f.cur \in Y
    <3>1. f.cur \in Idx(cs) /\ f.cur # c
      BY <2>6, <2>7, <2>8 DEF cs
    <3> QED BY <2>5, <3>1 DEF Y, Handlers, Idx
  <2>10. f.cur = h
    <3>1. CASE f.throw
      BY <2>7, <3>1
    <3>2. CASE ~f.throw
      <4>1. h <= f.cur /\ f.cur <= h /\ h \in Nat /\ f.cur \in Nat
        BY <1>5, <2>4, <2>8, <2>9, <3>2
      <4> QED BY <4>1
    <3> QED BY <3>1, <3>2
  <2>11. Min(Y) = h
    <3>1. Y \subseteq Nat
      BY <1>5
    <3>2. h \in Y
      BY <2>9, <2>10
    <3>3. \A y \in Y : h <= y
      BY <1>5, <2>4
    <3> QED BY <3>1, <3>2, <3>3, MinIs
  <2>12. Under(s, n, d, Y)
    BY <1>5, <2>3, <2>9, <2>11, UnderMin
  <2> QED BY <2>12 DEF Y, b, cs
<1> QED BY <1>8, <1>9, <1>10

--------------------------------------------------------------------------------
(* Frames come and go. *)
LEMMA SettledBase ==
  ASSUME NEW fr, NEW s, Settled(fr, s), fr # <<>>
  PROVE  Base(fr, s) /\ Under(s, Len(s), Len(fr), Handlers(Clauses[fr[Len(fr)].m], fr[Len(fr)].ip))
<1>1. Len(fr) \in Nat \ {0}
  BY DEF Settled, FlowsOk
<1> QED BY <1>1 DEF Settled, Base, Mirrors

\* The top flow is one of the innermost frame: what is left when it is popped.
LEMMA Popped ==
  ASSUME NEW fr, NEW s, Settled(fr, s) \/ Unsettled(fr, s), s # <<>>, fr # <<>>,
         s[Len(s)].frame = Len(fr)
  PROVE  /\ Base(fr, SubSeq(s, 1, Len(s) - 1)) /\ s[Len(s)] \in FlowRec
         /\ s[Len(s)].m = fr[Len(fr)].m /\ FlowOk(s[Len(s)]) /\ s[Len(s)].m \in Method
         /\ Under(SubSeq(s, 1, Len(s) - 1), Len(SubSeq(s, 1, Len(s) - 1)), Len(fr), Behind(s[Len(s)]))
<1> DEFINE n == Len(s) - 1
           t == SubSeq(s, 1, n)
<1>1. FlowsOk(fr, s) /\ FramesOk(fr)
  BY DEF Settled, Unsettled
<1>2. /\ Len(s) \in Nat \ {0} /\ n \in 0..Len(s) /\ n \in Nat /\ Len(fr) \in Nat \ {0}
      /\ fr[Len(fr)] \in FrameRec
  BY <1>1 DEF FlowsOk
<1>3. Entered(s, n)
  BY <1>2 DEF Settled, Unsettled, Entered
<1>4. Mirrors(fr, s, Len(fr) - 1)
  BY <1>2 DEF Settled, Unsettled, Mirrors
<1>5. \A k \in n + 1..Len(s) : s[k].frame = Len(fr)
  BY <1>2
<1>6. Base(fr, t)
  BY <1>1, <1>2, <1>3, <1>4, <1>5, BaseOf
<1>7. /\ s[Len(s)] \in FlowRec /\ s[Len(s)].m = fr[Len(fr)].m /\ FlowOk(s[Len(s)])
      /\ Under(s, Len(s) - 1, Len(fr), Behind(s[Len(s)]))
  BY <1>1, <1>2 DEF FlowsOk
<1>8. Len(t) = n /\ \A k \in 1..n : t[k] = s[k]
  BY <1>1, <1>2, Prefix DEF FlowsOk
<1>9. fr[Len(fr)].m \in Method
  BY <1>2 DEF FrameRec
<1> HIDE DEF t
<1>10. Under(t, n, Len(fr), Behind(s[Len(s)]))
  BY <1>2, <1>7, <1>8, UnderSame
<1> QED BY <1>6, <1>7, <1>8, <1>9, <1>10 DEF t

LEMMA Entering ==
  ASSUME PlainCode, NEW fr, NEW s, Settled(fr, s), NEW m \in Method, NEW b \in BOOLEAN
  PROVE  Settled(Append(fr, Frame(m, b)), s) /\ AtIp(Append(fr, Frame(m, b)))
<1> DEFINE a == Frame(m, b)
           gr == Append(fr, a)
           D == Len(fr)
<1>1. a \in FrameRec /\ a.m = m /\ a.ip = 0 /\ a.at = 0
  BY PointAssumption DEF Frame, FrameRec
<1>2. FlowsOk(fr, s) /\ fr \in Seq(FrameRec)
  BY DEF Settled, FlowsOk
<1> HIDE DEF a
<1>3. gr \in Seq(FrameRec) /\ Len(gr) = D + 1 /\ D \in Nat /\ gr[D + 1] = a /\ \A d \in 1..D : gr[d] = fr[d]
  BY <1>1, <1>2, Pushed
<1> HIDE DEF gr, D
<1>4. \A k \in 1..Len(s) : s[k].frame <= D /\ s[k].frame \in Nat
  BY <1>2, <1>3 DEF FlowsOk, D
<1>5. FlowsOk(gr, s)
  <2>1. \A k \in 1..Len(s) : s[k].frame <= Len(gr)
    BY <1>3, <1>4
  <2>2. \A d \in 1..Len(fr) : d <= Len(gr) => gr[d].m = fr[d].m
    BY <1>3 DEF D
  <2> QED BY <1>2, <1>3, <2>1, <2>2, OtherFrames
<1>6. FramesOk(gr)
  <2> SUFFICES ASSUME NEW d \in 1..D + 1 PROVE FrameOk(gr[d])
    BY <1>3 DEF FramesOk
  <2>1. CASE d = D + 1
    BY <1>1, <1>3, <2>1 DEF FrameOk
  <2>2. CASE d # D + 1
    BY <1>3, <2>2 DEF Settled, FramesOk, D
  <2> QED BY <2>1, <2>2
<1>7. Mirrors(gr, s, D + 1)
  <2> SUFFICES ASSUME NEW d \in 1..D + 1
               PROVE  Under(s, Len(s), d, Handlers(Clauses[gr[d].m], gr[d].ip))
    BY DEF Mirrors
  <2>1. CASE d = D + 1
    <3>1. Handlers(Clauses[m], 0) = {}
      BY PlainTable DEF WellNested, Handlers
    <3>2. \A k \in 1..Len(s) : s[k].frame # d
      BY <1>3, <1>4, <2>1
    <3> QED BY <1>1, <1>3, <2>1, <3>1, <3>2, UnderNone
  <2>2. CASE d # D + 1
    BY <1>3, <2>2 DEF Settled, Mirrors, D
  <2> QED BY <2>1, <2>2
<1>8. AtIp(gr)
  BY <1>1, <1>3 DEF AtIp
<1> QED BY <1>3, <1>5, <1>6, <1>7, <1>8 DEF Settled, gr, a

LEMMA Leaving ==
  ASSUME NEW fr, NEW s, Base(fr, s), \A k \in 1..Len(s) : s[k].frame # Len(fr)
  PROVE  Settled(SubSeq(fr, 1, Len(fr) - 1), s)
<1> DEFINE gr == SubSeq(fr, 1, Len(fr) - 1)
           D == Len(fr)
<1>1. FlowsOk(fr, s) /\ fr \in Seq(FrameRec) /\ D \in Nat \ {0} /\ D - 1 \in 0..D
  BY DEF Base, FlowsOk
<1>2. gr \in Seq(FrameRec) /\ Len(gr) = D - 1 /\ \A d \in 1..D - 1 : gr[d] = fr[d]
  BY <1>1, Prefix
<1> HIDE DEF gr
<1>3. \A k \in 1..Len(s) : s[k].frame <= Len(gr)
  BY <1>1, <1>2 DEF FlowsOk
<1>4. FlowsOk(gr, s)
  <2>1. \A d \in 1..Len(fr) : d <= Len(gr) => gr[d].m = fr[d].m
    BY <1>1, <1>2
  <2> QED BY <1>1, <1>2, <1>3, <2>1, OtherFrames
<1>5. FramesOk(gr) /\ Mirrors(gr, s, D - 1)
  BY <1>1, <1>2 DEF Base, FramesOk, Mirrors
<1> QED BY <1>2, <1>4, <1>5 DEF Settled, Base, gr

\* No clause of the innermost frame takes the exception.
LEMMA Discarding ==
  ASSUME NEW fr, NEW s, Unsettled(fr, s)
  PROVE  Settled(SubSeq(fr, 1, Len(fr) - 1), PopFrameFlows(s, Len(fr)))
<1> DEFINE D == Len(fr)
<1>1. /\ FlowsOk(fr, s) /\ fr # <<>> /\ s # <<>> /\ FramesOk(fr) /\ Entered(s, Len(s) - 1)
      /\ Mirrors(fr, s, D - 1) /\ s[Len(s)].frame = D
  BY DEF Unsettled
<1>2. s \in Seq(FlowRec) /\ Len(s) \in Nat \ {0} /\ D \in Nat \ {0}
  BY <1>1 DEF FlowsOk
<1>3. PICK n \in 0..Len(s) : /\ PopFrameFlows(s, D) = SubSeq(s, 1, n)
                             /\ n = 0 \/ s[n].frame # D
                             /\ \A k \in n + 1..Len(s) : s[k].frame = D
  BY <1>2, PopFrameFlowsIs
<1>4. n \in 0..Len(s) - 1
  BY <1>1, <1>2, <1>3
<1>5. Entered(s, n)
  BY <1>1, <1>2, <1>4 DEF Entered
<1>6. Base(fr, SubSeq(s, 1, n))
  BY <1>1, <1>3, <1>5, BaseOf
<1>7. Len(SubSeq(s, 1, n)) = n /\ \A k \in 1..n : SubSeq(s, 1, n)[k] = s[k]
  BY <1>2, <1>3, Prefix
<1>8. \A k \in 1..n : s[k].frame # D
  <2> SUFFICES ASSUME NEW k \in 1..n PROVE s[k].frame # D
    OBVIOUS
  <2>1. n \in 1..Len(s) /\ k \in 1..Len(s) /\ (k < n \/ k = n)
    BY <1>2, <1>4
  <2>2. s[n].frame \in 1..D /\ s[n].frame # D /\ s[k].frame \in 1..D
    BY <1>1, <1>3, <2>1 DEF FlowsOk
  <2>3. s[k].frame <= s[n].frame
    BY <1>1, <2>1, <2>2 DEF FlowsOk
  <2> QED BY <1>2, <2>2, <2>3
<1> QED BY <1>3, <1>6, <1>7, <1>8, Leaving

LEMMA Resuming ==
  ASSUME NEW fr, NEW s, Settled(fr, s)
  PROVE  Settled(Resumed(fr), s) /\ AtIp(Resumed(fr))
<1>1. CASE fr = <<>>
  BY <1>1 DEF Resumed, AtIp
<1>2. CASE fr # <<>>
  <2> DEFINE D == Len(fr)
             a == [fr[D] EXCEPT !.at = fr[D].ip]
             gr == [fr EXCEPT ![D] = a]
  <2>1. D \in 1..D /\ D \in Nat \ {0} /\ fr \in Seq(FrameRec) /\ fr[D] \in FrameRec /\ FlowsOk(fr, s)
    BY <1>2 DEF Settled, FlowsOk
  <2>2. a \in FrameRec /\ a.m = fr[D].m /\ a.ip = fr[D].ip /\ a.at = fr[D].ip
    BY <2>1 DEF FrameRec
  <2>3. Resumed(fr) = gr
    BY <1>2 DEF Resumed
  <2> HIDE DEF a
  <2>4. gr \in Seq(FrameRec) /\ Len(gr) = D
    BY <2>1, <2>2
  <2>5. \A d \in 1..D : gr[d] = IF d = D THEN a ELSE fr[d]
    BY <2>1
  <2> HIDE DEF gr
  <2>6. \A d \in 1..D : gr[d].m = fr[d].m /\ gr[d].ip = fr[d].ip
    BY <2>2, <2>5
  <2>7. FlowsOk(gr, s)
    <3>1. \A k \in 1..Len(s) : s[k].frame <= Len(gr)
      BY <2>1, <2>4 DEF FlowsOk
    <3> QED BY <2>1, <2>4, <2>6, <3>1, OtherFrames
  <2>8. FramesOk(gr)
    <3> SUFFICES ASSUME NEW d \in 1..D PROVE FrameOk(gr[d])
      BY <2>4 DEF FramesOk
    <3>1. CASE d = D
      BY <2>2, <2>5, <3>1 DEF FrameOk
    <3>2. CASE d # D
      BY <2>5, <3>2 DEF Settled, FramesOk
    <3> QED BY <3>1, <3>2
  <2>9. Mirrors(gr, s, D)
    BY <2>6 DEF Settled, Mirrors
  <2>10. AtIp(gr)
    BY <2>1, <2>2, <2>4, <2>5 DEF AtIp
  <2> QED BY <2>3, <2>4, <2>7, <2>8, <2>9, <2>10 DEF Settled
<1> QED BY <1>1, <1>2

\* A call leaves its frame at the next instruction, which lies in the same handlers.
LEMMA Saving ==
  ASSUME NEW fr, NEW s, Settled(fr, s), fr # <<>>, NEW p \in Point,
         LET a == fr[Len(fr)]
             cs == Clauses[a.m]
         IN /\ a.at = a.ip /\ Handlers(cs, p) = Handlers(cs, a.ip)
            /\ Trys(cs, a.ip) \subseteq Trys(cs, p)
  PROVE  Settled([fr EXCEPT ![Len(fr)].ip = p], s)
<1> DEFINE D == Len(fr)
           a == [fr[D] EXCEPT !.ip = p]
           gr == [fr EXCEPT ![D] = a]
<1>1. D \in 1..D /\ D \in Nat \ {0} /\ fr \in Seq(FrameRec) /\ fr[D] \in FrameRec /\ FlowsOk(fr, s)
  BY DEF Settled, FlowsOk
<1>2. a \in FrameRec /\ a.m = fr[D].m /\ a.ip = p /\ a.at = fr[D].at
  BY <1>1 DEF FrameRec
<1>3. [fr EXCEPT ![Len(fr)].ip = p] = gr
  OBVIOUS
<1> HIDE DEF a
<1>4. gr \in Seq(FrameRec) /\ Len(gr) = D
  BY <1>1, <1>2
<1>5. \A d \in 1..D : gr[d] = IF d = D THEN a ELSE fr[d]
  BY <1>1
<1> HIDE DEF gr
<1>6. \A d \in 1..D : gr[d].m = fr[d].m
  BY <1>2, <1>5
<1>7. FlowsOk(gr, s)
  <2>1. \A k \in 1..Len(s) : s[k].frame <= Len(gr)
    BY <1>1, <1>4 DEF FlowsOk
  <2> QED BY <1>1, <1>4, <1>6, <2>1, OtherFrames
<1>8. FramesOk(gr)
  <2> SUFFICES ASSUME NEW d \in 1..D PROVE FrameOk(gr[d])
    BY <1>4 DEF FramesOk
  <2>1. CASE d = D
    BY <1>2, <1>5, <2>1 DEF FrameOk
  <2>2. CASE d # D
    BY <1>5, <2>2 DEF Settled, FramesOk
  <2> QED BY <2>1, <2>2
<1>9. Mirrors(gr, s, D)
  <2> SUFFICES ASSUME NEW d \in 1..D
               PROVE  Handlers(Clauses[gr[d].m], gr[d].ip) = Handlers(Clauses[fr[d].m], fr[d].ip)
    BY DEF Settled, Mirrors
  <2>1. CASE d = D
    BY <1>2, <1>5, <2>1
  <2>2. CASE d # D
    BY <1>5, <2>2
  <2> QED BY <2>1, <2>2
<1> QED BY <1>3, <1>4, <1>7, <1>8, <1>9 DEF Settled

--------------------------------------------------------------------------------
(* The steps. *)
LEMMA ToRun ==
  ASSUME mode' = "run", Settled(frames', flows'), AtIp(frames')
  PROVE  FlowInv'
BY DEF FlowInv

LEMMA ToUnwind ==
  ASSUME mode' = "unwind", Unsettled(frames', flows')
  PROVE  FlowInv'
BY DEF FlowInv

LEMMA RunFacts ==
  ASSUME PlainCode, FlowInv, Running
  PROVE  /\ Settled(frames, flows) /\ AtIp(frames) /\ Base(frames, flows) /\ frames # <<>> /\ mode = "run"
         /\ Depth \in Nat \ {0} /\ Depth \in 1..Depth /\ frames \in Seq(FrameRec) /\ flows \in Seq(FlowRec)
         /\ Cur \in FrameRec /\ Cur.m \in Method /\ ip \in Point /\ Cur.at = ip
         /\ clauses \in Tables /\ WellNested(clauses) /\ PlainFilters(clauses)
         /\ Under(flows, Len(flows), Depth, Handlers(clauses, ip))
<1>1. mode = "run" /\ frames # <<>> /\ Settled(frames, flows) /\ AtIp(frames)
  BY DEF FlowInv, Running
<1>2. /\ Depth \in Nat \ {0} /\ Depth \in 1..Depth /\ frames \in Seq(FrameRec) /\ flows \in Seq(FlowRec)
      /\ Cur \in FrameRec
  BY <1>1 DEF Settled, FlowsOk, Depth, Cur
<1>3. Cur.m \in Method /\ ip \in Point
  BY <1>2 DEF FrameRec, ip
<1>4. Cur.at = ip
  BY <1>1 DEF AtIp, Cur, ip, Depth
<1>5. Base(frames, flows) /\ Under(flows, Len(flows), Depth, Handlers(clauses, ip))
  BY <1>1, SettledBase DEF Depth, Cur, clauses, ip
<1> QED BY <1>1, <1>2, <1>3, <1>4, <1>5, PlainTable DEF clauses

LEMMA UnwindFacts ==
  ASSUME PlainCode, FlowInv, mode = "unwind"
  PROVE  /\ Unsettled(frames, flows) /\ frames # <<>> /\ flows # <<>>
         /\ Depth \in Nat \ {0} /\ Depth \in 1..Depth /\ frames \in Seq(FrameRec)
         /\ Cur \in FrameRec /\ Cur.m \in Method /\ ip \in Point /\ FrameOk(Cur)
         /\ clauses \in Tables /\ WellNested(clauses) /\ PlainFilters(clauses)
         /\ TopFlow \in FlowRec /\ TopFlow.m = Cur.m /\ TopFlow.frame = Depth /\ TopFlow.next \in Nat
         /\ FlowOk(TopFlow) /\ Unwound(TopFlow, clauses, ip)
         /\ PopFlow \in Seq(FlowRec) /\ FlowsOk(frames, PopFlow) /\ Base(frames, PopFlow)
         /\ Under(PopFlow, Len(PopFlow), Depth, Behind(TopFlow))
<1>1. Unsettled(frames, flows)
  BY DEF FlowInv
<1>2. frames # <<>> /\ flows # <<>> /\ FlowsOk(frames, flows) /\ FramesOk(frames) /\ TopFlow.frame = Depth
  BY <1>1 DEF Unsettled, TopFlow, Depth
<1>3. Depth \in Nat \ {0} /\ Depth \in 1..Depth /\ frames \in Seq(FrameRec) /\ Cur \in FrameRec
  BY <1>2 DEF FlowsOk, Depth, Cur
<1>4. Cur.m \in Method /\ ip \in Point
  BY <1>3 DEF FrameRec, ip
<1>5. Unwound(TopFlow, clauses, ip)
  BY <1>1 DEF Unsettled, TopFlow, Depth, Cur, clauses, ip
<1>6. /\ Base(frames, PopFlow) /\ TopFlow \in FlowRec /\ TopFlow.m = Cur.m /\ FlowOk(TopFlow)
      /\ Under(PopFlow, Len(PopFlow), Depth, Behind(TopFlow))
  BY <1>1, <1>2, Popped DEF TopFlow, PopFlow, Cur, Depth
<1>7. TopFlow.next \in Nat
  BY <1>6 DEF FlowRec, ThrowRec, LeaveRec
<1>8. FlowsOk(frames, PopFlow) /\ PopFlow \in Seq(FlowRec)
  BY <1>6 DEF Base, FlowsOk
<1>9. FrameOk(Cur)
  BY <1>2, <1>3 DEF FramesOk, Cur, Depth
<1> QED BY <1>1, <1>2, <1>3, <1>4, <1>5, <1>6, <1>7, <1>8, <1>9, PlainTable DEF clauses

LEMMA AtMoves == \A p : At(p) = Moved(frames, p)
BY DEF At, Moved, Depth

LEMMA HostStep ==
  ASSUME PlainCode, FlowInv, NEW m \in Method, HostInvokes(m)
  PROVE  FlowInv'
<1>1. mode = "run"
  BY DEF HostInvokes, FlowInv, Unsettled
<1>2. Settled(frames, flows)
  BY <1>1 DEF FlowInv
<1>3. frames' = Append(frames, Frame(m, TRUE)) /\ flows' = flows /\ mode' = "run"
  BY <1>1 DEF HostInvokes
<1> QED BY <1>2, <1>3, Entering, ToRun

LEMMA CallStep ==
  ASSUME PlainCode, FlowInv, NEW m \in Method, NEW b \in BOOLEAN, Running, UNCHANGED <<flows, mode>>,
         NEW p \in NextIps, frames' = Append(Calling(p), Frame(m, b))
  PROVE  FlowInv'
<1>1. Settled(frames, flows) /\ frames # <<>> /\ mode' = "run" /\ Cur.at = ip /\ ip \in Point
  BY RunFacts
<1>2. /\ p \in Point /\ Handlers(clauses, p) = Handlers(clauses, ip)
      /\ Trys(clauses, ip) \subseteq Trys(clauses, p)
  BY <1>1 DEF NextIps, MayGo
<1>3. Settled(Calling(p), flows)
  BY <1>1, <1>2, Saving DEF Calling, Depth, Cur, clauses, ip
<1>4. Settled(frames', flows') /\ AtIp(frames')
  BY <1>3, Entering
<1> QED BY <1>1, <1>4, ToRun

LEMMA ReturnStep ==
  ASSUME PlainCode, FlowInv, Return
  PROVE  FlowInv'
<1>1. /\ Running /\ Handlers(clauses, ip) = {}
      /\ frames' = Resumed(SubSeq(frames, 1, Depth - 1)) /\ flows' = flows /\ mode' = mode
  BY DEF Return
<1>2. Base(frames, flows) /\ mode = "run" /\ Under(flows, Len(flows), Depth, {})
  BY <1>1, RunFacts
<1>3. \A k \in 1..Len(flows) : flows[k].frame # Len(frames)
  BY <1>2 DEF Under, Depth
<1>4. Settled(SubSeq(frames, 1, Depth - 1), flows)
  BY <1>2, <1>3, Leaving DEF Depth
<1>5. Settled(frames', flows') /\ AtIp(frames')
  BY <1>1, <1>4, Resuming
<1> QED BY <1>1, <1>2, <1>5, ToRun

LEMMA StepStep ==
  ASSUME PlainCode, FlowInv, NEW p \in Point, Step(p)
  PROVE  FlowInv'
<1>1. /\ Running /\ Handlers(clauses, p) = Handlers(clauses, ip)
      /\ frames' = Moved(frames, p) /\ flows' = flows /\ mode' = mode
  BY AtMoves DEF Step, MayGo
<1>2. Base(frames, flows) /\ mode = "run" /\ Under(flows, Len(flows), Depth, Handlers(clauses, p))
  BY <1>1, RunFacts
<1>3. Settled(frames', flows') /\ AtIp(frames')
  BY <1>1, <1>2, GoTo DEF Depth, clauses, Cur
<1> QED BY <1>1, <1>2, <1>3, ToRun

LEMMA RaiseStep ==
  ASSUME PlainCode, FlowInv, Running, NEW e \in Ex, Raise(frames, flows, e)
  PROVE  FlowInv'
<1>1. Settled(frames, flows) /\ frames # <<>>
  BY RunFacts
<1>2. mode' = "unwind" /\ frames' = frames /\ flows' = Raised(frames, flows, e)
  BY DEF Raise
<1> QED BY <1>1, <1>2, RaisedFlows, ToUnwind

LEMMA RethrowStep ==
  ASSUME PlainCode, FlowInv, Rethrow
  PROVE  FlowInv'
<1>1. Running
  BY DEF Rethrow
<1>2. CASE EnclosingThrow = 0
  BY <1>1, <1>2, RaiseStep DEF Rethrow
<1>3. CASE EnclosingThrow # 0
  <2> DEFINE stops == {k \in 1..Len(flows) :
                         flows[k].throw /\ (flows[k].frame # Depth \/ ip \in CurHandler(flows[k]))}
             k == Max({0} \cup stops)
  <2>1. EnclosingThrow = IF k # 0 /\ flows[k].frame = Depth THEN k ELSE 0
    BY DEF EnclosingThrow
  <2>2. EnclosingThrow = k /\ k # 0
    BY <1>3, <2>1
  <2>3. flows \in Seq(FlowRec) /\ Len(flows) \in Nat
    BY <1>1, RunFacts
  <2>4. {0} \cup stops \subseteq 0..Len(flows) /\ {0} \cup stops # {}
    BY <2>3
  <2>5. k \in {0} \cup stops
    <3> HIDE DEF stops
    <3> QED BY <2>3, <2>4, MaxUpTo
  <2>6. k \in 1..Len(flows) /\ flows[k].throw
    BY <2>2, <2>5
  <2>7. flows[k].ex \in Ex
    <3>1. flows[k] \in FlowRec
      BY <2>3, <2>6
    <3> QED BY <2>6, <3>1 DEF FlowRec, ThrowRec, LeaveRec
  <2> QED BY <1>1, <1>3, <2>2, <2>7, RaiseStep DEF Rethrow
<1> QED BY <1>2, <1>3

--------------------------------------------------------------------------------
(* Leaves. *)

\* The type that the compiler gives a leave says whether it exits a handler.
LEMMA LeaveTypeTells ==
  ASSUME NEW cs \in Tables, WellNested(cs), NEW src, NEW target, PlainLeave(cs, src, target)
  PROVE  /\ LeaveType(cs, src, target) # "catch" => Handlers(cs, target) = Handlers(cs, src)
         /\ LeaveType(cs, src, target) = "catch" =>
              /\ Handlers(cs, src) # {}
              /\ LET h == Min(Handlers(cs, src))
                 IN /\ h \in Handlers(cs, src) /\ Handlers(cs, target) = Handlers(cs, src) \ {h}
                    /\ cs[h].kind \in {"catch", "filter"}
<1> DEFINE trys == Trys(cs, src) \ Trys(cs, target)
           hs == Handlers(cs, src) \ Handlers(cs, target)
           E == {i \in trys \cup hs : cs[i].kind # "fault"}
<1>1. /\ Handlers(cs, target) \subseteq Handlers(cs, src)
      /\ \A h \in hs : /\ cs[h].kind \in {"catch", "filter"}
                       /\ \A i \in trys \cup hs : cs[i].kind = "fault" \/ i <= h
  BY DEF PlainLeave
<1>2. E \subseteq Nat /\ E \subseteq 0..Len(cs) /\ Len(cs) \in Nat /\ hs \subseteq Nat
  BY SetsOfClauses DEF Idx
<1>3. LeaveType(cs, src, target) = IF E = {} THEN "none" ELSE IF Max(E) \in trys THEN "try" ELSE "catch"
  BY DEF LeaveType
<1>4. ASSUME NEW h \in hs
      PROVE  LeaveType(cs, src, target) = "catch"
  <2>1. h \in E /\ \A i \in E : i <= h
    BY <1>1
  <2>2. E \subseteq Int
    BY <1>2
  <2>3. Max(E) = h
    <3> HIDE DEF E
    <3> QED BY <2>1, <2>2, MaxIs
  <2>4. h \in Idx(cs) /\ src \in cs[h].handler
    BY DEF Handlers, Idx
  <2>5. h \notin trys
    BY <2>4, Apart DEF Trys
  <2> QED BY <1>3, <2>1, <2>3, <2>5
<1>5. ASSUME hs = {} PROVE LeaveType(cs, src, target) # "catch"
  <2>1. E \subseteq trys
    BY <1>5
  <2>2. E # {} => Max(E) \in E
    <3> HIDE DEF E
    <3> QED BY <1>2, MaxUpTo
  <2> QED BY <1>3, <2>1, <2>2
<1>6. ASSUME LeaveType(cs, src, target) # "catch" PROVE Handlers(cs, target) = Handlers(cs, src)
  BY <1>1, <1>4, <1>6
<1>7. ASSUME LeaveType(cs, src, target) = "catch"
      PROVE  /\ Handlers(cs, src) # {}
             /\ LET h == Min(Handlers(cs, src))
                IN /\ h \in Handlers(cs, src) /\ Handlers(cs, target) = Handlers(cs, src) \ {h}
                   /\ cs[h].kind \in {"catch", "filter"}
  <2>1. PICK h \in hs : TRUE
    BY <1>5, <1>7
  <2> DEFINE m == Min(Handlers(cs, src))
  <2>2. Handlers(cs, src) # {}
    BY <2>1
  <2>3. m \in Handlers(cs, src) /\ \A i \in Handlers(cs, src) : m <= i
    BY <2>2, Innermost
  <2>4. m \in Nat /\ h \in Nat /\ h \in Handlers(cs, src)
    BY <2>1, <2>3, SetsOfClauses
  <2> HIDE DEF m
  <2>5. m \in hs
    <3>1. CASE m = h
      BY <2>1, <3>1
    <3>2. CASE m # h
      <4>1. m < h
        BY <2>3, <2>4, <3>2
      <4>2. Region(cs[m]) \subseteq cs[h].handler
        BY <2>3, <2>4, <4>1, HandlerAround
      <4>3. target \notin cs[h].handler
        BY <2>1 DEF Handlers
      <4>4. target \notin cs[m].handler
        BY <4>2, <4>3 DEF Region
      <4> QED BY <2>3, <4>4 DEF Handlers
    <3> QED BY <3>1, <3>2
  <2>6. \A i \in hs : i = m
    <3> SUFFICES ASSUME NEW i \in hs PROVE i = m
      OBVIOUS
    <3>1. cs[i].kind # "fault" /\ cs[m].kind # "fault"
      BY <1>1, <2>5
    <3>2. i <= m /\ m <= i /\ i \in Nat
      BY <1>1, <1>2, <2>5, <3>1
    <3> QED BY <2>4, <3>2
  <2>7. Handlers(cs, target) = Handlers(cs, src) \ {m}
    BY <1>1, <2>5, <2>6
  <2> QED BY <1>1, <2>2, <2>3, <2>5, <2>7 DEF m
<1> QED BY <1>6, <1>7

FinallysFrom(cs, src, target, n) == {i \in Finallys(cs, src, target) : i >= n}

\* The next finally block of a leave, and how many it has left then.
LEMMA NextFinally ==
  ASSUME NEW cs \in Tables, NEW src, NEW target, NEW n \in Nat, FinallysFrom(cs, src, target, n) # {}
  PROVE  LET left == FinallysFrom(cs, src, target, n)
         IN /\ Min(left) \in left /\ \A i \in left : Min(left) <= i
            /\ Min(left) \in Idx(cs) /\ cs[Min(left)].kind = "finally"
            /\ Min(left) \in Finallys(cs, src, target)
            /\ Cardinality(left) - 1 \in Nat
            /\ Cardinality(left) - 1 = Cardinality(FinallysFrom(cs, src, target, Min(left) + 1))
<1> DEFINE left == FinallysFrom(cs, src, target, n)
           F == Finallys(cs, src, target)
           g == Min(left)
<1>0. left = {i \in F : i >= n} /\ left # {}
  BY DEF FinallysFrom
<1>1. F \subseteq Idx(cs) /\ \A i \in F : cs[i].kind = "finally"
  BY SetsOfClauses DEF Finallys
<1> HIDE DEF left
<1>2. Idx(cs) \subseteq Nat /\ Len(cs) \in Nat /\ IsFiniteSet(Idx(cs))
  <2>1. Idx(cs) \subseteq Nat /\ 1 \in Int /\ Len(cs) \in Int /\ Len(cs) \in Nat
    BY SetsOfClauses
  <2>2. IsFiniteSet(1..Len(cs))
    BY <2>1, FS_Interval
  <2> QED BY <2>1, <2>2 DEF Idx
<1>3. left \subseteq Nat /\ IsFiniteSet(left)
  BY <1>0, <1>1, <1>2, FS_Subset
<1>4. g \in left /\ \A i \in left : g <= i
  BY <1>0, <1>3, MinIn
<1>5. {i \in F : i >= g + 1} = left \ {g}
  <2>1. ASSUME NEW i \in F PROVE i >= g + 1 <=> i \in left \ {g}
    <3>1. i \in Nat /\ g \in Nat /\ g >= n
      BY <1>0, <1>1, <1>2, <1>4
    <3>2. i >= g + 1 => i >= n /\ i # g
      BY <3>1
    <3>3. i \in left /\ i # g => i >= g + 1
      BY <1>4, <3>1
    <3> QED BY <1>0, <3>2, <3>3
  <2>2. left \subseteq F
    BY <1>0
  <2> QED BY <2>1, <2>2
<1>6. Cardinality(left \ {g}) = Cardinality(left) - 1 /\ Cardinality(left) \in Nat
  BY <1>3, <1>4, FS_RemoveElement, FS_CardinalityType
<1>7. Cardinality(left \ {g}) \in Nat
  BY <1>3, FS_Subset, FS_CardinalityType
<1>8. FinallysFrom(cs, src, target, g + 1) = left \ {g}
  BY <1>5 DEF FinallysFrom
<1> QED BY <1>0, <1>1, <1>4, <1>6, <1>7, <1>8 DEF left

\* The finally blocks of a leave start over the flows that mirror its target.
LEMMA RunFinallysStep ==
  ASSUME PlainCode, FlowInv, NEW s, Base(frames, s), Running, UNCHANGED mode,
         NEW src, NEW target, <<src, target>> \in Leaves[Cur.m],
         Under(s, Len(s), Depth, Handlers(clauses, target)),
         RunFinallys(src, target, s)
  PROVE  FlowInv'
<1> DEFINE F == Finallys(clauses, src, target)
           g == Min(F)
           p == Start(clauses[g])
           f == LeaveFlow(src, target, g, Cardinality(F) - 1)
<1>1. F # {} /\ frames' = Moved(frames, p) /\ flows' = Append(s, f)
  BY AtMoves DEF RunFinallys
<1>2. /\ Depth \in Nat \ {0} /\ Cur.m \in Method /\ mode = "run"
      /\ clauses \in Tables /\ WellNested(clauses)
  BY RunFacts
<1>3. src \in Point /\ target \in Point
  BY <1>2, PlainTable
<1>4. F = FinallysFrom(clauses, src, target, 0)
  BY <1>2, SetsOfClauses DEF Finallys, FinallysFrom
<1>5. /\ g \in F /\ g \in Idx(clauses) /\ Cardinality(F) - 1 \in Nat
      /\ Cardinality(F) - 1 = Cardinality(FinallysFrom(clauses, src, target, g + 1))
  <2>1. 0 \in Nat /\ clauses \in Tables /\ FinallysFrom(clauses, src, target, 0) # {}
    BY <1>1, <1>2, <1>4
  <2>2. LET left == FinallysFrom(clauses, src, target, 0)
        IN /\ Min(left) \in left /\ Min(left) \in Idx(clauses) /\ Cardinality(left) - 1 \in Nat
           /\ Cardinality(left) - 1 = Cardinality(FinallysFrom(clauses, src, target, Min(left) + 1))
    BY <2>1, NextFinally
  <2> QED BY <1>4, <2>2
<1>6. g \in Nat
  BY <1>2, <1>5, SetsOfClauses
<1> HIDE DEF F, g
<1>7. /\ f \in FlowRec /\ f.throw = FALSE /\ f.m = Cur.m /\ f.frame = Depth /\ f.ip = src
      /\ f.target = target /\ f.next = g + 1 /\ f.cur = g /\ f.remain = Cardinality(F) - 1
  BY <1>2, <1>3, <1>5, <1>6 DEF LeaveFlow, FlowRec, LeaveRec
<1> HIDE DEF f
<1>8. FlowOk(f)
  <2>1. f.next - 1 = g
    BY <1>6, <1>7
  <2>2. Finallys(Clauses[f.m], f.ip, f.target) = F
    BY <1>7 DEF F, clauses
  <2> QED BY <1>5, <1>7, <2>1, <2>2 DEF FlowOk, LeaveOk, FinallysFrom, g, F
<1>9. Behind(f) = Handlers(clauses, target)
  BY <1>7 DEF Behind, clauses
<1>10. p \in Point /\ Handlers(clauses, p) # {} /\ f.next - 1 = Min(Handlers(clauses, p)) /\ f.cur # 0
  <2>1. p \in Point /\ g \in Handlers(clauses, p) /\ Min(Handlers(clauses, p)) = g
    BY <1>2, <1>5, AtStart, ClauseFacts
  <2>2. g # 0
    BY <1>2, <1>5, SetsOfClauses
  <2> QED BY <1>6, <1>7, <2>1, <2>2
<1> HIDE DEF p
<1>11. Settled(Moved(frames, p), Append(s, f)) /\ AtIp(Moved(frames, p))
  BY <1>7, <1>8, <1>9, <1>10, EnterAt DEF Depth, Cur, clauses
<1> QED BY <1>1, <1>2, <1>11, ToRun DEF f, p, g, F

\* A leave out of a catch or filter handler pops its flow: what is left mirrors the target.
LEMMA CatchLeft ==
  ASSUME PlainCode, FlowInv, Running, NEW l \in Leaves[Cur.m], l[1] = ip,
         LeaveType(clauses, l[1], l[2]) = "catch"
  PROVE  /\ flows # <<>> /\ TopFlow.throw /\ TopFlow.frame = Depth /\ ip \in CurHandler(TopFlow)
         /\ Base(frames, PopFlow) /\ Under(PopFlow, Len(PopFlow), Depth, Handlers(clauses, l[2]))
<1> DEFINE h == Min(Handlers(clauses, ip))
<1>1. /\ Settled(frames, flows) /\ frames # <<>>
      /\ Depth \in Nat \ {0} /\ Cur.m \in Method /\ clauses \in Tables /\ WellNested(clauses)
      /\ PlainFilters(clauses) /\ Under(flows, Len(flows), Depth, Handlers(clauses, ip))
      /\ flows \in Seq(FlowRec)
  BY RunFacts
<1>2. PlainLeave(clauses, l[1], l[2])
  BY <1>1, PlainTable DEF clauses
<1>3. /\ Handlers(clauses, ip) # {} /\ h \in Handlers(clauses, ip)
      /\ Handlers(clauses, l[2]) = Handlers(clauses, ip) \ {h} /\ clauses[h].kind \in {"catch", "filter"}
  BY <1>1, <1>2, LeaveTypeTells
<1>4. PICK k \in 1..Len(flows) : flows[k].frame = Depth /\ \A j \in 1..Len(flows) : k < j => flows[j].frame # Depth
  BY <1>1, <1>3 DEF Under
<1>5. flows # <<>> /\ TopFlow.frame = Depth
  <2>1. Len(flows) \in Nat \ {0} /\ k <= Len(flows) /\ Len(flows) \in 1..Len(flows)
    BY <1>1, <1>4
  <2>2. CASE k = Len(flows)
    BY <1>4, <2>1, <2>2 DEF TopFlow
  <2>3. CASE k < Len(flows)
    <3>1. flows[k].frame <= flows[Len(flows)].frame /\ flows[Len(flows)].frame \in 1..Depth
      BY <1>1, <2>1, <2>3 DEF Settled, FlowsOk, Depth
    <3> QED BY <1>1, <1>4, <2>1, <3>1 DEF TopFlow
  <2> QED BY <2>1, <2>2, <2>3
<1>6. /\ Base(frames, PopFlow) /\ TopFlow \in FlowRec /\ TopFlow.m = Cur.m /\ FlowOk(TopFlow)
      /\ Under(PopFlow, Len(PopFlow), Depth, Behind(TopFlow))
  BY <1>1, <1>5, Popped DEF TopFlow, PopFlow, Cur, Depth
<1>7. TopFlow.next - 1 = h /\ TopFlow.cur # 0
  <2>1. Len(flows) \in Nat \ {0} /\ Len(flows) \in 1..Len(flows)
    BY <1>1, <1>5
  <2>2. TopFlow.cur # 0
    BY <1>1, <2>1 DEF Settled, Entered, TopFlow
  <2> QED BY <1>1, <1>5, <2>1, <2>2, UnderTop DEF TopFlow
<1> HIDE DEF h
<1>8. TopFlow.throw
  <2> SUFFICES ASSUME ~TopFlow.throw PROVE FALSE
    OBVIOUS
  <2>1. clauses[h].kind = "finally"
    BY <1>1, <1>6, <1>7, LeaveFacts DEF clauses
  <2> QED BY <1>3, <2>1
<1>9. /\ h = TopFlow.cur /\ TopFlow.ip \in clauses[h].try
      /\ (TopFlow.handled <=> clauses[h].kind = "catch")
  BY <1>1, <1>6, <1>7, <1>8, ThrowFacts DEF clauses
<1>10. ip \in CurHandler(TopFlow)
  <2>1. ip \in clauses[h].handler
    BY <1>3 DEF Handlers
  <2> QED BY <1>6, <1>7, <1>9, <2>1 DEF CurHandler, clauses
<1>11. Handlers(clauses, Start(clauses[h])) = Handlers(clauses, ip) /\ h \in Idx(clauses)
  BY <1>1, <1>3, SameHandlers, SetsOfClauses DEF h
<1>12. Behind(TopFlow) = Handlers(clauses, l[2])
  <2>1. CASE TopFlow.handled
    BY <1>3, <1>6, <1>8, <1>9, <1>11, <2>1 DEF Behind, clauses
  <2>2. CASE ~TopFlow.handled
    <3>1. clauses[h].kind = "filter"
      BY <1>3, <1>9, <2>2
    <3>2. Behind(TopFlow) = Handlers(clauses, TopFlow.ip)
      BY <1>6, <1>8, <2>2 DEF Behind, clauses
    <3>3. \A j \in Handlers(clauses, TopFlow.ip) : j \in Handlers(clauses, ip) \ {h}
      <4> SUFFICES ASSUME NEW j \in Handlers(clauses, TopFlow.ip) PROVE j \in Handlers(clauses, ip) \ {h}
        OBVIOUS
      <4>1. h \in Trys(clauses, TopFlow.ip)
        BY <1>9, <1>11 DEF Trys, Idx
      <4>2. j # h /\ (h < j => Region(clauses[h]) \subseteq clauses[j].handler)
        BY <1>1, <4>1, HandlerOrTry
      <4>3. j \in 1..Len(clauses) /\ TopFlow.ip \in clauses[j].handler
        BY DEF Handlers
      <4>4. clauses[j].handler \cap clauses[h].try = {}
        BY <1>1, <1>11, <3>1, <4>2, <4>3 DEF PlainFilters, Idx
      <4> QED BY <1>9, <4>3, <4>4
    <3>4. \A j \in Handlers(clauses, ip) \ {h} : j \in Handlers(clauses, TopFlow.ip)
      <4> SUFFICES ASSUME NEW j \in Handlers(clauses, ip) \ {h} PROVE j \in Handlers(clauses, TopFlow.ip)
        OBVIOUS
      <4>1. Region(clauses[h]) \subseteq clauses[j].handler
        BY <1>1, <1>11, AtStart
      <4> QED BY <1>9, <4>1 DEF Region, Handlers
    <3> QED BY <1>3, <3>2, <3>3, <3>4
  <2> QED BY <2>1, <2>2
<1> QED BY <1>5, <1>6, <1>8, <1>10, <1>12

LEMMA TopIsMine ==
  ASSUME NEW fr, NEW s, Settled(fr, s), fr # <<>>, NEW X, X # {}, Under(s, Len(s), Len(fr), X)
  PROVE  s # <<>> /\ s[Len(s)].frame = Len(fr)
<1>1. PICK k \in 1..Len(s) : s[k].frame = Len(fr)
  BY DEF Under
<1>2. Len(s) \in Nat \ {0} /\ k <= Len(s) /\ Len(s) \in 1..Len(s) /\ s # <<>> /\ Len(fr) \in Nat
  BY DEF Settled, FlowsOk
<1>3. CASE k = Len(s)
  BY <1>1, <1>2, <1>3
<1>4. CASE k < Len(s)
  <2>1. s[k].frame <= s[Len(s)].frame /\ s[Len(s)].frame \in 1..Len(fr)
    BY <1>2, <1>4 DEF Settled, FlowsOk
  <2> QED BY <1>1, <1>2, <2>1
<1> QED BY <1>2, <1>3, <1>4

LEMMA LeaveStep ==
  ASSUME PlainCode, FlowInv, Leave
  PROVE  FlowInv'
<1>1. Running /\ UNCHANGED mode
  BY DEF Leave
<1>2. PICK l \in Leaves[Cur.m] :
        /\ l[1] = ip
        /\ \/ LeaveBranch(l[1], l[2])
           \/ LeaveTryWithFinally(l[1], l[2])
           \/ LeaveCatchWithFinally(l[1], l[2])
           \/ LeaveCatchWithoutFinally(l[1], l[2])
  BY DEF Leave
<1>3. /\ Base(frames, flows) /\ mode = "run" /\ Cur.m \in Method
      /\ clauses \in Tables /\ WellNested(clauses)
      /\ Under(flows, Len(flows), Depth, Handlers(clauses, ip))
  BY <1>1, RunFacts
<1>4. l \in Point \X Point /\ PlainLeave(clauses, l[1], l[2])
  BY <1>2, <1>3, PlainTable DEF clauses
<1>5. l[1] \in Point /\ l[2] \in Point /\ <<l[1], l[2]>> \in Leaves[Cur.m]
  BY <1>4
<1>6. CASE LeaveType(clauses, l[1], l[2]) # "catch"
  <2>1. Handlers(clauses, l[2]) = Handlers(clauses, l[1])
    BY <1>3, <1>4, <1>6, LeaveTypeTells
  <2>2. Under(flows, Len(flows), Depth, Handlers(clauses, l[2]))
    BY <1>2, <1>3, <2>1
  <2>3. CASE LeaveBranch(l[1], l[2])
    <3>1. frames' = Moved(frames, l[2]) /\ flows' = flows
      BY <2>3, AtMoves DEF LeaveBranch
    <3>2. Settled(frames', flows') /\ AtIp(frames')
      BY <1>3, <1>5, <2>2, <3>1, GoTo DEF Depth, clauses, Cur
    <3> QED BY <1>1, <1>3, <3>2, ToRun
  <2>4. CASE LeaveTryWithFinally(l[1], l[2])
    <3>1. RunFinallys(l[1], l[2], flows)
      BY <2>4 DEF LeaveTryWithFinally
    <3> QED BY <1>1, <1>3, <1>5, <2>2, <3>1, RunFinallysStep
  <2> QED BY <1>2, <1>6, <2>3, <2>4 DEF LeaveCatchWithFinally, LeaveCatchWithoutFinally
<1>7. CASE LeaveType(clauses, l[1], l[2]) = "catch"
  <2>1. Base(frames, PopFlow) /\ Under(PopFlow, Len(PopFlow), Depth, Handlers(clauses, l[2]))
    BY <1>1, <1>2, <1>7, CatchLeft
  <2>2. CASE LeaveCatchWithFinally(l[1], l[2])
    <3>1. RunFinallys(l[1], l[2], PopFlow)
      BY <2>2 DEF LeaveCatchWithFinally
    <3> QED BY <1>1, <1>5, <2>1, <3>1, RunFinallysStep
  <2>3. CASE LeaveCatchWithoutFinally(l[1], l[2])
    <3>1. frames' = Moved(frames, l[2]) /\ flows' = PopFlow
      BY <2>3, AtMoves DEF LeaveCatchWithoutFinally
    <3>2. Settled(frames', flows') /\ AtIp(frames')
      BY <1>5, <2>1, <3>1, GoTo DEF Depth, clauses, Cur
    <3> QED BY <1>1, <1>3, <3>2, ToRun
  <2> QED BY <1>2, <1>7, <2>2, <2>3 DEF LeaveBranch, LeaveTryWithFinally
<1> QED BY <1>6, <1>7

LEMMA LeaveArrivesStep ==
  ASSUME PlainCode, FlowInv, LeaveArrives
  PROVE  FlowInv'
<1>1. /\ mode = "unwind" /\ TopFlow.throw = FALSE
      /\ frames' = Moved(frames, TopFlow.target) /\ flows' = PopFlow /\ mode' = "run"
  BY AtMoves DEF LeaveArrives, Unwinding
<1>2. /\ TopFlow.m = Cur.m /\ Cur.m \in Method /\ FlowOk(TopFlow) /\ Base(frames, PopFlow)
      /\ Under(PopFlow, Len(PopFlow), Depth, Behind(TopFlow))
  BY <1>1, UnwindFacts
<1>3. TopFlow.target \in Point
  BY <1>1, <1>2, LeaveFacts
<1>4. Behind(TopFlow) = Handlers(clauses, TopFlow.target)
  BY <1>1, <1>2 DEF Behind, clauses
<1>5. Settled(frames', flows') /\ AtIp(frames')
  BY <1>1, <1>2, <1>3, <1>4, GoTo DEF Depth, clauses, Cur
<1> QED BY <1>1, <1>5, ToRun

LEMMA NextLeave ==
  ASSUME NEW a \in LeaveRec, NEW n \in Nat, a.remain - 1 \in Nat
  PROVE  LET f == [a EXCEPT !.next = n, !.remain = @ - 1]
         IN /\ f \in LeaveRec /\ f.throw = a.throw /\ f.m = a.m /\ f.frame = a.frame /\ f.ip = a.ip
            /\ f.target = a.target /\ f.next = n /\ f.cur = a.cur /\ f.remain = a.remain - 1
BY DEF LeaveRec

LEMMA LeaveGoesOnStep ==
  ASSUME PlainCode, FlowInv, LeaveGoesOn
  PROVE  FlowInv'
<1> DEFINE left == FinallysFrom(clauses, TopFlow.ip, TopFlow.target, TopFlow.next)
           g == Min(left)
           p == Start(clauses[g])
           f == [TopFlow EXCEPT !.next = g + 1, !.remain = @ - 1]
<1>1. /\ mode = "unwind" /\ TopFlow.throw = FALSE /\ left # {} /\ frames' = Moved(frames, p)
      /\ flows' = Append(PopFlow, f) /\ mode' = "run"
  BY AtMoves DEF LeaveGoesOn, Unwinding, FinallysFrom
<1>2. /\ TopFlow.m = Cur.m /\ Cur.m \in Method /\ FlowOk(TopFlow) /\ Base(frames, PopFlow)
      /\ Under(PopFlow, Len(PopFlow), Depth, Behind(TopFlow)) /\ TopFlow \in FlowRec
      /\ clauses \in Tables /\ WellNested(clauses) /\ TopFlow.frame = Depth /\ TopFlow.next \in Nat
      /\ Unwound(TopFlow, clauses, ip)
  BY <1>1, UnwindFacts
<1>3. TopFlow \in LeaveRec
  BY <1>1, <1>2 DEF FlowRec, ThrowRec
<1>4. /\ g \in left /\ g \in Idx(clauses) /\ g \in Finallys(clauses, TopFlow.ip, TopFlow.target)
      /\ Cardinality(left) - 1 \in Nat
      /\ Cardinality(left) - 1 = Cardinality(FinallysFrom(clauses, TopFlow.ip, TopFlow.target, g + 1))
  <2> HIDE DEF f, p
  <2>1. /\ clauses \in Tables /\ TopFlow.next \in Nat
        /\ FinallysFrom(clauses, TopFlow.ip, TopFlow.target, TopFlow.next) # {}
    BY <1>1, <1>2
  <2> QED BY <2>1, NextFinally
<1>5. g \in Nat \ {0}
  BY <1>2, <1>4, SetsOfClauses
<1>6. LeaveOk(TopFlow, clauses)
  BY <1>1, <1>2 DEF FlowOk, clauses
<1>7. /\ <<TopFlow.ip, TopFlow.target>> \in Leaves[TopFlow.m]
      /\ TopFlow.cur = Min(Finallys(clauses, TopFlow.ip, TopFlow.target))
      /\ TopFlow.remain = Cardinality(left)
  BY <1>6 DEF LeaveOk, FinallysFrom
<1> HIDE DEF left, g
<1>8. /\ f \in FlowRec /\ f.throw = FALSE /\ f.m = TopFlow.m /\ f.frame = Depth /\ f.ip = TopFlow.ip
      /\ f.target = TopFlow.target /\ f.next = g + 1 /\ f.cur = TopFlow.cur
      /\ f.remain = Cardinality(left) - 1
  <2>1. g + 1 \in Nat /\ TopFlow.remain - 1 \in Nat
    BY <1>4, <1>5, <1>7
  <2>2. /\ f \in LeaveRec /\ f.throw = TopFlow.throw /\ f.m = TopFlow.m
        /\ f.frame = TopFlow.frame /\ f.ip = TopFlow.ip
        /\ f.target = TopFlow.target /\ f.next = g + 1 /\ f.cur = TopFlow.cur
        /\ f.remain = TopFlow.remain - 1
    BY <1>3, <2>1, NextLeave
  <2> HIDE DEF f
  <2>3. TopFlow.throw = FALSE /\ TopFlow.frame = Depth
    BY <1>1, <1>2
  <2> QED BY <1>7, <2>2, <2>3 DEF FlowRec
<1> HIDE DEF f
<1>9. FlowOk(f)
  <2>1. f.next - 1 = g
    BY <1>5, <1>8
  <2>2. Finallys(Clauses[f.m], f.ip, f.target) = Finallys(clauses, TopFlow.ip, TopFlow.target)
    BY <1>2, <1>8 DEF clauses
  <2>3. LeaveOk(f, Clauses[f.m])
    BY <1>4, <1>7, <1>8, <2>1, <2>2 DEF LeaveOk, FinallysFrom
  <2> QED BY <1>8, <2>3 DEF FlowOk
<1>10. Behind(f) = Behind(TopFlow)
  BY <1>1, <1>8 DEF Behind
<1>11. p \in Point /\ Handlers(clauses, p) # {} /\ f.next - 1 = Min(Handlers(clauses, p))
  <2>1. p \in Point /\ g \in Handlers(clauses, p) /\ Min(Handlers(clauses, p)) = g
    BY <1>2, <1>4, AtStart, ClauseFacts
  <2> QED BY <1>5, <1>8, <2>1
<1>12. f.cur # 0
  BY <1>1, <1>2, <1>8, Zenon DEF Unwound
<1> HIDE DEF p
<1>13. Settled(Moved(frames, p), Append(PopFlow, f)) /\ AtIp(Moved(frames, p))
  BY <1>2, <1>8, <1>9, <1>10, <1>11, <1>12, EnterAt DEF Depth, Cur, clauses
<1> QED BY <1>1, <1>13, ToRun DEF f, p, g, left

--------------------------------------------------------------------------------
LEMMA EndFinallyStep ==
  ASSUME PlainCode, FlowInv, EndFinally
  PROVE  FlowInv'
<1> DEFINE h == Min(Handlers(clauses, ip))
<1>1. /\ Running /\ mode' = "unwind" /\ frames' = frames /\ flows' = flows
      /\ Handlers(clauses, ip) # {} /\ Unwinds(clauses[h])
      /\ \A i \in Trys(clauses, ip) : ~(clauses[i].try \subseteq clauses[h].handler)
  BY DEF EndFinally
<1>2. /\ Settled(frames, flows) /\ frames # <<>> /\ flows \in Seq(FlowRec) /\ Depth \in Nat \ {0}
      /\ Cur.m \in Method /\ clauses \in Tables
      /\ Under(flows, Len(flows), Depth, Handlers(clauses, ip))
  BY <1>1, RunFacts
<1>3. flows # <<>> /\ TopFlow.frame = Depth
  BY <1>1, <1>2, TopIsMine DEF TopFlow, Depth
<1>4. Len(flows) \in Nat \ {0} /\ Len(flows) \in 1..Len(flows)
  BY <1>2, <1>3
<1>5. TopFlow.next - 1 = h
  BY <1>2, <1>3, <1>4, UnderTop DEF TopFlow
<1>6. TopFlow.cur # 0
  BY <1>2, <1>4 DEF Settled, Entered, TopFlow
<1>7. FlowOk(TopFlow) /\ TopFlow.m = Cur.m
  BY <1>2, <1>3, Popped DEF TopFlow, Cur, Depth
<1> HIDE DEF h
<1>8. TopFlow.throw => ~TopFlow.handled
  <2> SUFFICES ASSUME TopFlow.throw PROVE ~TopFlow.handled
    OBVIOUS
  <2>1. TopFlow.handled <=> clauses[h].kind = "catch"
    BY <1>2, <1>5, <1>6, <1>7, ThrowFacts DEF clauses
  <2> QED BY <1>1, <2>1 DEF Unwinds
<1>9. Unwound(TopFlow, clauses, ip)
  BY <1>1, <1>5, <1>6, <1>8 DEF Unwound, h
<1>10. /\ Entered(flows, Len(flows) - 1) /\ Mirrors(frames, flows, Depth - 1)
       /\ FlowsOk(frames, flows) /\ FramesOk(frames)
  BY <1>2, <1>4 DEF Settled, Entered, Mirrors, Depth
<1>11. Unsettled(frames, flows)
  BY <1>2, <1>3, <1>9, <1>10 DEF Unsettled, TopFlow, Depth, Cur, clauses, ip
<1> QED BY <1>1, <1>11, ToUnwind

--------------------------------------------------------------------------------
(* A frame that no clause saves. *)
LEMMA Discarded ==
  ASSUME PlainCode, FlowInv, NoClause
  PROVE  /\ Settled(SubSeq(frames, 1, Depth - 1), PopFrameFlows(flows, Depth)) /\ TopFlow.ex \in Ex
         /\ mode = "unwind" /\ frames \in Seq(FrameRec) /\ Depth \in Nat \ {0}
<1>1. mode = "unwind" /\ TopFlow.throw = TRUE
  BY DEF NoClause, Unwinding
<1>2. Unsettled(frames, flows) /\ frames \in Seq(FrameRec) /\ Depth \in Nat \ {0} /\ TopFlow \in FlowRec
  BY <1>1, UnwindFacts
<1>3. Settled(SubSeq(frames, 1, Depth - 1), PopFrameFlows(flows, Depth))
  BY <1>2, Discarding DEF Depth
<1>4. TopFlow.ex \in Ex
  BY <1>1, <1>2 DEF FlowRec, ThrowRec, LeaveRec
<1> QED BY <1>1, <1>2, <1>3, <1>4

LEMMA Caller ==
  ASSUME frames \in Seq(FrameRec), Depth \in Nat, Depth > 1
  PROVE  LET fr == SubSeq(frames, 1, Depth - 1)
         IN fr # <<>> /\ Len(fr) = Depth - 1 /\ fr[Len(fr)] = frames[Depth - 1]
<1>1. Depth - 1 \in 0..Len(frames) /\ Depth - 1 \in 1..Depth - 1
  BY DEF Depth
<1>2. /\ Len(SubSeq(frames, 1, Depth - 1)) = Depth - 1
      /\ \A k \in 1..Depth - 1 : SubSeq(frames, 1, Depth - 1)[k] = frames[k]
      /\ SubSeq(frames, 1, Depth - 1) \in Seq(FrameRec)
  BY <1>1, Prefix
<1> QED BY <1>1, <1>2

LEMMA PropagateToCallerStep ==
  ASSUME PlainCode, FlowInv, Depth > 1, PropagateToCaller
  PROVE  FlowInv'
<1> DEFINE fr == SubSeq(frames, 1, Depth - 1)
           s == PopFrameFlows(flows, Depth)
<1>1. NoClause /\ frames' = fr /\ mode' = mode
      /\ flows' = Append(s, ThrowFlow(frames[Depth - 1].m, Depth - 1, frames[Depth - 1].ip, TopFlow.ex))
  BY DEF PropagateToCaller
<1>2. /\ Settled(fr, s) /\ TopFlow.ex \in Ex /\ mode = "unwind" /\ frames \in Seq(FrameRec)
      /\ Depth \in Nat \ {0}
  BY <1>1, Discarded
<1>3. fr # <<>> /\ Len(fr) = Depth - 1 /\ fr[Len(fr)] = frames[Depth - 1]
  BY <1>2, Caller
<1> HIDE DEF fr, s
<1>4. Unsettled(fr, Append(s, ThrowFlow(fr[Len(fr)].m, Len(fr), fr[Len(fr)].ip, TopFlow.ex)))
  BY <1>2, <1>3, PushThrow
<1>5. Unsettled(frames', flows')
  BY <1>1, <1>3, <1>4
<1> QED BY <1>1, <1>2, <1>5, ToUnwind

LEMMA PropagateThroughNativeStep ==
  ASSUME PlainCode, FlowInv, PropagateThroughNative
  PROVE  FlowInv'
<1> DEFINE fr == SubSeq(frames, 1, Depth - 1)
           s == PopFrameFlows(flows, Depth)
<1>1. NoClause /\ Depth > 1 /\ frames' = fr /\ mode' = "unwind" /\ flows' = Raised(fr, s, TopFlow.ex)
  BY DEF PropagateThroughNative, Raise
<1>2. Settled(fr, s) /\ TopFlow.ex \in Ex /\ frames \in Seq(FrameRec) /\ Depth \in Nat \ {0}
  BY <1>1, Discarded
<1>3. fr # <<>>
  BY <1>1, <1>2, Caller
<1> QED BY <1>1, <1>2, <1>3, RaisedFlows, ToUnwind

LEMMA PropagateToNativeStep ==
  ASSUME PlainCode, FlowInv, PropagateToNative
  PROVE  FlowInv'
<1>1. /\ NoClause /\ frames' = Resumed(SubSeq(frames, 1, Depth - 1))
      /\ flows' = PopFrameFlows(flows, Depth) /\ mode' = "run"
  BY DEF PropagateToNative
<1>2. Settled(SubSeq(frames, 1, Depth - 1), PopFrameFlows(flows, Depth))
  BY <1>1, Discarded
<1> QED BY <1>1, <1>2, Resuming, ToRun

--------------------------------------------------------------------------------
(* A handler is entered. *)
(* The clause that the search stops at, and what is behind the flow.       *)
LEMMA FoundFacts ==
  ASSUME PlainCode, FlowInv, EnterHandler
  PROVE  /\ mode = "unwind" /\ TopFlow.throw /\ ~TopFlow.handled /\ TopFlow \in ThrowRec
         /\ Found \in Idx(clauses) /\ Found \in Nat /\ TopFlow.next <= Found
         /\ TopFlow.ip \in FoundClause.try /\ TopFlow.ip \in Point
         /\ \A i \in Stops(TopFlow) : Found <= i
         /\ Behind(TopFlow) = Handlers(clauses, TopFlow.ip)
         /\ frames' = Moved(frames, Start(FoundClause)) /\ mode' = "run"
<1>1. /\ mode = "unwind" /\ TopFlow.throw /\ Stops(TopFlow) # {}
      /\ frames' = Moved(frames, Start(FoundClause)) /\ mode' = "run"
  BY AtMoves DEF EnterHandler, Unwinding
<1>2. /\ TopFlow \in FlowRec /\ TopFlow.m = Cur.m /\ FlowOk(TopFlow) /\ Unwound(TopFlow, clauses, ip)
      /\ clauses \in Tables /\ TopFlow.next \in Nat
  BY <1>1, UnwindFacts
<1>3. TopFlow \in ThrowRec
  BY <1>1, <1>2 DEF FlowRec, LeaveRec
<1>4. ThrowOk(TopFlow, clauses)
  BY <1>1, <1>2 DEF FlowOk, clauses
<1>5. TopFlow.cur = TopFlow.next - 1
  BY <1>4, Zenon DEF ThrowOk
<1>6. ~TopFlow.handled
  <2>1. CASE TopFlow.cur = 0
    BY <1>4, <2>1, Zenon DEF ThrowOk
  <2>2. CASE TopFlow.cur # 0
    BY <1>1, <1>2, <2>2, Zenon DEF Unwound
  <2> QED BY <2>1, <2>2
<1>7. Stops(TopFlow) \subseteq TopFlow.next..Len(clauses) /\ \A i \in Stops(TopFlow) : TopFlow.ip \in clauses[i].try
  BY DEF Stops
<1>8. TopFlow.next # 0
  <2>1. TopFlow.cur \in 0..Len(clauses)
    BY <1>4, Zenon DEF ThrowOk
  <2> QED BY <1>2, <1>5, <2>1
<1>9. Stops(TopFlow) \subseteq Nat /\ Stops(TopFlow) \subseteq Idx(clauses)
  BY <1>2, <1>7, <1>8 DEF Idx, Tables
<1>10. Found \in Stops(TopFlow) /\ \A i \in Stops(TopFlow) : Found <= i
  BY <1>1, <1>9, MinIn DEF Found
<1>11. TopFlow.ip \in Point
  BY <1>3 DEF ThrowRec
<1>12. Behind(TopFlow) = Handlers(clauses, TopFlow.ip)
  BY <1>1, <1>2, <1>6 DEF Behind, clauses
<1>13. TopFlow.next <= Found
  BY <1>2, <1>7, <1>10 DEF Tables
<1> QED BY <1>1, <1>3, <1>6, <1>7, <1>9, <1>10, <1>11, <1>12, <1>13 DEF FoundClause

(* The flow of a filter, finally or fault handler. *)
LEMMA OtherEntered ==
  ASSUME NEW a \in ThrowRec, NEW n \in Nat, ~a.handled
  PROVE  LET f == [a EXCEPT !.next = n + 1, !.cur = n]
         IN /\ f \in ThrowRec /\ f.throw = TRUE /\ f.m = a.m /\ f.frame = a.frame /\ f.ip = a.ip
            /\ f.next = n + 1 /\ f.cur = n /\ f.handled = FALSE
<1>1. a.handled = FALSE
  BY DEF ThrowRec
<1>2. a.handled \in BOOLEAN /\ n + 1 \in Nat
  BY DEF ThrowRec
<1> QED BY <1>1, <1>2 DEF ThrowRec

(* The flow of a catch handler. *)
LEMMA CatchEntered ==
  ASSUME NEW a \in ThrowRec, NEW n \in Nat, ~a.handled
  PROVE  LET f == [a EXCEPT !.next = n + 1, !.cur = n, !.handled = TRUE]
         IN /\ f \in ThrowRec /\ f.throw = TRUE /\ f.m = a.m /\ f.frame = a.frame /\ f.ip = a.ip
            /\ f.next = n + 1 /\ f.cur = n /\ f.handled = TRUE
<1> DEFINE g == [a EXCEPT !.next = n + 1, !.cur = n]
<1>1. /\ g \in ThrowRec /\ g.throw = TRUE /\ g.m = a.m /\ g.frame = a.frame /\ g.ip = a.ip
      /\ g.next = n + 1 /\ g.cur = n
  BY OtherEntered
<1>2. [a EXCEPT !.next = n + 1, !.cur = n, !.handled = TRUE] = [g EXCEPT !.handled = TRUE]
  OBVIOUS
<1> HIDE DEF g
<1>3. [g EXCEPT !.handled = TRUE] \in ThrowRec
  BY <1>1 DEF ThrowRec
<1>4. LET f == [g EXCEPT !.handled = TRUE]
      IN f.throw = g.throw /\ f.m = g.m /\ f.frame = g.frame /\ f.ip = g.ip /\ f.next = g.next /\ f.cur = g.cur
  BY <1>1 DEF ThrowRec
<1>5. [g EXCEPT !.handled = TRUE].handled = TRUE
  BY <1>1 DEF ThrowRec
<1> HIDE DEF ThrowRec
<1> QED BY <1>1, <1>2, <1>3, <1>4, <1>5

LEMMA EnterOtherStep ==
  ASSUME PlainCode, FlowInv, EnterOther
  PROVE  FlowInv'
<1> DEFINE f == [TopFlow EXCEPT !.next = Found + 1, !.cur = Found]
           p == Start(clauses[Found])
<1>1. EnterHandler /\ clauses[Found].kind # "catch" /\ flows' = Append(PopFlow, f)
  BY DEF EnterOther, FoundClause
<1>2. /\ mode = "unwind" /\ TopFlow.throw /\ ~TopFlow.handled /\ TopFlow \in ThrowRec
      /\ Found \in Idx(clauses) /\ Found \in Nat /\ TopFlow.ip \in clauses[Found].try
      /\ Behind(TopFlow) = Handlers(clauses, TopFlow.ip)
      /\ frames' = Moved(frames, p) /\ mode' = "run"
  BY <1>1, FoundFacts DEF FoundClause
<1>3. /\ TopFlow.m = Cur.m /\ Cur.m \in Method /\ Base(frames, PopFlow) /\ TopFlow.frame = Depth
      /\ Under(PopFlow, Len(PopFlow), Depth, Behind(TopFlow))
      /\ clauses \in Tables /\ WellNested(clauses)
  BY <1>2, UnwindFacts
<1>4. /\ f \in ThrowRec /\ f.throw /\ f.m = TopFlow.m /\ f.frame = Depth /\ f.ip = TopFlow.ip
      /\ f.next = Found + 1 /\ f.cur = Found /\ f.handled = FALSE
  <2>1. /\ f \in ThrowRec /\ f.throw = TRUE /\ f.m = TopFlow.m /\ f.frame = TopFlow.frame
        /\ f.ip = TopFlow.ip
        /\ f.next = Found + 1 /\ f.cur = Found /\ f.handled = FALSE
    BY <1>2, OtherEntered
  <2> HIDE DEF f
  <2> QED BY <1>3, <2>1
<1> HIDE DEF f
<1>5. Found # 0 /\ f.next - 1 = Found /\ Found \in 0..Len(clauses)
  BY <1>2, <1>3, <1>4, SetsOfClauses DEF Idx
<1>6. FlowOk(f)
  <2>1. Clauses[f.m] = clauses
    BY <1>3, <1>4 DEF clauses
  <2>2. ThrowOk(f, clauses)
    BY <1>1, <1>2, <1>4, <1>5 DEF ThrowOk
  <2> QED BY <1>4, <2>1, <2>2 DEF FlowOk
<1>7. Behind(f) = Behind(TopFlow)
  <2>1. Behind(f) = Handlers(clauses, TopFlow.ip)
    BY <1>3, <1>4 DEF Behind, clauses
  <2> QED BY <1>2, <2>1
<1>8. p \in Point /\ Found \in Handlers(clauses, p) /\ Min(Handlers(clauses, p)) = Found
  BY <1>2, <1>3, AtStart, ClauseFacts
<1> HIDE DEF p
<1>9. Settled(Moved(frames, p), Append(PopFlow, f)) /\ AtIp(Moved(frames, p))
  <2>1. f \in FlowRec /\ f.cur # 0 /\ f.m = Cur.m /\ Handlers(clauses, p) # {}
    BY <1>3, <1>4, <1>5, <1>8 DEF FlowRec
  <2> QED BY <1>3, <1>4, <1>5, <1>6, <1>7, <1>8, <2>1, EnterAt DEF Depth, Cur, clauses
<1> QED BY <1>1, <1>2, <1>9, ToRun DEF f

LEMMA EnterCatchStep ==
  ASSUME PlainCode, FlowInv, EnterCatch
  PROVE  FlowInv'
<1> DEFINE f == [TopFlow EXCEPT !.next = Found + 1, !.cur = Found, !.handled = TRUE]
           p == Start(clauses[Found])
<1>1. EnterHandler /\ clauses[Found].kind = "catch" /\ flows' = Append(PopOutscope(PopFlow, Depth, p), f)
  BY DEF EnterCatch, FoundClause, CatchFlow
<1>2. /\ mode = "unwind" /\ TopFlow.throw /\ ~TopFlow.handled /\ TopFlow \in ThrowRec
      /\ Found \in Idx(clauses) /\ Found \in Nat /\ TopFlow.ip \in clauses[Found].try
      /\ TopFlow.ip \in Point
      /\ Behind(TopFlow) = Handlers(clauses, TopFlow.ip)
      /\ frames' = Moved(frames, p) /\ mode' = "run"
  BY <1>1, FoundFacts DEF FoundClause
<1>3. /\ TopFlow.m = Cur.m /\ Cur.m \in Method /\ Base(frames, PopFlow) /\ TopFlow.frame = Depth
      /\ Under(PopFlow, Len(PopFlow), Depth, Behind(TopFlow)) /\ PopFlow \in Seq(FlowRec)
      /\ clauses \in Tables /\ WellNested(clauses) /\ Depth \in Nat /\ FlowsOk(frames, PopFlow)
      /\ frames # <<>> /\ frames \in Seq(FrameRec)
  BY <1>2, UnwindFacts
<1>4. /\ f \in ThrowRec /\ f.throw /\ f.m = TopFlow.m /\ f.frame = Depth /\ f.ip = TopFlow.ip
      /\ f.next = Found + 1 /\ f.cur = Found /\ f.handled = TRUE
  <2>1. /\ f \in ThrowRec /\ f.throw = TRUE /\ f.m = TopFlow.m /\ f.frame = TopFlow.frame
        /\ f.ip = TopFlow.ip
        /\ f.next = Found + 1 /\ f.cur = Found /\ f.handled = TRUE
    BY <1>2, CatchEntered
  <2> HIDE DEF f
  <2> QED BY <1>3, <2>1
<1> HIDE DEF f
<1>5. Found # 0 /\ f.next - 1 = Found /\ Found \in 0..Len(clauses)
  BY <1>2, <1>3, <1>4, SetsOfClauses DEF Idx
<1>6. FlowOk(f)
  <2>1. Clauses[f.m] = clauses
    BY <1>3, <1>4 DEF clauses
  <2>2. ThrowOk(f, clauses)
    BY <1>1, <1>2, <1>4, <1>5 DEF ThrowOk
  <2> QED BY <1>4, <2>1, <2>2 DEF FlowOk
<1>7. Behind(f) = Handlers(clauses, p) \ {Found}
  BY <1>3, <1>4 DEF Behind, clauses
<1>8. p \in Point /\ Found \in Handlers(clauses, p) /\ Min(Handlers(clauses, p)) = Found
  BY <1>2, <1>3, AtStart, ClauseFacts
<1>9. PICK n \in 0..Len(PopFlow) :
        /\ PopOutscope(PopFlow, Depth, p) = SubSeq(PopFlow, 1, n)
        /\ n = 0 \/ PopFlow[n].frame # Depth \/ p \in CurHandler(PopFlow[n])
        /\ \A k \in n + 1..Len(PopFlow) : PopFlow[k].frame = Depth /\ p \notin CurHandler(PopFlow[k])
  <2> HIDE DEF p
  <2>1. PopFlow \in Seq(FlowRec)
    BY <1>3
  <2> QED BY <2>1, PopOutscopeIs
<1>10. Entered(PopFlow, Len(PopFlow)) /\ Mirrors(frames, PopFlow, Len(frames) - 1) /\ FramesOk(frames)
  BY <1>3 DEF Base
<1>11. Entered(PopFlow, n)
  BY <1>9, <1>10 DEF Entered
<1>12. Base(frames, SubSeq(PopFlow, 1, n))
  BY <1>3, <1>9, <1>10, <1>11, BaseOf DEF Depth
<1>13. \A k \in 1..Len(PopFlow) : PopFlow[k].frame <= Depth /\ (PopFlow[k].frame = Depth => PopFlow[k].m = Cur.m)
  BY <1>3 DEF FlowsOk, Depth, Cur
<1>14. /\ Under(PopFlow, Len(PopFlow), Depth, Handlers(clauses, TopFlow.ip))
       /\ Found \in Trys(clauses, TopFlow.ip)
  BY <1>2, <1>3 DEF Trys, Idx
<1>15. Under(PopFlow, n, Depth, Handlers(clauses, p) \ {Found})
  <2> HIDE DEF p
  <2>1. /\ p = Start(Clauses[Cur.m][Found]) /\ Clauses[Cur.m][Found].kind = "catch"
        /\ Found \in Idx(Clauses[Cur.m])
    BY <1>1, <1>2 DEF p, clauses
  <2> QED BY <1>2, <1>3, <1>9, <1>10, <1>13, <1>14, <2>1, Unpopped DEF clauses
<1> HIDE DEF p
<1>16. LET t == SubSeq(PopFlow, 1, n) IN Under(t, Len(t), Depth, Behind(f))
  <2>1. /\ Len(SubSeq(PopFlow, 1, n)) = n /\ n \in Nat
        /\ \A k \in 1..n : PopFlow[k] = SubSeq(PopFlow, 1, n)[k]
    BY <1>3, <1>9, Prefix
  <2> QED BY <1>7, <1>15, <2>1, UnderSame
<1>17. Settled(Moved(frames, p), Append(SubSeq(PopFlow, 1, n), f)) /\ AtIp(Moved(frames, p))
  <2>1. f \in FlowRec /\ f.cur # 0 /\ f.m = Cur.m /\ Handlers(clauses, p) # {}
    BY <1>3, <1>4, <1>5, <1>8 DEF FlowRec
  <2> QED BY <1>3, <1>4, <1>5, <1>6, <1>8, <1>12, <1>16, <2>1, EnterAt DEF Depth, Cur, clauses
<1> QED BY <1>1, <1>2, <1>9, <1>17, ToRun DEF f

--------------------------------------------------------------------------------
(* The bottom frame was entered by native code.                            *)
Hosted(fr) == fr # <<>> => fr[1].native

LEMMA HostedFrames ==
  ASSUME NEW fr \in Seq(FrameRec), Hosted(fr)
  PROVE  /\ Hosted(SubSeq(fr, 1, Len(fr) - 1))
         /\ Hosted(Resumed(fr))
         /\ fr # <<>> => \A p : Hosted(Moved(fr, p))
         /\ fr # <<>> => \A p \in Point : \A a : Hosted(Append([fr EXCEPT ![Len(fr)].ip = p], a))
<1>1. CASE fr = <<>>
  BY <1>1 DEF Resumed, Hosted
<1>2. CASE fr # <<>>
  <2> DEFINE D == Len(fr)
  <2>1. D \in Nat \ {0} /\ 1 \in 1..D /\ fr[1].native /\ fr[1] \in FrameRec /\ fr[D] \in FrameRec
    BY <1>2 DEF Hosted
  <2>2. Hosted(SubSeq(fr, 1, D - 1))
    BY <2>1 DEF Hosted
  <2>3. ASSUME NEW g, NEW a, a.native = fr[D].native, g = [fr EXCEPT ![D] = a]
        PROVE  Hosted(g)
    <3>1. g[1] = IF D = 1 THEN a ELSE fr[1]
      BY <2>1, <2>3
    <3>2. CASE D = 1
      BY <2>1, <2>3, <3>1, <3>2 DEF Hosted
    <3>3. CASE D # 1
      BY <2>1, <3>1, <3>3 DEF Hosted
    <3> QED BY <3>2, <3>3
  <2>4. Hosted(Resumed(fr))
    <3> DEFINE a == [fr[D] EXCEPT !.at = fr[D].ip]
    <3>1. a.native = fr[D].native /\ Resumed(fr) = [fr EXCEPT ![D] = a]
      BY <1>2, <2>1 DEF FrameRec, Resumed
    <3> QED BY <2>3, <3>1
  <2>5. ASSUME NEW p PROVE Hosted(Moved(fr, p))
    <3> DEFINE a == [fr[D] EXCEPT !.ip = p, !.at = p]
    <3>1. a.native = fr[D].native /\ Moved(fr, p) = [fr EXCEPT ![D] = a]
      BY <2>1 DEF FrameRec, Moved
    <3> QED BY <2>3, <3>1
  <2>6. ASSUME NEW p \in Point, NEW a PROVE Hosted(Append([fr EXCEPT ![D].ip = p], a))
    <3> DEFINE b == [fr[D] EXCEPT !.ip = p]
               g == [fr EXCEPT ![D] = b]
    <3>1. b \in FrameRec /\ b.native = fr[D].native
      BY <2>1 DEF FrameRec
    <3>2. [fr EXCEPT ![D].ip = p] = g
      BY <2>1
    <3> HIDE DEF b
    <3>3. g \in Seq(FrameRec) /\ Len(g) = D
      BY <2>1, <3>1
    <3>4. Hosted(g)
      BY <2>3, <3>1
    <3> HIDE DEF g
    <3>5. Append(g, a)[1] = g[1] /\ g # <<>>
      BY <2>1, <3>3
    <3> QED BY <3>2, <3>4, <3>5 DEF Hosted
  <2> QED BY <2>2, <2>4, <2>5, <2>6
<1> QED BY <1>1, <1>2

Inv == FlowInv /\ Hosted(frames)

LEMMA HostedNext ==
  ASSUME PlainCode, Inv, Next
  PROVE  Hosted(frames')
<1>1. frames \in Seq(FrameRec) /\ Hosted(frames) /\ Depth = Len(frames)
  BY DEF Inv, FlowInv, Settled, Unsettled, FlowsOk, Depth
<1>2. ASSUME NEW m \in Method, HostInvokes(m) PROVE Hosted(frames')
  BY <1>2 DEF HostInvokes, Frame, Hosted
<1>3. ASSUME NEW p \in NextIps, NEW a, Running, frames' = Append(Calling(p), a) PROVE Hosted(frames')
  <2>1. frames # <<>> /\ p \in Point
    BY <1>3, RunFacts DEF Inv, NextIps
  <2> QED BY <1>1, <1>3, <2>1, HostedFrames DEF Calling
<1>4. ASSUME NEW p, frames # <<>>, frames' = At(p) PROVE Hosted(frames')
  BY <1>1, <1>4, AtMoves, HostedFrames
<1>5. ASSUME frames' = SubSeq(frames, 1, Depth - 1) \/ frames' = Resumed(SubSeq(frames, 1, Depth - 1)), frames # <<>>
      PROVE  Hosted(frames')
  <2>1. SubSeq(frames, 1, Depth - 1) \in Seq(FrameRec) /\ Hosted(SubSeq(frames, 1, Depth - 1))
    <3>1. Depth - 1 \in 0..Len(frames)
      BY <1>1, <1>5
    <3> QED BY <1>1, <3>1, Prefix, HostedFrames
  <2> QED BY <1>5, <2>1, HostedFrames
<1>6. ASSUME UNCHANGED frames PROVE Hosted(frames')
  BY <1>1, <1>6
<1>7. ASSUME NEW m \in Method, NativeInvokes(m) \/ Call(m) PROVE Hosted(frames')
  BY <1>3, <1>7 DEF NativeInvokes, Call
<1>8. ASSUME Return PROVE Hosted(frames')
  BY <1>5, <1>8 DEF Return, Running
<1>9. ASSUME NEW p \in Point, Step(p) PROVE Hosted(frames')
  BY <1>4, <1>9 DEF Step, Running
<1>10. ASSUME (\E e \in Ex : Throw(e)) \/ Rethrow \/ EndFinally PROVE Hosted(frames')
  BY <1>6, <1>10 DEF Throw, Rethrow, EndFinally, Raise
<1>11. ASSUME Leave PROVE Hosted(frames')
  <2>1. frames # <<>>
    BY <1>11 DEF Leave, Running
  <2>2. \E p : frames' = At(p)
    BY <1>11 DEF Leave, LeaveBranch, LeaveTryWithFinally, LeaveCatchWithFinally,
           LeaveCatchWithoutFinally, RunFinallys
  <2> QED BY <1>4, <2>1, <2>2
<1>12. ASSUME mode = "unwind" PROVE frames # <<>>
  BY <1>12 DEF Inv, FlowInv, Unsettled
<1>13. ASSUME EnterCatch \/ EnterOther \/ LeaveArrives \/ LeaveGoesOn PROVE Hosted(frames')
  <2>1. mode = "unwind"
    BY <1>13 DEF EnterCatch, EnterOther, EnterHandler, LeaveArrives, LeaveGoesOn, Unwinding
  <2>2. \E p : frames' = At(p)
    BY <1>13 DEF EnterCatch, EnterOther, EnterHandler, LeaveArrives, LeaveGoesOn
  <2> QED BY <1>4, <1>12, <2>1, <2>2
<1>14. ASSUME PropagateToCaller \/ PropagateThroughNative \/ PropagateToNative PROVE Hosted(frames')
  <2>1. mode = "unwind"
    BY <1>14 DEF PropagateToCaller, PropagateThroughNative, PropagateToNative, NoClause, Unwinding
  <2>2. frames' = SubSeq(frames, 1, Depth - 1) \/ frames' = Resumed(SubSeq(frames, 1, Depth - 1))
    BY <1>14 DEF PropagateToCaller, PropagateThroughNative, PropagateToNative, Raise
  <2> QED BY <1>5, <1>12, <2>1, <2>2
<1> QED BY <1>2, <1>7, <1>8, <1>9, <1>10, <1>11, <1>13, <1>14 DEF Next

LEMMA NextInv ==
  ASSUME PlainCode, Inv, Next
  PROVE  Inv'
<1> USE DEF Inv
<1>1. ASSUME NEW m \in Method, HostInvokes(m) PROVE FlowInv'
  BY <1>1, HostStep
<1>2. ASSUME NEW m \in Method, NativeInvokes(m) PROVE FlowInv'
  BY <1>2, CallStep DEF NativeInvokes
<1>3. ASSUME NEW m \in Method, Call(m) PROVE FlowInv'
  BY <1>3, CallStep DEF Call
<1>4. ASSUME Return PROVE FlowInv'
  BY <1>4, ReturnStep
<1>5. ASSUME NEW p \in Point, Step(p) PROVE FlowInv'
  BY <1>5, StepStep
<1>6. ASSUME NEW e \in Ex, Throw(e) PROVE FlowInv'
  BY <1>6, RaiseStep DEF Throw
<1>7. ASSUME Rethrow PROVE FlowInv'
  BY <1>7, RethrowStep
<1>8. ASSUME Leave PROVE FlowInv'
  BY <1>8, LeaveStep
<1>9. ASSUME EndFinally PROVE FlowInv'
  BY <1>9, EndFinallyStep
<1>10. ASSUME EnterCatch PROVE FlowInv'
  BY <1>10, EnterCatchStep
<1>11. ASSUME EnterOther PROVE FlowInv'
  BY <1>11, EnterOtherStep
<1>12. ASSUME PropagateToCaller PROVE FlowInv'
  <2>1. mode = "unwind" /\ ~Cur.native
    BY <1>12 DEF PropagateToCaller, NoClause, Unwinding
  <2>2. frames # <<>> /\ Depth \in Nat \ {0}
    BY <2>1, UnwindFacts
  <2>3. Depth # 1
    BY <2>1, <2>2 DEF Hosted, Cur
  <2> QED BY <1>12, <2>2, <2>3, PropagateToCallerStep
<1>13. ASSUME PropagateThroughNative PROVE FlowInv'
  BY <1>13, PropagateThroughNativeStep
<1>14. ASSUME PropagateToNative PROVE FlowInv'
  BY <1>14, PropagateToNativeStep
<1>15. ASSUME LeaveArrives PROVE FlowInv'
  BY <1>15, LeaveArrivesStep
<1>16. ASSUME LeaveGoesOn PROVE FlowInv'
  BY <1>16, LeaveGoesOnStep
<1>17. Hosted(frames)'
  BY HostedNext
<1> QED BY <1>1, <1>2, <1>3, <1>4, <1>5, <1>6, <1>7, <1>8, <1>9, <1>10, <1>11, <1>12, <1>13, <1>14,
           <1>15, <1>16, <1>17 DEF Next

LEMMA InitInv == ASSUME Init PROVE Inv
<1>1. frames = <<>> /\ flows = <<>> /\ mode = "run"
  BY DEF Init
<1>2. Settled(frames, flows)
  BY <1>1 DEF Settled, FlowsOk, FramesOk, Entered, Mirrors
<1> QED BY <1>1, <1>2 DEF Inv, FlowInv, AtIp, Hosted

(* The inductive invariant holds of every program of Plain methods. *)
THEOREM InvAlways ==
  ASSUME PlainCode
  PROVE  Spec => []Inv
<1>1. Init => Inv
  BY InitInv
<1>2. Inv /\ [Next]_vars => Inv'
  <2> SUFFICES ASSUME Inv, [Next]_vars PROVE Inv'
    OBVIOUS
  <2>1. CASE Next
    BY <2>1, NextInv
  <2>2. CASE UNCHANGED vars
    BY <2>2 DEF vars, Inv, FlowInv
  <2> QED BY <2>1, <2>2
<1> QED BY <1>1, <1>2, PTL DEF Spec

--------------------------------------------------------------------------------
LEMMA MirrorInv == ASSUME Inv PROVE FlowsMirrorHandlers
<1>1. /\ FlowsOk(frames, flows)
      /\ mode = "run" => Mirrors(frames, flows, Len(frames))
  BY DEF Inv, FlowInv, Settled, Unsettled
<1>2. /\ \A j, k \in 1..Len(flows) : j < k => flows[j].frame <= flows[k].frame
      /\ \A k \in 1..Len(flows) : flows[k].frame <= Depth
      /\ Len(flows) \in Nat /\ Len(frames) \in Nat
  BY <1>1 DEF FlowsOk, Depth
<1>3. ASSUME mode = "run", NEW d \in 1..Depth PROVE RunsHandler(d)
  <2> DEFINE H == Handlers(Clauses[frames[d].m], frames[d].ip)
             own == FlowsOf(d)
  <2>1. Under(flows, Len(flows), d, H)
    BY <1>1, <1>3 DEF Mirrors, Depth
  <2>2. own \subseteq Int /\ \A k : k \in own <=> k \in 1..Len(flows) /\ flows[k].frame = d
    BY <1>2 DEF FlowsOf
  <2>3. CASE H = {}
    <3>1. own = {}
      BY <2>1, <2>2, <2>3 DEF Under
    <3> QED BY <2>3, <3>1 DEF RunsHandler
  <2>4. CASE H # {}
    <3>1. PICK k \in 1..Len(flows) : /\ flows[k].frame = d /\ flows[k].next - 1 = Min(H)
                                     /\ \A j \in 1..Len(flows) : k < j => flows[j].frame # d
      BY <2>1, <2>4 DEF Under
    <3>2. k \in own /\ \A j \in own : j <= k
      BY <1>2, <2>2, <3>1
    <3>3. Max(own) = k
      <4> HIDE DEF own
      <4> QED BY <2>2, <3>2, MaxIs
    <3>4. flows[k].m = frames[d].m
      BY <1>1, <3>1 DEF FlowsOk
    <3> QED BY <2>4, <3>1, <3>2, <3>3, <3>4 DEF RunsHandler
  <2> QED BY <2>3, <2>4
<1> QED BY <1>2, <1>3 DEF FlowsMirrorHandlers

(* s_exception_flows mirrors the handlers that run: no flow outlives its   *)
(* frame or the handler it runs, and none is popped too early.             *)
THEOREM FlowsMirrorTheHandlers ==
  ASSUME PlainCode
  PROVE  Spec => []FlowsMirrorHandlers
<1>1. Spec => []Inv
  BY InvAlways
<1>2. Inv => FlowsMirrorHandlers
  BY MirrorInv
<1> QED BY <1>1, <1>2, PTL

LEMMA FindsInv == ASSUME PlainCode, Inv PROVE LeaveFindsItsFlow
<1> SUFFICES ASSUME Running, NEW l \in Leaves[Cur.m], l[1] = ip, LeaveType(clauses, l[1], l[2]) = "catch"
             PROVE  LastThrowFlowIsMine
  BY DEF LeaveFindsItsFlow, Running
<1> QED BY CatchLeft DEF Inv, LastThrowFlowIsMine

(* The assertions of get_exception_in_last_throw_flow and of               *)
(* peek_top_exception_flow never fail.                                     *)
THEOREM LeavesFindTheirFlows ==
  ASSUME PlainCode
  PROVE  Spec => [](LeaveFindsItsFlow /\ FlowsNotEmpty)
<1>1. Spec => []Inv
  BY InvAlways
<1>2. Inv => LeaveFindsItsFlow /\ FlowsNotEmpty
  <2>1. Inv => FlowsNotEmpty
    BY DEF Inv, FlowInv, Unsettled, FlowsNotEmpty
  <2> QED BY <2>1, FindsInv
<1> QED BY <1>1, <1>2, PTL

--------------------------------------------------------------------------------
(* What a step does to the frames under the innermost one. *)
LEMMA CallKeeps ==
  ASSUME PlainCode, FlowInv, NEW p \in NextIps, NEW a \in FrameRec, Running, frames' = Append(Calling(p), a)
  PROVE  /\ Len(frames') = Depth + 1 /\ Depth \in Nat
         /\ \A k \in 1..Depth : frames'[k].at = frames[k].at
<1> DEFINE b == [frames[Depth] EXCEPT !.ip = p]
           g == [frames EXCEPT ![Depth] = b]
<1>1. /\ frames \in Seq(FrameRec) /\ Depth = Len(frames) /\ Depth \in Nat \ {0}
      /\ frames[Depth] \in FrameRec /\ p \in Point
  BY RunFacts DEF NextIps, Depth, Cur
<1>2. b \in FrameRec /\ b.at = frames[Depth].at
  BY <1>1 DEF FrameRec
<1>3. Calling(p) = g
  BY <1>1 DEF Calling
<1> HIDE DEF b
<1>4. g \in Seq(FrameRec) /\ Len(g) = Depth /\ \A k \in 1..Depth : g[k] = IF k = Depth THEN b ELSE frames[k]
  BY <1>1, <1>2
<1> HIDE DEF g
<1>5. Len(Append(g, a)) = Len(g) + 1 /\ \A k \in 1..Len(g) : Append(g, a)[k] = g[k]
  BY <1>4, Pushed
<1> QED BY <1>1, <1>2, <1>3, <1>4, <1>5

LEMMA OthersStay ==
  ASSUME PlainCode, Inv, Next, NEW d \in 1..Depth - 1
  PROVE  d <= Len(frames') /\ frames'[d].at \in {frames[d].at, frames[d].ip}
<1>1. frames \in Seq(FrameRec) /\ Depth = Len(frames) /\ Depth \in Nat /\ Depth # 0 /\ frames # <<>>
  BY DEF Inv, FlowInv, Settled, Unsettled, FlowsOk, Depth
<1>2. ASSUME UNCHANGED frames PROVE d <= Len(frames') /\ frames'[d].at = frames[d].at
  BY <1>1, <1>2
<1>3. ASSUME NEW p, frames' = At(p) PROVE d <= Len(frames') /\ frames'[d].at = frames[d].at
  BY <1>1, <1>3 DEF At
<1>4. ASSUME NEW p \in NextIps, NEW a \in FrameRec, Running, frames' = Append(Calling(p), a)
      PROVE  d <= Len(frames') /\ frames'[d].at = frames[d].at
  BY <1>1, <1>4, CallKeeps DEF Inv
<1>5. ASSUME frames' = SubSeq(frames, 1, Depth - 1) \/ frames' = Resumed(SubSeq(frames, 1, Depth - 1))
      PROVE  d <= Len(frames') /\ frames'[d].at \in {frames[d].at, frames[d].ip}
  <2> DEFINE g == SubSeq(frames, 1, Depth - 1)
  <2>1. g \in Seq(FrameRec) /\ Len(g) = Depth - 1 /\ \A k \in 1..Depth - 1 : g[k] = frames[k]
    <3>1. Depth - 1 \in 0..Len(frames)
      BY <1>1
    <3> QED BY <1>1, <3>1, Prefix
  <2> HIDE DEF g
  <2>2. CASE frames' = g
    BY <1>1, <2>1, <2>2
  <2>3. CASE frames' = Resumed(g)
    <3>1. g # <<>> /\ g[d] \in FrameRec
      BY <1>1, <2>1
    <3>2. Len(Resumed(g)) = Len(g)
      BY <1>1, <2>1, <3>1 DEF Resumed
    <3>3. Resumed(g)[d].at \in {g[d].at, g[d].ip}
      BY <1>1, <2>1, <3>1 DEF Resumed, FrameRec
    <3> QED BY <1>1, <2>1, <2>3, <3>2, <3>3
  <2> QED BY <1>5, <2>2, <2>3 DEF g
<1>6. ASSUME NEW m \in Method, HostInvokes(m) \/ NativeInvokes(m) \/ Call(m)
      PROVE  d <= Len(frames') /\ frames'[d].at \in {frames[d].at, frames[d].ip}
  <2>1. Frame(m, TRUE) \in FrameRec /\ Frame(m, FALSE) \in FrameRec
    BY PointAssumption DEF Frame, FrameRec
  <2> QED BY <1>1, <1>4, <1>6, <2>1 DEF HostInvokes, NativeInvokes, Call
<1>7. ASSUME Return \/ PropagateToCaller \/ PropagateThroughNative \/ PropagateToNative
      PROVE  d <= Len(frames') /\ frames'[d].at \in {frames[d].at, frames[d].ip}
  BY <1>5, <1>7 DEF Return, PropagateToCaller, PropagateThroughNative, PropagateToNative, Raise
<1>8. ASSUME (\E p \in Point : Step(p)) \/ Leave \/ EnterCatch \/ EnterOther \/ LeaveArrives \/ LeaveGoesOn
      PROVE  d <= Len(frames') /\ frames'[d].at = frames[d].at
  <2>1. \E p : frames' = At(p)
    BY <1>8 DEF Step, Leave, LeaveBranch, LeaveTryWithFinally, LeaveCatchWithFinally,
           LeaveCatchWithoutFinally,
                RunFinallys, EnterCatch, EnterOther, EnterHandler, LeaveArrives, LeaveGoesOn
  <2> QED BY <1>3, <2>1
<1>9. ASSUME (\E e \in Ex : Throw(e)) \/ Rethrow \/ EndFinally
      PROVE  d <= Len(frames') /\ frames'[d].at = frames[d].at
  BY <1>2, <1>9 DEF Throw, Rethrow, EndFinally, Raise
<1> QED BY <1>6, <1>7, <1>8, <1>9 DEF Next

--------------------------------------------------------------------------------
(* Finally blocks are not skipped. *)

\* A leave that enters the finally block g out of src enters or stays in the try block of i.
LEMMA FirstOfLeave ==
  ASSUME NEW cs \in Tables, WellNested(cs), NEW src, NEW target,
         NEW g \in Finallys(cs, src, target), NEW i \in Trys(cs, src), cs[i].kind = "finally",
         i \in Finallys(cs, src, target) => g <= i
  PROVE  Start(cs[g]) \in cs[i].try \/ i = g
<1>1. /\ g \in Trys(cs, src) /\ target \notin cs[g].try /\ g \in Idx(cs) /\ i \in Idx(cs)
      /\ Start(cs[g]) \in cs[g].handler /\ g \in Nat /\ i \in Nat /\ cs[g].kind = "finally"
  <2>1. g \in Trys(cs, src) /\ g \notin Trys(cs, target) /\ cs[g].kind = "finally"
    BY DEF Finallys
  <2>2. g \in Idx(cs) /\ i \in Idx(cs)
    BY <2>1, SetsOfClauses
  <2> QED BY <2>1, <2>2, ClauseFacts DEF Trys, Idx
<1>2. CASE g < i
  <2>1. Region(cs[g]) \subseteq cs[i].try
    BY <1>1, <1>2, TryAround
  <2> QED BY <1>1, <2>1 DEF Region
<1>3. CASE i < g
  <2>1. Region(cs[i]) \subseteq cs[g].try
    BY <1>1, <1>3, TryAround
  <2>2. target \notin cs[i].try
    BY <1>1, <2>1 DEF Region
  <2>3. i \in Finallys(cs, src, target)
    BY <2>2 DEF Trys, Finallys
  <2> QED BY <1>1, <1>3, <2>3
<1> QED BY <1>1, <1>2, <1>3

\* What the top flow has left to search when unwinding: every finally and fault clause around its frame.
LEMMA StillGuards ==
  ASSUME PlainCode, FlowInv, mode = "unwind", NEW i \in Trys(clauses, Cur.at), Unwinds(clauses[i])
  PROVE  TopFlow.ip \in clauses[i].try /\ TopFlow.next <= i /\ i \in Idx(clauses)
<1> DEFINE h == TopFlow.next - 1
<1>1. /\ clauses \in Tables /\ WellNested(clauses) /\ FrameOk(Cur) /\ TopFlow.m = Cur.m /\ Cur.m \in Method
      /\ FlowOk(TopFlow) /\ Unwound(TopFlow, clauses, ip) /\ TopFlow.next \in Nat
  BY UnwindFacts
<1>2. i \in Trys(clauses, ip) /\ i \in Idx(clauses) /\ i \in Nat \ {0}
  BY <1>1, SetsOfClauses DEF FrameOk, clauses, ip
<1>3. CASE TopFlow.cur = 0
  <2>1. TopFlow.throw /\ TopFlow.ip = ip
    BY <1>1, <1>3, Zenon DEF Unwound
  <2>2. TopFlow.cur = TopFlow.next - 1
    BY <1>1, <2>1, Zenon DEF FlowOk, ThrowOk
  <2> QED BY <1>1, <1>2, <1>3, <2>1, <2>2 DEF Trys
<1>4. CASE TopFlow.cur # 0
  <2>1. /\ Handlers(clauses, ip) # {} /\ h = Min(Handlers(clauses, ip))
        /\ \A j \in Trys(clauses, ip) : ~ (clauses[j].try \subseteq clauses[h].handler)
    BY <1>1, <1>4, Zenon DEF Unwound
  <2>2. h \in Handlers(clauses, ip) /\ h \in Nat
    BY <1>1, <2>1, Innermost, SetsOfClauses
  <2>3. TopFlow.ip \in clauses[h].try
    <3>1. CASE TopFlow.throw
      BY <1>1, <1>4, <3>1, ThrowFacts DEF clauses
    <3>2. CASE ~TopFlow.throw
      <4>1. h \in Trys(clauses, TopFlow.ip)
        BY <1>1, <3>2, LeaveFacts DEF clauses
      <4> QED BY <4>1 DEF Trys
    <3> QED BY <3>1, <3>2
  <2> HIDE DEF h
  <2>4. /\ h # i
        /\ h < i => Region(clauses[h]) \subseteq clauses[i].try
        /\ i < h => Region(clauses[i]) \subseteq clauses[h].handler
    BY <1>1, <1>2, <2>2, HandlerOrTry
  <2>5. h < i
    BY <1>2, <2>1, <2>2, <2>4 DEF Region
  <2>6. TopFlow.ip \in clauses[i].try
    BY <2>3, <2>4, <2>5 DEF Region
  <2> QED BY <1>1, <1>2, <2>2, <2>5, <2>6 DEF h
<1> QED BY <1>3, <1>4

LEMMA GuardStops ==
  ASSUME PlainCode, FlowInv, Unwinding(TRUE), NEW i \in Trys(clauses, Cur.at), Unwinds(clauses[i])
  PROVE  i \in Stops(TopFlow)
<1>1. mode = "unwind"
  BY DEF Unwinding
<1>2. TopFlow.ip \in clauses[i].try /\ TopFlow.next <= i /\ i \in Idx(clauses) /\ TopFlow.next \in Nat
      /\ clauses \in Tables
  BY <1>1, StillGuards, UnwindFacts
<1>3. i \in TopFlow.next..Len(clauses)
  BY <1>2, SetsOfClauses DEF Idx
<1> QED BY <1>2, <1>3 DEF Stops, Unwinds

LEMMA EnterGuard ==
  ASSUME PlainCode, FlowInv, EnterHandler, NEW i \in Trys(clauses, Cur.at), Unwinds(clauses[i])
  PROVE  Start(FoundClause) \in clauses[i].try \/ i = Found
<1>1. Unwinding(TRUE) /\ mode = "unwind"
  BY DEF EnterHandler, Unwinding
<1>2. /\ Found \in Idx(clauses) /\ Found \in Nat /\ TopFlow.ip \in clauses[Found].try
      /\ \A j \in Stops(TopFlow) : Found <= j
  BY FoundFacts DEF FoundClause
<1>3. clauses \in Tables /\ WellNested(clauses)
  BY <1>1, UnwindFacts
<1>4. i \in Stops(TopFlow) /\ TopFlow.ip \in clauses[i].try /\ i \in Idx(clauses) /\ i \in Nat
  BY <1>1, <1>3, GuardStops, StillGuards, SetsOfClauses
<1>5. Found <= i
  BY <1>2, <1>4
<1>6. CASE Found < i
  <2>1. Found \in Trys(clauses, TopFlow.ip) /\ i \in Trys(clauses, TopFlow.ip)
    BY <1>2, <1>4 DEF Trys, Idx
  <2>2. Region(clauses[Found]) \subseteq clauses[i].try
    BY <1>3, <1>6, <2>1, TryAround DEF Unwinds
  <2> QED BY <1>2, <1>3, <2>2, ClauseFacts DEF Region, FoundClause
<1> QED BY <1>2, <1>4, <1>5, <1>6

LEMMA LeaveGuard ==
  ASSUME PlainCode, FlowInv, Leave, NEW i \in Trys(clauses, ip), clauses[i].kind = "finally"
  PROVE  \E p : frames' = At(p) /\ (p \in clauses[i].try \/ p = Start(clauses[i]))
<1>1. Running /\ clauses \in Tables /\ WellNested(clauses)
  BY RunFacts DEF Leave
<1>2. PICK l \in Leaves[Cur.m] :
        /\ l[1] = ip
        /\ \/ LeaveBranch(l[1], l[2])
           \/ LeaveTryWithFinally(l[1], l[2])
           \/ LeaveCatchWithFinally(l[1], l[2])
           \/ LeaveCatchWithoutFinally(l[1], l[2])
  BY DEF Leave
<1> DEFINE F == Finallys(clauses, ip, l[2])
<1>3. CASE LeaveBranch(l[1], l[2]) \/ LeaveCatchWithoutFinally(l[1], l[2])
  <2>1. F = {} /\ frames' = At(l[2])
    BY <1>2, <1>3 DEF LeaveBranch, LeaveCatchWithoutFinally
  <2>2. l[2] \in clauses[i].try
    BY <2>1 DEF Finallys, Trys
  <2> QED BY <2>1, <2>2
<1>4. CASE LeaveTryWithFinally(l[1], l[2]) \/ LeaveCatchWithFinally(l[1], l[2])
  <2>1. F # {} /\ frames' = At(Start(clauses[Min(F)]))
    BY <1>2, <1>4 DEF LeaveTryWithFinally, LeaveCatchWithFinally, RunFinallys
  <2>2. F \subseteq Nat
    BY <1>1, SetsOfClauses DEF Finallys
  <2> HIDE DEF F
  <2>3. Min(F) \in F /\ \A j \in F : Min(F) <= j
    BY <2>1, <2>2, MinIn
  <2>4. Start(clauses[Min(F)]) \in clauses[i].try \/ i = Min(F)
    BY <1>1, <2>3, FirstOfLeave DEF F
  <2> QED BY <2>1, <2>4
<1> QED BY <1>2, <1>3, <1>4

LEMMA GoesOnGuard ==
  ASSUME PlainCode, FlowInv, LeaveArrives \/ LeaveGoesOn,
         NEW i \in Trys(clauses, Cur.at), clauses[i].kind = "finally"
  PROVE  \E p : frames' = At(p) /\ (p \in clauses[i].try \/ p = Start(clauses[i]))
<1> DEFINE src == TopFlow.ip
           target == TopFlow.target
           left == FinallysFrom(clauses, src, target, TopFlow.next)
<1>1. mode = "unwind" /\ TopFlow.throw = FALSE
  BY DEF LeaveArrives, LeaveGoesOn, Unwinding
<1>2. /\ TopFlow.m = Cur.m /\ Cur.m \in Method /\ FlowOk(TopFlow) /\ TopFlow.next \in Nat
      /\ clauses \in Tables /\ WellNested(clauses)
  BY <1>1, UnwindFacts
<1>3. src \in clauses[i].try /\ TopFlow.next <= i /\ i \in Idx(clauses) /\ i \in Trys(clauses, src)
  <2>1. src \in clauses[i].try /\ TopFlow.next <= i /\ i \in Idx(clauses)
    BY <1>1, StillGuards DEF Unwinds
  <2> QED BY <2>1 DEF Trys, Idx
<1>4. i \in Nat
  BY <1>2, <1>3, SetsOfClauses
<1>5. i \in Finallys(clauses, src, target) => i \in left
  BY <1>2, <1>3, <1>4 DEF FinallysFrom
<1>6. CASE LeaveArrives
  <2>1. TopFlow.remain = 0 /\ frames' = At(target)
    BY <1>6 DEF LeaveArrives
  <2>2. LeaveOk(TopFlow, clauses)
    BY <1>1, <1>2 DEF FlowOk, clauses
  <2>3. Cardinality(left) = 0
    BY <2>1, <2>2 DEF LeaveOk, FinallysFrom
  <2>4. left = {}
    <3> SUFFICES ASSUME left # {} PROVE FALSE
      OBVIOUS
    <3>1. Cardinality(left) - 1 \in Nat
      <4>1. FinallysFrom(clauses, TopFlow.ip, TopFlow.target, TopFlow.next) # {}
        OBVIOUS
      <4> QED BY <1>2, <4>1, NextFinally
    <3> QED BY <2>3, <3>1
  <2>5. target \in clauses[i].try
    BY <1>3, <1>5, <2>4 DEF Finallys, Trys
  <2> QED BY <2>1, <2>5
<1>7. CASE LeaveGoesOn
  <2>1. left # {} /\ frames' = At(Start(clauses[Min(left)]))
    BY <1>7 DEF LeaveGoesOn, FinallysFrom
  <2>2. /\ Min(left) \in Finallys(clauses, src, target)
        /\ \A j \in left : Min(left) <= j
    <3>1. FinallysFrom(clauses, TopFlow.ip, TopFlow.target, TopFlow.next) # {}
      BY <2>1
    <3> QED BY <1>2, <3>1, NextFinally
  <2> HIDE DEF left
  <2>3. Start(clauses[Min(left)]) \in clauses[i].try \/ i = Min(left)
    BY <1>2, <1>3, <1>5, <2>2, FirstOfLeave
  <2> QED BY <2>1, <2>3
<1> QED BY <1>6, <1>7

--------------------------------------------------------------------------------
LEMMA MovedAt ==
  ASSUME FlowInv, frames # <<>>, NEW p, frames' = At(p)
  PROVE  Depth <= Len(frames') /\ frames'[Depth].at = p
<1>1. frames \in Seq(FrameRec) /\ Depth \in 1..Len(frames) /\ Depth = Len(frames)
  BY DEF FlowInv, Settled, Unsettled, FlowsOk, Depth
<1>2. frames[Depth] \in FrameRec
  BY <1>1
<1> DEFINE b == [frames[Depth] EXCEPT !.ip = p, !.at = p]
<1>3. b.at = p
  BY <1>2 DEF FrameRec
<1>4. frames' = [frames EXCEPT ![Depth] = b]
  BY <1>1 DEF At
<1> HIDE DEF b
<1> QED BY <1>1, <1>3, <1>4

\* What the innermost frame does with a finally or fault clause that guards it.
LEMMA TopNotSkipped ==
  ASSUME PlainCode, Inv, Next, Depth \in 1..Depth, NEW i \in Trys(clauses, Cur.at), Unwinds(clauses[i])
  PROVE  /\ Depth <= Len(frames')
         /\ \/ frames'[Depth].at \in clauses[i].try
            \/ frames'[Depth].at = Start(clauses[i])
            \/ clauses[i].kind = "fault" /\ (mode = "run" \/ ~TopFlow.throw)
<1> DEFINE G == /\ Depth <= Len(frames')
                /\ \/ frames'[Depth].at \in clauses[i].try
                   \/ frames'[Depth].at = Start(clauses[i])
                   \/ clauses[i].kind = "fault" /\ (mode = "run" \/ ~TopFlow.throw)
<1> USE DEF Inv
<1>1. /\ Depth = Len(frames) /\ frames \in Seq(FrameRec) /\ Depth \in Nat /\ frames # <<>>
      /\ Cur = frames[Depth] /\ Cur.at \in clauses[i].try
  BY DEF FlowInv, Settled, Unsettled, FlowsOk, Depth, Cur, Trys
<1>2. clauses[i].kind \in {"finally", "fault"}
  BY DEF Unwinds
<1>3. ASSUME UNCHANGED frames PROVE G
  BY <1>1, <1>3
<1>4. ASSUME NEW p, frames' = At(p), p \in clauses[i].try \/ p = Start(clauses[i]) PROVE G
  BY <1>1, <1>4, MovedAt
<1>5. ASSUME NEW m \in Method, HostInvokes(m) \/ NativeInvokes(m) \/ Call(m) PROVE G
  <2>1. Frame(m, TRUE) \in FrameRec /\ Frame(m, FALSE) \in FrameRec
    BY PointAssumption DEF Frame, FrameRec
  <2>2. ASSUME NEW p \in NextIps, NEW a \in FrameRec, Running, frames' = Append(Calling(p), a) PROVE G
    BY <1>1, <2>2, CallKeeps
  <2> QED BY <1>1, <1>5, <2>1, <2>2 DEF HostInvokes, NativeInvokes, Call
<1>6. ASSUME Return PROVE FALSE
  <2>1. Cur.at = ip /\ Trys(clauses, ip) = {}
    BY <1>6, RunFacts DEF Return
  <2> QED BY <2>1
<1>7. ASSUME NEW p \in Point, Step(p) PROVE G
  <2>1. Running /\ frames' = At(p) /\ Trys(clauses, ip) \subseteq Trys(clauses, p)
    BY <1>7 DEF Step, MayGo
  <2>2. p \in clauses[i].try
    BY <2>1, RunFacts DEF Trys
  <2> QED BY <1>4, <2>1, <2>2
<1>8. ASSUME (\E e \in Ex : Throw(e)) \/ Rethrow \/ EndFinally PROVE G
  BY <1>3, <1>8 DEF Throw, Rethrow, EndFinally, Raise
<1>9. ASSUME Leave PROVE G
  <2>1. Cur.at = ip /\ mode = "run"
    BY <1>9, RunFacts DEF Leave
  <2>2. CASE clauses[i].kind = "finally"
    BY <1>4, <1>9, <2>1, <2>2, LeaveGuard
  <2>3. CASE clauses[i].kind = "fault"
    <3>1. PICK p : frames' = At(p)
      BY <1>9 DEF Leave, LeaveBranch, LeaveTryWithFinally, LeaveCatchWithFinally,
             LeaveCatchWithoutFinally, RunFinallys
    <3>2. Depth <= Len(frames')
      BY <1>1, <3>1, MovedAt
    <3> QED BY <2>1, <2>3, <3>2
  <2> QED BY <1>2, <2>2, <2>3
<1>10. ASSUME EnterCatch \/ EnterOther PROVE G
  <2>1. EnterHandler
    BY <1>10 DEF EnterCatch, EnterOther
  <2>2. Start(FoundClause) \in clauses[i].try \/ i = Found
    BY <2>1, EnterGuard
  <2>3. frames' = At(Start(FoundClause))
    BY <2>1 DEF EnterHandler
  <2> QED BY <1>4, <2>2, <2>3 DEF FoundClause
<1>11. ASSUME PropagateToCaller \/ PropagateThroughNative \/ PropagateToNative PROVE FALSE
  <2>1. Unwinding(TRUE) /\ Stops(TopFlow) = {}
    BY <1>11 DEF PropagateToCaller, PropagateThroughNative, PropagateToNative, NoClause
  <2> QED BY <2>1, GuardStops
<1>12. ASSUME LeaveArrives \/ LeaveGoesOn PROVE G
  <2>1. mode = "unwind" /\ ~TopFlow.throw
    BY <1>12 DEF LeaveArrives, LeaveGoesOn, Unwinding
  <2>2. CASE clauses[i].kind = "finally"
    BY <1>4, <1>12, <2>2, GoesOnGuard
  <2>3. CASE clauses[i].kind = "fault"
    <3>1. PICK p : frames' = At(p)
      BY <1>12 DEF LeaveArrives, LeaveGoesOn
    <3>2. Depth <= Len(frames')
      BY <1>1, <3>1, MovedAt
    <3> QED BY <2>1, <2>3, <3>2
  <2> QED BY <1>2, <2>2, <2>3
<1> QED BY <1>5, <1>6, <1>7, <1>8, <1>9, <1>10, <1>11, <1>12 DEF Next

LEMMA StepSkipsNone ==
  ASSUME PlainCode, Inv, [Next]_vars
  PROVE  \A d \in 1..Depth : \A i \in 1..Len(Clauses[frames[d].m]) :
           LET c == Clauses[frames[d].m][i]
           IN Guards(c, frames[d]) =>
                /\ d <= Len(frames')
                /\ \/ frames'[d].at \in c.try
                   \/ frames'[d].at = Start(c)
                   \/ c.kind = "fault" /\ (mode = "run" \/ ~TopFlow.throw)
<1> SUFFICES ASSUME NEW d \in 1..Depth, NEW i \in 1..Len(Clauses[frames[d].m]),
                    Guards(Clauses[frames[d].m][i], frames[d])
             PROVE  LET c == Clauses[frames[d].m][i]
                    IN /\ d <= Len(frames')
                       /\ \/ frames'[d].at \in c.try
                          \/ frames'[d].at = Start(c)
                          \/ c.kind = "fault" /\ (mode = "run" \/ ~TopFlow.throw)
  OBVIOUS
<1> DEFINE cs == Clauses[frames[d].m]
<1>1. i \in Trys(cs, frames[d].at) /\ frames[d].at \in cs[i].try /\ Unwinds(cs[i])
  BY DEF Guards, Trys
<1>2. Depth = Len(frames) /\ Depth \in Nat /\ d \in 1..Len(frames)
  BY DEF Inv, FlowInv, Settled, Unsettled, FlowsOk, Depth
<1>3. CASE UNCHANGED vars
  BY <1>1, <1>2, <1>3 DEF vars
<1>4. CASE Next /\ d = Depth
  <2>1. cs = clauses /\ frames[d] = Cur /\ Depth \in 1..Depth
    BY <1>4 DEF clauses, Cur
  <2> QED BY <1>1, <1>4, <2>1, TopNotSkipped
<1>5. CASE Next /\ d # Depth
  <2>1. d \in 1..Depth - 1
    BY <1>2, <1>5
  <2>2. d <= Len(frames') /\ frames'[d].at \in {frames[d].at, frames[d].ip}
    BY <1>5, <2>1, OthersStay
  <2>3. FrameOk(frames[d])
    BY <1>2 DEF Inv, FlowInv, Settled, Unsettled, FramesOk
  <2>4. Trys(cs, frames[d].at) \subseteq Trys(cs, frames[d].ip)
    BY <2>3 DEF FrameOk
  <2>5. frames[d].ip \in cs[i].try
    BY <1>1, <2>4 DEF Trys
  <2> QED BY <1>1, <2>2, <2>5
<1> QED BY <1>3, <1>4, <1>5

(* Whatever jump takes a frame out of a try block, the finally clause of   *)
(* the block runs next, and no frame is discarded inside one.              *)
THEOREM NoFinallyIsSkipped ==
  ASSUME PlainCode
  PROVE  Spec => FinallyNotSkipped
<1>1. Spec => []Inv
  BY InvAlways
<1> DEFINE A == \A d \in 1..Depth : \A i \in 1..Len(Clauses[frames[d].m]) :
                  LET c == Clauses[frames[d].m][i]
                  IN Guards(c, frames[d]) =>
                       /\ d <= Len(frames')
                       /\ \/ frames'[d].at \in c.try
                          \/ frames'[d].at = Start(c)
                          \/ c.kind = "fault" /\ (mode = "run" \/ ~TopFlow.throw)
<1>2. Inv /\ [Next]_vars => [A]_vars
  BY StepSkipsNone
<1>3. FinallyNotSkipped <=> [][A]_vars
  BY DEF FinallyNotSkipped
<1> HIDE DEF A
<1>4. Spec => [][A]_vars
  BY <1>1, <1>2, PTL DEF Spec
<1> QED BY <1>3, <1>4

--------------------------------------------------------------------------------
(* Handlers are entered out of their try blocks. *)
AtAll(fr) == \A d \in 1..Len(fr) : fr[d].at = fr[d].ip

LEMMA AtNext ==
  ASSUME PlainCode, CallsBeforeTry = FALSE, Inv, AtAll(frames), Next
  PROVE  AtAll(frames')
<1> USE DEF Inv
<1>1. Depth = Len(frames) /\ frames \in Seq(FrameRec) /\ Depth \in Nat
  BY DEF FlowInv, Settled, Unsettled, FlowsOk, Depth
<1>2. ASSUME UNCHANGED frames PROVE AtAll(frames')
  BY <1>2
<1>3. ASSUME NEW p, frames # <<>>, frames' = At(p) PROVE AtAll(frames')
  <2> DEFINE b == [frames[Depth] EXCEPT !.ip = p, !.at = p]
  <2>1. Depth \in 1..Depth /\ frames[Depth] \in FrameRec
    BY <1>1, <1>3
  <2>2. b.at = p /\ b.ip = p
    BY <2>1 DEF FrameRec
  <2>3. At(p) = [frames EXCEPT ![Depth] = b]
    BY <1>1, <2>1 DEF At
  <2> HIDE DEF b
  <2>4. Len(frames') = Depth /\ \A d \in 1..Depth : frames'[d] = IF d = Depth THEN b ELSE frames[d]
    BY <1>1, <1>3, <2>3
  <2> QED BY <1>1, <2>2, <2>4 DEF AtAll
<1>4. ASSUME NEW p \in NextIps, NEW m \in Method, NEW n \in BOOLEAN, Running, frames' = Append(Calling(p), Frame(m, n))
      PROVE  AtAll(frames')
  <2>1. p = ip /\ frames # <<>>
    BY <1>4 DEF NextIps, Running
  <2>2. Depth \in 1..Depth /\ frames[Depth] \in FrameRec
    BY <1>1, <2>1
  <2>3. [frames[Depth] EXCEPT !.ip = p] = frames[Depth]
    BY <2>1, <2>2 DEF FrameRec, ip, Cur
  <2>4. Calling(p) = frames
    BY <1>1, <2>2, <2>3 DEF Calling
  <2>5. Frame(m, n) \in FrameRec /\ Frame(m, n).at = Frame(m, n).ip
    BY PointAssumption DEF Frame, FrameRec
  <2>6. Len(frames') = Depth + 1 /\ frames'[Depth + 1] = Frame(m, n) /\ \A d \in 1..Depth : frames'[d] = frames[d]
    BY <1>1, <1>4, <2>4, <2>5, Pushed
  <2>7. \A d \in 1..Depth + 1 : d \in 1..Depth \/ d = Depth + 1
    BY <1>1
  <2> QED BY <1>1, <2>5, <2>6, <2>7 DEF AtAll
<1>5. ASSUME frames # <<>>, frames' = SubSeq(frames, 1, Depth - 1) \/ frames' = Resumed(SubSeq(frames, 1, Depth - 1))
      PROVE  AtAll(frames')
  <2> DEFINE g == SubSeq(frames, 1, Depth - 1)
  <2>1. g \in Seq(FrameRec) /\ Len(g) = Depth - 1 /\ \A k \in 1..Depth - 1 : g[k] = frames[k]
    <3>1. Depth - 1 \in 0..Len(frames)
      BY <1>1, <1>5
    <3> QED BY <1>1, <3>1, Prefix
  <2> HIDE DEF g
  <2>2. AtAll(g)
    BY <1>1, <2>1 DEF AtAll
  <2>3. AtAll(Resumed(g))
    <3>1. CASE g = <<>>
      BY <2>2, <3>1 DEF Resumed
    <3>2. CASE g # <<>>
      <4> DEFINE b == [g[Len(g)] EXCEPT !.at = g[Len(g)].ip]
      <4>1. g[Len(g)] \in FrameRec /\ Len(g) \in 1..Len(g)
        BY <2>1, <3>2
      <4>2. b.at = b.ip
        BY <4>1 DEF FrameRec
      <4>3. Resumed(g) = [g EXCEPT ![Len(g)] = b]
        BY <3>2 DEF Resumed
      <4> HIDE DEF b
      <4>4. Len(Resumed(g)) = Len(g) /\ \A d \in 1..Len(g) : Resumed(g)[d] = IF d = Len(g) THEN b ELSE g[d]
        BY <2>1, <4>1, <4>3
      <4> QED BY <2>2, <4>2, <4>4 DEF AtAll
    <3> QED BY <3>1, <3>2
  <2> QED BY <1>5, <2>2, <2>3 DEF g
<1>6. ASSUME mode = "unwind" PROVE frames # <<>>
  BY <1>6 DEF FlowInv, Unsettled
<1>7. ASSUME NEW m \in Method, HostInvokes(m) PROVE AtAll(frames')
  BY <1>7 DEF HostInvokes, Frame, AtAll
<1>8. ASSUME NEW m \in Method, NativeInvokes(m) \/ Call(m) PROVE AtAll(frames')
  BY <1>4, <1>8 DEF NativeInvokes, Call
<1>9. ASSUME Return \/ PropagateToCaller \/ PropagateThroughNative \/ PropagateToNative PROVE AtAll(frames')
  <2>1. frames' = SubSeq(frames, 1, Depth - 1) \/ frames' = Resumed(SubSeq(frames, 1, Depth - 1))
    BY <1>9 DEF Return, PropagateToCaller, PropagateThroughNative, PropagateToNative, Raise
  <2>2. frames # <<>>
    BY <1>6, <1>9 DEF Return, Running, PropagateToCaller, PropagateThroughNative,
           PropagateToNative, NoClause, Unwinding
  <2> QED BY <1>5, <2>1, <2>2
<1>10. ASSUME (\E p \in Point : Step(p)) \/ Leave \/ EnterCatch \/ EnterOther \/ LeaveArrives \/ LeaveGoesOn
       PROVE AtAll(frames')
  <2>1. \E p : frames' = At(p)
    BY <1>10 DEF Step, Leave, LeaveBranch, LeaveTryWithFinally, LeaveCatchWithFinally,
           LeaveCatchWithoutFinally,
                RunFinallys, EnterCatch, EnterOther, EnterHandler, LeaveArrives, LeaveGoesOn
  <2>2. frames # <<>>
    BY <1>6, <1>10 DEF Step, Leave, Running, EnterCatch, EnterOther, EnterHandler, LeaveArrives,
           LeaveGoesOn, Unwinding
  <2> QED BY <1>3, <2>1, <2>2
<1>11. ASSUME (\E e \in Ex : Throw(e)) \/ Rethrow \/ EndFinally PROVE AtAll(frames')
  BY <1>2, <1>11 DEF Throw, Rethrow, EndFinally, Raise
<1> QED BY <1>7, <1>8, <1>9, <1>10, <1>11 DEF Next

--------------------------------------------------------------------------------
\* Where a handler starts there is no other handler but those around its try block.
LEMMA NewHandler ==
  ASSUME NEW cs \in Tables, WellNested(cs), NEW g \in Idx(cs), NEW q, q \in cs[g].try,
         NEW i \in Handlers(cs, Start(cs[g])), i \notin Handlers(cs, q)
  PROVE  i = g
<1> SUFFICES ASSUME i # g PROVE FALSE
  OBVIOUS
<1>1. Region(cs[g]) \subseteq cs[i].handler /\ i \in 1..Len(cs)
  BY AtStart DEF Handlers
<1> QED BY <1>1 DEF Region, Handlers

\* A step to the handler of a clause whose try block the frame leaves.
LEMMA LeaveEnters ==
  ASSUME PlainCode, FlowInv, Leave,
         NEW p, frames' = At(p), frames'[Depth].at = p, NEW i \in Handlers(clauses, p) \ Handlers(clauses, ip)
  PROVE  ip \in clauses[i].try
<1>1. Running /\ clauses \in Tables /\ WellNested(clauses) /\ Cur.m \in Method /\ frames # <<>>
  BY RunFacts DEF Leave
<1>2. PICK l \in Leaves[Cur.m] :
        /\ l[1] = ip
        /\ \/ LeaveBranch(l[1], l[2])
           \/ LeaveTryWithFinally(l[1], l[2])
           \/ LeaveCatchWithFinally(l[1], l[2])
           \/ LeaveCatchWithoutFinally(l[1], l[2])
  BY DEF Leave
<1>3. PlainLeave(clauses, ip, l[2])
  BY <1>1, <1>2, PlainTable DEF clauses
<1> DEFINE F == Finallys(clauses, ip, l[2])
<1>4. CASE LeaveBranch(l[1], l[2]) \/ LeaveCatchWithoutFinally(l[1], l[2])
  <2>1. frames' = At(l[2])
    BY <1>4 DEF LeaveBranch, LeaveCatchWithoutFinally
  <2>2. p = l[2]
    BY <1>1, <2>1, MovedAt
  <2> QED BY <1>3, <2>2 DEF PlainLeave
<1>5. CASE LeaveTryWithFinally(l[1], l[2]) \/ LeaveCatchWithFinally(l[1], l[2])
  <2>1. F # {} /\ frames' = At(Start(clauses[Min(F)]))
    BY <1>2, <1>5 DEF LeaveTryWithFinally, LeaveCatchWithFinally, RunFinallys
  <2>2. p = Start(clauses[Min(F)])
    BY <1>1, <2>1, MovedAt
  <2>3. F \subseteq Nat /\ F \subseteq Idx(clauses) /\ \A j \in F : ip \in clauses[j].try
    BY <1>1, SetsOfClauses DEF Finallys, Trys
  <2> HIDE DEF F
  <2>4. Min(F) \in F
    BY <2>1, <2>3, MinIn
  <2>5. i = Min(F)
    BY <1>1, <2>2, <2>3, <2>4, NewHandler
  <2> QED BY <2>3, <2>4, <2>5
<1> QED BY <1>2, <1>4, <1>5

LEMMA UnwindEnters ==
  ASSUME PlainCode, FlowInv, EnterHandler,
         NEW i \in Handlers(clauses, Start(FoundClause)) \ Handlers(clauses, ip)
  PROVE  ip \in clauses[i].try
<1> DEFINE g == Found
           q == TopFlow.ip
           h == TopFlow.next - 1
<1>1. /\ mode = "unwind" /\ TopFlow.throw /\ ~TopFlow.handled /\ g \in Idx(clauses) /\ g \in Nat
      /\ TopFlow.next <= g /\ q \in clauses[g].try
  BY FoundFacts DEF FoundClause
<1>2. /\ clauses \in Tables /\ WellNested(clauses) /\ PlainFilters(clauses)
      /\ TopFlow.m = Cur.m /\ Cur.m \in Method
      /\ FlowOk(TopFlow) /\ Unwound(TopFlow, clauses, ip) /\ TopFlow.next \in Nat
  BY <1>1, UnwindFacts
<1>3. i \in Handlers(clauses, Start(clauses[g])) /\ i \notin Handlers(clauses, ip) /\ i \in 1..Len(clauses)
  BY DEF FoundClause, Handlers
<1>4. ip \in clauses[g].try
  <2>1. CASE TopFlow.cur = 0
    <3>1. ip = q
      BY <1>2, <2>1, Zenon DEF Unwound
    <3> QED BY <1>1, <3>1
  <2>2. CASE TopFlow.cur # 0
    <3>1. Handlers(clauses, ip) # {} /\ h = Min(Handlers(clauses, ip))
      BY <1>2, <2>2, Zenon DEF Unwound
    <3>2. h \in Handlers(clauses, ip) /\ h \in Idx(clauses) /\ h \in Nat
      BY <1>2, <3>1, Innermost, SetsOfClauses
    <3>3. q \in clauses[h].try /\ (TopFlow.handled <=> clauses[h].kind = "catch")
      BY <1>1, <1>2, <2>2, ThrowFacts DEF clauses
    <3>4. h < g
      BY <1>1, <1>2
    <3> HIDE DEF h, g, q
    <3>5. h \in Trys(clauses, q) /\ g \in Trys(clauses, q)
      BY <1>1, <3>2, <3>3 DEF Trys, Idx
    <3>6. CASE Region(clauses[h]) \subseteq clauses[g].try
      <4>1. ip \in clauses[h].handler
        BY <3>2 DEF Handlers
      <4> QED BY <3>6, <4>1 DEF Region
    <3>7. CASE clauses[h].try = clauses[g].try /\ clauses[h].kind \in {"catch", "filter"}
      <4>1. clauses[h].kind = "filter"
        BY <1>1, <3>3, <3>7
      <4>2. h \in 1..Len(clauses) /\ g \in (1..Len(clauses)) \ {h}
        BY <1>1, <3>2, <3>4 DEF Idx
      <4>3. clauses[g].try # clauses[h].try
        BY <1>2, <3>4, <4>1, <4>2 DEF PlainFilters
      <4> QED BY <3>7, <4>3
    <3> QED BY <1>2, <3>4, <3>5, <3>6, <3>7, TryAround
  <2> QED BY <2>1, <2>2
<1> HIDE DEF g
<1>5. i = g
  BY <1>1, <1>2, <1>3, <1>4, NewHandler
<1> QED BY <1>4, <1>5

LEMMA GoesOnEnters ==
  ASSUME PlainCode, FlowInv, LeaveArrives \/ LeaveGoesOn,
         NEW p, frames' = At(p), NEW i \in Handlers(clauses, p) \ Handlers(clauses, ip)
  PROVE  ip \in clauses[i].try
<1> DEFINE src == TopFlow.ip
           target == TopFlow.target
           left == FinallysFrom(clauses, src, target, TopFlow.next)
           h == TopFlow.next - 1
           F == Finallys(clauses, src, target)
<1>1. mode = "unwind" /\ TopFlow.throw = FALSE
  BY DEF LeaveArrives, LeaveGoesOn, Unwinding
<1>2. /\ TopFlow.m = Cur.m /\ Cur.m \in Method /\ FlowOk(TopFlow) /\ TopFlow.next \in Nat
      /\ clauses \in Tables /\ WellNested(clauses) /\ frames # <<>> /\ Unwound(TopFlow, clauses, ip)
  BY <1>1, UnwindFacts
<1>3. h \in F /\ PlainLeave(clauses, src, target)
  BY <1>1, <1>2, LeaveFacts DEF clauses
<1>4. ip \in clauses[h].handler
  <2>1. Handlers(clauses, ip) # {} /\ h = Min(Handlers(clauses, ip))
    BY <1>1, <1>2, Zenon DEF Unwound
  <2>2. h \in Handlers(clauses, ip)
    BY <1>2, <2>1, Innermost
  <2> QED BY <2>2 DEF Handlers
<1>5. h \in Trys(clauses, src) /\ h \in Idx(clauses) /\ h \in Nat /\ target \notin clauses[h].try
      /\ clauses[h].kind = "finally"
  <2>1. h \in Trys(clauses, src) /\ h \notin Trys(clauses, target) /\ clauses[h].kind = "finally"
    BY <1>3 DEF Finallys
  <2>2. h \in Idx(clauses) /\ h \in Nat
    BY <1>2, <2>1, SetsOfClauses
  <2> QED BY <2>1, <2>2 DEF Trys, Idx
<1>6. i \in Idx(clauses) /\ i \in Nat /\ p \in clauses[i].handler /\ ip \notin clauses[i].handler
  <2>1. i \in Idx(clauses) /\ p \in clauses[i].handler /\ ip \notin clauses[i].handler
    BY DEF Handlers, Idx
  <2> QED BY <1>2, <2>1, SetsOfClauses
<1>7. CASE LeaveArrives
  <2>1. p = target
    <3>1. frames' = At(target)
      BY <1>7 DEF LeaveArrives
    <3> QED BY <1>2, <3>1, MovedAt
  <2>2. i \in Handlers(clauses, src)
    BY <1>3, <2>1 DEF PlainLeave
  <2> HIDE DEF h
  <2>3. /\ i # h
        /\ i < h => Region(clauses[i]) \subseteq clauses[h].try
        /\ h < i => Region(clauses[h]) \subseteq clauses[i].handler
    BY <1>2, <1>5, <2>2, HandlerOrTry
  <2>4. CASE i < h
    BY <1>5, <1>6, <2>1, <2>3, <2>4 DEF Region
  <2>5. CASE h < i
    BY <1>4, <1>6, <2>3, <2>5 DEF Region
  <2> QED BY <1>5, <1>6, <2>3, <2>4, <2>5
<1>8. CASE LeaveGoesOn
  <2> DEFINE g == Min(left)
  <2>1. left # {} /\ frames' = At(Start(clauses[g]))
    BY <1>8 DEF LeaveGoesOn, FinallysFrom
  <2>2. g \in F /\ g \in left /\ g \in Idx(clauses)
    <3>1. FinallysFrom(clauses, TopFlow.ip, TopFlow.target, TopFlow.next) # {}
      BY <2>1
    <3> QED BY <1>2, <3>1, NextFinally
  <2>3. p = Start(clauses[g])
    <3>1. frames'[Depth].at = p
      BY <1>2, MovedAt
    <3>2. ASSUME NEW q, frames' = At(q) PROVE frames'[Depth].at = q
      BY <1>2, <3>2, MovedAt
    <3> HIDE DEF g
    <3> QED BY <2>1, <3>1, <3>2
  <2>4. g >= TopFlow.next /\ g \in Trys(clauses, src) /\ g \in Nat
    <3>1. g >= TopFlow.next /\ g \in Trys(clauses, src)
      BY <2>2 DEF FinallysFrom, Finallys
    <3> QED BY <1>2, <2>2, <3>1, SetsOfClauses
  <2>5. h < g
    BY <1>2, <2>4
  <2> HIDE DEF h, g
  <2>6. Region(clauses[h]) \subseteq clauses[g].try
    BY <1>2, <1>5, <2>4, <2>5, TryAround
  <2>7. ip \in clauses[g].try
    BY <1>4, <2>6 DEF Region
  <2>8. i = g
    BY <1>2, <2>2, <2>3, <2>7, NewHandler
  <2> QED BY <2>7, <2>8
<1> QED BY <1>7, <1>8

LEMMA TopEnters ==
  ASSUME PlainCode, Inv, AtAll(frames), CallsBeforeTry = FALSE, Next, Depth \in 1..Depth, Depth <= Len(frames'),
         NEW i \in Handlers(clauses, frames'[Depth].at) \ Handlers(clauses, Cur.at)
  PROVE  Cur.at \in clauses[i].try
<1> USE DEF Inv
<1>1. /\ Depth = Len(frames) /\ frames \in Seq(FrameRec) /\ Depth \in Nat /\ frames # <<>>
      /\ Cur = frames[Depth] /\ Cur.at = ip
  BY DEF FlowInv, Settled, Unsettled, FlowsOk, Depth, Cur, AtAll, ip
<1>2. ASSUME UNCHANGED frames PROVE FALSE
  BY <1>1, <1>2
<1>3. ASSUME NEW m \in Method, HostInvokes(m) \/ NativeInvokes(m) \/ Call(m) PROVE FALSE
  <2>1. Frame(m, TRUE) \in FrameRec /\ Frame(m, FALSE) \in FrameRec
    BY PointAssumption DEF Frame, FrameRec
  <2>2. ASSUME NEW p \in NextIps, NEW a \in FrameRec, Running, frames' = Append(Calling(p), a) PROVE FALSE
    BY <1>1, <2>2, CallKeeps
  <2> QED BY <1>1, <1>3, <2>1, <2>2 DEF HostInvokes, NativeInvokes, Call
<1>4. ASSUME frames' = SubSeq(frames, 1, Depth - 1) \/ frames' = Resumed(SubSeq(frames, 1, Depth - 1)) PROVE FALSE
  <2> DEFINE g == SubSeq(frames, 1, Depth - 1)
  <2>1. g \in Seq(FrameRec) /\ Len(g) = Depth - 1
    <3>1. Depth - 1 \in 0..Len(frames)
      BY <1>1
    <3> QED BY <1>1, <3>1, Prefix
  <2> HIDE DEF g
  <2>2. Len(Resumed(g)) = Len(g)
    BY <2>1 DEF Resumed
  <2> QED BY <1>1, <1>4, <2>1, <2>2 DEF g
<1>5. ASSUME Return \/ PropagateToCaller \/ PropagateThroughNative \/ PropagateToNative PROVE FALSE
  BY <1>4, <1>5 DEF Return, PropagateToCaller, PropagateThroughNative, PropagateToNative, Raise
<1>6. ASSUME NEW p \in Point, Step(p) PROVE FALSE
  <2>1. frames' = At(p) /\ Handlers(clauses, p) = Handlers(clauses, ip)
    BY <1>6 DEF Step, MayGo
  <2> QED BY <1>1, <2>1, MovedAt
<1>7. ASSUME (\E e \in Ex : Throw(e)) \/ Rethrow \/ EndFinally PROVE FALSE
  BY <1>2, <1>7 DEF Throw, Rethrow, EndFinally, Raise
<1>8. ASSUME Leave PROVE ip \in clauses[i].try
  <2>1. PICK p : frames' = At(p)
    BY <1>8 DEF Leave, LeaveBranch, LeaveTryWithFinally, LeaveCatchWithFinally,
           LeaveCatchWithoutFinally, RunFinallys
  <2>2. frames'[Depth].at = p
    BY <1>1, <2>1, MovedAt
  <2> QED BY <1>1, <1>8, <2>1, <2>2, LeaveEnters
<1>9. ASSUME EnterCatch \/ EnterOther PROVE ip \in clauses[i].try
  <2>1. EnterHandler /\ frames' = At(Start(FoundClause))
    BY <1>9 DEF EnterCatch, EnterOther, EnterHandler
  <2>2. frames'[Depth].at = Start(FoundClause)
    BY <1>1, <2>1, MovedAt
  <2> QED BY <1>1, <2>1, <2>2, UnwindEnters
<1>10. ASSUME LeaveArrives \/ LeaveGoesOn PROVE ip \in clauses[i].try
  <2>1. PICK p : frames' = At(p)
    BY <1>10 DEF LeaveArrives, LeaveGoesOn
  <2>2. frames'[Depth].at = p
    BY <1>1, <2>1, MovedAt
  <2> QED BY <1>1, <1>10, <2>1, <2>2, GoesOnEnters
<1> QED BY <1>1, <1>3, <1>5, <1>6, <1>7, <1>8, <1>9, <1>10 DEF Next

LEMMA StepEntersByTry ==
  ASSUME PlainCode, CallsBeforeTry = FALSE, Inv, AtAll(frames), [Next]_vars
  PROVE  \A d \in 1..Depth : d <= Len(frames') =>
           LET cs == Clauses[frames[d].m]
           IN \A i \in Handlers(cs, frames'[d].at) \ Handlers(cs, frames[d].at) :
                frames[d].at \in cs[i].try
<1> SUFFICES ASSUME NEW d \in 1..Depth, d <= Len(frames'),
                    NEW i \in Handlers(Clauses[frames[d].m], frames'[d].at)
                              \ Handlers(Clauses[frames[d].m], frames[d].at)
             PROVE  frames[d].at \in Clauses[frames[d].m][i].try
  OBVIOUS
<1>1. Depth = Len(frames) /\ Depth \in Nat /\ d \in 1..Len(frames)
  BY DEF Inv, FlowInv, Settled, Unsettled, FlowsOk, Depth
<1>2. CASE UNCHANGED vars
  BY <1>2 DEF vars
<1>3. CASE Next /\ d = Depth
  <2>1. Clauses[frames[d].m] = clauses /\ frames[d] = Cur /\ Depth \in 1..Depth
    BY <1>3 DEF clauses, Cur
  <2> QED BY <1>3, <2>1, TopEnters
<1>4. CASE Next /\ d # Depth
  <2>1. d \in 1..Depth - 1
    BY <1>1, <1>4
  <2>2. frames'[d].at \in {frames[d].at, frames[d].ip}
    BY <1>4, <2>1, OthersStay
  <2> QED BY <1>1, <2>2 DEF AtAll
<1> QED BY <1>2, <1>3, <1>4

(* Where no call is the last instruction before a try block, a handler is  *)
(* entered only out of the block that it guards.                           *)
THEOREM HandlersComeByTheirTry ==
  ASSUME PlainCode, CallsBeforeTry = FALSE
  PROVE  Spec => HandlersGuardTheirTry
<1>1. Init => Inv /\ AtAll(frames)
  BY InitInv DEF Init, AtAll
<1>2. Inv /\ AtAll(frames) /\ [Next]_vars => (Inv /\ AtAll(frames))'
  <2> SUFFICES ASSUME Inv, AtAll(frames), [Next]_vars PROVE (Inv /\ AtAll(frames))'
    OBVIOUS
  <2>1. CASE Next
    BY <2>1, NextInv, AtNext
  <2>2. CASE UNCHANGED vars
    BY <2>2 DEF vars, Inv, FlowInv
  <2> QED BY <2>1, <2>2
<1> DEFINE A == \A d \in 1..Depth : d <= Len(frames') =>
                  LET cs == Clauses[frames[d].m]
                  IN \A i \in Handlers(cs, frames'[d].at) \ Handlers(cs, frames[d].at) :
                       frames[d].at \in cs[i].try
<1>3. Inv /\ AtAll(frames) /\ [Next]_vars => [A]_vars
  BY StepEntersByTry
<1>4. HandlersGuardTheirTry <=> [][A]_vars
  BY DEF HandlersGuardTheirTry
<1> HIDE DEF A
<1>5. Spec => [][A]_vars
  BY <1>1, <1>2, <1>3, PTL DEF Spec
<1> QED BY <1>4, <1>5
================================================================================
