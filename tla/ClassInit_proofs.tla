---------------------------- MODULE ClassInit_proofs ----------------------------
(***************************************************************************)
(* For every program: a part of a class is computed by one call at a time, *)
(* never while managed code runs above, and a static constructor runs once *)
(* unless its class is used while its first use waits for the constructor  *)
(* of the module.  As long as nothing failed, what is done rests on what   *)
(* is done, a constructor starts on a class complete all the way up, and   *)
(* an object is allocated of a class whose constructors have started.  A   *)
(* class laid out from finished types keeps its fields apart, inside the   *)
(* object and where its ancestors' code finds them.                        *)
(***************************************************************************)
EXTENDS ClassInit, TLAPS, SequenceTheorems, NaturalsInduction, WellFoundedInduction

(***************************************************************************)
(* The items of work that may stand in a todo.                             *)
(***************************************************************************)
NativeOps == WorkOps \cup {"init", "field", "sfield", "ifacetables"}

Ops == NativeOps \cup {"end", "hierarchy", "allocate", "cctor", "module", "modstart", "start"}
Args == Parts \cup {"All"} \cup Nat

WorkItems ==
    {t \in [op : Ops, of : Classes, arg : Args] :
        /\ t.op = "init" => t.arg \in Parts \cup {"All"}
        /\ t.op \in {"field", "sfield"} => t.arg \in DOMAIN w.fields[t.of]
        /\ t.op \in {"module", "modstart"} => t.of = w.module
        /\ t.op \in {"hierarchy", "cctor", "start"} => t.of # w.module
        /\ t.op = "start" => t.arg = 0}

Activations == [of : Classes \cup {NoClass}, todo : Seq(WorkItems)]

\* b never stands behind a in a todo: the constructors come last, the walk up
\* the hierarchy after the constructor of the class, one of each at a time.
Barred(a, b) ==
    \/ a \in {"start", "cctor"} /\ b \in {"start", "cctor", "module", "modstart", "end"}
    \/ a \in {"module", "modstart"} /\ b \in {"cctor", "module", "modstart", "end"}
    \/ /\ a \in {"hierarchy", "allocate"}
       /\ b \in {"start", "cctor", "module", "modstart", "hierarchy", "end"}

Orderly(s) == \A i, j \in DOMAIN s : i < j => ~Barred(s[i].op, s[j].op)

EndsMarked(s, fl) == \A i \in DOMAIN s : s[i].op = "end" => <<s[i].arg, s[i].of>> \in fl
EndsApart(s) ==
    \A i, j \in DOMAIN s :
       s[i].op = "end" /\ s[j].op = "end" /\ s[i].arg = s[j].arg /\ s[i].of = s[j].of => i = j

\* What a native call that waits for managed code has behind it.
WaitsWell(s) == \A i \in DOMAIN s : s[i].op \notin {"module", "modstart", "cctor", "end"}

TodoOf(cs) == cs[Len(cs)].todo

CallsInv(cs, fl) ==
    /\ cs \in Seq(Activations) /\ Len(cs) > 0
    /\ \A k \in DOMAIN cs : Orderly(cs[k].todo)
    /\ \A k \in DOMAIN cs : k < Len(cs) => WaitsWell(cs[k].todo)
    /\ EndsMarked(TodoOf(cs), fl) /\ EndsApart(TodoOf(cs))

GivenInv(k) ==
    /\ DOMAIN k = Classes
    /\ \A c \in Classes : "ifs" \in DOMAIN k[c] /\ k[c].ifs \in Seq(Classes)

(***************************************************************************)
(* Constructors that are about to start.                                   *)
(***************************************************************************)
StartIn(s, c) == \E i \in DOMAIN s : s[i].op = "start" /\ s[i].of = c
ModuleIn(s)   == \E i \in DOMAIN s : s[i].op = "modstart"

StartTop(cs, c)   == StartIn(TodoOf(cs), c)
StartBelow(cs, c) == \E k \in DOMAIN cs : k < Len(cs) /\ StartIn(cs[k].todo, c)

ClassInv(top, below, s, n, twice) ==
    /\ s = "NotInited" => n = 0
    /\ n <= IF twice THEN 2 ELSE 1
    /\ top /\ below => twice
    /\ s # "NotInited" /\ (top \/ below) => twice /\ n <= 1 /\ ~(top /\ below)

OnceInv(cs, md, st, sd, ag) ==
    /\ md \in BOOLEAN
    /\ st \in [Classes -> {"NotInited", "InitSelf"}] /\ sd \in [Classes -> Nat]
    /\ \A c, d \in Classes : \A k, l \in DOMAIN cs :
         k < Len(cs) /\ l < Len(cs) /\ StartIn(cs[k].todo, c) /\ StartIn(cs[l].todo, d) => k = l
    /\ \A c \in Classes : StartBelow(cs, c) => md /\ ~ModuleIn(TodoOf(cs))
    /\ ModuleIn(TodoOf(cs)) => md
    /\ ModuleIn(TodoOf(cs)) \/ ~md => sd[w.module] = 0
    /\ sd[w.module] <= 1
    /\ \A c \in Classes \ {w.module} :
         ClassInv(StartTop(cs, c), StartBelow(cs, c), st[c], sd[c], c \in ag)

Inv ==
    /\ w \in Worlds
    /\ GivenInv(kl)
    /\ CallsInv(calls, flags)
    /\ OnceInv(calls, modDone, status, started, again)

(***************************************************************************)
(* Sequences of work.                                                      *)
(***************************************************************************)
\* What may stand in front of the work behind an item a.
Yields(s, a) == \A i \in DOMAIN s : \A b : Barred(s[i].op, b) => Barred(a, b)

NoEnd(s) == \A i \in DOMAIN s : s[i].op # "end"

LEMMA TailOf ==
  ASSUME NEW t \in Seq(WorkItems), t # <<>>
  PROVE  /\ Tail(t) \in Seq(WorkItems) /\ Len(Tail(t)) = Len(t) - 1
         /\ 1 \in DOMAIN t /\ t[1] = Head(t) /\ Head(t) \in WorkItems
         /\ \A i \in DOMAIN Tail(t) : i + 1 \in DOMAIN t /\ Tail(t)[i] = t[i + 1]
         /\ \A i \in DOMAIN t : i = 1 \/ (i - 1 \in DOMAIN Tail(t) /\ t[i] = Tail(t)[i - 1])
OBVIOUS

LEMMA Joined ==
  ASSUME NEW s \in Seq(WorkItems), NEW r \in Seq(WorkItems)
  PROVE  /\ s \o r \in Seq(WorkItems) /\ Len(s \o r) = Len(s) + Len(r)
         /\ \A i \in DOMAIN (s \o r) :
              \/ i \in DOMAIN s /\ (s \o r)[i] = s[i]
              \/ i - Len(s) \in DOMAIN r /\ (s \o r)[i] = r[i - Len(s)] /\ i > Len(s)
         /\ \A i \in DOMAIN s : i \in DOMAIN (s \o r) /\ (s \o r)[i] = s[i]
         /\ \A i \in DOMAIN r : i + Len(s) \in DOMAIN (s \o r) /\ (s \o r)[i + Len(s)] = r[i]
OBVIOUS

LEMMA OrderlyJoined ==
  ASSUME NEW s \in Seq(WorkItems), NEW t \in Seq(WorkItems), t # <<>>,
         Orderly(s), Orderly(t), Yields(s, Head(t).op)
  PROVE  Orderly(s \o Tail(t))
<1> DEFINE u == s \o Tail(t)
<1>1. \A j \in DOMAIN Tail(t) : ~Barred(Head(t).op, Tail(t)[j].op)
  BY TailOf DEF Orderly
<1>2. \A i, j \in DOMAIN Tail(t) : i < j => ~Barred(Tail(t)[i].op, Tail(t)[j].op)
  BY TailOf DEF Orderly
<1>3. Tail(t) \in Seq(WorkItems)
  BY TailOf
<1>4. SUFFICES ASSUME NEW i \in DOMAIN u, NEW j \in DOMAIN u, i < j
               PROVE  ~Barred(u[i].op, u[j].op)
  BY DEF Orderly
<1>5. CASE i \in DOMAIN s /\ u[i] = s[i] /\ j \in DOMAIN s /\ u[j] = s[j]
  BY <1>4, <1>5 DEF Orderly
<1>6. CASE i \in DOMAIN s /\ u[i] = s[i] /\ j - Len(s) \in DOMAIN Tail(t) /\ u[j] = Tail(t)[j - Len(s)]
  BY <1>1, <1>6 DEF Yields
<1>7. CASE /\ i - Len(s) \in DOMAIN Tail(t) /\ u[i] = Tail(t)[i - Len(s)]
           /\ j - Len(s) \in DOMAIN Tail(t) /\ u[j] = Tail(t)[j - Len(s)]
  <2>1. i \in Nat /\ j \in Nat /\ Len(s) \in Nat
    BY <1>3, Joined
  <2>2. i - Len(s) < j - Len(s)
    BY <2>1, <1>4
  <2>3. ~Barred(Tail(t)[i - Len(s)].op, Tail(t)[j - Len(s)].op)
    BY <2>2, <1>2, <1>7
  <2> QED BY <2>3, <1>7
<1>8. CASE i > Len(s) /\ j \in DOMAIN s
  BY <1>4, <1>8
<1>9. ASSUME NEW k \in DOMAIN u
      PROVE  \/ k \in DOMAIN s /\ u[k] = s[k]
             \/ k > Len(s) /\ k - Len(s) \in DOMAIN Tail(t) /\ u[k] = Tail(t)[k - Len(s)]
  BY <1>3, Joined
<1>10. \/ i \in DOMAIN s /\ u[i] = s[i]
       \/ i > Len(s) /\ i - Len(s) \in DOMAIN Tail(t) /\ u[i] = Tail(t)[i - Len(s)]
  BY <1>9
<1>11. \/ j \in DOMAIN s /\ u[j] = s[j]
       \/ j > Len(s) /\ j - Len(s) \in DOMAIN Tail(t) /\ u[j] = Tail(t)[j - Len(s)]
  BY <1>9
<1> HIDE DEF u
<1> QED BY <1>5, <1>6, <1>7, <1>8, <1>10, <1>11

LEMMA EmptyTodo ==
  ASSUME NEW fl
  PROVE  /\ <<>> \in Seq(WorkItems) /\ Orderly(<<>>) /\ EndsMarked(<<>>, fl) /\ EndsApart(<<>>)
         /\ ~ModuleIn(<<>>) /\ \A c : ~StartIn(<<>>, c)
BY DEF Orderly, EndsMarked, EndsApart, ModuleIn, StartIn

LEMMA EndsJoined ==
  ASSUME NEW s \in Seq(WorkItems), NEW r \in Seq(WorkItems), NEW fl,
         NoEnd(s), EndsMarked(r, fl), EndsApart(r)
  PROVE  EndsMarked(s \o r, fl) /\ EndsApart(s \o r)
<1> DEFINE u == s \o r
<1>1. \A i \in DOMAIN u : u[i].op = "end" =>
        i - Len(s) \in DOMAIN r /\ u[i] = r[i - Len(s)] /\ i \in Int
  BY Joined DEF NoEnd
<1>2. EndsMarked(u, fl)
  BY <1>1 DEF EndsMarked
<1>3. EndsApart(u)
  <2> SUFFICES ASSUME NEW i \in DOMAIN u, NEW j \in DOMAIN u, u[i].op = "end", u[j].op = "end",
                      u[i].arg = u[j].arg, u[i].of = u[j].of
               PROVE  i = j
    BY DEF EndsApart
  <2>1. i - Len(s) = j - Len(s)
    BY <1>1 DEF EndsApart
  <2>2. Len(s) \in Nat /\ i \in Int /\ j \in Int
    BY <1>1
  <2> QED BY <2>1, <2>2
<1> QED BY <1>2, <1>3

LEMMA EndsTail ==
  ASSUME NEW t \in Seq(WorkItems), t # <<>>, NEW fl, EndsMarked(t, fl), EndsApart(t)
  PROVE  EndsMarked(Tail(t), fl) /\ EndsApart(Tail(t))
<1>1. EndsMarked(Tail(t), fl)
  BY TailOf DEF EndsMarked
<1>2. SUFFICES ASSUME NEW i \in DOMAIN Tail(t), NEW j \in DOMAIN Tail(t),
                      Tail(t)[i].op = "end", Tail(t)[j].op = "end",
                      Tail(t)[i].arg = Tail(t)[j].arg, Tail(t)[i].of = Tail(t)[j].of
               PROVE  i = j
  BY <1>1 DEF EndsApart
<1>3. /\ i + 1 \in DOMAIN t /\ Tail(t)[i] = t[i + 1]
      /\ j + 1 \in DOMAIN t /\ Tail(t)[j] = t[j + 1]
  BY TailOf
<1>4. i + 1 = j + 1
  BY <1>2, <1>3 DEF EndsApart
<1>5. i \in Int /\ j \in Int
  BY TailOf
<1> QED BY <1>4, <1>5

\* Calls of initialize_<part> and straight-line work, which no constructor waits for.
NativeWork(s) == s \in Seq(WorkItems) /\ \A i \in DOMAIN s : s[i].op \in NativeOps

LEMMA NativeRow ==
  ASSUME NEW s, NativeWork(s)
  PROVE  /\ s \in Seq(WorkItems) /\ Orderly(s) /\ NoEnd(s) /\ ~ModuleIn(s)
         /\ \A a : Yields(s, a)
         /\ \A c : ~StartIn(s, c)
BY DEF NativeWork, NativeOps, WorkOps, Orderly, NoEnd, Yields, Barred, StartIn, ModuleIn

LEMMA NativeBefore ==
  ASSUME NEW s, NativeWork(s), NEW r \in Seq(WorkItems), Orderly(r)
  PROVE  Orderly(s \o r)
<1> DEFINE u == s \o r
<1>1. \A i \in DOMAIN s : \A b : ~Barred(s[i].op, b)
  BY DEF NativeWork, NativeOps, WorkOps, Barred
<1>2. s \in Seq(WorkItems) /\ Len(s) \in Nat
  BY DEF NativeWork
<1>3. SUFFICES ASSUME NEW i \in DOMAIN u, NEW j \in DOMAIN u, i < j
               PROVE  ~Barred(u[i].op, u[j].op)
  BY DEF Orderly
<1>4. CASE i \in DOMAIN s /\ u[i] = s[i]
  BY <1>1, <1>4
<1>5. CASE /\ i - Len(s) \in DOMAIN r /\ u[i] = r[i - Len(s)]
           /\ j - Len(s) \in DOMAIN r /\ u[j] = r[j - Len(s)]
  BY <1>2, <1>3, <1>5 DEF Orderly
<1>6. CASE i > Len(s) /\ j \in DOMAIN s
  BY <1>2, <1>3, <1>6
<1> QED BY <1>2, <1>4, <1>5, <1>6, Joined

LEMMA NativeJoined ==
  ASSUME NEW s, NEW r, NativeWork(s), NativeWork(r)
  PROVE  NativeWork(s \o r)
BY Joined DEF NativeWork

LEMMA NativeOne == ASSUME NEW x \in WorkItems, x.op \in NativeOps PROVE NativeWork(<<x>>)
BY DEF NativeWork

LEMMA NativeNone == NativeWork(<<>>)
BY EmptyTodo DEF NativeWork

LEMMA StartsJoined ==
  ASSUME NEW s \in Seq(WorkItems), NEW r \in Seq(WorkItems)
  PROVE  /\ \A c : StartIn(s \o r, c) <=> StartIn(s, c) \/ StartIn(r, c)
         /\ ModuleIn(s \o r) <=> ModuleIn(s) \/ ModuleIn(r)
<1>1. \A c : StartIn(s \o r, c) => StartIn(s, c) \/ StartIn(r, c)
  BY Joined DEF StartIn
<1>2. \A c : StartIn(s, c) => StartIn(s \o r, c)
  BY Joined DEF StartIn
<1>3. ASSUME NEW c, StartIn(r, c) PROVE StartIn(s \o r, c)
  <2>1. PICK i \in DOMAIN r : r[i].op = "start" /\ r[i].of = c
    BY <1>3 DEF StartIn
  <2>2. i + Len(s) \in DOMAIN (s \o r) /\ (s \o r)[i + Len(s)] = r[i]
    BY Joined
  <2> QED BY <2>1, <2>2 DEF StartIn
<1>4. ModuleIn(s \o r) => ModuleIn(s) \/ ModuleIn(r)
  BY Joined DEF ModuleIn
<1>5. ModuleIn(s) => ModuleIn(s \o r)
  BY Joined DEF ModuleIn
<1>6. ASSUME ModuleIn(r) PROVE ModuleIn(s \o r)
  <2>1. PICK i \in DOMAIN r : r[i].op = "modstart"
    BY <1>6 DEF ModuleIn
  <2>2. i + Len(s) \in DOMAIN (s \o r) /\ (s \o r)[i + Len(s)] = r[i]
    BY Joined
  <2> QED BY <2>1, <2>2 DEF ModuleIn
<1> QED BY <1>1, <1>2, <1>3, <1>4, <1>5, <1>6

LEMMA StartsTail ==
  ASSUME NEW t \in Seq(WorkItems), t # <<>>
  PROVE  /\ \A c : StartIn(t, c) <=> (Head(t).op = "start" /\ Head(t).of = c) \/ StartIn(Tail(t), c)
         /\ ModuleIn(t) <=> Head(t).op = "modstart" \/ ModuleIn(Tail(t))
<1>1. ASSUME NEW c, StartIn(t, c)
      PROVE  (Head(t).op = "start" /\ Head(t).of = c) \/ StartIn(Tail(t), c)
  <2>1. PICK i \in DOMAIN t : t[i].op = "start" /\ t[i].of = c
    BY <1>1 DEF StartIn
  <2>2. i = 1 \/ (i - 1 \in DOMAIN Tail(t) /\ t[i] = Tail(t)[i - 1])
    BY TailOf
  <2>3. t[1] = Head(t)
    BY TailOf
  <2> QED BY <2>1, <2>2, <2>3 DEF StartIn
<1>2. \A c : Head(t).op = "start" /\ Head(t).of = c => StartIn(t, c)
  BY TailOf DEF StartIn
<1>3. \A c : StartIn(Tail(t), c) => StartIn(t, c)
  BY TailOf DEF StartIn
<1>4. ModuleIn(t) <=> Head(t).op = "modstart" \/ ModuleIn(Tail(t))
  BY TailOf DEF ModuleIn
<1> QED BY <1>1, <1>2, <1>3, <1>4

(***************************************************************************)
(* The stack of activations.                                               *)
(***************************************************************************)
Replaced(cs, u) == [cs EXCEPT ![Len(cs)].todo = u]

LEMMA TopReplaced ==
  ASSUME NEW cs \in Seq(Activations), Len(cs) > 0, NEW u \in Seq(WorkItems)
  PROVE  /\ Replaced(cs, u) \in Seq(Activations)
         /\ Len(Replaced(cs, u)) = Len(cs) /\ DOMAIN Replaced(cs, u) = DOMAIN cs
         /\ Len(cs) \in DOMAIN cs /\ TodoOf(Replaced(cs, u)) = u
         /\ \A k \in DOMAIN cs : k # Len(cs) => Replaced(cs, u)[k] = cs[k]
         /\ TodoOf(cs) \in Seq(WorkItems)
<1>1. Len(cs) \in DOMAIN cs /\ cs[Len(cs)] \in Activations
  OBVIOUS
<1> DEFINE a == [cs[Len(cs)] EXCEPT !.todo = u]
<1>2. a \in Activations /\ a.todo = u
  BY <1>1 DEF Activations
<1>3. Replaced(cs, u) = [cs EXCEPT ![Len(cs)] = a]
  BY <1>1 DEF Replaced
<1>4. cs[Len(cs)].todo \in Seq(WorkItems)
  BY <1>1 DEF Activations
<1> HIDE DEF a
<1>5. [cs EXCEPT ![Len(cs)] = a] \in Seq(Activations)
  BY <1>1, <1>2
<1> QED BY <1>1, <1>2, <1>3, <1>4, <1>5 DEF TodoOf

LEMMA CallsReplaced ==
  ASSUME NEW cs, NEW fl, NEW fl2, CallsInv(cs, fl), NEW u \in Seq(WorkItems),
         Orderly(u), EndsMarked(u, fl2), EndsApart(u)
  PROVE  CallsInv(Replaced(cs, u), fl2)
<1> DEFINE ds == Replaced(cs, u)
<1>1. cs \in Seq(Activations) /\ Len(cs) > 0
  BY DEF CallsInv
<1>2. /\ ds \in Seq(Activations) /\ Len(ds) = Len(cs) /\ DOMAIN ds = DOMAIN cs /\ TodoOf(ds) = u
      /\ \A k \in DOMAIN cs : k # Len(cs) => ds[k] = cs[k]
  BY <1>1, TopReplaced
<1> HIDE DEF ds
<1>3. \A k \in DOMAIN ds : Orderly(ds[k].todo)
  BY <1>2 DEF CallsInv, TodoOf
<1>4. \A k \in DOMAIN ds : k < Len(ds) => WaitsWell(ds[k].todo)
  BY <1>1, <1>2 DEF CallsInv
<1> QED BY <1>1, <1>2, <1>3, <1>4 DEF CallsInv, ds

LEMMA CallsPushed ==
  ASSUME NEW cs, NEW fl, CallsInv(cs, fl), WaitsWell(TodoOf(cs)), NEW c \in Classes
  PROVE  CallsInv(Append(cs, [of |-> c, todo |-> <<>>]), fl)
<1> DEFINE a  == [of |-> c, todo |-> <<>>]
           ds == Append(cs, a)
<1>1. cs \in Seq(Activations) /\ Len(cs) \in Nat /\ Len(cs) > 0 /\ a \in Activations /\ a.todo = <<>>
  BY EmptyTodo DEF CallsInv, Activations
<1> HIDE DEF a
<1>2. /\ ds \in Seq(Activations) /\ Len(ds) = Len(cs) + 1 /\ ds[Len(ds)] = a
      /\ \A k \in DOMAIN ds : k \in 1..Len(ds) /\ (k = Len(ds) \/ (k \in DOMAIN cs /\ ds[k] = cs[k]))
  BY <1>1
<1> HIDE DEF ds
<1>3. \A k \in DOMAIN ds : Orderly(ds[k].todo)
  BY <1>1, <1>2, EmptyTodo DEF CallsInv
<1>4. \A k \in DOMAIN ds : k < Len(ds) => WaitsWell(ds[k].todo)
  <2> SUFFICES ASSUME NEW k \in DOMAIN ds, k < Len(ds) PROVE WaitsWell(ds[k].todo)
    OBVIOUS
  <2>1. k \in DOMAIN cs /\ ds[k] = cs[k] /\ k \in 1..Len(cs)
    BY <1>1, <1>2
  <2>2. CASE k = Len(cs)
    BY <2>1, <2>2 DEF TodoOf
  <2>3. CASE k < Len(cs)
    BY <2>1, <2>3 DEF CallsInv
  <2> QED BY <1>1, <2>1, <2>2, <2>3
<1>5. EndsMarked(TodoOf(ds), fl) /\ EndsApart(TodoOf(ds))
  BY <1>1, <1>2, EmptyTodo DEF TodoOf
<1>6. CallsInv(ds, fl)
  BY <1>1, <1>2, <1>3, <1>4, <1>5 DEF CallsInv
<1> QED BY <1>6 DEF ds, a

LEMMA Popped ==
  ASSUME NEW cs \in Seq(Activations), Len(cs) > 1
  PROVE  LET ds == SubSeq(cs, 1, Len(cs) - 1)
         IN  /\ ds \in Seq(Activations) /\ Len(ds) = Len(cs) - 1 /\ Len(ds) \in DOMAIN ds
             /\ \A k \in DOMAIN ds : k \in DOMAIN cs /\ k < Len(cs) /\ ds[k] = cs[k] /\ k <= Len(ds)
             /\ \A k \in DOMAIN cs : k < Len(cs) => k \in DOMAIN ds
OBVIOUS

LEMMA WaitingHasNoEnd ==
  ASSUME NEW s, NEW fl, WaitsWell(s)
  PROVE  EndsMarked(s, fl) /\ EndsApart(s) /\ ~ModuleIn(s)
BY DEF WaitsWell, EndsMarked, EndsApart, ModuleIn

LEMMA CallsPopped ==
  ASSUME NEW cs, NEW fl, CallsInv(cs, fl), Len(cs) > 1
  PROVE  /\ CallsInv(SubSeq(cs, 1, Len(cs) - 1), fl)
         /\ WaitsWell(TodoOf(SubSeq(cs, 1, Len(cs) - 1)))
<1> DEFINE ds == SubSeq(cs, 1, Len(cs) - 1)
<1>1. cs \in Seq(Activations) /\ Len(cs) \in Nat
  BY DEF CallsInv
<1>2. /\ ds \in Seq(Activations) /\ Len(ds) = Len(cs) - 1 /\ Len(ds) \in DOMAIN ds
      /\ \A k \in DOMAIN ds : k \in DOMAIN cs /\ k < Len(cs) /\ ds[k] = cs[k]
  BY <1>1, Popped
<1> HIDE DEF ds
<1>3. \A k \in DOMAIN ds : Orderly(ds[k].todo) /\ WaitsWell(ds[k].todo)
  BY <1>2 DEF CallsInv
<1>4. WaitsWell(TodoOf(ds))
  BY <1>2, <1>3 DEF TodoOf
<1>5. CallsInv(ds, fl)
  BY <1>1, <1>2, <1>3, <1>4, WaitingHasNoEnd DEF CallsInv
<1> QED BY <1>4, <1>5 DEF ds

(***************************************************************************)
(* Constructors: what a change of the top, a call and a return leave.       *)
(***************************************************************************)
\* The work on top changes and no constructor is added to it.
LEMMA OnceReplaced ==
  ASSUME NEW cs, NEW fl, CallsInv(cs, fl), NEW md, NEW st, NEW sd, NEW ag,
         OnceInv(cs, md, st, sd, ag), NEW u \in Seq(WorkItems),
         \A c \in Classes : StartIn(u, c) => StartTop(cs, c),
         ModuleIn(u) => ModuleIn(TodoOf(cs))
  PROVE  OnceInv(Replaced(cs, u), md, st, sd, ag)
<1> DEFINE ds == Replaced(cs, u)
<1>1. cs \in Seq(Activations) /\ Len(cs) > 0
  BY DEF CallsInv
<1>2. /\ Len(ds) = Len(cs) /\ DOMAIN ds = DOMAIN cs /\ TodoOf(ds) = u
      /\ \A k \in DOMAIN cs : k # Len(cs) => ds[k] = cs[k]
      /\ \A k \in DOMAIN cs : k < Len(cs) => ds[k] = cs[k]
  BY <1>1, TopReplaced
<1> HIDE DEF ds
<1>3. \A c : StartBelow(ds, c) <=> StartBelow(cs, c)
  BY <1>2 DEF StartBelow
<1>4. \A c \in Classes : StartTop(ds, c) => StartTop(cs, c)
  BY <1>2 DEF StartTop
<1>5. \A c, d \in Classes : \A k, l \in DOMAIN ds :
         k < Len(ds) /\ l < Len(ds) /\ StartIn(ds[k].todo, c) /\ StartIn(ds[l].todo, d) => k = l
  BY <1>2 DEF OnceInv
<1>6. /\ \A c \in Classes : StartBelow(ds, c) => md /\ ~ModuleIn(TodoOf(ds))
      /\ ModuleIn(TodoOf(ds)) => md
      /\ ModuleIn(TodoOf(ds)) \/ ~md => sd[w.module] = 0
  BY <1>2, <1>3 DEF OnceInv
<1>7. \A c \in Classes \ {w.module} :
         ClassInv(StartTop(ds, c), StartBelow(ds, c), st[c], sd[c], c \in ag)
  BY <1>3, <1>4 DEF OnceInv, ClassInv
<1> QED BY <1>5, <1>6, <1>7 DEF OnceInv, ds

\* At most one constructor is about to start in the work of one activation.
LEMMA OneStart ==
  ASSUME NEW s \in Seq(WorkItems), Orderly(s), NEW c, NEW d, StartIn(s, c), StartIn(s, d)
  PROVE  c = d
<1>1. PICK i \in DOMAIN s : s[i].op = "start" /\ s[i].of = c
  BY DEF StartIn
<1>2. PICK j \in DOMAIN s : s[j].op = "start" /\ s[j].of = d
  BY DEF StartIn
<1>3. ~(i < j) /\ ~(j < i)
  BY <1>1, <1>2 DEF Orderly, Barred
<1>4. i \in Int /\ j \in Int
  OBVIOUS
<1> QED BY <1>1, <1>2, <1>3, <1>4

LEMMA StartsPushed ==
  ASSUME NEW cs \in Seq(Activations), Len(cs) > 0, NEW a \in Activations, a.todo = <<>>
  PROVE  LET ds == Append(cs, a)
         IN  /\ TodoOf(ds) = <<>>
             /\ \A c : ~StartTop(ds, c)
             /\ \A c : StartBelow(ds, c) <=> StartBelow(cs, c) \/ StartTop(cs, c)
             /\ \A k \in DOMAIN ds : k < Len(ds) =>
                  k \in DOMAIN cs /\ ds[k] = cs[k] /\ (k < Len(cs) \/ k = Len(cs))
<1> DEFINE ds == Append(cs, a)
<1>1. /\ Len(cs) \in Nat /\ Len(ds) = Len(cs) + 1 /\ ds[Len(ds)] = a
      /\ \A k \in DOMAIN cs : k \in DOMAIN ds /\ ds[k] = cs[k] /\ k < Len(ds) /\ k \in Int
      /\ \A k \in DOMAIN ds : k < Len(ds) => k \in DOMAIN cs /\ ds[k] = cs[k] /\ (k < Len(cs) \/ k = Len(cs))
      /\ Len(cs) \in DOMAIN cs
  OBVIOUS
<1> HIDE DEF ds
<1>2. TodoOf(ds) = <<>>
  BY <1>1 DEF TodoOf
<1>3. \A c : ~StartTop(ds, c)
  BY <1>2, EmptyTodo DEF StartTop
<1>4. \A c : StartBelow(ds, c) => StartBelow(cs, c) \/ StartTop(cs, c)
  BY <1>1 DEF StartBelow, StartTop, TodoOf
<1>5. \A c : StartBelow(cs, c) => StartBelow(ds, c)
  BY <1>1 DEF StartBelow
<1>6. \A c : StartTop(cs, c) => StartBelow(ds, c)
  BY <1>1 DEF StartBelow, StartTop, TodoOf
<1> QED BY <1>1, <1>2, <1>3, <1>4, <1>5, <1>6 DEF ds

\* Managed code is called while at most one activation has a constructor to start.
LEMMA OncePushed ==
  ASSUME NEW cs, NEW fl, CallsInv(cs, fl), NEW md, NEW st, NEW sd, NEW ag,
         OnceInv(cs, md, st, sd, ag), NEW x \in Classes,
         \/ \A c \in Classes : ~StartTop(cs, c)
         \/ md /\ \A c \in Classes : ~StartBelow(cs, c)
  PROVE  OnceInv(Append(cs, [of |-> x, todo |-> <<>>]), md, st, sd, ag)
<1> DEFINE a  == [of |-> x, todo |-> <<>>]
           ds == Append(cs, a)
<1>1. cs \in Seq(Activations) /\ Len(cs) > 0 /\ a \in Activations /\ a.todo = <<>>
  BY EmptyTodo DEF CallsInv, Activations
<1> HIDE DEF a
<1>2. /\ TodoOf(ds) = <<>>
      /\ \A c : ~StartTop(ds, c)
      /\ \A c : StartBelow(ds, c) <=> StartBelow(cs, c) \/ StartTop(cs, c)
      /\ \A k \in DOMAIN ds : k < Len(ds) =>
           k \in DOMAIN cs /\ ds[k] = cs[k] /\ (k < Len(cs) \/ k = Len(cs))
  BY <1>1, StartsPushed
<1> HIDE DEF ds
<1>3. ASSUME NEW c \in Classes, NEW d \in Classes, NEW k \in DOMAIN ds, NEW l \in DOMAIN ds,
             k < Len(ds), l < Len(ds), StartIn(ds[k].todo, c), StartIn(ds[l].todo, d)
      PROVE  k = l
  <2>1. /\ k \in DOMAIN cs /\ ds[k] = cs[k] /\ (k < Len(cs) \/ k = Len(cs))
        /\ l \in DOMAIN cs /\ ds[l] = cs[l] /\ (l < Len(cs) \/ l = Len(cs))
    BY <1>2, <1>3
  <2>2. k < Len(cs) => StartBelow(cs, c)
    BY <1>3, <2>1 DEF StartBelow
  <2>3. l < Len(cs) => StartBelow(cs, d)
    BY <1>3, <2>1 DEF StartBelow
  <2>4. k = Len(cs) => StartTop(cs, c)
    BY <1>3, <2>1 DEF StartTop, TodoOf
  <2>5. l = Len(cs) => StartTop(cs, d)
    BY <1>3, <2>1 DEF StartTop, TodoOf
  <2>6. CASE k < Len(cs) /\ l < Len(cs)
    BY <1>3, <2>1, <2>6 DEF OnceInv
  <2> QED BY <2>1, <2>2, <2>3, <2>4, <2>5, <2>6
<1>4. \A c \in Classes : ~(StartTop(cs, c) /\ StartBelow(cs, c))
  OBVIOUS
<1>5. \A c \in Classes \ {w.module} :
         ClassInv(StartTop(ds, c), StartBelow(ds, c), st[c], sd[c], c \in ag)
  BY <1>2, <1>4 DEF OnceInv, ClassInv
<1>6. ~ModuleIn(TodoOf(ds))
  BY <1>2, EmptyTodo
<1>8. \A c \in Classes : StartBelow(ds, c) => md
  BY <1>2 DEF OnceInv
<1>7. OnceInv(ds, md, st, sd, ag)
  BY <1>3, <1>5, <1>6, <1>8 DEF OnceInv
<1> QED BY <1>7 DEF ds, a

\* The activation on top returns, with no work left.
LEMMA OncePopped ==
  ASSUME NEW cs, NEW fl, CallsInv(cs, fl), NEW md, NEW st, NEW sd, NEW ag,
         OnceInv(cs, md, st, sd, ag), Len(cs) > 1, TodoOf(cs) = <<>>
  PROVE  OnceInv(SubSeq(cs, 1, Len(cs) - 1), md, st, sd, ag)
<1> DEFINE ds == SubSeq(cs, 1, Len(cs) - 1)
<1>1. cs \in Seq(Activations) /\ Len(cs) \in Nat
  BY DEF CallsInv
<1>2. /\ ds \in Seq(Activations) /\ Len(ds) = Len(cs) - 1 /\ Len(ds) \in DOMAIN ds
      /\ \A k \in DOMAIN ds : k \in DOMAIN cs /\ k < Len(cs) /\ ds[k] = cs[k] /\ k <= Len(ds)
      /\ \A k \in DOMAIN cs : k < Len(cs) => k \in DOMAIN ds
  BY <1>1, Popped
<1> HIDE DEF ds
<1>3. ~ModuleIn(TodoOf(ds))
  BY CallsPopped, WaitingHasNoEnd DEF ds
<1>4. \A c, d \in Classes : \A k, l \in DOMAIN ds :
         StartIn(ds[k].todo, c) /\ StartIn(ds[l].todo, d) => k = l
  BY <1>2 DEF OnceInv
<1>5. \A c \in Classes : StartTop(ds, c) \/ StartBelow(ds, c) => StartBelow(cs, c)
  BY <1>2 DEF StartTop, StartBelow, TodoOf
<1>6. ASSUME NEW c \in Classes, StartTop(ds, c), StartBelow(ds, c)
      PROVE  FALSE
  <2>1. PICK k \in DOMAIN ds : k < Len(ds) /\ StartIn(ds[k].todo, c)
    BY <1>6 DEF StartBelow
  <2>2. k = Len(ds)
    BY <1>2, <1>4, <1>6, <2>1 DEF StartTop, TodoOf
  <2> QED BY <1>1, <1>2, <2>1, <2>2
<1>7. \A c \in Classes : ~StartTop(cs, c)
  BY EmptyTodo DEF StartTop
<1>8. \A c \in Classes \ {w.module} :
         ClassInv(StartTop(ds, c), StartBelow(ds, c), st[c], sd[c], c \in ag)
  BY <1>5, <1>6, <1>7 DEF OnceInv, ClassInv
<1>9. \A c \in Classes : StartBelow(ds, c) => md
  BY <1>5 DEF OnceInv
<1>10. sd[w.module] <= 1 /\ (~md => sd[w.module] = 0)
       /\ st \in [Classes -> {"NotInited", "InitSelf"}] /\ sd \in [Classes -> Nat]
       /\ md \in BOOLEAN
  BY DEF OnceInv
<1>11. OnceInv(ds, md, st, sd, ag)
  BY <1>3, <1>4, <1>8, <1>9, <1>10 DEF OnceInv
<1> QED BY <1>11 DEF ds

(***************************************************************************)
(* What a call of initialize_<part> expands to is native work.             *)
(***************************************************************************)
LEMMA World ==
  ASSUME w \in Worlds
  PROVE  /\ w.module \in Classes
         /\ \A c \in Classes : /\ w.parent[c] # NoClass => w.parent[c] \in Classes
                               /\ w.parent[c] # w.module
                               /\ w.sigs[c] \in Seq(Classes) /\ w.ifaces[c] \in Seq(Classes)
                               /\ w.fields[c] \in Seq(Fields)
         /\ \A c \in Classes : \A i \in DOMAIN w.fields[c] :
              w.fields[c][i].kind = "value" => w.fields[c][i].of \in Classes
         /\ w.asked \subseteq Parts \cup {"All"}
BY WorldAssumption

LEMMA DoneItem ==
  ASSUME NEW op \in Ops, NEW c \in Classes, NEW a \in Args,
         op = "init" => a \in Parts \cup {"All"},
         op \in {"field", "sfield"} => a \in DOMAIN w.fields[c],
         op \in {"module", "modstart"} => c = w.module,
         op \in {"hierarchy", "cctor", "start"} => c # w.module,
         op = "start" => a = 0
  PROVE  /\ Do(op, c, a) \in WorkItems
         /\ Do(op, c, a).op = op /\ Do(op, c, a).of = c /\ Do(op, c, a).arg = a
<1> DEFINE x == Do(op, c, a)
<1>1. x \in [op : Ops, of : Classes, arg : Args] /\ x.op = op /\ x.of = c /\ x.arg = a
  BY DEF Do
<1> HIDE DEF x
<1>2. x \in WorkItems
  BY <1>1 DEF WorkItems
<1> QED BY <1>1, <1>2 DEF x

LEMMA NativeCall ==
  ASSUME NEW p \in Parts \cup {"All"}, NEW c \in Classes
  PROVE  Initialize(p, c) \in WorkItems /\ NativeWork(<<Initialize(p, c)>>)
<1>1. Initialize(p, c) \in WorkItems /\ Initialize(p, c).op \in NativeOps
  <2>1. p \in Args /\ "init" \in Ops
    BY DEF Args, Ops, NativeOps
  <2>2. Do("init", c, p) \in WorkItems /\ Do("init", c, p).op = "init"
    BY <2>1, DoneItem
  <2> QED BY <2>2 DEF Initialize, NativeOps
<1> QED BY <1>1, NativeOne

LEMMA NativePiece ==
  ASSUME NEW op \in WorkOps \cup {"ifacetables"}, NEW c \in Classes
  PROVE  Work(op, c) \in WorkItems /\ NativeWork(<<Work(op, c)>>)
<1>1. /\ op \in Ops
      /\ op \notin {"init", "field", "sfield", "module", "modstart", "hierarchy", "cctor", "start"}
      /\ op \in NativeOps
  BY DEF WorkOps, NativeOps, Ops
<1>2. Work(op, c) \in WorkItems /\ Work(op, c).op \in NativeOps
  BY <1>1, DoneItem DEF Work, Args
<1> QED BY <1>2, NativeOne

LEMMA NativeRounds ==
  ASSUME NEW p \in Parts \cup {"All"}, NEW q \in Seq(Classes)
  PROVE  NativeWork([i \in DOMAIN q |-> Initialize(p, q[i])])
<1> DEFINE F(i) == Initialize(p, q[i])
<1>2. ASSUME NEW i \in DOMAIN q PROVE F(i) \in WorkItems /\ F(i).op \in NativeOps
  <2>1. q[i] \in Classes
    OBVIOUS
  <2>2. Initialize(p, q[i]).op = "init"
    BY DEF Initialize, Do
  <2> QED BY <2>1, <2>2, NativeCall DEF NativeOps
<1> HIDE DEF F
<1>3. [i \in DOMAIN q |-> F(i)] \in Seq(WorkItems)
  BY <1>2
<1>4. NativeWork([i \in DOMAIN q |-> F(i)])
  BY <1>2, <1>3 DEF NativeWork
<1> QED BY <1>4 DEF F

LEMMA NativeFields ==
  ASSUME w \in Worlds, NEW c \in Classes
  PROVE  NativeWork(InstanceRounds(c)) /\ NativeWork(StaticRounds(c))
<1>1. w.fields[c] \in Seq(Fields) /\ DOMAIN w.fields[c] \subseteq Nat
  BY World
<1>2. ASSUME NEW op \in {"field", "sfield"}
      PROVE  NativeWork([i \in DOMAIN w.fields[c] |-> Do(op, c, i)])
  <2>1. op \in NativeOps /\ op \in Ops
    BY <1>2 DEF NativeOps, Ops
  <2> DEFINE F(i) == Do(op, c, i)
  <2>2. ASSUME NEW i \in DOMAIN w.fields[c] PROVE F(i) \in WorkItems /\ F(i).op \in NativeOps
    <3>1. i \in Args
      BY <1>1 DEF Args
    <3> QED BY <1>2, <2>1, <3>1, DoneItem
  <2> HIDE DEF F
  <2>3. [i \in DOMAIN w.fields[c] |-> F(i)] \in Seq(WorkItems)
    BY <1>1, <2>2
  <2>4. NativeWork([i \in DOMAIN w.fields[c] |-> F(i)])
    BY <2>2, <2>3 DEF NativeWork
  <2> QED BY <2>4 DEF F
<1> QED BY <1>2 DEF InstanceRounds, StaticRounds

LEMMA NativeUp ==
  ASSUME w \in Worlds, NEW p \in Parts, NEW c \in Classes
  PROVE  NativeWork(Up(p, c))
BY World, NativeCall, NativeNone DEF Up

LEMMA NativeTwo ==
  ASSUME NEW x \in WorkItems, NEW y \in WorkItems, x.op \in NativeOps, y.op \in NativeOps
  PROVE  NativeWork(<<x, y>>)
BY DEF NativeWork

NativeItem(x) == x \in WorkItems /\ x.op \in NativeOps

LEMMA NativeFour ==
  ASSUME NEW a, NEW b, NEW c, NEW d,
         NativeItem(a), NativeItem(b), NativeItem(c), NativeItem(d)
  PROVE  NativeWork(<<a, b, c, d>>)
<1> DEFINE s == <<a, b, c, d>>
<1>1. s \in Seq(WorkItems) /\ DOMAIN s = 1..4
  BY DEF NativeItem
<1>2. \A i \in 1..4 : s[i].op \in NativeOps
  BY DEF NativeItem
<1> QED BY <1>1, <1>2 DEF NativeWork

LEMMA NativeFive ==
  ASSUME NEW a, NEW b, NEW c, NEW d, NEW e,
         NativeItem(a), NativeItem(b), NativeItem(c), NativeItem(d), NativeItem(e)
  PROVE  NativeWork(<<a, b, c, d, e>>)
<1> DEFINE s == <<a, b, c, d, e>>
<1>1. s \in Seq(WorkItems) /\ DOMAIN s = 1..5
  BY DEF NativeItem
<1>2. \A i \in 1..5 : s[i].op \in NativeOps
  BY DEF NativeItem
<1> QED BY <1>1, <1>2 DEF NativeWork

LEMMA NativeEight ==
  ASSUME NEW a, NEW b, NEW c, NEW d, NEW e, NEW f, NEW g, NEW h,
         NativeItem(a), NativeItem(b), NativeItem(c), NativeItem(d),
         NativeItem(e), NativeItem(f), NativeItem(g), NativeItem(h)
  PROVE  NativeWork(<<a, b, c, d, e, f, g, h>>)
<1> DEFINE s == <<a, b, c, d, e, f, g, h>>
<1>1. s \in Seq(WorkItems) /\ DOMAIN s = 1..8
  BY DEF NativeItem
<1>2. \A i \in 1..8 : s[i].op \in NativeOps
  BY DEF NativeItem
<1> QED BY <1>1, <1>2 DEF NativeWork

LEMMA NativeBody ==
  ASSUME w \in Worlds, NEW p \in Parts \cup {"All"}, NEW c \in Classes
  PROVE  NativeWork(Body(p, c))
<1>1. \A q \in Parts : NativeWork(Up(q, c))
  BY NativeUp
<1>2. \A op \in WorkOps \cup {"ifacetables"} : NativeItem(Work(op, c)) /\ NativeWork(<<Work(op, c)>>)
  <2> SUFFICES ASSUME NEW op \in WorkOps \cup {"ifacetables"}
               PROVE  NativeItem(Work(op, c)) /\ NativeWork(<<Work(op, c)>>)
    OBVIOUS
  <2>1. Work(op, c).op = op /\ op \in NativeOps
    BY DEF Work, Do, NativeOps
  <2> QED BY <2>1, NativePiece DEF NativeItem
<1>3. \A q \in Parts \cup {"All"} : NativeItem(Initialize(q, c)) /\ NativeWork(<<Initialize(q, c)>>)
  <2> SUFFICES ASSUME NEW q \in Parts \cup {"All"}
               PROVE  NativeItem(Initialize(q, c)) /\ NativeWork(<<Initialize(q, c)>>)
    OBVIOUS
  <2>1. Initialize(q, c).op \in NativeOps
    BY DEF Initialize, Do, NativeOps
  <2> QED BY <2>1, NativeCall DEF NativeItem
<1>4. CASE p = "Field"
  <2>1. /\ NativeItem(Work("statics", c)) /\ NativeItem(Work("bitmap", c))
        /\ NativeItem(Work("sbitmap", c)) /\ NativeItem(Work("data", c))
        /\ NativeWork(<<Work("fields", c)>>) /\ NativeWork(<<Work("layout", c)>>)
    BY <1>2 DEF WorkOps
  <2>4. NativeWork(<<Work("statics", c), Work("bitmap", c), Work("sbitmap", c), Work("data", c)>>)
    BY <2>1, NativeFour
  <2>5. NativeWork(Up("Field", c)) /\ NativeWork(InstanceRounds(c)) /\ NativeWork(StaticRounds(c))
    BY <1>1, NativeFields DEF Parts
  <2>6. NativeWork(Up("Field", c) \o <<Work("fields", c)>> \o InstanceRounds(c) \o <<Work("layout", c)>>)
    BY <2>1, <2>5, NativeJoined
  <2>7. NativeWork(FieldBody(c))
    BY <2>4, <2>5, <2>6, NativeJoined DEF FieldBody
  <2> QED BY <1>4, <2>7 DEF Body
<1>5. CASE p = "Method"
  <2>1. /\ NativeWork(<<Work("methods", c)>>) /\ NativeWork(<<Work("argdescs", c)>>)
        /\ NativeWork(Up("Method", c))
    BY <1>1, <1>2 DEF WorkOps, Parts
  <2>2. NativeWork([i \in DOMAIN w.sigs[c] |-> Initialize("Field", w.sigs[c][i])])
    BY World, NativeRounds DEF Parts
  <2>3. NativeWork(MethodBody(c))
    BY <2>1, <2>2, NativeJoined DEF MethodBody
  <2> QED BY <1>5, <2>3 DEF Body
<1>6. CASE p = "Interfaces"
  <2>1. NativeWork(<<Work("interfaces", c)>>) /\ NativeWork(Up("Interfaces", c))
    BY <1>1, <1>2 DEF WorkOps, Parts
  <2>2. ListedInterfaces(c) \in Seq(Classes)
    BY World DEF ListedInterfaces
  <2>3. NativeWork([i \in DOMAIN ListedInterfaces(c) |-> Initialize("All", ListedInterfaces(c)[i])])
    BY <2>2, NativeRounds
  <2>4. NativeWork(InterfacesBody(c))
    BY <2>1, <2>3, NativeJoined DEF InterfacesBody
  <2> QED BY <1>6, <2>4 DEF Body
<1>7. CASE p = "VTable"
  <2>1. /\ NativeWork(Up("VTable", c))
        /\ NativeItem(Initialize("SuperTypes", c)) /\ NativeItem(Initialize("Interfaces", c))
        /\ NativeItem(Initialize("Method", c))
        /\ NativeItem(Work("ifacetables", c)) /\ NativeItem(Work("vtable", c))
    BY <1>1, <1>2, <1>3 DEF WorkOps, Parts
  <2>2. NativeWork(<<Initialize("SuperTypes", c), Initialize("Interfaces", c), Initialize("Method", c),
                     Work("ifacetables", c), Work("vtable", c)>>)
    BY <2>1, NativeFive
  <2>3. NativeWork(VTableBody(c))
    BY <2>1, <2>2, NativeJoined DEF VTableBody
  <2> QED BY <1>7, <2>3 DEF Body
<1>8. CASE p = "Property"
  <2>1. /\ NativeWork(Up("Property", c)) /\ NativeWork(<<Initialize("Method", c)>>)
        /\ NativeWork(<<Work("property", c)>>)
    BY <1>1, <1>2, <1>3 DEF WorkOps, Parts
  <2>2. NativeWork(<<Initialize("Method", c)>> \o Up("Property", c) \o <<Work("property", c)>>)
    BY <2>1, NativeJoined
  <2> QED BY <1>8, <2>2 DEF Body
<1>9. CASE p = "All"
  <2>1. /\ NativeItem(Initialize("SuperTypes", c)) /\ NativeItem(Initialize("Interfaces", c))
        /\ NativeItem(Initialize("Nested", c)) /\ NativeItem(Initialize("Field", c))
        /\ NativeItem(Initialize("Method", c)) /\ NativeItem(Initialize("Property", c))
        /\ NativeItem(Initialize("Event", c)) /\ NativeItem(Initialize("VTable", c))
    BY <1>3 DEF Parts
  <2>2. NativeWork(<<Initialize("SuperTypes", c), Initialize("Interfaces", c), Initialize("Nested", c),
                     Initialize("Field", c), Initialize("Method", c), Initialize("Property", c),
                     Initialize("Event", c), Initialize("VTable", c)>>)
    BY <2>1, NativeEight
  <2> QED BY <1>9, <2>2 DEF Body
<1>10. CASE p = "SuperTypes"
  <2>1. NativeWork(Up(p, c) \o <<Work("supers", c)>>)
    BY <1>1, <1>2, <1>10, NativeJoined DEF WorkOps, Parts
  <2> QED BY <1>10, <2>1 DEF Body
<1>11. CASE p = "Nested"
  <2>1. NativeWork(Up(p, c) \o <<Work("nested", c)>>)
    BY <1>1, <1>2, <1>11, NativeJoined DEF WorkOps, Parts
  <2> QED BY <1>11, <2>1 DEF Body
<1>12. CASE p = "Event"
  <2>1. NativeWork(Up(p, c) \o <<Work("event", c)>>)
    BY <1>1, <1>2, <1>12, NativeJoined DEF WorkOps, Parts
  <2> QED BY <1>12, <2>1 DEF Body
<1> QED BY <1>4, <1>5, <1>6, <1>7, <1>8, <1>9, <1>10, <1>11, <1>12 DEF Parts

(***************************************************************************)
(* One lemma per kind of step.                                             *)
(***************************************************************************)
LEMMA Framed ==
  ASSUME w' = w, w \in Worlds, GivenInv(kl'), CallsInv(calls', flags'),
         OnceInv(calls', modDone', status', started', again')
  PROVE  Inv'
<1>0. Activations' = Activations
  <2>1. WorkItems' = WorkItems
    BY DEF WorkItems
  <2> QED BY <2>1 DEF Activations
<1>1. CallsInv(calls, flags)'
  BY <1>0 DEF CallsInv
<1>2. OnceInv(calls, modDone, status, started, again)'
  BY DEF OnceInv
<1>3. GivenInv(kl)'
  BY DEF GivenInv
<1> QED BY <1>1, <1>2, <1>3 DEF Inv

LEMMA TodoTop == Todo = TodoOf(calls)
BY DEF Todo, Top, TodoOf

LEMMA Current ==
  ASSUME Inv, Todo # <<>>
  PROVE  /\ Todo \in Seq(WorkItems) /\ Orderly(Todo)
         /\ EndsMarked(Todo, flags) /\ EndsApart(Todo)
         /\ Item \in WorkItems /\ Item = Head(Todo)
         /\ Tail(Todo) \in Seq(WorkItems) /\ Orderly(Tail(Todo))
         /\ EndsMarked(Tail(Todo), flags) /\ EndsApart(Tail(Todo))
<1>1. calls \in Seq(Activations) /\ Len(calls) > 0
  BY DEF Inv, CallsInv
<1>2. Todo \in Seq(WorkItems)
  BY <1>1, TopReplaced, EmptyTodo, TodoTop
<1>3. Orderly(Todo)
  BY <1>1, TodoTop DEF Inv, CallsInv, TodoOf
<1>4. EndsMarked(Todo, flags) /\ EndsApart(Todo)
  BY TodoTop DEF Inv, CallsInv
<1>5. Orderly(Tail(Todo))
  BY <1>2, <1>3, TailOf DEF Orderly
<1> QED BY <1>2, <1>3, <1>4, <1>5, TailOf, EndsTail DEF Item

\* The work on top becomes u, and no constructor is added.
LEMMA Becomes ==
  ASSUME Inv, NEW u \in Seq(WorkItems), Orderly(u), EndsMarked(u, flags'), EndsApart(u),
         \A c \in Classes : StartIn(u, c) => StartTop(calls, c),
         ModuleIn(u) => ModuleIn(TodoOf(calls)),
         calls' = [calls EXCEPT ![Len(calls)].todo = u],
         w' = w, modDone' = modDone, status' = status, started' = started, again' = again,
         GivenInv(kl')
  PROVE  Inv'
<1>1. calls' = Replaced(calls, u)
  BY DEF Replaced
<1>2. CallsInv(calls, flags) /\ OnceInv(calls, modDone, status, started, again) /\ w \in Worlds
  BY DEF Inv
<1>3. CallsInv(Replaced(calls, u), flags')
  BY <1>2, CallsReplaced
<1>4. OnceInv(Replaced(calls, u), modDone, status, started, again)
  BY <1>2, OnceReplaced
<1>5. CallsInv(calls', flags')
  BY <1>1, <1>3
<1>6. OnceInv(calls', modDone', status', started', again')
  BY <1>1, <1>4
<1> QED BY <1>2, <1>5, <1>6, Framed

\* The item on top is replaced by s, which may stand where the item stood.
LEMMA Continued ==
  ASSUME Inv, Todo # <<>>, NEW s \in Seq(WorkItems), Orderly(s), NoEnd(s), Yields(s, Item.op),
         Continue(s)
  PROVE  LET u == s \o Tail(Todo)
         IN  /\ u \in Seq(WorkItems) /\ Orderly(u) /\ EndsMarked(u, flags) /\ EndsApart(u)
             /\ calls' = [calls EXCEPT ![Len(calls)].todo = u] /\ calls' = Replaced(calls, u)
             /\ CallsInv(Replaced(calls, u), flags)
             /\ \A c : StartIn(u, c) <=> StartIn(s, c) \/ StartIn(Tail(Todo), c)
             /\ ModuleIn(u) <=> ModuleIn(s) \/ ModuleIn(Tail(Todo))
<1> DEFINE u == s \o Tail(Todo)
<1>2. u \in Seq(WorkItems)
  BY Current, Joined
<1>3. Orderly(u)
  BY Current, OrderlyJoined DEF Item
<1>4. EndsMarked(u, flags) /\ EndsApart(u)
  BY Current, EndsJoined
<1>5. /\ \A c : StartIn(u, c) <=> StartIn(s, c) \/ StartIn(Tail(Todo), c)
      /\ ModuleIn(u) <=> ModuleIn(s) \/ ModuleIn(Tail(Todo))
  BY Current, StartsJoined
<1>6. calls' = [calls EXCEPT ![Len(calls)].todo = u] /\ calls' = Replaced(calls, u)
  BY DEF Continue, Replaced
<1> HIDE DEF u
<1>7. CallsInv(Replaced(calls, u), flags)
  BY <1>2, <1>3, <1>4, CallsReplaced DEF Inv
<1> QED BY <1>2, <1>3, <1>4, <1>5, <1>6, <1>7 DEF u

LEMMA PlainStep ==
  ASSUME Inv, Todo # <<>>, NEW s \in Seq(WorkItems), Orderly(s), NoEnd(s), Yields(s, Item.op),
         ~ModuleIn(s), \A c : ~StartIn(s, c), Continue(s),
         w' = w, flags' = flags, modDone' = modDone, status' = status, started' = started,
         again' = again, GivenInv(kl')
  PROVE  Inv'
<1> DEFINE u == s \o Tail(Todo)
<1>1. /\ u \in Seq(WorkItems) /\ Orderly(u) /\ EndsMarked(u, flags) /\ EndsApart(u)
      /\ calls' = [calls EXCEPT ![Len(calls)].todo = u]
      /\ \A c : StartIn(u, c) => StartIn(Tail(Todo), c)
      /\ ModuleIn(u) => ModuleIn(Tail(Todo))
  BY Continued
<1> HIDE DEF u
<1>2. \A c \in Classes : StartIn(u, c) => StartTop(calls, c)
  BY <1>1, Current, StartsTail, TodoTop DEF StartTop
<1>3. ModuleIn(u) => ModuleIn(TodoOf(calls))
  BY <1>1, Current, StartsTail, TodoTop
<1>4. EndsMarked(u, flags')
  BY <1>1
<1> QED BY <1>1, <1>2, <1>3, <1>4, Becomes

LEMMA NativeStep ==
  ASSUME Inv, Todo # <<>>, NEW s, NativeWork(s), Continue(s),
         w' = w, flags' = flags, modDone' = modDone, status' = status, started' = started,
         again' = again, GivenInv(kl')
  PROVE  Inv'
BY NativeRow, PlainStep

LEMMA AbandonStep ==
  ASSUME Inv, Abandon, w' = w, flags' = flags, modDone' = modDone, status' = status,
         started' = started, again' = again, GivenInv(kl')
  PROVE  Inv'
BY EmptyTodo, Becomes DEF Abandon

\* A request of managed code, which has no work of its own left.
LEMMA RequestStep ==
  ASSUME Inv, NEW s \in Seq(WorkItems), Orderly(s), NoEnd(s), ~ModuleIn(s),
         \A c \in Classes : ~StartIn(s, c), Request(s)
  PROVE  Inv'
<1>1. EndsMarked(s, flags') /\ EndsApart(s)
  BY DEF NoEnd, EndsMarked, EndsApart
<1>2. /\ calls' = [calls EXCEPT ![Len(calls)].todo = s]
      /\ w' = w /\ modDone' = modDone /\ status' = status /\ started' = started
      /\ again' = again /\ kl' = kl
  BY DEF Request, history
<1>3. GivenInv(kl')
  BY <1>2 DEF Inv
<1> QED BY <1>1, <1>2, <1>3, Becomes

LEMMA ItemTyped ==
  ASSUME Inv, Todo # <<>>
  PROVE  /\ Item.of \in Classes /\ Item.arg \in Args /\ Item.op \in Ops
         /\ Item.op = "init" => Item.arg \in Parts \cup {"All"}
         /\ Item.op \in {"field", "sfield"} => Item.arg \in DOMAIN w.fields[Item.of]
         /\ Item.op \in {"module", "modstart"} => Item.of = w.module
         /\ Item.op \in {"hierarchy", "cctor", "start"} => Item.of # w.module
BY Current DEF WorkItems

LEMMA EnterPartKeeps ==
  ASSUME Inv, EnterPart
  PROVE  Inv'
<1> DEFINE c == Item.of
           p == Item.arg
           e == Do("end", c, p)
           r == <<e>> \o Tail(Todo)
           b == Body(p, c)
<1>1. /\ Todo # <<>> /\ Item.op = "init" /\ c \in Classes /\ p \in Parts \cup {"All"}
      /\ w \in Worlds
  BY ItemTyped DEF EnterPart, Running, Inv
<1>2. /\ w' = w /\ modDone' = modDone /\ status' = status /\ started' = started /\ again' = again
      /\ kl' = kl /\ GivenInv(kl')
  BY DEF EnterPart, history, Inv
<1>3. CASE <<p, c>> \in flags
  BY <1>1, <1>2, <1>3, NativeNone, NativeStep DEF EnterPart
<1>4. CASE <<p, c>> \notin flags
  <2>1. Continue(Append(b, e)) /\ flags' = flags \cup {<<p, c>>}
    BY <1>4 DEF EnterPart
  <2>2. e \in WorkItems /\ e.op = "end" /\ e.of = c /\ e.arg = p
    <3>1. "end" \in Ops /\ p \in Args
      BY <1>1 DEF Args, Ops
    <3> HIDE DEF p
    <3> QED BY <1>1, <3>1, DoneItem
  <2>4. NativeWork(b)
    BY <1>1, NativeBody
  <2> HIDE DEF e, c, p, b
  <2>3. /\ Tail(Todo) \in Seq(WorkItems) /\ Orderly(Tail(Todo))
        /\ EndsMarked(Tail(Todo), flags) /\ EndsApart(Tail(Todo))
    BY <1>1, Current
  <2>5. b \in Seq(WorkItems) /\ NoEnd(b) /\ ~ModuleIn(b) /\ \A x : ~StartIn(b, x)
    BY <2>4, NativeRow
  <2>6. <<e>> \in Seq(WorkItems) /\ Len(<<e>>) = 1 /\ <<e>>[1] = e /\ DOMAIN <<e>> = {1}
    BY <2>2
  <2>7. /\ r \in Seq(WorkItems)
        /\ \A i \in DOMAIN r : \/ i = 1 /\ r[i] = e
                               \/ i - 1 \in DOMAIN Tail(Todo) /\ r[i] = Tail(Todo)[i - 1] /\ i \in Int /\ i > 1
    BY <2>3, <2>6, Joined
  <2>8. /\ ModuleIn(r) <=> ModuleIn(Tail(Todo))
        /\ \A x : StartIn(r, x) <=> StartIn(Tail(Todo), x)
    <3>1. ~ModuleIn(<<e>>) /\ \A x : ~StartIn(<<e>>, x)
      BY <2>2, <2>6 DEF ModuleIn, StartIn
    <3> QED BY <2>3, <2>6, <3>1, StartsJoined
  <2>9. Orderly(r)
    <3>1. Orderly(<<e>>)
      BY <2>6 DEF Orderly
    <3>2. Yields(<<e>>, Head(Todo).op)
      BY <2>2, <2>6 DEF Yields, Barred
    <3>3. Todo \in Seq(WorkItems) /\ Orderly(Todo)
      BY <1>1, Current
    <3> QED BY <1>1, <2>6, <3>1, <3>2, <3>3, OrderlyJoined
  <2> HIDE DEF r
  <2>10. EndsMarked(r, flags')
    BY <2>1, <2>2, <2>3, <2>7 DEF EndsMarked
  <2>11. EndsApart(r)
    <3> SUFFICES ASSUME NEW i \in DOMAIN r, NEW j \in DOMAIN r, r[i].op = "end", r[j].op = "end",
                        r[i].arg = r[j].arg, r[i].of = r[j].of
                 PROVE  i = j
      BY DEF EndsApart
    <3>1. CASE i = 1 /\ j = 1
      BY <3>1
    <3>2. CASE i = 1 /\ r[i] = e /\ j - 1 \in DOMAIN Tail(Todo) /\ r[j] = Tail(Todo)[j - 1]
      BY <1>4, <2>2, <2>3, <3>2 DEF EndsMarked
    <3>3. CASE j = 1 /\ r[j] = e /\ i - 1 \in DOMAIN Tail(Todo) /\ r[i] = Tail(Todo)[i - 1]
      BY <1>4, <2>2, <2>3, <3>3 DEF EndsMarked
    <3>4. CASE /\ i - 1 \in DOMAIN Tail(Todo) /\ r[i] = Tail(Todo)[i - 1] /\ i \in Int
               /\ j - 1 \in DOMAIN Tail(Todo) /\ r[j] = Tail(Todo)[j - 1] /\ j \in Int
      <4>1. i - 1 = j - 1
        BY <2>3, <3>4 DEF EndsApart
      <4> QED BY <3>4, <4>1
    <3> QED BY <2>7, <3>1, <3>2, <3>3, <3>4
  <2>12. Append(b, e) \o Tail(Todo) = b \o r
    <3>1. Append(b, e) = b \o <<e>>
      BY <2>2, <2>5, AppendIsConcat
    <3>2. (b \o <<e>>) \o Tail(Todo) = b \o (<<e>> \o Tail(Todo))
      BY <2>3, <2>5, <2>6, ConcatAssociative
    <3> QED BY <3>1, <3>2 DEF r
  <2>13. calls' = [calls EXCEPT ![Len(calls)].todo = b \o r]
    BY <2>1, <2>12 DEF Continue
  <2>14. b \o r \in Seq(WorkItems) /\ Orderly(b \o r)
    BY <2>4, <2>5, <2>7, <2>9, Joined, NativeBefore
  <2>15. EndsMarked(b \o r, flags') /\ EndsApart(b \o r)
    BY <2>5, <2>7, <2>10, <2>11, EndsJoined
  <2>16. /\ ModuleIn(b \o r) => ModuleIn(TodoOf(calls))
         /\ \A x \in Classes : StartIn(b \o r, x) => StartTop(calls, x)
    BY <1>1, <2>5, <2>7, <2>8, Current, StartsJoined, StartsTail, TodoTop DEF StartTop
  <2> QED BY <1>2, <2>13, <2>14, <2>15, <2>16, Becomes
<1> QED BY <1>3, <1>4

LEMMA EffectGiven ==
  ASSUME w \in Worlds, GivenInv(kl), NEW op, NEW c \in Classes, NEW i
  PROVE  "ifs" \in DOMAIN Effect(op, c, i) /\ Effect(op, c, i).ifs \in Seq(Classes)
<1>1. "ifs" \in DOMAIN kl[c] /\ kl[c].ifs \in Seq(Classes)
  BY DEF GivenInv
<1>2. ListedInterfaces(c) \in Seq(Classes)
  BY World DEF ListedInterfaces
<1>3. /\ "ifs" \in DOMAIN WithLayout(c) /\ WithLayout(c).ifs = kl[c].ifs
      /\ "ifs" \in DOMAIN WithStatics(c) /\ WithStatics(c).ifs = kl[c].ifs
      /\ "ifs" \in DOMAIN WithVTable(c) /\ WithVTable(c).ifs = kl[c].ifs
      /\ "ifs" \in DOMAIN WithBitmap(c) /\ WithBitmap(c).ifs = kl[c].ifs
  BY <1>1 DEF WithLayout, WithStatics, WithVTable, WithBitmap
<1>4. CASE op = "interfaces"
  BY <1>1, <1>2, <1>4 DEF Effect
<1>5. CASE op \in {"supers", "fields", "refs"}
  BY <1>1, <1>5 DEF Effect
<1>6. CASE op \in {"layout", "statics", "bitmap", "vtable"}
  BY <1>1, <1>3, <1>6 DEF Effect
<1>7. CASE op \in {"sbitmap", "methods"}
  BY <1>1, <1>7 DEF Effect
<1>8. CASE op \notin {"supers", "interfaces", "fields", "refs", "layout", "statics", "bitmap",
                      "sbitmap", "methods", "vtable"}
  BY <1>1, <1>8 DEF Effect
<1> QED BY <1>4, <1>5, <1>6, <1>7, <1>8

LEMMA DoWorkKeeps ==
  ASSUME Inv, DoWork
  PROVE  Inv'
<1>1. Todo # <<>> /\ w \in Worlds /\ GivenInv(kl) /\ Item.of \in Classes
  BY ItemTyped DEF DoWork, Inv
<1>2. kl' = [kl EXCEPT ![Item.of] = Effect(Item.op, Item.of, Item.arg)]
  BY DEF DoWork
<1>3. GivenInv(kl')
  BY <1>1, <1>2, EffectGiven DEF GivenInv
<1> QED BY <1>1, <1>3, NativeNone, NativeStep DEF DoWork

LEMMA EndPartKeeps ==
  ASSUME Inv, EndPart
  PROVE  Inv'
BY NativeNone, NativeStep DEF EndPart, Running, history, Inv

LEMMA RefuseKeeps ==
  ASSUME Inv, Refuse
  PROVE  Inv'
BY AbandonStep DEF Refuse, Inv

LEMMA FailKeeps ==
  ASSUME Inv, Fail
  PROVE  Inv'
BY AbandonStep DEF Fail, history, Inv

LEMMA NativeValueType ==
  ASSUME w \in Worlds, NEW c \in Classes, NEW i \in DOMAIN w.fields[c]
  PROVE  NativeWork(ValueType(w.fields[c][i]))
BY World, NativeCall, NativeNone DEF ValueType, Parts

LEMMA InstanceFieldKeeps ==
  ASSUME Inv, InstanceField
  PROVE  Inv'
<1> DEFINE c == Item.of
           i == Item.arg
           f == w.fields[c][i]
<1>1. /\ Todo # <<>> /\ w \in Worlds /\ c \in Classes /\ i \in DOMAIN w.fields[c]
  BY ItemTyped DEF InstanceField, Running, Inv
<1>2. NativeWork(ValueType(f))
  BY <1>1, NativeValueType
<1>3. NativeWork(<<Do("refs", c, i)>>)
  <2>1. "refs" \in Ops /\ "refs" \in NativeOps /\ i \in Args
    BY <1>1, ItemTyped DEF Ops, NativeOps, WorkOps
  <2> HIDE DEF c, i
  <2>2. Do("refs", c, i) \in WorkItems /\ Do("refs", c, i).op = "refs"
    BY <1>1, <2>1, DoneItem
  <2> QED BY <2>1, <2>2, NativeOne
<1>4. NativeWork(ValueType(f) \o <<Do("refs", c, i)>>)
  BY <1>2, <1>3, NativeJoined
<1>5. NativeWork(IF f.static THEN <<>> ELSE ValueType(f) \o <<Do("refs", c, i)>>)
  BY <1>4, NativeNone
<1>6. Continue(IF f.static THEN <<>> ELSE ValueType(f) \o <<Do("refs", c, i)>>)
  BY DEF InstanceField
<1>7. /\ w' = w /\ flags' = flags /\ modDone' = modDone /\ status' = status /\ started' = started
      /\ again' = again /\ kl' = kl /\ GivenInv(kl')
  BY DEF InstanceField, history, Inv
<1> HIDE DEF f, c, i
<1> QED BY <1>1, <1>5, <1>6, <1>7, NativeStep

LEMMA StaticFieldKeeps ==
  ASSUME Inv, StaticField
  PROVE  Inv'
<1> DEFINE f == w.fields[Item.of][Item.arg]
<1>1. /\ Todo # <<>> /\ w \in Worlds /\ Item.of \in Classes /\ Item.arg \in DOMAIN w.fields[Item.of]
  BY ItemTyped DEF StaticField, Running, Inv
<1>2. NativeWork(IF f.static THEN ValueType(f) ELSE <<>>)
  BY <1>1, NativeValueType, NativeNone
<1>3. Continue(IF f.static THEN ValueType(f) ELSE <<>>)
  BY DEF StaticField
<1>4. /\ w' = w /\ flags' = flags /\ modDone' = modDone /\ status' = status /\ started' = started
      /\ again' = again /\ kl' = kl /\ GivenInv(kl')
  BY DEF StaticField, history, Inv
<1> HIDE DEF f
<1> QED BY <1>1, <1>2, <1>3, <1>4, NativeStep

LEMMA InterfaceTablesKeeps ==
  ASSUME Inv, InterfaceTables
  PROVE  Inv'
<1> DEFINE q == kl[Item.of].ifs
           s == [i \in DOMAIN q |-> Initialize("VTable", q[i])]
<1>1. Todo # <<>> /\ q \in Seq(Classes)
  BY ItemTyped DEF InterfaceTables, Running, Inv, GivenInv
<1>2. NativeWork(s)
  BY <1>1, NativeRounds DEF Parts
<1>3. Continue(s)
  BY DEF InterfaceTables
<1>4. /\ w' = w /\ flags' = flags /\ modDone' = modDone /\ status' = status /\ started' = started
      /\ again' = again /\ kl' = kl /\ GivenInv(kl')
  BY DEF InterfaceTables, history, Inv
<1> HIDE DEF s
<1> QED BY <1>1, <1>2, <1>3, <1>4, NativeStep

LEMMA AllocateKeeps ==
  ASSUME Inv, Allocate
  PROVE  Inv'
BY NativeNone, NativeStep DEF Allocate, Running, history, Inv

\* What the constructors of a class and of its ancestors are asked for with.
LEMMA Asked ==
  ASSUME w \in Worlds, NEW c \in Classes
  PROVE  /\ \A op \in {"hierarchy", "cctor", "start"} : c # w.module =>
              Work(op, c) \in WorkItems /\ Work(op, c).op = op /\ Work(op, c).of = c
         /\ Work("allocate", c) \in WorkItems /\ Work("allocate", c).op = "allocate"
         /\ \A op \in {"module", "modstart"} :
              Work(op, w.module) \in WorkItems /\ Work(op, w.module).op = op
<1>1. 0 \in Args
  BY DEF Args
<1>2. ASSUME NEW op \in {"hierarchy", "cctor", "start"}, c # w.module
      PROVE  Work(op, c) \in WorkItems /\ Work(op, c).op = op /\ Work(op, c).of = c
  <2>1. op \in Ops /\ op \notin {"init", "field", "sfield", "module", "modstart"}
    BY <1>2 DEF Ops
  <2> QED BY <1>1, <1>2, <2>1, DoneItem DEF Work
<1>3. Work("allocate", c) \in WorkItems /\ Work("allocate", c).op = "allocate"
  <2>1. "allocate" \in Ops
    BY DEF Ops
  <2> QED BY <1>1, <2>1, DoneItem DEF Work
<1>4. ASSUME NEW op \in {"module", "modstart"}
      PROVE  Work(op, w.module) \in WorkItems /\ Work(op, w.module).op = op
  <2>1. op \in Ops /\ op \notin {"init", "field", "sfield", "hierarchy", "cctor", "start"}
    BY <1>4 DEF Ops
  <2>2. w.module \in Classes
    BY World
  <2> QED BY <1>1, <1>4, <2>1, <2>2, DoneItem DEF Work
<1> QED BY <1>2, <1>3, <1>4

\* Sequences of two items and of one.
LEMMA TwoItems ==
  ASSUME NEW x \in WorkItems, NEW y \in WorkItems
  PROVE  /\ <<x, y>> \in Seq(WorkItems) /\ <<x>> \in Seq(WorkItems)
         /\ DOMAIN <<x, y>> = {1, 2} /\ <<x, y>>[1] = x /\ <<x, y>>[2] = y
         /\ DOMAIN <<x>> = {1} /\ <<x>>[1] = x
OBVIOUS

LEMMA TwoOrderly ==
  ASSUME NEW x \in WorkItems, NEW y \in WorkItems, ~Barred(x.op, y.op),
         x.op \notin {"end", "start", "modstart"}, y.op \notin {"end", "start", "modstart"}
  PROVE  /\ Orderly(<<x, y>>) /\ NoEnd(<<x, y>>)
         /\ ~ModuleIn(<<x, y>>) /\ \A c : ~StartIn(<<x, y>>, c)
<1>1. DOMAIN <<x, y>> = {1, 2} /\ <<x, y>>[1] = x /\ <<x, y>>[2] = y
  BY TwoItems
<1> DEFINE s == <<x, y>>
<1> HIDE DEF s
<1> QED BY <1>1 DEF s, Orderly, NoEnd, ModuleIn, StartIn

LEMMA OneOrderly ==
  ASSUME NEW x \in WorkItems, x.op \notin {"end", "start", "modstart"}
  PROVE  Orderly(<<x>>) /\ NoEnd(<<x>>) /\ ~ModuleIn(<<x>>) /\ \A c : ~StartIn(<<x>>, c)
BY TwoItems DEF Orderly, NoEnd, ModuleIn, StartIn

LEMMA RunHierarchyKeeps ==
  ASSUME Inv, RunHierarchy
  PROVE  Inv'
<1> DEFINE c == Item.of
           p == w.parent[c]
           x == Work("cctor", c)
           y == Work("hierarchy", p)
<1>1. Todo # <<>> /\ w \in Worlds /\ Item.op = "hierarchy" /\ c \in Classes /\ c # w.module
  BY ItemTyped DEF RunHierarchy, Running, Inv
<1>2. /\ w' = w /\ flags' = flags /\ modDone' = modDone /\ status' = status /\ started' = started
      /\ again' = again /\ kl' = kl /\ GivenInv(kl')
  BY DEF RunHierarchy, history, Inv
<1>3. Continue(IF p = NoClass THEN <<x>> ELSE <<x, y>>)
  BY DEF RunHierarchy
<1>4. x \in WorkItems /\ x.op = "cctor"
  BY <1>1, Asked
<1>5. CASE p = NoClass
  <2>1. Continue(<<x>>)
    BY <1>3, <1>5
  <2>2. Yields(<<x>>, Item.op)
    BY <1>1, <1>4, TwoItems DEF Yields, Barred
  <2> HIDE DEF x
  <2>3. <<x>> \in Seq(WorkItems) /\ Orderly(<<x>>) /\ NoEnd(<<x>>) /\ ~ModuleIn(<<x>>) /\ \A d : ~StartIn(<<x>>, d)
    BY <1>4, OneOrderly, TwoItems
  <2> QED BY <1>1, <1>2, <2>1, <2>2, <2>3, PlainStep
<1>6. CASE p # NoClass
  <2>1. y \in WorkItems /\ y.op = "hierarchy"
    BY <1>1, <1>6, World, Asked
  <2> HIDE DEF x, y
  <2>2. Continue(<<x, y>>)
    BY <1>3, <1>6
  <2>3. ~Barred(x.op, y.op)
    BY <1>4, <2>1 DEF Barred
  <2>4. /\ <<x, y>> \in Seq(WorkItems) /\ Orderly(<<x, y>>) /\ NoEnd(<<x, y>>)
        /\ ~ModuleIn(<<x, y>>) /\ \A d : ~StartIn(<<x, y>>, d)
    BY <1>4, <2>1, <2>3, TwoOrderly, TwoItems
  <2>5. Yields(<<x, y>>, Item.op)
    <3>1. \A b : Barred(x.op, b) => Barred(Item.op, b)
      BY <1>1, <1>4 DEF Barred
    <3>2. \A b : Barred(y.op, b) => Barred(Item.op, b)
      BY <1>1, <2>1
    <3> QED BY <1>4, <2>1, <3>1, <3>2, TwoItems DEF Yields
  <2> QED BY <1>1, <1>2, <2>2, <2>4, <2>5, PlainStep
<1> QED BY <1>5, <1>6

\* After an item that starts or asks for a constructor there is no other one.
LEMMA NothingBehind ==
  ASSUME Inv, Todo # <<>>
  PROVE  /\ Item.op \in {"cctor", "start"} =>
              /\ \A c : ~StartIn(Tail(Todo), c)
              /\ ~ModuleIn(Tail(Todo)) /\ WaitsWell(Tail(Todo))
         /\ Item.op \in {"module", "modstart"} => ~ModuleIn(Tail(Todo)) /\ WaitsWell(Tail(Todo))
<1>1. \A i \in DOMAIN Tail(Todo) : ~Barred(Item.op, Tail(Todo)[i].op)
  BY Current, TailOf DEF Orderly
<1>2. CASE Item.op \in {"cctor", "start"}
  BY <1>1, <1>2 DEF Barred, StartIn, ModuleIn, WaitsWell
<1>3. CASE Item.op \in {"module", "modstart"}
  BY <1>1, <1>3 DEF Barred, ModuleIn, WaitsWell
<1> QED BY <1>2, <1>3

LEMMA BelowWaits ==
  ASSUME Inv, NEW c \in Classes, StartBelow(calls, c)
  PROVE  c \in Waiting
<1>1. calls \in Seq(Activations) /\ Len(calls) \in Nat
  BY DEF Inv, CallsInv
<1>2. PICK k \in DOMAIN calls : k < Len(calls) /\ StartIn(calls[k].todo, c)
  BY DEF StartBelow
<1>3. k \in 1..(Len(calls) - 1) /\ calls[k] \in Activations
  BY <1>1, <1>2
<1>4. calls[k].todo \in Seq(WorkItems)
  BY <1>3 DEF Activations
<1>5. PICK i \in DOMAIN calls[k].todo : calls[k].todo[i].op = "start" /\ calls[k].todo[i].of = c
  BY <1>2 DEF StartIn
<1> DEFINE t == calls[k].todo[i]
<1>6. t \in WorkItems /\ t.op = "start" /\ t.of = c
  BY <1>4, <1>5
<1> HIDE DEF t
<1>7. t = Work("start", c)
  BY <1>6 DEF WorkItems, Work, Do
<1>8. \E j \in DOMAIN calls[k].todo : calls[k].todo[j] = Work("start", c)
  BY <1>5, <1>7 DEF t
<1> QED BY <1>3, <1>8 DEF Waiting

LEMMA Invariants ==
  ASSUME Inv
  PROVE  /\ w \in Worlds /\ GivenInv(kl) /\ CallsInv(calls, flags)
         /\ OnceInv(calls, modDone, status, started, again)
         /\ calls \in Seq(Activations) /\ Len(calls) > 0
BY DEF Inv, CallsInv

LEMMA ThreeItems ==
  ASSUME NEW x \in WorkItems, NEW y \in WorkItems, NEW z \in WorkItems,
         x.op = "module", y.op = "init", z.op = "start"
  PROVE  LET s == <<x, y, z>>
         IN  /\ s \in Seq(WorkItems) /\ Orderly(s) /\ NoEnd(s) /\ Yields(s, "cctor") /\ ~ModuleIn(s)
             /\ \A d : StartIn(s, d) <=> d = z.of
<1> DEFINE s == <<x, y, z>>
<1>1. s \in Seq(WorkItems) /\ DOMAIN s = {1, 2, 3} /\ s[1] = x /\ s[2] = y /\ s[3] = z
  OBVIOUS
<1> HIDE DEF s
<1>2. ~Barred("module", "init") /\ ~Barred("module", "start") /\ ~Barred("init", "start")
  BY DEF Barred
<1>3. Orderly(s)
  BY <1>1, <1>2 DEF Orderly
<1>4. NoEnd(s) /\ ~ModuleIn(s)
  BY <1>1 DEF NoEnd, ModuleIn
<1>5. Yields(s, "cctor")
  <2>1. \A b : Barred("module", b) \/ Barred("init", b) \/ Barred("start", b) => Barred("cctor", b)
    BY DEF Barred
  <2> QED BY <1>1, <2>1 DEF Yields
<1>6. \A d : StartIn(s, d) <=> d = z.of
  BY <1>1 DEF StartIn
<1> QED BY <1>1, <1>3, <1>4, <1>5, <1>6 DEF s

LEMMA RunCctorKeeps ==
  ASSUME Inv, RunCctor
  PROVE  Inv'
<1> DEFINE c == Item.of
           s == <<Work("module", w.module), Initialize("All", c), Work("start", c)>>
           u == s \o Tail(Todo)
           ds == Replaced(calls, u)
<1>1. Todo # <<>> /\ w \in Worlds /\ Item.op = "cctor" /\ c \in Classes /\ c # w.module
  BY ItemTyped, Invariants DEF RunCctor, Running
<1>2. /\ w' = w /\ flags' = flags /\ modDone' = modDone /\ status' = status /\ started' = started
      /\ kl' = kl /\ GivenInv(kl')
  BY Invariants DEF RunCctor
<1>3. CASE status[c] # "NotInited"
  <2>1. Continue(<<>>) /\ again' = again
    BY <1>3 DEF RunCctor
  <2> QED BY <1>1, <1>2, <2>1, NativeNone, NativeStep
<1>4. CASE status[c] = "NotInited"
  <2>1. Continue(s) /\ again' = IF c \in Waiting THEN again \cup {c} ELSE again
    BY <1>4 DEF RunCctor
  <2>2. /\ Work("module", w.module) \in WorkItems /\ Work("module", w.module).op = "module"
        /\ Work("start", c) \in WorkItems /\ Work("start", c).op = "start" /\ Work("start", c).of = c
    BY <1>1, Asked
  <2>3. Initialize("All", c) \in WorkItems /\ Initialize("All", c).op = "init"
    <3>1. Initialize("All", c).op = "init"
      BY DEF Initialize, Do
    <3> QED BY <1>1, <3>1, NativeCall
  <2> HIDE DEF c
  <2>4. /\ s \in Seq(WorkItems) /\ Orderly(s) /\ NoEnd(s) /\ Yields(s, "cctor") /\ ~ModuleIn(s)
        /\ \A d : StartIn(s, d) <=> d = c
    BY <2>2, <2>3, ThreeItems
  <2> HIDE DEF s
  <2>5. /\ calls' = ds /\ CallsInv(ds, flags) /\ u \in Seq(WorkItems)
        /\ \A d : StartIn(u, d) <=> StartIn(s, d) \/ StartIn(Tail(Todo), d)
        /\ ModuleIn(u) <=> ModuleIn(s) \/ ModuleIn(Tail(Todo))
    BY <1>1, <2>1, <2>4, Continued
  <2> HIDE DEF u
  <2>6. /\ ~ModuleIn(u) /\ \A d : StartIn(u, d) <=> d = c
        /\ \A d \in Classes : ~StartTop(calls, d)
    <3>1. Item = Head(Todo) /\ Todo \in Seq(WorkItems)
      BY <1>1, Current
    <3> QED BY <1>1, <2>4, <2>5, <3>1, NothingBehind, StartsTail, TodoTop DEF StartTop
  <2>7. /\ Len(ds) = Len(calls) /\ DOMAIN ds = DOMAIN calls /\ TodoOf(ds) = u
        /\ \A k \in DOMAIN calls : k < Len(calls) => ds[k] = calls[k]
    BY <2>5, Invariants, TopReplaced
  <2> HIDE DEF ds
  <2>8. /\ \A d : StartBelow(ds, d) <=> StartBelow(calls, d)
        /\ \A d : StartTop(ds, d) <=> d = c
    BY <2>6, <2>7 DEF StartBelow, StartTop
  <2>9. StartBelow(calls, c) => c \in again'
    BY <1>1, <2>1, BelowWaits
  <2>10. \A d \in Classes \ {w.module} :
           ClassInv(StartTop(ds, d), StartBelow(ds, d), status[d], started[d], d \in again')
    <3> SUFFICES ASSUME NEW d \in Classes \ {w.module}
                 PROVE  ClassInv(StartTop(ds, d), StartBelow(ds, d), status[d], started[d], d \in again')
      OBVIOUS
    <3>1. ClassInv(StartTop(calls, d), StartBelow(calls, d), status[d], started[d], d \in again)
      BY Invariants DEF OnceInv
    <3>2. d \in again => d \in again'
      BY <2>1
    <3>3. started[d] \in Nat
      BY Invariants DEF OnceInv
    <3>4. CASE d = c
      BY <1>4, <2>8, <2>9, <3>1, <3>2, <3>3, <3>4 DEF ClassInv
    <3>5. CASE d # c
      BY <2>1, <2>6, <2>8, <3>1, <3>3, <3>5 DEF ClassInv
    <3> QED BY <3>4, <3>5
  <2>11. OnceInv(ds, modDone, status, started, again')
    <3>1. \A x, y \in Classes : \A k, l \in DOMAIN ds :
            k < Len(ds) /\ l < Len(ds) /\ StartIn(ds[k].todo, x) /\ StartIn(ds[l].todo, y) => k = l
      BY <2>7, Invariants DEF OnceInv
    <3>2. \A x \in Classes : StartBelow(ds, x) => modDone /\ ~ModuleIn(TodoOf(ds))
      BY <2>6, <2>7, <2>8, Invariants DEF OnceInv
    <3>3. ~ModuleIn(TodoOf(ds))
      BY <2>6, <2>7
    <3> QED BY <2>10, <3>1, <3>2, <3>3, Invariants DEF OnceInv
  <2>12. CallsInv(calls', flags')
    BY <1>2, <2>5
  <2>13. OnceInv(calls', modDone', status', started', again')
    BY <1>2, <2>5, <2>11
  <2> QED BY <1>1, <1>2, <2>12, <2>13, Framed
<1> QED BY <1>3, <1>4

LEMMA RunModuleCctorKeeps ==
  ASSUME Inv, RunModuleCctor
  PROVE  Inv'
<1> DEFINE x == Initialize("All", w.module)
           y == Work("modstart", w.module)
           s == <<x, y>>
           u == s \o Tail(Todo)
           ds == Replaced(calls, u)
<1>1. Todo # <<>> /\ w \in Worlds /\ Item.op = "module" /\ w.module \in Classes /\ modDone \in BOOLEAN
  BY World, Invariants DEF RunModuleCctor, Running, OnceInv
<1>2. /\ w' = w /\ flags' = flags /\ status' = status /\ started' = started /\ again' = again
      /\ modDone' = TRUE /\ kl' = kl /\ GivenInv(kl')
  BY Invariants DEF RunModuleCctor, history
<1>3. CASE modDone
  <2>1. Continue(<<>>) /\ modDone' = modDone
    BY <1>1, <1>2, <1>3 DEF RunModuleCctor
  <2> QED BY <1>1, <1>2, <2>1, NativeNone, NativeStep
<1>4. CASE ~modDone
  <2>1. Continue(s)
    BY <1>4 DEF RunModuleCctor
  <2>2. /\ x \in WorkItems /\ x.op = "init"
        /\ y \in WorkItems /\ y.op = "modstart"
    <3>1. x.op = "init"
      BY DEF Initialize, Do
    <3> QED BY <1>1, <3>1, Asked, NativeCall
  <2> HIDE DEF x, y
  <2>3. s \in Seq(WorkItems) /\ DOMAIN s = {1, 2} /\ s[1] = x /\ s[2] = y
    BY <2>2, TwoItems
  <2> HIDE DEF s
  <2>4. /\ Orderly(s) /\ NoEnd(s) /\ Yields(s, "module") /\ ModuleIn(s) /\ \A d : ~StartIn(s, d)
    <3>1. ~Barred("init", "modstart") /\ \A b : Barred("init", b) \/ Barred("modstart", b) => Barred("module", b)
      BY DEF Barred
    <3>2. Orderly(s) /\ Yields(s, "module")
      BY <2>2, <2>3, <3>1 DEF Orderly, Yields
    <3>3. NoEnd(s) /\ ModuleIn(s) /\ \A d : ~StartIn(s, d)
      BY <2>2, <2>3 DEF NoEnd, ModuleIn, StartIn
    <3> QED BY <3>2, <3>3
  <2>5. /\ calls' = ds /\ CallsInv(ds, flags) /\ u \in Seq(WorkItems)
        /\ \A d : StartIn(u, d) <=> StartIn(s, d) \/ StartIn(Tail(Todo), d)
    BY <1>1, <2>1, <2>3, <2>4, Continued
  <2> HIDE DEF u
  <2>6. \A d : StartIn(u, d) <=> StartTop(calls, d)
    <3>1. Item = Head(Todo) /\ Todo \in Seq(WorkItems)
      BY <1>1, Current
    <3> QED BY <1>1, <2>4, <2>5, <3>1, StartsTail, TodoTop DEF StartTop
  <2>7. /\ Len(ds) = Len(calls) /\ DOMAIN ds = DOMAIN calls /\ TodoOf(ds) = u
        /\ \A k \in DOMAIN calls : k < Len(calls) => ds[k] = calls[k]
    BY <2>5, Invariants, TopReplaced
  <2> HIDE DEF ds
  <2>8. /\ \A d : StartBelow(ds, d) <=> StartBelow(calls, d)
        /\ \A d : StartTop(ds, d) <=> StartTop(calls, d)
    BY <2>6, <2>7 DEF StartBelow, StartTop
  <2>9. started[w.module] = 0 /\ \A d \in Classes : ~StartBelow(ds, d)
    BY <1>4, <2>8, Invariants DEF OnceInv
  <2>10. OnceInv(ds, TRUE, status, started, again)
    <3>1. \A d \in Classes \ {w.module} :
            ClassInv(StartTop(ds, d), StartBelow(ds, d), status[d], started[d], d \in again)
      BY <2>8, Invariants DEF OnceInv, ClassInv
    <3>2. \A a, b \in Classes : \A k, l \in DOMAIN ds :
            k < Len(ds) /\ l < Len(ds) /\ StartIn(ds[k].todo, a) /\ StartIn(ds[l].todo, b) => k = l
      BY <2>7, Invariants DEF OnceInv
    <3>3. /\ status \in [Classes -> {"NotInited", "InitSelf"}] /\ started \in [Classes -> Nat]
      BY Invariants DEF OnceInv
    <3> QED BY <2>9, <3>1, <3>2, <3>3 DEF OnceInv
  <2>11. CallsInv(calls', flags')
    BY <1>2, <2>5
  <2>12. OnceInv(calls', modDone', status', started', again')
    BY <1>2, <2>5, <2>10
  <2> QED BY <1>1, <1>2, <2>11, <2>12, Framed
<1> QED BY <1>3, <1>4

\* The work behind the item on top, after the item was taken off.
LEMMA Dropped ==
  ASSUME Inv, Todo # <<>>
  PROVE  LET ds == Replaced(calls, Tail(Todo))
         IN  /\ CallsInv(ds, flags) /\ TodoOf(ds) = Tail(Todo)
             /\ \A d : StartBelow(ds, d) <=> StartBelow(calls, d)
             /\ \A d : StartTop(ds, d) <=> StartIn(Tail(Todo), d)
             /\ \A d : StartTop(calls, d) <=> (Item.op = "start" /\ Item.of = d) \/ StartIn(Tail(Todo), d)
             /\ ModuleIn(TodoOf(calls)) <=> Item.op = "modstart" \/ ModuleIn(Tail(Todo))
             /\ OnceInv(ds, modDone, status, started, again)
<1> DEFINE ds == Replaced(calls, Tail(Todo))
<1>1. /\ Tail(Todo) \in Seq(WorkItems) /\ Orderly(Tail(Todo)) /\ Item = Head(Todo)
      /\ EndsMarked(Tail(Todo), flags) /\ EndsApart(Tail(Todo)) /\ Todo \in Seq(WorkItems)
  BY Current
<1>2. CallsInv(ds, flags)
  BY <1>1, Invariants, CallsReplaced
<1>3. /\ Len(ds) = Len(calls) /\ DOMAIN ds = DOMAIN calls /\ TodoOf(ds) = Tail(Todo)
      /\ \A k \in DOMAIN calls : k < Len(calls) => ds[k] = calls[k]
  <2>1. calls \in Seq(Activations) /\ Len(calls) > 0
    BY Invariants
  <2>2. \A k \in DOMAIN calls : k # Len(calls) => ds[k] = calls[k]
    BY <1>1, <2>1, TopReplaced
  <2>3. Len(ds) = Len(calls) /\ DOMAIN ds = DOMAIN calls /\ TodoOf(ds) = Tail(Todo)
    BY <1>1, <2>1, TopReplaced
  <2>4. \A k \in DOMAIN calls : k < Len(calls) => k # Len(calls)
    BY <2>1
  <2> QED BY <2>2, <2>3, <2>4
<1>4. /\ \A d : StartTop(calls, d) <=> (Item.op = "start" /\ Item.of = d) \/ StartIn(Tail(Todo), d)
      /\ ModuleIn(TodoOf(calls)) <=> Item.op = "modstart" \/ ModuleIn(Tail(Todo))
  BY <1>1, StartsTail, TodoTop DEF StartTop
<1>5. OnceInv(ds, modDone, status, started, again)
  <2>1. CallsInv(calls, flags) /\ OnceInv(calls, modDone, status, started, again)
    BY Invariants
  <2>2. \A c \in Classes : StartIn(Tail(Todo), c) => StartTop(calls, c)
    BY <1>4
  <2>3. ModuleIn(Tail(Todo)) => ModuleIn(TodoOf(calls))
    BY <1>4
  <2> QED BY <1>1, <2>1, <2>2, <2>3, OnceReplaced
<1> HIDE DEF ds
<1>6. /\ \A d : StartBelow(ds, d) <=> StartBelow(calls, d)
      /\ \A d : StartTop(ds, d) <=> StartIn(Tail(Todo), d)
  BY <1>3 DEF StartBelow, StartTop
<1> QED BY <1>2, <1>3, <1>4, <1>5, <1>6 DEF ds

LEMMA StartModuleCctorKeeps ==
  ASSUME Inv, StartModuleCctor
  PROVE  Inv'
<1> DEFINE c  == w.module
           ds == Replaced(calls, Tail(Todo))
           sd == [started EXCEPT ![c] = @ + 1]
<1>1. Todo # <<>> /\ w \in Worlds /\ Item.op = "modstart" /\ Item.of = c /\ c \in Classes
  BY ItemTyped, World, Invariants DEF StartModuleCctor, Running
<1>2. /\ w' = w /\ flags' = flags /\ status' = status /\ modDone' = modDone /\ again' = again
      /\ kl' = kl /\ GivenInv(kl')
  BY Invariants DEF StartModuleCctor
<1>3. CASE ~(c \in w.cctor /\ kl[c].hasMethods)
  <2>1. Continue(<<>>) /\ started' = started
    BY <1>1, <1>3 DEF StartModuleCctor, InvokeCctor
  <2> QED BY <1>1, <1>2, <2>1, NativeNone, NativeStep
<1>4. CASE c \in w.cctor /\ kl[c].hasMethods
  <2>1. /\ calls' = Append(ds, [of |-> c, todo |-> <<>>]) /\ started' = sd
    BY <1>1, <1>4 DEF StartModuleCctor, InvokeCctor, Invoke, Replaced
  <2>2. /\ CallsInv(ds, flags) /\ TodoOf(ds) = Tail(Todo)
        /\ \A d : StartBelow(ds, d) <=> StartBelow(calls, d)
        /\ OnceInv(ds, modDone, status, started, again)
        /\ ModuleIn(TodoOf(calls))
    BY <1>1, Dropped
  <2>3. ~ModuleIn(Tail(Todo)) /\ WaitsWell(Tail(Todo))
    BY <1>1, NothingBehind
  <2>4. modDone /\ started[c] = 0 /\ \A d \in Classes : ~StartBelow(ds, d)
    BY <2>2, Invariants DEF OnceInv
  <2> HIDE DEF ds
  <2>5. /\ sd \in [Classes -> Nat] /\ sd[c] = 1
        /\ \A d \in Classes \ {c} : sd[d] = started[d]
    BY <1>1, <2>2, <2>4 DEF OnceInv
  <2> HIDE DEF sd
  <2>6. OnceInv(ds, modDone, status, sd, again)
    BY <2>2, <2>3, <2>4, <2>5 DEF OnceInv
  <2>7. CallsInv(calls', flags')
    BY <1>1, <1>2, <2>1, <2>2, <2>3, CallsPushed
  <2>8. OnceInv(Append(ds, [of |-> c, todo |-> <<>>]), modDone, status, sd, again)
    BY <1>1, <2>2, <2>4, <2>6, OncePushed
  <2>9. OnceInv(calls', modDone', status', started', again')
    BY <1>2, <2>1, <2>8
  <2> QED BY <1>1, <1>2, <2>7, <2>9, Framed
<1> QED BY <1>3, <1>4

\* The count of a constructor that starts: the first time while its class is not yet marked, a
\* second time only for a class that was used while its first use waited.
LEMMA OnceStarts ==
  ASSUME Inv, Todo # <<>>, Item.op = "start", NEW st, NEW sd,
         st = [status EXCEPT ![Item.of] = "InitSelf"],
         \/ sd = started
         \/ sd = [started EXCEPT ![Item.of] = @ + 1]
  PROVE  /\ OnceInv(Replaced(calls, Tail(Todo)), modDone, st, sd, again)
         /\ \A d \in Classes : ~StartTop(Replaced(calls, Tail(Todo)), d)
<1> DEFINE c  == Item.of
           ds == Replaced(calls, Tail(Todo))
<1>1. c \in Classes /\ c # w.module /\ w.module \in Classes
  BY ItemTyped, World, Invariants
<1>2. /\ \A d : StartBelow(ds, d) <=> StartBelow(calls, d)
      /\ \A d : StartTop(ds, d) <=> StartIn(Tail(Todo), d)
      /\ StartTop(calls, c)
      /\ OnceInv(ds, modDone, status, started, again)
  BY Dropped
<1>3. \A d \in Classes : ~StartTop(ds, d)
  BY <1>2, NothingBehind
<1> HIDE DEF c, ds
<1>4. /\ status \in [Classes -> {"NotInited", "InitSelf"}] /\ started \in [Classes -> Nat]
      /\ \A d \in Classes \ {w.module} :
           ClassInv(StartTop(calls, d), StartBelow(calls, d), status[d], started[d], d \in again)
  BY Invariants DEF OnceInv
<1>5. /\ st \in [Classes -> {"NotInited", "InitSelf"}] /\ sd \in [Classes -> Nat]
      /\ st[c] = "InitSelf" /\ sd[c] <= started[c] + 1
      /\ \A d \in Classes \ {c} : st[d] = status[d] /\ sd[d] = started[d]
  BY <1>1, <1>4 DEF c
<1>6. ClassInv(StartTop(ds, c), StartBelow(ds, c), st[c], sd[c], c \in again)
  <2>1. ClassInv(StartTop(calls, c), StartBelow(calls, c), status[c], started[c], c \in again)
    BY <1>1, <1>4
  <2>2. CASE status[c] = "NotInited"
    BY <1>1, <1>2, <1>3, <1>4, <1>5, <2>1, <2>2 DEF ClassInv
  <2>3. CASE status[c] # "NotInited"
    BY <1>1, <1>2, <1>3, <1>4, <1>5, <2>1, <2>3 DEF ClassInv
  <2> QED BY <2>2, <2>3
<1>7. \A d \in Classes \ {w.module} :
         ClassInv(StartTop(ds, d), StartBelow(ds, d), st[d], sd[d], d \in again)
  <2> SUFFICES ASSUME NEW d \in Classes \ {w.module}, d # c
               PROVE  ClassInv(StartTop(ds, d), StartBelow(ds, d), st[d], sd[d], d \in again)
    BY <1>6
  <2>1. ClassInv(StartTop(ds, d), StartBelow(ds, d), status[d], started[d], d \in again)
    BY <1>2 DEF OnceInv
  <2> QED BY <1>5, <2>1
<1>8. OnceInv(ds, modDone, st, sd, again)
  BY <1>1, <1>2, <1>5, <1>7 DEF OnceInv
<1> QED BY <1>3, <1>8 DEF ds, c

LEMMA StartCctorKeeps ==
  ASSUME Inv, StartCctor
  PROVE  Inv'
<1> DEFINE c  == Item.of
           ds == Replaced(calls, Tail(Todo))
<1>1. Todo # <<>> /\ w \in Worlds /\ Item.op = "start" /\ c \in Classes
  BY ItemTyped, Invariants DEF StartCctor, Running
<1>2. /\ w' = w /\ flags' = flags /\ modDone' = modDone /\ again' = again
      /\ kl' = kl /\ GivenInv(kl')
      /\ status' = [status EXCEPT ![c] = "InitSelf"]
  BY Invariants DEF StartCctor
<1>3. started' = started \/ started' = [started EXCEPT ![c] = @ + 1]
  BY DEF StartCctor, InvokeCctor
<1>4. /\ OnceInv(ds, modDone, status', started', again)
      /\ \A d \in Classes : ~StartTop(ds, d)
  BY <1>1, <1>2, <1>3, OnceStarts
<1>5. CallsInv(ds, flags) /\ TodoOf(ds) = Tail(Todo) /\ WaitsWell(Tail(Todo))
  BY <1>1, Dropped, NothingBehind
<1>6. calls' = ds \/ calls' = Append(ds, [of |-> c, todo |-> <<>>])
  <2>1. <<>> \o Tail(Todo) = Tail(Todo)
    BY <1>1, Current
  <2> QED BY <2>1 DEF StartCctor, InvokeCctor, Invoke, Continue, Replaced
<1> HIDE DEF c, ds
<1>7. CASE calls' = ds
  <2>1. CallsInv(calls', flags') /\ OnceInv(calls', modDone', status', started', again')
    BY <1>2, <1>4, <1>5, <1>7
  <2> QED BY <1>1, <1>2, <2>1, Framed
<1>8. CASE calls' = Append(ds, [of |-> c, todo |-> <<>>])
  <2>1. CallsInv(calls', flags')
    BY <1>1, <1>2, <1>5, <1>8, CallsPushed
  <2>2. OnceInv(Append(ds, [of |-> c, todo |-> <<>>]), modDone, status', started', again)
    BY <1>1, <1>4, <1>5, OncePushed
  <2>3. OnceInv(calls', modDone', status', started', again')
    BY <1>2, <1>8, <2>2
  <2> QED BY <1>1, <1>2, <2>1, <2>3, Framed
<1> QED BY <1>6, <1>7, <1>8

LEMMA UseKeeps ==
  ASSUME Inv, NEW c \in Classes, Use(c)
  PROVE  Inv'
<1> DEFINE x == Work("cctor", c)
<1>1. x \in WorkItems /\ x.op = "cctor"
  BY Asked, Invariants DEF Use
<1>2. Request(<<x>>)
  BY DEF Use
<1> HIDE DEF x
<1>3. <<x>> \in Seq(WorkItems) /\ Orderly(<<x>>) /\ NoEnd(<<x>>) /\ ~ModuleIn(<<x>>) /\ \A d : ~StartIn(<<x>>, d)
  BY <1>1, OneOrderly, TwoItems
<1> QED BY <1>2, <1>3, RequestStep

LEMMA NewKeeps ==
  ASSUME Inv, NEW c \in Classes, New(c)
  PROVE  Inv'
<1> DEFINE x == Work("hierarchy", c)
           y == Work("allocate", c)
<1>1. /\ x \in WorkItems /\ x.op = "hierarchy"
      /\ y \in WorkItems /\ y.op = "allocate"
  BY Asked, Invariants DEF New
<1>2. Request(<<x, y>>)
  BY DEF New
<1> HIDE DEF x, y
<1>3. ~Barred(x.op, y.op)
  BY <1>1 DEF Barred
<1>4. /\ <<x, y>> \in Seq(WorkItems) /\ Orderly(<<x, y>>) /\ NoEnd(<<x, y>>)
      /\ ~ModuleIn(<<x, y>>) /\ \A d : ~StartIn(<<x, y>>, d)
  BY <1>1, <1>3, TwoOrderly, TwoItems
<1> QED BY <1>2, <1>4, RequestStep

LEMMA ResolveKeeps ==
  ASSUME Inv, NEW c \in Classes, NEW p \in w.asked, Resolve(p, c)
  PROVE  Inv'
<1> DEFINE s == <<Initialize(p, c)>>
<1>1. NativeWork(s)
  BY World, Invariants, NativeCall
<1>2. Request(s)
  BY DEF Resolve
<1> HIDE DEF s
<1> QED BY <1>1, <1>2, NativeRow, RequestStep

LEMMA UseModuleKeeps ==
  ASSUME Inv, UseModule
  PROVE  Inv'
<1> DEFINE x == Work("module", w.module)
<1>1. x \in WorkItems /\ x.op = "module"
  BY World, Asked, Invariants
<1>2. Request(<<x>>)
  BY DEF UseModule
<1> HIDE DEF x
<1>3. <<x>> \in Seq(WorkItems) /\ Orderly(<<x>>) /\ NoEnd(<<x>>) /\ ~ModuleIn(<<x>>) /\ \A d : ~StartIn(<<x>>, d)
  BY <1>1, OneOrderly, TwoItems
<1> QED BY <1>2, <1>3, RequestStep

LEMMA ReturnKeeps ==
  ASSUME Inv, Return \/ Throw
  PROVE  Inv'
<1> DEFINE ds == SubSeq(calls, 1, Len(calls) - 1)
<1>1. /\ Len(calls) > 1 /\ TodoOf(calls) = <<>>
      /\ w' = w /\ flags' = flags /\ modDone' = modDone /\ status' = status /\ started' = started
      /\ again' = again /\ kl' = kl
  BY TodoTop DEF Return, Throw, history
<1>2. w \in Worlds /\ GivenInv(kl')
  BY <1>1, Invariants
<1>3. CallsInv(ds, flags)
  BY <1>1, Invariants, CallsPopped
<1>4. OnceInv(ds, modDone, status, started, again)
  BY <1>1, Invariants, OncePopped
<1>5. Len(ds) = Len(calls) - 1
  BY <1>1, Invariants, Popped
<1>6. calls' = ds \/ calls' = Replaced(ds, <<>>)
  BY <1>5 DEF Return, Throw, Replaced
<1> HIDE DEF ds
<1>7. CallsInv(Replaced(ds, <<>>), flags)
  BY <1>3, EmptyTodo, CallsReplaced
<1>8. OnceInv(Replaced(ds, <<>>), modDone, status, started, again)
  BY <1>3, <1>4, EmptyTodo, OnceReplaced
<1>9. CallsInv(calls', flags') /\ OnceInv(calls', modDone', status', started', again')
  BY <1>1, <1>3, <1>4, <1>6, <1>7, <1>8
<1> QED BY <1>1, <1>2, <1>9, Framed

-----------------------------------------------------------------------------
LEMMA InitInv == Init => Inv
<1> SUFFICES ASSUME Init PROVE Inv
  OBVIOUS
<1> DEFINE a == [of |-> NoClass, todo |-> <<>>]
<1>1. /\ w \in Worlds /\ calls = <<a>> /\ flags = {} /\ modDone = FALSE /\ again = {}
      /\ kl = [c \in Classes |-> BlankClass]
      /\ status = [c \in Classes |-> "NotInited"] /\ started = [c \in Classes |-> 0]
  BY DEF Init
<1>2. "ifs" \in DOMAIN BlankClass /\ BlankClass.ifs = <<>>
  BY DEF BlankClass
<1>3. GivenInv(kl)
  <2>1. <<>> \in Seq(Classes)
    OBVIOUS
  <2> QED BY <1>1, <1>2, <2>1 DEF GivenInv
<1>4. a \in Activations /\ a.todo = <<>>
  BY EmptyTodo DEF Activations
<1> HIDE DEF a
<1>5. calls \in Seq(Activations) /\ Len(calls) = 1 /\ DOMAIN calls = {1} /\ calls[1] = a
  BY <1>1, <1>4
<1>6. TodoOf(calls) = <<>>
  BY <1>4, <1>5 DEF TodoOf
<1>7. CallsInv(calls, flags)
  BY <1>4, <1>5, <1>6, EmptyTodo DEF CallsInv
<1>8. /\ \A c : ~StartTop(calls, c)
      /\ \A c : ~StartBelow(calls, c)
  BY <1>5, <1>6, EmptyTodo DEF StartTop, StartBelow
<1>9. OnceInv(calls, modDone, status, started, again)
  <2>1. w.module \in Classes
    BY <1>1, World
  <2>2. \A c \in Classes \ {w.module} :
           ClassInv(StartTop(calls, c), StartBelow(calls, c), status[c], started[c], c \in again)
    BY <1>1, <1>8 DEF ClassInv
  <2>3. \A c, d \in Classes : \A k, l \in DOMAIN calls :
         k < Len(calls) /\ l < Len(calls) /\ StartIn(calls[k].todo, c) /\ StartIn(calls[l].todo, d) => k = l
    BY <1>5
  <2>4. /\ modDone \in BOOLEAN /\ started[w.module] = 0
        /\ status \in [Classes -> {"NotInited", "InitSelf"}] /\ started \in [Classes -> Nat]
    BY <1>1, <2>1
  <2> QED BY <1>6, <1>8, <2>2, <2>3, <2>4, EmptyTodo DEF OnceInv
<1> QED BY <1>1, <1>3, <1>7, <1>9 DEF Inv

LEMMA NextInv == Inv /\ [Next]_vars => Inv'
<1> SUFFICES ASSUME Inv, [Next]_vars PROVE Inv'
  OBVIOUS
<1>1. CASE Native
  BY <1>1, EnterPartKeeps, EndPartKeeps, DoWorkKeeps, RefuseKeeps, FailKeeps, InstanceFieldKeeps,
     StaticFieldKeeps, InterfaceTablesKeeps, RunCctorKeeps, RunModuleCctorKeeps,
     StartModuleCctorKeeps, StartCctorKeeps, RunHierarchyKeeps, AllocateKeeps DEF Native
<1>2. CASE Managed
  BY <1>2, UseKeeps, NewKeeps, ResolveKeeps, UseModuleKeeps, ReturnKeeps DEF Managed
<1>3. CASE UNCHANGED vars
  <2>1. /\ w' = w /\ flags' = flags /\ modDone' = modDone /\ status' = status /\ started' = started
        /\ again' = again /\ kl' = kl /\ calls' = calls
    BY <1>3 DEF vars
  <2>2. CallsInv(calls', flags') /\ OnceInv(calls', modDone', status', started', again')
    BY <2>1, Invariants
  <2> QED BY <2>1, <2>2, Invariants, Framed
<1> QED BY <1>1, <1>2, <1>3 DEF Next

LEMMA InvAlways == Spec => []Inv
BY InitInv, NextInv, PTL DEF Spec

(* Whatever the metadata, however managed code nests and whatever fails, a part of a class is     *)
(* computed by one call of initialize_<part> at a time, and by none while managed code runs above. *)
THEOREM OneCallPerPart == Spec => []PartsComputedOnce
<1>1. Inv => PartsComputedOnce
  <2> SUFFICES ASSUME Inv, NEW k \in DOMAIN calls, NEW i \in DOMAIN calls[k].todo,
                      calls[k].todo[i].op = "end"
               PROVE  /\ k = Len(calls)
                      /\ \A j \in DOMAIN calls[k].todo : calls[k].todo[j] = calls[k].todo[i] => i = j
    BY DEF PartsComputedOnce
  <2>1. k = Len(calls) \/ k < Len(calls)
    BY Invariants
  <2>2. k = Len(calls)
    BY <2>1, Invariants DEF CallsInv, WaitsWell
  <2> QED BY <2>2, Invariants DEF CallsInv, EndsApart, TodoOf
<1> QED BY <1>1, InvAlways, PTL

(* Whatever the metadata, however constructors use each other's classes, throw or fail to start,  *)
(* a static constructor starts at most once, and at most twice if its class is used while its     *)
(* first use waits for the constructor of the module.                                             *)
THEOREM ConstructorsOnce == Spec => []CctorOnce
<1>1. Inv => CctorOnce
  <2> SUFFICES ASSUME Inv, NEW c \in Classes
               PROVE  started[c] <= IF c \in again THEN 2 ELSE 1
    BY DEF CctorOnce
  <2>1. /\ started[w.module] <= 1 /\ started[c] \in Nat
        /\ c # w.module => started[c] <= IF c \in again THEN 2 ELSE 1
    BY Invariants DEF OnceInv, ClassInv
  <2> QED BY <2>1
<1> QED BY <1>1, InvAlways, PTL

(***************************************************************************)
(* The ancestors of a class.  Lineage is a recursive function: the parts of *)
(* it that are defined so far agree, and no class is without one, because   *)
(* some parent would lead out of the set of those classes.                  *)
(***************************************************************************)
LineStep(up, c, l) == IF up[c] = NoClass THEN <<c>> ELSE Append(l[up[c]], c)
LineRule(c, l) == LineStep(w.parent, c, l)

PartialLine(l) ==
    /\ DOMAIN l \subseteq Classes
    /\ \A c \in DOMAIN l : /\ w.parent[c] # NoClass => w.parent[c] \in DOMAIN l
                           /\ l[c] = LineRule(c, l)

LEMMA Grounded ==
  ASSUME w \in Worlds, NEW S \in SUBSET Classes, S # {}
  PROVE  \E c \in S : w.parent[c] \notin S
BY WorldAssumption

LEMMA LinesAgree ==
  ASSUME w \in Worlds, NEW g, NEW h, PartialLine(g), PartialLine(h),
         NEW c \in DOMAIN g \cap DOMAIN h
  PROVE  g[c] = h[c]
<1> DEFINE S == {x \in DOMAIN g \cap DOMAIN h : g[x] # h[x]}
<1>1. ASSUME S # {} PROVE FALSE
  <2>1. S \in SUBSET Classes
    BY DEF PartialLine
  <2>2. PICK x \in S : w.parent[x] \notin S
    BY <1>1, <2>1, Grounded
  <2>3. w.parent[x] # NoClass => g[w.parent[x]] = h[w.parent[x]]
    BY <2>2 DEF PartialLine
  <2>4. g[x] = LineRule(x, g) /\ h[x] = LineRule(x, h)
    BY <2>2 DEF PartialLine
  <2> QED BY <2>2, <2>3, <2>4 DEF LineRule, LineStep
<1> QED BY <1>1

LEMMA LineExists ==
  ASSUME w \in Worlds, NEW c \in Classes
  PROVE  \E l : PartialLine(l) /\ c \in DOMAIN l
<1> DEFINE S == {x \in Classes : ~\E l : PartialLine(l) /\ x \in DOMAIN l}
<1>1. ASSUME S # {} PROVE FALSE
  <2>1. PICK x \in S : w.parent[x] \notin S
    BY <1>1, Grounded
  <2>2. CASE w.parent[x] = NoClass
    <3> DEFINE l == [y \in {x} |-> <<x>>]
    <3>1. PartialLine(l) /\ x \in DOMAIN l
      BY <2>1, <2>2 DEF PartialLine, LineRule, LineStep
    <3> QED BY <2>1, <3>1
  <2>3. CASE w.parent[x] # NoClass
    <3>1. w.parent[x] \in Classes
      BY <2>1, <2>3, World
    <3>2. PICK g : PartialLine(g) /\ w.parent[x] \in DOMAIN g
      BY <2>1, <3>1
    <3>3. x \notin DOMAIN g
      BY <2>1, <3>2
    <3> DEFINE D == DOMAIN g \cup {x}
               l == [y \in D |-> IF y = x THEN Append(g[w.parent[x]], x) ELSE g[y]]
    <3>4. DOMAIN l = D /\ l[x] = Append(g[w.parent[x]], x) /\ \A y \in DOMAIN g : l[y] = g[y]
      BY <3>3
    <3> HIDE DEF l
    <3>5. ASSUME NEW y \in D
          PROVE  (w.parent[y] # NoClass => w.parent[y] \in D) /\ l[y] = LineRule(y, l)
      <4>1. CASE y = x
        BY <2>3, <3>2, <3>4, <4>1 DEF LineRule, LineStep
      <4>2. CASE y # x
        <5>1. y \in DOMAIN g /\ g[y] = LineRule(y, g) /\ (w.parent[y] # NoClass => w.parent[y] \in DOMAIN g)
          BY <3>2, <4>2 DEF PartialLine
        <5> QED BY <3>4, <5>1 DEF LineRule, LineStep
      <4> QED BY <4>1, <4>2
    <3>6. PartialLine(l)
      BY <2>1, <3>2, <3>4, <3>5 DEF PartialLine
    <3> QED BY <2>1, <3>4, <3>6
  <2> QED BY <2>2, <2>3
<1> QED BY <1>1

LEMMA LineageIs ==
  ASSUME NEW up, \E l : l = [c \in Classes |-> LineStep(up, c, l)]
  PROVE  Lineage(up) = [c \in Classes |-> LineStep(up, c, Lineage(up))]
BY DEF Lineage, LineStep

LEMMA LineageRule ==
  ASSUME w \in Worlds, NEW c \in Classes
  PROVE  Lineage(w.parent)[c] = LineRule(c, Lineage(w.parent))
<1> DEFINE G(x) == CHOOSE l : PartialLine(l) /\ x \in DOMAIN l
           m == [x \in Classes |-> G(x)[x]]
<1>1. \A x \in Classes : PartialLine(G(x)) /\ x \in DOMAIN G(x)
  BY LineExists
<1> HIDE DEF G
<1>2. ASSUME NEW x \in Classes PROVE m[x] = LineRule(x, m)
  <2>1. G(x)[x] = LineRule(x, G(x)) /\ (w.parent[x] # NoClass => w.parent[x] \in DOMAIN G(x))
    BY <1>1 DEF PartialLine
  <2>2. CASE w.parent[x] = NoClass
    BY <2>1, <2>2 DEF LineRule, LineStep
  <2>3. CASE w.parent[x] # NoClass
    <3>1. w.parent[x] \in Classes
      BY <2>3, World
    <3>2. G(x)[w.parent[x]] = G(w.parent[x])[w.parent[x]]
      BY <1>1, <2>1, <2>3, <3>1, LinesAgree
    <3> QED BY <2>1, <2>3, <3>1, <3>2 DEF LineRule, LineStep
  <2> QED BY <2>2, <2>3
<1>3. m = [x \in Classes |-> LineRule(x, m)]
  BY <1>2
<1>4. \E l : l = [x \in Classes |-> LineStep(w.parent, x, l)]
  <2>1. m = [x \in Classes |-> LineStep(w.parent, x, m)]
    BY <1>3 DEF LineRule
  <2> QED BY <2>1
<1>5. Lineage(w.parent) = [x \in Classes |-> LineStep(w.parent, x, Lineage(w.parent))]
  BY <1>4, LineageIs
<1>6. Lineage(w.parent)[c] = LineStep(w.parent, c, Lineage(w.parent))
  BY <1>5
<1> HIDE DEF m
<1> QED BY <1>6 DEF LineRule

LEMMA LineageTyped ==
  ASSUME w \in Worlds, NEW c \in Classes
  PROVE  Lineage(w.parent)[c] \in Seq(Classes)
<1> DEFINE S == {x \in Classes : Lineage(w.parent)[x] \notin Seq(Classes)}
<1>1. ASSUME S # {} PROVE FALSE
  <2>1. PICK x \in S : w.parent[x] \notin S
    BY <1>1, Grounded
  <2>2. Lineage(w.parent)[x] = LineRule(x, Lineage(w.parent))
    BY LineageRule
  <2>3. x \in Classes /\ Lineage(w.parent)[x] \notin Seq(Classes)
    BY <2>1
  <2>4. CASE w.parent[x] = NoClass
    <3>1. Lineage(w.parent)[x] = <<x>>
      BY <2>2, <2>4 DEF LineRule, LineStep
    <3> QED BY <2>3, <3>1
  <2>5. CASE w.parent[x] # NoClass
    <3> DEFINE s == Lineage(w.parent)[w.parent[x]]
    <3>1. s \in Seq(Classes)
      BY <2>1, <2>5, World
    <3>2. Lineage(w.parent)[x] = Append(s, x)
      BY <2>2, <2>5 DEF LineRule, LineStep
    <3> HIDE DEF s
    <3>3. Append(s, x) \in Seq(Classes)
      BY <2>3, <3>1
    <3> QED BY <2>3, <3>2, <3>3
  <2> QED BY <2>4, <2>5
<1> QED BY <1>1

LEMMA Ancestors ==
  ASSUME w \in Worlds, NEW c \in Classes
  PROVE  /\ AncestorsOf(c) \subseteq Classes /\ c \in AncestorsOf(c)
         /\ w.parent[c] = NoClass => AncestorsOf(c) = {c}
         /\ w.parent[c] # NoClass =>
              w.parent[c] \in Classes /\ AncestorsOf(c) = AncestorsOf(w.parent[c]) \cup {c}
<1> DEFINE l == Lineage(w.parent)
<1>1. l[c] = LineRule(c, l) /\ l[c] \in Seq(Classes)
  BY LineageRule, LineageTyped
<1>2. CASE w.parent[c] = NoClass
  <2>1. l[c] = <<c>>
    BY <1>1, <1>2 DEF LineRule, LineStep
  <2>2. AncestorsOf(c) = {c}
    BY <2>1 DEF AncestorsOf
  <2> QED BY <1>2, <2>2
<1>3. CASE w.parent[c] # NoClass
  <2> DEFINE s == l[w.parent[c]]
  <2>1. w.parent[c] \in Classes /\ s \in Seq(Classes)
    BY <1>3, World, LineageTyped
  <2>2. l[c] = Append(s, c)
    BY <1>1, <1>3 DEF LineRule, LineStep
  <2>3. AncestorsOf(c) = {l[c][i] : i \in DOMAIN l[c]} /\ AncestorsOf(w.parent[c]) = {s[i] : i \in DOMAIN s}
    BY DEF AncestorsOf
  <2> HIDE DEF l, s
  <2>4. \A i \in DOMAIN Append(s, c) : (i \in DOMAIN s /\ Append(s, c)[i] = s[i]) \/ Append(s, c)[i] = c
    BY <2>1
  <2>5. \A i \in DOMAIN s : i \in DOMAIN Append(s, c) /\ Append(s, c)[i] = s[i]
    BY <2>1
  <2>6. Len(s) + 1 \in DOMAIN Append(s, c) /\ Append(s, c)[Len(s) + 1] = c
    BY <2>1
  <2>7. {Append(s, c)[i] : i \in DOMAIN Append(s, c)} = {s[i] : i \in DOMAIN s} \cup {c}
    BY <2>4, <2>5, <2>6
  <2>8. {s[i] : i \in DOMAIN s} \subseteq Classes
    BY <2>1
  <2> QED BY <1>3, <2>1, <2>2, <2>3, <2>7, <2>8
<1> QED BY <1>2, <1>3

(***************************************************************************)
(* What is established, what an item of work establishes and what it rests *)
(* on.  A fact is a mark <<p, c>>, <<"methods", c>>, the methods of c are   *)
(* there, or <<"start", c>>, its constructor was started.  m is the         *)
(* metadata.                                                               *)
(***************************************************************************)
Above(m, c)  == {Lineage(m.parent)[c][i] : i \in DOMAIN Lineage(m.parent)[c]}
Listed(m, c) == IF m.parent[c] = NoClass THEN {} ELSE {m.ifaces[c][i] : i \in DOMAIN m.ifaces[c]}

Marks == (Parts \cup {"All"}) \X Classes

Rests(m, p, c) ==
    (IF p \in Parts /\ m.parent[c] # NoClass THEN {<<p, m.parent[c]>>} ELSE {})
    \cup (IF p = "All" THEN Parts \X {c} ELSE {})
    \cup (IF p = "Interfaces" THEN {"All"} \X Listed(m, c) ELSE {})
    \cup (IF p = "Field" THEN {"Field"} \X ValuesOf(m.fields[c]) ELSE {})
    \cup (IF p = "Method" THEN {<<"methods", c>>} \cup {<<"Field", m.sigs[c][i]>> : i \in DOMAIN m.sigs[c]}
                          ELSE {})
    \cup (IF p = "Property" THEN {<<"Method", c>>} ELSE {})
    \cup (IF p = "VTable" THEN {"SuperTypes", "Interfaces", "Method"} \X {c} ELSE {})

Wants(m, x) ==
    CASE x.op = "end"                   -> Rests(m, x.arg, x.of)
      [] x.op \in {"start", "modstart"} -> {<<"All", x.of>>}
      [] x.op = "allocate"              -> {"start"} \X Above(m, x.of)
      [] OTHER                          -> {}

TypeMark(f) == IF f.kind = "value" THEN {<<"Field", f.of>>} ELSE {}

Gives(m, x) ==
    CASE x.op = "init"                -> {<<x.arg, x.of>>}
      [] x.op = "field"               -> IF m.fields[x.of][x.arg].static THEN {} ELSE TypeMark(m.fields[x.of][x.arg])
      [] x.op = "sfield"              -> IF m.fields[x.of][x.arg].static THEN TypeMark(m.fields[x.of][x.arg]) ELSE {}
      [] x.op = "methods"             -> {<<"methods", x.of>>}
      [] x.op \in {"start", "cctor"}  -> {<<"start", x.of>>}
      [] x.op = "hierarchy"           -> {"start"} \X Above(m, x.of)
      [] OTHER                        -> {}

\* What the items of a todo establish; whether each finds what it rests on, established before or by
\* the items in front of it; the parts that are in progress.
Given(m, s) == UNION {Gives(m, s[i]) : i \in DOMAIN s}
Ready(m, s, K) ==
    \A j \in DOMAIN s : \A n \in Wants(m, s[j]) :
       n \in K \/ \E i \in DOMAIN s : i < j /\ n \in Gives(m, s[i])

EndOf(x) == IF x.op = "end" THEN {<<x.arg, x.of>>} ELSE {}
Ends(s)  == UNION {EndOf(s[i]) : i \in DOMAIN s}

Facts(fl, st, k) ==
    fl \cup {<<"start", c>> : c \in {x \in Classes : st[x] # "NotInited"}}
       \cup {<<"methods", c>> : c \in {x \in Classes : k[x].hasMethods = TRUE}}

CompleteUp(m, c, dn) == Parts \X (Above(m, c) \cup Listed(m, c)) \subseteq dn

Closed(m, cs, fl, dn, K) ==
    /\ \A k \in DOMAIN cs : Ready(m, cs[k].todo, K)
    /\ fl \subseteq Marks /\ dn \subseteq fl /\ fl \subseteq dn \cup Ends(TodoOf(cs))
    /\ \A p \in Parts \cup {"All"}, c \in Classes : <<p, c>> \in dn => Rests(m, p, c) \subseteq K

Served(m, cs, dn, st, sd) ==
    /\ \A k \in DOMAIN cs : k > 1 => cs[k].of \in Classes /\ CompleteUp(m, cs[k].of, dn)
    /\ \A c \in Classes : st[c] # "NotInited" => CompleteUp(m, c, dn) /\ (c \in m.cctor => sd[c] > 0)

HasMethods(k) == DOMAIN k = Classes /\ \A c \in Classes : "hasMethods" \in DOMAIN k[c]

ReadyInv ==
    /\ HasMethods(kl) /\ fails \in Nat
    /\ NoErrors => /\ Closed(w, calls, flags, done, Facts(flags, status, kl))
                   /\ Served(w, calls, done, status, started)

-----------------------------------------------------------------------------
LEMMA ReadyGrows ==
  ASSUME NEW s, NEW K, NEW L, Ready(w, s, K), K \subseteq L
  PROVE  Ready(w, s, L)
BY DEF Ready

LEMMA ReadyJoined ==
  ASSUME NEW s \in Seq(WorkItems), NEW r \in Seq(WorkItems), NEW K, NEW L,
         Ready(w, s, K), Ready(w, r, L), L \subseteq K \cup Given(w, s)
  PROVE  Ready(w, s \o r, K)
<1> DEFINE u == s \o r
<1>1. SUFFICES ASSUME NEW j \in DOMAIN u, NEW n \in Wants(w, u[j])
               PROVE  n \in K \/ \E i \in DOMAIN u : i < j /\ n \in Gives(w, u[i])
  BY DEF Ready
<1>2. \A i \in DOMAIN s : i \in DOMAIN u /\ u[i] = s[i]
  BY Joined
<1>3. \A i \in DOMAIN r : i + Len(s) \in DOMAIN u /\ u[i + Len(s)] = r[i]
  BY Joined
<1>4. \/ j \in DOMAIN s /\ u[j] = s[j]
      \/ j - Len(s) \in DOMAIN r /\ u[j] = r[j - Len(s)] /\ j > Len(s)
  BY Joined
<1>5. DOMAIN u \subseteq Nat /\ DOMAIN s = 1..Len(s) /\ DOMAIN r \subseteq Nat /\ Len(s) \in Nat
  BY Joined
<1> HIDE DEF u
<1>6. CASE j \in DOMAIN s /\ u[j] = s[j]
  BY <1>1, <1>2, <1>6 DEF Ready
<1>7. CASE j - Len(s) \in DOMAIN r /\ u[j] = r[j - Len(s)] /\ j > Len(s)
  <2>1. n \in L \/ \E i \in DOMAIN r : i < j - Len(s) /\ n \in Gives(w, r[i])
    BY <1>1, <1>7 DEF Ready
  <2>2. ASSUME NEW i \in DOMAIN r, i < j - Len(s), n \in Gives(w, r[i])
        PROVE  \E k \in DOMAIN u : k < j /\ n \in Gives(w, u[k])
    <3>1. i + Len(s) < j
      BY <1>5, <2>2
    <3> QED BY <1>3, <2>2, <3>1
  <2>3. ASSUME n \in Given(w, s)
        PROVE  \E k \in DOMAIN u : k < j /\ n \in Gives(w, u[k])
    <3>1. PICK i \in DOMAIN s : n \in Gives(w, s[i])
      BY <2>3 DEF Given
    <3>2. i < j
      BY <1>5, <1>7
    <3> QED BY <1>2, <3>1, <3>2
  <2> QED BY <2>1, <2>2, <2>3
<1> QED BY <1>4, <1>6, <1>7

LEMMA ReadyTail ==
  ASSUME NEW t \in Seq(WorkItems), t # <<>>, NEW K, Ready(w, t, K)
  PROVE  Ready(w, Tail(t), K \cup Gives(w, Head(t))) /\ Wants(w, Head(t)) \subseteq K
<1>1. DOMAIN t \subseteq Nat /\ \A i \in DOMAIN t : ~(i < 1)
  OBVIOUS
<1>2. Wants(w, Head(t)) \subseteq K
  BY <1>1, TailOf DEF Ready
<1>3. ASSUME NEW j \in DOMAIN Tail(t), NEW n \in Wants(w, Tail(t)[j])
      PROVE  n \in K \cup Gives(w, Head(t)) \/ \E i \in DOMAIN Tail(t) : i < j /\ n \in Gives(w, Tail(t)[i])
  <2>1. j + 1 \in DOMAIN t /\ Tail(t)[j] = t[j + 1] /\ j \in Nat
    BY TailOf
  <2>2. n \in K \/ \E i \in DOMAIN t : i < j + 1 /\ n \in Gives(w, t[i])
    BY <1>3, <2>1 DEF Ready
  <2>3. ASSUME NEW i \in DOMAIN t, i < j + 1, n \in Gives(w, t[i])
        PROVE  n \in Gives(w, Head(t)) \/ \E k \in DOMAIN Tail(t) : k < j /\ n \in Gives(w, Tail(t)[k])
    <3>1. i = 1 \/ (i - 1 \in DOMAIN Tail(t) /\ t[i] = Tail(t)[i - 1])
      BY TailOf
    <3>2. i - 1 < j
      BY <1>1, <2>1, <2>3
    <3>3. t[1] = Head(t)
      BY TailOf
    <3> QED BY <2>3, <3>1, <3>2, <3>3
  <2> QED BY <2>2, <2>3
<1> QED BY <1>2, <1>3 DEF Ready

LEMMA EndsSplit ==
  ASSUME NEW s \in Seq(WorkItems), NEW r \in Seq(WorkItems)
  PROVE  Ends(s) \cup Ends(r) \subseteq Ends(s \o r)
<1>1. \A i \in DOMAIN s : i \in DOMAIN (s \o r) /\ (s \o r)[i] = s[i]
  BY Joined
<1>2. \A i \in DOMAIN r : i + Len(s) \in DOMAIN (s \o r) /\ (s \o r)[i + Len(s)] = r[i]
  BY Joined
<1> DEFINE u == s \o r
<1> HIDE DEF u
<1> QED BY <1>1, <1>2 DEF Ends, u

LEMMA EndsHead ==
  ASSUME NEW t \in Seq(WorkItems), t # <<>>
  PROVE  Ends(t) \subseteq EndOf(Head(t)) \cup Ends(Tail(t))
<1>1. \A i \in DOMAIN t : i = 1 \/ (i - 1 \in DOMAIN Tail(t) /\ t[i] = Tail(t)[i - 1])
  BY TailOf
<1>2. t[1] = Head(t)
  BY TailOf
<1> QED BY <1>1, <1>2 DEF Ends

LEMMA GivenJoined ==
  ASSUME NEW s \in Seq(WorkItems), NEW r \in Seq(WorkItems)
  PROVE  Given(w, s \o r) = Given(w, s) \cup Given(w, r)
<1>1. \A i \in DOMAIN s : i \in DOMAIN (s \o r) /\ (s \o r)[i] = s[i]
  BY Joined
<1>2. \A i \in DOMAIN r : i + Len(s) \in DOMAIN (s \o r) /\ (s \o r)[i + Len(s)] = r[i]
  BY Joined
<1>3. \A i \in DOMAIN (s \o r) : \/ i \in DOMAIN s /\ (s \o r)[i] = s[i]
                                 \/ i - Len(s) \in DOMAIN r /\ (s \o r)[i] = r[i - Len(s)]
  BY Joined
<1> DEFINE u == s \o r
<1> HIDE DEF u
<1>4. Given(w, s) \subseteq Given(w, u) /\ Given(w, r) \subseteq Given(w, u)
  BY <1>1, <1>2 DEF Given, u
<1>5. Given(w, u) \subseteq Given(w, s) \cup Given(w, r)
  BY <1>3 DEF Given, u
<1> QED BY <1>4, <1>5 DEF u

-----------------------------------------------------------------------------
(* The work of a part establishes what the part rests on. *)
LEMMA GivenNative ==
  ASSUME NEW s, NEW r, NativeWork(s), NativeWork(r)
  PROVE  Given(w, s \o r) = Given(w, s) \cup Given(w, r) /\ NativeWork(s \o r)
BY GivenJoined, NativeJoined DEF NativeWork

LEMMA GivenItem == ASSUME NEW s, NEW i \in DOMAIN s PROVE Gives(w, s[i]) \subseteq Given(w, s)
BY DEF Given

LEMMA GivenCall ==
  ASSUME NEW p, NEW c
  PROVE  Gives(w, Initialize(p, c)) = {<<p, c>>} /\ Given(w, <<Initialize(p, c)>>) = {<<p, c>>}
<1>1. Gives(w, Initialize(p, c)) = {<<p, c>>}
  BY DEF Gives, Initialize, Do
<1> DEFINE x == Initialize(p, c)
<1>2. DOMAIN <<x>> = {1} /\ <<x>>[1] = x
  OBVIOUS
<1> HIDE DEF x
<1>3. Given(w, <<x>>) = Gives(w, x)
  BY <1>2 DEF Given
<1> QED BY <1>1, <1>3 DEF x

LEMMA GivenUp ==
  ASSUME w \in Worlds, NEW p \in Parts, NEW c \in Classes, w.parent[c] # NoClass
  PROVE  <<p, w.parent[c]>> \in Given(w, Up(p, c))
BY GivenCall DEF Up

LEMMA GivenRounds ==
  ASSUME NEW p, NEW q, NEW i \in DOMAIN q
  PROVE  <<p, q[i]>> \in Given(w, [j \in DOMAIN q |-> Initialize(p, q[j])])
<1> DEFINE s == [j \in DOMAIN q |-> Initialize(p, q[j])]
<1>1. i \in DOMAIN s /\ s[i] = Initialize(p, q[i])
  OBVIOUS
<1> HIDE DEF s
<1>2. Gives(w, s[i]) \subseteq Given(w, s)
  BY <1>1, GivenItem
<1>3. Gives(w, s[i]) = {<<p, q[i]>>}
  BY <1>1, GivenCall
<1>4. <<p, q[i]>> \in Given(w, s)
  BY <1>2, <1>3
<1> QED BY <1>4 DEF s

LEMMA GivenFields ==
  ASSUME w \in Worlds, NEW c \in Classes, NEW i \in DOMAIN w.fields[c]
  PROVE  TypeMark(w.fields[c][i]) \subseteq Given(w, InstanceRounds(c)) \cup Given(w, StaticRounds(c))
<1> DEFINE f == w.fields[c][i]
<1>1. /\ i \in DOMAIN InstanceRounds(c) /\ InstanceRounds(c)[i] = Do("field", c, i)
      /\ i \in DOMAIN StaticRounds(c) /\ StaticRounds(c)[i] = Do("sfield", c, i)
  BY DEF InstanceRounds, StaticRounds
<1>2. f.static \in BOOLEAN
  <2>1. w.fields[c] \in Seq(Fields)
    BY World
  <2>2. w.fields[c][i] \in Fields
    BY <2>1
  <2> QED BY <2>2 DEF Fields
<1>3. CASE f.static
  <2>1. Gives(w, Do("sfield", c, i)) = TypeMark(f)
    BY <1>3 DEF Gives, Do
  <2> QED BY <1>1, <2>1, GivenItem
<1>4. CASE ~f.static
  <2>1. Gives(w, Do("field", c, i)) = TypeMark(f)
    BY <1>4 DEF Gives, Do
  <2> QED BY <1>1, <2>1, GivenItem
<1> QED BY <1>2, <1>3, <1>4

LEMMA GivenWork ==
  ASSUME NEW c
  PROVE  Given(w, <<Work("methods", c)>>) = {<<"methods", c>>}
<1> DEFINE x == Work("methods", c)
<1>1. Gives(w, x) = {<<"methods", c>>}
  BY DEF Gives, Work, Do
<1>2. DOMAIN <<x>> = {1} /\ <<x>>[1] = x
  OBVIOUS
<1> HIDE DEF x
<1>3. Given(w, <<x>>) = Gives(w, x)
  BY <1>2 DEF Given
<1> QED BY <1>1, <1>3 DEF x

LEMMA GivenHere ==
  ASSUME NEW s, NEW p, NEW c, NEW i \in DOMAIN s, s[i] = Initialize(p, c)
  PROVE  <<p, c>> \in Given(w, s)
<1>1. Gives(w, s[i]) \subseteq Given(w, s)
  BY GivenItem
<1>2. Gives(w, s[i]) = {<<p, c>>}
  BY GivenCall
<1> QED BY <1>1, <1>2

\* The pieces of work of a body, one by one.
LEMMA Pieces ==
  ASSUME w \in Worlds, NEW c \in Classes
  PROVE  /\ \A op \in WorkOps \cup {"ifacetables"} : NativeItem(Work(op, c)) /\ NativeWork(<<Work(op, c)>>)
         /\ \A q \in Parts \cup {"All"} : NativeItem(Initialize(q, c)) /\ NativeWork(<<Initialize(q, c)>>)
         /\ \A q \in Parts : NativeWork(Up(q, c))
<1>1. ASSUME NEW op \in WorkOps \cup {"ifacetables"}
      PROVE  NativeItem(Work(op, c)) /\ NativeWork(<<Work(op, c)>>)
  <2>1. Work(op, c).op = op /\ op \in NativeOps
    BY DEF Work, Do, NativeOps
  <2> QED BY <2>1, NativePiece DEF NativeItem
<1>2. ASSUME NEW q \in Parts \cup {"All"}
      PROVE  NativeItem(Initialize(q, c)) /\ NativeWork(<<Initialize(q, c)>>)
  <2>1. Initialize(q, c).op \in NativeOps
    BY DEF Initialize, Do, NativeOps
  <2> QED BY <2>1, NativeCall DEF NativeItem
<1> QED BY <1>1, <1>2, NativeUp

LEMMA FieldBodyGives ==
  ASSUME w \in Worlds, NEW c \in Classes
  PROVE  Rests(w, "Field", c) \subseteq Given(w, FieldBody(c))
<1> DEFINE a == Up("Field", c)
           b == <<Work("fields", c)>>
           e == InstanceRounds(c)
           f == <<Work("layout", c)>>
           g == StaticRounds(c)
           h == <<Work("statics", c), Work("bitmap", c), Work("sbitmap", c), Work("data", c)>>
<1>1. NativeWork(a) /\ NativeWork(b) /\ NativeWork(e) /\ NativeWork(f) /\ NativeWork(g)
  BY Pieces, NativeFields DEF Parts, WorkOps
<1>2. NativeWork(h)
  BY Pieces, NativeFour DEF WorkOps
<1>3. FieldBody(c) = (((((a \o b) \o e) \o f) \o g) \o h)
  BY DEF FieldBody
<1>4. "Field" \in Parts /\ (w.parent[c] # NoClass => <<"Field", w.parent[c]>> \in Given(w, a))
  BY GivenUp DEF Parts
<1>5. \A i \in DOMAIN w.fields[c] : TypeMark(w.fields[c][i]) \subseteq Given(w, e) \cup Given(w, g)
  BY GivenFields
<1> HIDE DEF a, b, e, f, g, h
<1>6. Given(w, a) \cup Given(w, e) \cup Given(w, g) \subseteq Given(w, FieldBody(c))
  <2>1. NativeWork(a \o b) /\ Given(w, a) \subseteq Given(w, a \o b)
    BY <1>1, GivenNative
  <2>2. NativeWork((a \o b) \o e) /\ Given(w, (a \o b) \o e) = Given(w, a \o b) \cup Given(w, e)
    BY <1>1, <2>1, GivenNative
  <2>3. /\ NativeWork(((a \o b) \o e) \o f)
        /\ Given(w, (a \o b) \o e) \subseteq Given(w, ((a \o b) \o e) \o f)
    BY <1>1, <2>2, GivenNative
  <2>4. /\ NativeWork((((a \o b) \o e) \o f) \o g)
        /\ Given(w, (((a \o b) \o e) \o f) \o g) = Given(w, ((a \o b) \o e) \o f) \cup Given(w, g)
    BY <1>1, <2>3, GivenNative
  <2>5. Given(w, (((a \o b) \o e) \o f) \o g) \subseteq Given(w, FieldBody(c))
    BY <1>2, <1>3, <2>4, GivenNative
  <2> QED BY <2>1, <2>2, <2>3, <2>4, <2>5
<1>7. {"Field"} \X ValuesOf(w.fields[c]) \subseteq Given(w, e) \cup Given(w, g)
  BY <1>5 DEF ValuesOf, TypeMark
<1>8. Rests(w, "Field", c) = (IF w.parent[c] # NoClass THEN {<<"Field", w.parent[c]>>} ELSE {})
                                \cup {"Field"} \X ValuesOf(w.fields[c])
  BY <1>4 DEF Rests
<1> QED BY <1>4, <1>6, <1>7, <1>8

LEMMA MethodBodyGives ==
  ASSUME w \in Worlds, NEW c \in Classes
  PROVE  Rests(w, "Method", c) \subseteq Given(w, MethodBody(c))
<1> DEFINE a == Up("Method", c)
           b == <<Work("methods", c)>>
           e == [i \in DOMAIN w.sigs[c] |-> Initialize("Field", w.sigs[c][i])]
           f == <<Work("argdescs", c)>>
<1>1. NativeWork(a) /\ NativeWork(b) /\ NativeWork(e) /\ NativeWork(f)
  BY Pieces, World, NativeRounds DEF Parts, WorkOps
<1>2. MethodBody(c) = (((a \o b) \o e) \o f)
  BY DEF MethodBody
<1>3. "Method" \in Parts /\ (w.parent[c] # NoClass => <<"Method", w.parent[c]>> \in Given(w, a))
  BY GivenUp DEF Parts
<1>4. <<"methods", c>> \in Given(w, b)
  BY GivenWork
<1>5. \A i \in DOMAIN w.sigs[c] : <<"Field", w.sigs[c][i]>> \in Given(w, e)
  BY GivenRounds
<1> HIDE DEF a, b, e, f
<1>6. Given(w, a) \cup Given(w, b) \cup Given(w, e) \subseteq Given(w, MethodBody(c))
  <2>1. NativeWork(a \o b) /\ Given(w, a) \cup Given(w, b) = Given(w, a \o b)
    BY <1>1, GivenNative
  <2>2. NativeWork((a \o b) \o e) /\ Given(w, (a \o b) \o e) = Given(w, a \o b) \cup Given(w, e)
    BY <1>1, <2>1, GivenNative
  <2>3. Given(w, (a \o b) \o e) \subseteq Given(w, MethodBody(c))
    BY <1>1, <1>2, <2>2, GivenNative
  <2> QED BY <2>1, <2>2, <2>3
<1>7. Rests(w, "Method", c) = (IF w.parent[c] # NoClass THEN {<<"Method", w.parent[c]>>} ELSE {})
             \cup {<<"methods", c>>} \cup {<<"Field", w.sigs[c][i]>> : i \in DOMAIN w.sigs[c]}
  BY <1>3 DEF Rests
<1> QED BY <1>3, <1>4, <1>5, <1>6, <1>7

LEMMA InterfacesBodyGives ==
  ASSUME w \in Worlds, NEW c \in Classes
  PROVE  Rests(w, "Interfaces", c) \subseteq Given(w, InterfacesBody(c))
<1> DEFINE a == Up("Interfaces", c)
           q == ListedInterfaces(c)
           b == [i \in DOMAIN q |-> Initialize("All", q[i])]
           e == <<Work("interfaces", c)>>
<1>0. q \in Seq(Classes)
  BY World DEF ListedInterfaces
<1>1. NativeWork(a) /\ NativeWork(b) /\ NativeWork(e)
  BY <1>0, Pieces, World, NativeRounds DEF Parts, WorkOps
<1>2. InterfacesBody(c) = ((a \o b) \o e)
  BY DEF InterfacesBody
<1>3. "Interfaces" \in Parts /\ (w.parent[c] # NoClass => <<"Interfaces", w.parent[c]>> \in Given(w, a))
  BY GivenUp DEF Parts
<1>4. {"All"} \X Listed(w, c) \subseteq Given(w, b)
  <2>1. Listed(w, c) \subseteq {q[i] : i \in DOMAIN q}
    BY DEF Listed, ListedInterfaces
  <2> HIDE DEF q
  <2> QED BY <2>1, GivenRounds
<1> HIDE DEF a, b, e, q
<1>5. Given(w, a) \cup Given(w, b) \subseteq Given(w, InterfacesBody(c))
  <2>1. NativeWork(a \o b) /\ Given(w, a) \cup Given(w, b) = Given(w, a \o b)
    BY <1>1, GivenNative
  <2> QED BY <1>1, <1>2, <2>1, GivenNative
<1>6. Rests(w, "Interfaces", c) = (IF w.parent[c] # NoClass THEN {<<"Interfaces", w.parent[c]>>} ELSE {})
                                     \cup {"All"} \X Listed(w, c)
  BY <1>3 DEF Rests
<1> QED BY <1>3, <1>4, <1>5, <1>6

LEMMA VTableBodyGives ==
  ASSUME w \in Worlds, NEW c \in Classes
  PROVE  Rests(w, "VTable", c) \subseteq Given(w, VTableBody(c))
<1> DEFINE a == Up("VTable", c)
           b == <<Initialize("SuperTypes", c), Initialize("Interfaces", c), Initialize("Method", c),
                  Work("ifacetables", c), Work("vtable", c)>>
<1>1. NativeWork(a) /\ NativeWork(b)
  BY Pieces, NativeFive DEF Parts, WorkOps
<1>2. VTableBody(c) = a \o b
  BY DEF VTableBody
<1>3. "VTable" \in Parts /\ (w.parent[c] # NoClass => <<"VTable", w.parent[c]>> \in Given(w, a))
  BY GivenUp DEF Parts
<1>4. \A p \in {"SuperTypes", "Interfaces", "Method"} : <<p, c>> \in Given(w, b)
  <2>1. /\ 1 \in DOMAIN b /\ b[1] = Initialize("SuperTypes", c)
        /\ 2 \in DOMAIN b /\ b[2] = Initialize("Interfaces", c)
        /\ 3 \in DOMAIN b /\ b[3] = Initialize("Method", c)
    OBVIOUS
  <2> HIDE DEF b
  <2> QED BY <2>1, GivenHere
<1> HIDE DEF a, b
<1>5. Given(w, a) \cup Given(w, b) = Given(w, VTableBody(c))
  BY <1>1, <1>2, GivenNative
<1>6. Rests(w, "VTable", c) = (IF w.parent[c] # NoClass THEN {<<"VTable", w.parent[c]>>} ELSE {})
                                     \cup {"SuperTypes", "Interfaces", "Method"} \X {c}
  BY <1>3 DEF Rests
<1> QED BY <1>3, <1>4, <1>5, <1>6

LEMMA BodyGives ==
  ASSUME w \in Worlds, NEW p \in Parts \cup {"All"}, NEW c \in Classes
  PROVE  Rests(w, p, c) \subseteq Given(w, Body(p, c))
<1>1. CASE p = "All"
  <2> DEFINE b == Body("All", c)
  <2>1. /\ 1 \in DOMAIN b /\ b[1] = Initialize("SuperTypes", c)
        /\ 2 \in DOMAIN b /\ b[2] = Initialize("Interfaces", c)
        /\ 3 \in DOMAIN b /\ b[3] = Initialize("Nested", c)
        /\ 4 \in DOMAIN b /\ b[4] = Initialize("Field", c)
        /\ 5 \in DOMAIN b /\ b[5] = Initialize("Method", c)
        /\ 6 \in DOMAIN b /\ b[6] = Initialize("Property", c)
        /\ 7 \in DOMAIN b /\ b[7] = Initialize("Event", c)
        /\ 8 \in DOMAIN b /\ b[8] = Initialize("VTable", c)
    BY DEF Body
  <2> HIDE DEF b
  <2>2. \A q \in Parts : <<q, c>> \in Given(w, b)
    BY <2>1, GivenHere DEF Parts
  <2>3. Rests(w, "All", c) = Parts \X {c}
    BY DEF Rests, Parts
  <2>4. Parts \X {c} \subseteq Given(w, b)
    BY <2>2
  <2> QED BY <1>1, <2>3, <2>4 DEF b
<1>2. CASE p = "Field"
  BY <1>2, FieldBodyGives DEF Body
<1>3. CASE p = "Method"
  BY <1>3, MethodBodyGives DEF Body
<1>4. CASE p = "Interfaces"
  BY <1>4, InterfacesBodyGives DEF Body
<1>5. CASE p = "VTable"
  BY <1>5, VTableBodyGives DEF Body
<1>6. CASE p = "Property"
  <2> DEFINE a == <<Initialize("Method", c)>>
             b == Up("Property", c)
             e == <<Work("property", c)>>
  <2>1. NativeWork(a) /\ NativeWork(b) /\ NativeWork(e)
    BY Pieces DEF Parts, WorkOps
  <2>2. Body("Property", c) = (a \o b) \o e
    BY DEF Body
  <2>3. "Property" \in Parts /\ (w.parent[c] # NoClass => <<"Property", w.parent[c]>> \in Given(w, b))
    BY GivenUp DEF Parts
  <2>4. <<"Method", c>> \in Given(w, a)
    BY GivenCall
  <2> HIDE DEF a, b, e
  <2>5. Given(w, a) \cup Given(w, b) \subseteq Given(w, Body("Property", c))
    <3>1. NativeWork(a \o b) /\ Given(w, a) \cup Given(w, b) = Given(w, a \o b)
      BY <2>1, GivenNative
    <3>2. Given(w, (a \o b) \o e) = Given(w, a \o b) \cup Given(w, e)
      BY <2>1, <3>1, GivenNative
    <3> QED BY <2>2, <3>1, <3>2
  <2>6. Rests(w, "Property", c) = (IF w.parent[c] # NoClass THEN {<<"Property", w.parent[c]>>} ELSE {})
                                     \cup {<<"Method", c>>}
    BY <2>3 DEF Rests
  <2> QED BY <1>6, <2>3, <2>4, <2>5, <2>6
<1>7. ASSUME NEW q \in {"SuperTypes", "Nested", "Event"}, p = q
      PROVE  Rests(w, p, c) \subseteq Given(w, Body(p, c))
  <2>1. PICK op \in WorkOps : Body(q, c) = Up(q, c) \o <<Work(op, c)>>
    BY <1>7 DEF Body, WorkOps
  <2>2. NativeWork(Up(q, c)) /\ NativeWork(<<Work(op, c)>>) /\ q \in Parts
    BY Pieces DEF Parts
  <2>3. Given(w, Up(q, c)) \subseteq Given(w, Body(q, c))
    BY <2>1, <2>2, GivenNative
  <2>4. Rests(w, q, c) = IF w.parent[c] # NoClass THEN {<<q, w.parent[c]>>} ELSE {}
    BY <1>7, <2>2 DEF Rests
  <2> QED BY <1>7, <2>2, <2>3, <2>4, GivenUp
<1> QED BY <1>1, <1>2, <1>3, <1>4, <1>5, <1>6, <1>7 DEF Parts

\* Native work rests on nothing of its own; the end of a part rests on the part's work.
LEMMA NativeReady ==
  ASSUME NEW s, NativeWork(s), NEW K
  PROVE  Ready(w, s, K) /\ Ends(s) = {}
<1>1. \A i \in DOMAIN s : Wants(w, s[i]) = {} /\ EndOf(s[i]) = {}
  BY DEF NativeWork, NativeOps, WorkOps, Wants, EndOf
<1> QED BY <1>1 DEF Ready, Ends

LEMMA BodyReady ==
  ASSUME w \in Worlds, NEW p \in Parts \cup {"All"}, NEW c \in Classes, NEW K,
         NEW e \in WorkItems, e.op = "end", e.arg = p, e.of = c
  PROVE  /\ Append(Body(p, c), e) \in Seq(WorkItems)
         /\ Ready(w, Append(Body(p, c), e), K) /\ Ends(Append(Body(p, c), e)) = {<<p, c>>}
<1> DEFINE b == Body(p, c)
<1>1. NativeWork(b) /\ b \in Seq(WorkItems) /\ Rests(w, p, c) \subseteq Given(w, b)
  BY NativeBody, BodyGives DEF NativeWork
<1> HIDE DEF b
<1>2. Append(b, e) = b \o <<e>> /\ <<e>> \in Seq(WorkItems) /\ DOMAIN <<e>> = {1} /\ <<e>>[1] = e
  BY <1>1, AppendIsConcat
<1>3. Ready(w, <<e>>, Given(w, b))
  <2>1. Wants(w, e) = Rests(w, p, c)
    BY DEF Wants
  <2> QED BY <1>1, <1>2, <2>1 DEF Ready
<1>4. Ready(w, b \o <<e>>, K)
  BY <1>1, <1>2, <1>3, NativeReady, ReadyJoined
<1>5. Ends(b \o <<e>>) = {<<p, c>>}
  <2>1. EndOf(e) = {<<p, c>>}
    BY DEF EndOf
  <2>2. Ends(<<e>>) = {<<p, c>>}
    BY <1>2, <2>1 DEF Ends
  <2>3. Ends(b) \cup Ends(<<e>>) \subseteq Ends(b \o <<e>>)
    BY <1>1, <1>2, EndsSplit
  <2>4. Ends(b \o <<e>>) \subseteq Ends(b) \cup Ends(<<e>>)
    <3>1. \A i \in DOMAIN (b \o <<e>>) :
            \/ i \in DOMAIN b /\ (b \o <<e>>)[i] = b[i]
            \/ i - Len(b) \in DOMAIN <<e>> /\ (b \o <<e>>)[i] = <<e>>[i - Len(b)]
      BY <1>1, <1>2, Joined
    <3> DEFINE u == b \o <<e>>
               r == <<e>>
    <3> HIDE DEF u, r
    <3> QED BY <3>1 DEF Ends, u, r
  <2>5. Ends(b) = {}
    BY <1>1, NativeReady
  <2> QED BY <2>2, <2>3, <2>4, <2>5
<1>6. Append(b, e) \in Seq(WorkItems)
  BY <1>1
<1> QED BY <1>2, <1>4, <1>5, <1>6 DEF b

-----------------------------------------------------------------------------
(* With nothing in progress, what is done rests on what is done, all the way up. *)
Saturated(dn) ==
    \A p \in Parts \cup {"All"}, c \in Classes : <<p, c>> \in dn =>
       \A q \in Parts \cup {"All"}, x \in Classes : <<q, x>> \in Rests(w, p, c) => <<q, x>> \in dn

LEMMA AboveIs ==
  ASSUME w \in Worlds, NEW c \in Classes
  PROVE  /\ Above(w, c) = AncestorsOf(c) /\ Listed(w, c) = InterfacesOf(c)
         /\ Above(w, c) \subseteq Classes /\ c \in Above(w, c) /\ Listed(w, c) \subseteq Classes
         /\ w.parent[c] = NoClass => Above(w, c) = {c}
         /\ w.parent[c] # NoClass =>
              w.parent[c] \in Classes /\ Above(w, c) = Above(w, w.parent[c]) \cup {c}
<1>1. \A x \in Classes : Above(w, x) = AncestorsOf(x)
  BY DEF Above, AncestorsOf
<1>2. Listed(w, c) = InterfacesOf(c)
  BY DEF Listed, InterfacesOf, ListedInterfaces
<1>3. Listed(w, c) \subseteq Classes
  BY World DEF Listed
<1> QED BY <1>1, <1>2, <1>3, Ancestors

LEMMA AboveDone ==
  ASSUME w \in Worlds, NEW dn, Saturated(dn), NEW p \in Parts, NEW c \in Classes, <<p, c>> \in dn
  PROVE  {p} \X Above(w, c) \subseteq dn
<1> DEFINE S == {x \in Classes : <<p, x>> \in dn /\ ~({p} \X Above(w, x) \subseteq dn)}
<1>1. ASSUME S # {} PROVE FALSE
  <2>1. PICK x \in S : w.parent[x] \notin S
    BY <1>1, Grounded
  <2>2. x \in Classes /\ <<p, x>> \in dn /\ ~({p} \X Above(w, x) \subseteq dn)
    BY <2>1
  <2>3. CASE w.parent[x] = NoClass
    <3>1. Above(w, x) = {x}
      BY <2>2, <2>3, AboveIs
    <3> QED BY <2>2, <3>1
  <2>4. CASE w.parent[x] # NoClass
    <3>1. w.parent[x] \in Classes /\ Above(w, x) = Above(w, w.parent[x]) \cup {x}
      BY <2>2, <2>4, AboveIs
    <3>2. <<p, w.parent[x]>> \in Rests(w, p, x)
      BY <2>4 DEF Rests
    <3>3. <<p, w.parent[x]>> \in dn
      BY <2>2, <3>1, <3>2 DEF Saturated
    <3>4. {p} \X Above(w, w.parent[x]) \subseteq dn
      BY <2>1, <3>1, <3>3
    <3> QED BY <2>2, <3>1, <3>4
  <2> QED BY <2>3, <2>4
<1>2. c \notin S
  BY <1>1
<1> QED BY <1>2

LEMMA AllDone ==
  ASSUME w \in Worlds, NEW dn, Saturated(dn), NEW c \in Classes, <<"All", c>> \in dn
  PROVE  Parts \X {c} \subseteq dn
<1>1. \A q \in Parts : <<q, c>> \in Rests(w, "All", c)
  BY DEF Rests
<1>2. \A q \in Parts : <<q, c>> \in dn
  BY <1>1 DEF Saturated
<1> QED BY <1>2

LEMMA ListedDone ==
  ASSUME w \in Worlds, NEW dn, Saturated(dn), NEW c \in Classes, <<"Interfaces", c>> \in dn
  PROVE  Parts \X Listed(w, c) \subseteq dn
<1>1. ASSUME NEW i \in Listed(w, c) PROVE Parts \X {i} \subseteq dn
  <2>1. i \in Classes
    BY AboveIs
  <2>2. <<"All", i>> \in Rests(w, "Interfaces", c)
    BY DEF Rests
  <2>3. <<"All", i>> \in dn
    BY <2>1, <2>2 DEF Saturated, Parts
  <2> QED BY <2>1, <2>3, AllDone
<1> QED BY <1>1

LEMMA CompleteDone ==
  ASSUME w \in Worlds, NEW dn, Saturated(dn), NEW c \in Classes, <<"All", c>> \in dn
  PROVE  CompleteUp(w, c, dn)
<1>1. \A p \in Parts : <<p, c>> \in dn
  BY AllDone
<1>2. \A p \in Parts : {p} \X Above(w, c) \subseteq dn
  BY <1>1, AboveDone
<1>3. Parts \X Listed(w, c) \subseteq dn
  BY <1>1, ListedDone DEF Parts
<1> QED BY <1>2, <1>3 DEF CompleteUp

\* The facts that are marks.
LEMMA MarkFacts ==
  ASSUME NEW fl, NEW st, NEW k, NEW p \in Parts \cup {"All"}, NEW c, <<p, c>> \in Facts(fl, st, k)
  PROVE  <<p, c>> \in fl
BY DEF Facts, Parts

LEMMA Quieted ==
  ASSUME NEW cs, NEW fl, NEW dn, NEW st, NEW k,
         Closed(w, cs, fl, dn, Facts(fl, st, k)), Ends(TodoOf(cs)) = {}
  PROVE  Saturated(dn) /\ fl = dn
<1>1. fl = dn
  BY DEF Closed
<1>2. ASSUME NEW p \in Parts \cup {"All"}, NEW c \in Classes, <<p, c>> \in dn,
             NEW q \in Parts \cup {"All"}, NEW x \in Classes, <<q, x>> \in Rests(w, p, c)
      PROVE  <<q, x>> \in dn
  <2>1. <<q, x>> \in Facts(fl, st, k)
    BY <1>2 DEF Closed
  <2> QED BY <1>1, <2>1, MarkFacts
<1> QED BY <1>1, <1>2 DEF Saturated

-----------------------------------------------------------------------------
LEMMA TopReady ==
  ASSUME Inv, NEW K, Closed(w, calls, flags, done, K)
  PROVE  Ready(w, Todo, K) /\ \A k \in DOMAIN calls : Ready(w, calls[k].todo, K)
<1>1. Len(calls) \in DOMAIN calls
  BY Invariants
<1> QED BY <1>1, TodoTop DEF Closed, TodoOf

LEMMA ReplacedOf ==
  ASSUME Inv, NEW u \in Seq(WorkItems)
  PROVE  /\ DOMAIN Replaced(calls, u) = DOMAIN calls /\ Len(Replaced(calls, u)) = Len(calls)
         /\ TodoOf(Replaced(calls, u)) = u
         /\ \A k \in DOMAIN calls : /\ Replaced(calls, u)[k].of = calls[k].of
                                    /\ Replaced(calls, u)[k].todo = u \/ Replaced(calls, u)[k].todo = calls[k].todo
<1>1. calls \in Seq(Activations) /\ Len(calls) > 0
  BY Invariants
<1>2. /\ DOMAIN Replaced(calls, u) = DOMAIN calls /\ TodoOf(Replaced(calls, u)) = u
      /\ Len(Replaced(calls, u)) = Len(calls)
      /\ \A k \in DOMAIN calls : k # Len(calls) => Replaced(calls, u)[k] = calls[k]
  BY <1>1, TopReplaced
<1>3. Replaced(calls, u)[Len(calls)].of = calls[Len(calls)].of
  <2>1. calls[Len(calls)] \in Activations /\ Len(calls) \in DOMAIN calls
    BY <1>1
  <2>2. Replaced(calls, u)[Len(calls)] = [calls[Len(calls)] EXCEPT !.todo = u]
    BY <1>1, <2>1 DEF Replaced
  <2> QED BY <2>1, <2>2 DEF Activations
<1>4. Replaced(calls, u)[Len(calls)].todo = u
  BY <1>2 DEF TodoOf
<1> QED BY <1>2, <1>3, <1>4

LEMMA ServedStays ==
  ASSUME Inv, NEW u \in Seq(WorkItems), NEW dn, NEW st, NEW sd, Served(w, calls, dn, st, sd),
         NEW dn2, dn \subseteq dn2
  PROVE  Served(w, Replaced(calls, u), dn2, st, sd)
<1>1. \A c : CompleteUp(w, c, dn) => CompleteUp(w, c, dn2)
  BY DEF CompleteUp
<1> QED BY <1>1, ReplacedOf DEF Served

LEMMA MovesOn ==
  ASSUME Inv, Todo # <<>>, NEW K, NEW K2, Closed(w, calls, flags, done, K), K \subseteq K2,
         NEW s \in Seq(WorkItems), Gives(w, Item) \subseteq K2 \cup Given(w, s), Ready(w, s, K2),
         Ends(s) \subseteq Marks,
         NEW fl2, flags \subseteq fl2, fl2 \subseteq flags \cup Ends(s),
         NEW dn2, dn2 = done \cup EndOf(Item)
  PROVE  Closed(w, Replaced(calls, s \o Tail(Todo)), fl2, dn2, K2)
<1> DEFINE u == s \o Tail(Todo)
<1>1. /\ Todo \in Seq(WorkItems) /\ Tail(Todo) \in Seq(WorkItems) /\ Item = Head(Todo)
      /\ EndsMarked(Todo, flags)
  BY Current
<1>2. u \in Seq(WorkItems)
  BY <1>1, Joined
<1>3. /\ Ready(w, Tail(Todo), K \cup Gives(w, Item)) /\ Wants(w, Item) \subseteq K
      /\ \A k \in DOMAIN calls : Ready(w, calls[k].todo, K)
  BY <1>1, TopReady, ReadyTail
<1>4. Ready(w, Tail(Todo), K2 \cup Given(w, s))
  BY <1>3, ReadyGrows
<1>5. Ready(w, u, K2)
  BY <1>1, <1>4, ReadyJoined
<1>6. Ends(s) \cup Ends(Tail(Todo)) \subseteq Ends(u) /\ Ends(Todo) \subseteq EndOf(Item) \cup Ends(Tail(Todo))
  BY <1>1, EndsSplit, EndsHead
<1>7. EndOf(Item) \subseteq flags
  BY <1>1, TailOf DEF EndOf, EndsMarked
<1> HIDE DEF u
<1>8. \A k \in DOMAIN Replaced(calls, u) : Ready(w, Replaced(calls, u)[k].todo, K2)
  <2>1. \A k \in DOMAIN calls : Ready(w, calls[k].todo, K2)
    BY <1>3, ReadyGrows
  <2> QED BY <1>2, <1>5, <2>1, ReplacedOf
<1>9. fl2 \subseteq Marks /\ dn2 \subseteq fl2
  BY <1>7 DEF Closed
<1>10. fl2 \subseteq dn2 \cup Ends(TodoOf(Replaced(calls, u)))
  <2>1. flags \subseteq done \cup Ends(Todo)
    BY TodoTop DEF Closed
  <2>2. TodoOf(Replaced(calls, u)) = u
    BY <1>2, ReplacedOf
  <2> QED BY <1>6, <2>1, <2>2
<1>11. ASSUME NEW p \in Parts \cup {"All"}, NEW c \in Classes, <<p, c>> \in dn2
       PROVE  Rests(w, p, c) \subseteq K2
  <2>1. CASE <<p, c>> \in done
    BY <2>1 DEF Closed
  <2>2. CASE <<p, c>> \in EndOf(Item)
    <3>1. Item.op = "end" /\ Item.arg = p /\ Item.of = c
      BY <2>2 DEF EndOf
    <3>2. Wants(w, Item) = Rests(w, p, c)
      BY <3>1 DEF Wants
    <3> QED BY <1>3, <3>2
  <2> QED BY <1>11, <2>1, <2>2
<1> QED BY <1>8, <1>9, <1>10, <1>11 DEF Closed, u

\* One step of the native machine that the work s follows.
LEMMA ReadyStep ==
  ASSUME Inv, ReadyInv, Todo # <<>>, NEW s \in Seq(WorkItems), Continue(s),
         w' = w, HasMethods(kl'), fails' = fails, refused' = refused,
         status' = status, started' = started,
         Ends(s) \subseteq Marks, flags \subseteq flags', flags' \subseteq flags \cup Ends(s),
         done' = done \cup EndOf(Item),
         Facts(flags, status, kl) \subseteq Facts(flags', status', kl'),
         Gives(w, Item) \subseteq Facts(flags', status', kl') \cup Given(w, s),
         Ready(w, s, Facts(flags', status', kl'))
  PROVE  ReadyInv'
<1> DEFINE K2 == Facts(flags', status', kl')
<1>1. HasMethods(kl') /\ fails' \in Nat
  BY DEF ReadyInv
<1>2. ASSUME NoErrors'
      PROVE  /\ Closed(w', calls', flags', done', K2)
             /\ Served(w', calls', done', status', started')
  <2>1. NoErrors
    BY <1>2 DEF NoErrors
  <2>2. /\ Closed(w, calls, flags, done, Facts(flags, status, kl))
        /\ Served(w, calls, done, status, started)
    BY <2>1 DEF ReadyInv
  <2>3. calls' = Replaced(calls, s \o Tail(Todo))
    BY DEF Continue, Replaced
  <2>4. s \o Tail(Todo) \in Seq(WorkItems)
    BY Current, Joined
  <2> HIDE DEF K2
  <2>5. Closed(w, calls', flags', done', K2)
    <3>1. Facts(flags, status, kl) \subseteq K2 /\ Gives(w, Item) \subseteq K2 \cup Given(w, s) /\ Ready(w, s, K2)
      BY DEF K2
    <3>2. Closed(w, Replaced(calls, s \o Tail(Todo)), flags', done', K2)
      BY <2>2, <3>1, MovesOn
    <3> QED BY <2>3, <3>2
  <2>6. Served(w, calls', done', status', started')
    BY <2>2, <2>3, <2>4, ServedStays
  <2> QED BY <2>5, <2>6
<1> QED BY <1>1, <1>2 DEF ReadyInv

\* A step that marks nothing and finishes nothing.
LEMMA ReadyPlain ==
  ASSUME Inv, ReadyInv, Todo # <<>>, Item.op # "end", NEW s \in Seq(WorkItems), Continue(s), NoEnd(s),
         w' = w, kl' = kl, fails' = fails, refused' = refused,
         status' = status, started' = started, flags' = flags, done' = done,
         Gives(w, Item) \subseteq Facts(flags, status, kl) \cup Given(w, s),
         Ready(w, s, Facts(flags, status, kl))
  PROVE  ReadyInv'
<1>1. Ends(s) = {}
  BY DEF NoEnd, Ends, EndOf
<1>2. EndOf(Item) = {}
  BY DEF EndOf
<1>3. HasMethods(kl')
  BY DEF ReadyInv
<1>4. done' = done \cup EndOf(Item)
  BY <1>2
<1>5. Facts(flags', status', kl') = Facts(flags, status, kl)
  OBVIOUS
<1> QED BY <1>1, <1>3, <1>4, <1>5, ReadyStep

-----------------------------------------------------------------------------
(* One lemma per kind of step. *)
LEMMA MarkIn ==
  ASSUME NEW fl, NEW st, NEW k
  PROVE  /\ fl \subseteq Facts(fl, st, k)
         /\ \A c \in Classes : st[c] # "NotInited" => <<"start", c>> \in Facts(fl, st, k)
         /\ \A c \in Classes : k[c].hasMethods = TRUE => <<"methods", c>> \in Facts(fl, st, k)
BY DEF Facts

LEMMA NoneLeft ==
  <<>> \in Seq(WorkItems) /\ NoEnd(<<>>) /\ Ends(<<>>) = {} /\ \A K : Ready(w, <<>>, K)
BY EmptyTodo DEF NoEnd, Ends, Ready

LEMMA EnterPartReady ==
  ASSUME Inv, ReadyInv, EnterPart
  PROVE  ReadyInv'
<1> DEFINE c == Item.of
           p == Item.arg
           e == Do("end", c, p)
           K == Facts(flags, status, kl)
           K2 == Facts(flags', status', kl')
<1>1. /\ Todo # <<>> /\ Item.op = "init" /\ c \in Classes /\ p \in Parts \cup {"All"}
      /\ w \in Worlds
  BY ItemTyped DEF EnterPart, Running, Inv
<1>2. /\ w' = w /\ kl' = kl /\ done' = done /\ status' = status /\ started' = started
      /\ fails' = fails /\ refused' = refused
  BY DEF EnterPart, history
<1>3. Gives(w, Item) = {<<p, c>>} /\ EndOf(Item) = {}
  BY <1>1 DEF Gives, EndOf
<1>4. CASE <<p, c>> \in flags
  <2>1. Continue(<<>>) /\ flags' = flags
    BY <1>4 DEF EnterPart
  <2>2. Gives(w, Item) \subseteq K
    BY <1>3, <1>4, MarkIn
  <2> HIDE DEF K
  <2>3. Gives(w, Item) \subseteq K \cup Given(w, <<>>) /\ Ready(w, <<>>, K)
    BY <2>2, NoneLeft
  <2> QED BY <1>1, <1>2, <2>1, <2>3, NoneLeft, ReadyPlain DEF K
<1>5. CASE <<p, c>> \notin flags
  <2> DEFINE s == Append(Body(p, c), e)
  <2>1. Continue(s) /\ flags' = flags \cup {<<p, c>>}
    BY <1>5 DEF EnterPart
  <2>2. e \in WorkItems /\ e.op = "end" /\ e.of = c /\ e.arg = p
    <3>1. "end" \in Ops /\ p \in Args
      BY <1>1 DEF Args, Ops
    <3> HIDE DEF p
    <3> QED BY <1>1, <3>1, DoneItem
  <2> HIDE DEF e, p, c
  <2>3. s \in Seq(WorkItems) /\ Ready(w, s, K2) /\ Ends(s) = {<<p, c>>}
    BY <1>1, <2>2, BodyReady
  <2> HIDE DEF s
  <2>4. K \subseteq K2
    BY <1>2, <2>1 DEF Facts
  <2>5. Gives(w, Item) \subseteq K2
    BY <1>3, <2>1, MarkIn
  <2>6. {<<p, c>>} \subseteq Marks
    BY <1>1 DEF Marks
  <2>7. HasMethods(kl')
    BY <1>2 DEF ReadyInv
  <2> QED BY <1>1, <1>2, <1>3, <2>1, <2>3, <2>4, <2>5, <2>6, <2>7, ReadyStep
<1> QED BY <1>4, <1>5

LEMMA EndPartReady ==
  ASSUME Inv, ReadyInv, EndPart
  PROVE  ReadyInv'
<1>1. /\ Todo # <<>> /\ Item.op = "end" /\ Continue(<<>>)
      /\ done' = done \cup {<<Item.arg, Item.of>>}
      /\ w' = w /\ kl' = kl /\ flags' = flags /\ status' = status /\ started' = started
      /\ fails' = fails /\ refused' = refused
  BY DEF EndPart, Running, history
<1>2. EndOf(Item) = {<<Item.arg, Item.of>>} /\ Gives(w, Item) = {}
  BY <1>1 DEF EndOf, Gives
<1>3. HasMethods(kl')
  BY <1>1 DEF ReadyInv
<1>4. Facts(flags', status', kl') = Facts(flags, status, kl)
  BY <1>1
<1> QED BY <1>1, <1>2, <1>3, <1>4, NoneLeft, ReadyStep

LEMMA EffectHasMethods ==
  ASSUME HasMethods(kl), NEW op, NEW c \in Classes, NEW i
  PROVE  /\ "hasMethods" \in DOMAIN Effect(op, c, i)
         /\ kl[c].hasMethods = TRUE \/ op = "methods" => Effect(op, c, i).hasMethods = TRUE
<1>1. "hasMethods" \in DOMAIN kl[c]
  BY DEF HasMethods
<1>2. /\ "hasMethods" \in DOMAIN WithLayout(c) /\ WithLayout(c).hasMethods = kl[c].hasMethods
      /\ "hasMethods" \in DOMAIN WithStatics(c) /\ WithStatics(c).hasMethods = kl[c].hasMethods
      /\ "hasMethods" \in DOMAIN WithVTable(c) /\ WithVTable(c).hasMethods = kl[c].hasMethods
      /\ "hasMethods" \in DOMAIN WithBitmap(c) /\ WithBitmap(c).hasMethods = kl[c].hasMethods
  BY <1>1 DEF WithLayout, WithStatics, WithVTable, WithBitmap
<1>3. CASE op = "methods"
  BY <1>1, <1>3 DEF Effect
<1>4. CASE op \in {"supers", "interfaces", "fields", "refs"}
  BY <1>1, <1>4 DEF Effect
<1>5. CASE op \in {"layout", "statics", "bitmap", "vtable"}
  BY <1>1, <1>2, <1>5 DEF Effect
<1>6. CASE op = "sbitmap"
  BY <1>1, <1>6 DEF Effect
<1>7. CASE op \notin {"supers", "interfaces", "fields", "refs", "layout", "statics", "bitmap",
                      "sbitmap", "methods", "vtable"}
  BY <1>1, <1>7 DEF Effect
<1> QED BY <1>3, <1>4, <1>5, <1>6, <1>7

LEMMA DoWorkReady ==
  ASSUME Inv, ReadyInv, DoWork
  PROVE  ReadyInv'
<1> DEFINE K == Facts(flags, status, kl)
           K2 == Facts(flags', status', kl')
           x == Effect(Item.op, Item.of, Item.arg)
<1>1. /\ Todo # <<>> /\ Item.op \in WorkOps /\ Item.of \in Classes /\ Continue(<<>>)
      /\ kl' = [kl EXCEPT ![Item.of] = x]
      /\ w' = w /\ done' = done /\ flags' = flags /\ status' = status /\ started' = started
      /\ fails' = fails /\ refused' = refused
  BY ItemTyped DEF DoWork
<1>2. HasMethods(kl)
  BY DEF ReadyInv
<1>3. /\ "hasMethods" \in DOMAIN x
      /\ kl[Item.of].hasMethods = TRUE \/ Item.op = "methods" => x.hasMethods = TRUE
  BY <1>1, <1>2, EffectHasMethods
<1> HIDE DEF x
<1>4. HasMethods(kl')
  BY <1>1, <1>2, <1>3 DEF HasMethods
<1>5. /\ \A c \in Classes : kl[c].hasMethods = TRUE => kl'[c].hasMethods = TRUE
      /\ Item.op = "methods" => kl'[Item.of].hasMethods = TRUE
  BY <1>1, <1>2, <1>3 DEF HasMethods
<1>6. K \subseteq K2
  BY <1>1, <1>5 DEF Facts
<1>7. Gives(w, Item) \subseteq K2
  <2>1. CASE Item.op = "methods"
    BY <1>1, <1>5, <2>1, MarkIn DEF Gives
  <2>2. CASE Item.op # "methods"
    BY <1>1, <2>2 DEF Gives, WorkOps
  <2> QED BY <2>1, <2>2
<1>8. EndOf(Item) = {}
  BY <1>1 DEF EndOf, WorkOps
<1> QED BY <1>1, <1>4, <1>6, <1>7, <1>8, NoneLeft, ReadyStep

LEMMA FailureReady ==
  ASSUME ReadyInv, Refuse \/ Fail
  PROVE  ReadyInv'
<1>1. kl' = kl
  BY DEF Refuse, Fail
<1>2. CASE Refuse
  <2>1. fails' = fails /\ refused' # {}
    BY <1>2 DEF Refuse
  <2> QED BY <1>1, <2>1 DEF ReadyInv, NoErrors
<1>3. CASE Fail
  <2>1. fails \in Nat /\ fails' = fails + 1
    BY <1>3 DEF Fail, ReadyInv
  <2>2. fails' \in Nat /\ fails' # 0
    BY <2>1
  <2> QED BY <1>1, <2>2 DEF ReadyInv, NoErrors
<1> QED BY <1>2, <1>3

LEMMA ValueTypeReady ==
  ASSUME w \in Worlds, NEW f, NativeWork(ValueType(f))
  PROVE  Given(w, ValueType(f)) = TypeMark(f)
<1>1. CASE f.kind = "value"
  BY <1>1, GivenCall DEF ValueType, TypeMark
<1>2. CASE f.kind # "value"
  BY <1>2 DEF ValueType, TypeMark, Given
<1> QED BY <1>1, <1>2

LEMMA InstanceFieldReady ==
  ASSUME Inv, ReadyInv, InstanceField
  PROVE  ReadyInv'
<1> DEFINE c == Item.of
           i == Item.arg
           f == w.fields[c][i]
           v == ValueType(f)
           r == <<Do("refs", c, i)>>
           s == IF f.static THEN <<>> ELSE v \o r
           K == Facts(flags, status, kl)
<1>1. /\ Todo # <<>> /\ w \in Worlds /\ c \in Classes /\ i \in DOMAIN w.fields[c] /\ Item.op = "field"
  BY ItemTyped DEF InstanceField, Running, Inv
<1>2. NativeWork(v)
  BY <1>1, NativeValueType
<1>3. NativeWork(r)
  <2>1. "refs" \in Ops /\ "refs" \in NativeOps /\ i \in Args
    BY <1>1, ItemTyped DEF Ops, NativeOps, WorkOps
  <2> HIDE DEF c, i
  <2>2. Do("refs", c, i) \in WorkItems /\ Do("refs", c, i).op = "refs"
    BY <1>1, <2>1, DoneItem
  <2> QED BY <2>1, <2>2, NativeOne
<1>4. NativeWork(s)
  BY <1>2, <1>3, NativeJoined, NativeNone
<1>5. Gives(w, Item) \subseteq Given(w, s)
  <2>1. CASE f.static
    BY <1>1, <2>1 DEF Gives
  <2>2. CASE ~f.static
    <3>1. Gives(w, Item) = TypeMark(f)
      BY <1>1, <2>2 DEF Gives
    <3>2. Given(w, v) = TypeMark(f)
      BY <1>1, <1>2, ValueTypeReady
    <3> HIDE DEF v, r
    <3>3. Given(w, v) \subseteq Given(w, v \o r)
      BY <1>2, <1>3, GivenNative
    <3> QED BY <2>2, <3>1, <3>2, <3>3
  <2> QED BY <2>1, <2>2
<1>6. Continue(s)
  BY DEF InstanceField
<1>7. /\ w' = w /\ kl' = kl /\ flags' = flags /\ done' = done /\ status' = status /\ started' = started
      /\ fails' = fails /\ refused' = refused
  BY DEF InstanceField, history
<1> HIDE DEF s
<1>8. s \in Seq(WorkItems) /\ NoEnd(s) /\ Ready(w, s, K)
  BY <1>4, NativeRow, NativeReady
<1> QED BY <1>1, <1>5, <1>6, <1>7, <1>8, ReadyPlain

LEMMA StaticFieldReady ==
  ASSUME Inv, ReadyInv, StaticField
  PROVE  ReadyInv'
<1> DEFINE c == Item.of
           i == Item.arg
           f == w.fields[c][i]
           s == IF f.static THEN ValueType(f) ELSE <<>>
           K == Facts(flags, status, kl)
<1>1. /\ Todo # <<>> /\ w \in Worlds /\ c \in Classes /\ i \in DOMAIN w.fields[c] /\ Item.op = "sfield"
  BY ItemTyped DEF StaticField, Running, Inv
<1>2. NativeWork(ValueType(f))
  BY <1>1, NativeValueType
<1>3. NativeWork(s)
  BY <1>2, NativeNone
<1>4. Gives(w, Item) \subseteq Given(w, s)
  <2>1. CASE ~f.static
    BY <1>1, <2>1 DEF Gives
  <2>2. CASE f.static
    <3>1. Gives(w, Item) = TypeMark(f)
      BY <1>1, <2>2 DEF Gives
    <3> QED BY <1>1, <1>2, <2>2, <3>1, ValueTypeReady
  <2> QED BY <2>1, <2>2
<1>6. Continue(s)
  BY DEF StaticField
<1>7. /\ w' = w /\ kl' = kl /\ flags' = flags /\ done' = done /\ status' = status /\ started' = started
      /\ fails' = fails /\ refused' = refused
  BY DEF StaticField, history
<1> HIDE DEF s
<1>8. s \in Seq(WorkItems) /\ NoEnd(s) /\ Ready(w, s, K)
  BY <1>3, NativeRow, NativeReady
<1> QED BY <1>1, <1>4, <1>6, <1>7, <1>8, ReadyPlain

LEMMA InterfaceTablesReady ==
  ASSUME Inv, ReadyInv, InterfaceTables
  PROVE  ReadyInv'
<1> DEFINE q == kl[Item.of].ifs
           s == [i \in DOMAIN q |-> Initialize("VTable", q[i])]
           K == Facts(flags, status, kl)
<1>1. Todo # <<>> /\ q \in Seq(Classes) /\ Item.op = "ifacetables"
  BY ItemTyped DEF InterfaceTables, Running, Inv, GivenInv
<1>2. NativeWork(s)
  BY <1>1, NativeRounds DEF Parts
<1>3. Continue(s)
  BY DEF InterfaceTables
<1>4. /\ w' = w /\ kl' = kl /\ flags' = flags /\ done' = done /\ status' = status /\ started' = started
      /\ fails' = fails /\ refused' = refused
  BY DEF InterfaceTables, history
<1>5. Gives(w, Item) = {}
  BY <1>1 DEF Gives
<1> HIDE DEF s
<1>6. s \in Seq(WorkItems) /\ NoEnd(s) /\ Ready(w, s, K)
  BY <1>2, NativeRow, NativeReady
<1> QED BY <1>1, <1>3, <1>4, <1>5, <1>6, ReadyPlain

LEMMA AllocateReady ==
  ASSUME Inv, ReadyInv, Allocate
  PROVE  ReadyInv'
<1>1. /\ Todo # <<>> /\ Item.op = "allocate" /\ Continue(<<>>)
      /\ w' = w /\ kl' = kl /\ flags' = flags /\ done' = done /\ status' = status /\ started' = started
      /\ fails' = fails /\ refused' = refused
  BY DEF Allocate, Running, history
<1>2. Gives(w, Item) = {}
  BY <1>1 DEF Gives
<1> QED BY <1>1, <1>2, NoneLeft, ReadyPlain

\* Work that rests on nothing.
LEMMA TwoReady ==
  ASSUME NEW x \in WorkItems, NEW y \in WorkItems, NEW K, Wants(w, x) \subseteq K,
         Wants(w, y) \subseteq K \cup Gives(w, x)
  PROVE  /\ Ready(w, <<x, y>>, K) /\ Ready(w, <<x>>, K)
         /\ Given(w, <<x, y>>) = Gives(w, x) \cup Gives(w, y) /\ Given(w, <<x>>) = Gives(w, x)
<1>1. /\ DOMAIN <<x, y>> = {1, 2} /\ <<x, y>>[1] = x /\ <<x, y>>[2] = y
      /\ DOMAIN <<x>> = {1} /\ <<x>>[1] = x
  BY TwoItems
<1> DEFINE s == <<x, y>>
           r == <<x>>
<1> HIDE DEF s, r
<1>2. Given(w, s) = Gives(w, x) \cup Gives(w, y) /\ Given(w, r) = Gives(w, x)
  BY <1>1 DEF Given, s, r
<1>3. Ready(w, r, K)
  BY <1>1 DEF Ready, r
<1>4. Ready(w, s, K)
  <2>1. SUFFICES ASSUME NEW j \in DOMAIN s, NEW n \in Wants(w, s[j])
                 PROVE  n \in K \/ \E i \in DOMAIN s : i < j /\ n \in Gives(w, s[i])
    BY DEF Ready
  <2>2. CASE j = 1
    BY <1>1, <2>1, <2>2 DEF s
  <2>3. CASE j = 2
    <3>1. n \in K \/ n \in Gives(w, s[1])
      BY <1>1, <2>1, <2>3 DEF s
    <3>2. 1 < j /\ 1 \in DOMAIN s
      BY <1>1, <2>3 DEF s
    <3> QED BY <3>1, <3>2
  <2> QED BY <1>1, <2>2, <2>3 DEF s
<1> QED BY <1>2, <1>3, <1>4 DEF s, r

LEMMA RunHierarchyReady ==
  ASSUME Inv, ReadyInv, RunHierarchy
  PROVE  ReadyInv'
<1> DEFINE c == Item.of
           p == w.parent[c]
           x == Work("cctor", c)
           y == Work("hierarchy", p)
           K == Facts(flags, status, kl)
<1>1. Todo # <<>> /\ w \in Worlds /\ Item.op = "hierarchy" /\ c \in Classes /\ c # w.module
  BY ItemTyped DEF RunHierarchy, Running, Inv
<1>2. /\ w' = w /\ kl' = kl /\ flags' = flags /\ done' = done /\ status' = status /\ started' = started
      /\ fails' = fails /\ refused' = refused
  BY DEF RunHierarchy, history
<1>3. Continue(IF p = NoClass THEN <<x>> ELSE <<x, y>>)
  BY DEF RunHierarchy
<1>4. x \in WorkItems /\ x.op = "cctor" /\ x.of = c
  BY <1>1, Asked
<1>5. Gives(w, Item) = {"start"} \X Above(w, c) /\ Gives(w, x) = {<<"start", c>>} /\ Wants(w, x) = {}
  BY <1>1, <1>4 DEF Gives, Wants
<1>6. CASE p = NoClass
  <2>1. Above(w, c) = {c}
    BY <1>1, <1>6, AboveIs
  <2>2. Gives(w, Item) = Gives(w, x)
    BY <1>5, <2>1
  <2>3. Continue(<<x>>)
    BY <1>3, <1>6
  <2> HIDE DEF x, K
  <2>4. <<x>> \in Seq(WorkItems) /\ NoEnd(<<x>>) /\ Ready(w, <<x>>, K) /\ Given(w, <<x>>) = Gives(w, x)
    BY <1>4, <1>5, OneOrderly, TwoItems, TwoReady
  <2> QED BY <1>1, <1>2, <2>2, <2>3, <2>4, ReadyPlain DEF K
<1>7. CASE p # NoClass
  <2>1. y \in WorkItems /\ y.op = "hierarchy" /\ y.of = p /\ Above(w, c) = Above(w, p) \cup {c}
    BY <1>1, <1>7, World, Asked, AboveIs
  <2>2. Gives(w, y) = {"start"} \X Above(w, p) /\ Wants(w, y) = {}
    BY <2>1 DEF Gives, Wants
  <2> HIDE DEF x, y, K, p, c
  <2>3. Gives(w, Item) \subseteq Gives(w, x) \cup Gives(w, y)
    BY <1>5, <2>1, <2>2
  <2>4. Continue(<<x, y>>)
    BY <1>3, <1>7
  <2>5. ~Barred(x.op, y.op)
    BY <1>4, <2>1 DEF Barred
  <2>6. <<x, y>> \in Seq(WorkItems) /\ NoEnd(<<x, y>>)
    BY <1>4, <2>1, <2>5, TwoOrderly, TwoItems
  <2>7. Ready(w, <<x, y>>, K) /\ Given(w, <<x, y>>) = Gives(w, x) \cup Gives(w, y)
    BY <1>4, <1>5, <2>1, <2>2, TwoReady
  <2> QED BY <1>1, <1>2, <2>3, <2>4, <2>6, <2>7, ReadyPlain DEF K
<1> QED BY <1>6, <1>7

LEMMA RunCctorReady ==
  ASSUME Inv, ReadyInv, RunCctor
  PROVE  ReadyInv'
<1> DEFINE c == Item.of
           x == Work("module", w.module)
           y == Initialize("All", c)
           z == Work("start", c)
           s == <<x, y, z>>
           K == Facts(flags, status, kl)
<1>1. Todo # <<>> /\ w \in Worlds /\ Item.op = "cctor" /\ c \in Classes /\ c # w.module
  BY ItemTyped, Invariants DEF RunCctor, Running
<1>2. /\ w' = w /\ kl' = kl /\ flags' = flags /\ done' = done /\ status' = status /\ started' = started
      /\ fails' = fails /\ refused' = refused
  BY DEF RunCctor
<1>3. Gives(w, Item) = {<<"start", c>>}
  BY <1>1 DEF Gives
<1>4. CASE status[c] # "NotInited"
  <2>1. Continue(<<>>)
    BY <1>4 DEF RunCctor
  <2>2. Gives(w, Item) \subseteq K
    BY <1>1, <1>3, <1>4, MarkIn
  <2> QED BY <1>1, <1>2, <2>1, <2>2, NoneLeft, ReadyPlain
<1>5. CASE status[c] = "NotInited"
  <2>1. Continue(s)
    BY <1>5 DEF RunCctor
  <2>2. /\ x \in WorkItems /\ x.op = "module"
        /\ y \in WorkItems /\ y.op = "init" /\ Gives(w, y) = {<<"All", c>>}
        /\ z \in WorkItems /\ z.op = "start" /\ z.of = c
    <3>1. y.op = "init"
      BY DEF Initialize, Do
    <3> QED BY <1>1, <3>1, Asked, NativeCall, GivenCall
  <2>3. Wants(w, x) = {} /\ Wants(w, y) = {} /\ Wants(w, z) = {<<"All", c>>} /\ Gives(w, z) = {<<"start", c>>}
    BY <2>2 DEF Wants, Gives
  <2> HIDE DEF x, y, z, c, K
  <2>4. s \in Seq(WorkItems) /\ NoEnd(s) /\ DOMAIN s = {1, 2, 3} /\ s[1] = x /\ s[2] = y /\ s[3] = z
    BY <2>2, ThreeItems
  <2> HIDE DEF s
  <2>5. Ready(w, s, K)
    <3>1. 2 \in DOMAIN s /\ 2 < 3 /\ <<"All", c>> \in Gives(w, s[2])
      BY <2>2, <2>4
    <3> QED BY <2>3, <2>4, <3>1 DEF Ready
  <2>6. Gives(w, z) \subseteq Given(w, s)
    BY <2>4 DEF Given
  <2> QED BY <1>1, <1>2, <1>3, <2>1, <2>3, <2>4, <2>5, <2>6, ReadyPlain DEF K
<1> QED BY <1>4, <1>5

LEMMA RunModuleCctorReady ==
  ASSUME Inv, ReadyInv, RunModuleCctor
  PROVE  ReadyInv'
<1> DEFINE x == Initialize("All", w.module)
           y == Work("modstart", w.module)
           K == Facts(flags, status, kl)
<1>1. Todo # <<>> /\ w \in Worlds /\ Item.op = "module" /\ w.module \in Classes
  BY World, Invariants DEF RunModuleCctor, Running
<1>2. /\ w' = w /\ kl' = kl /\ flags' = flags /\ done' = done /\ status' = status /\ started' = started
      /\ fails' = fails /\ refused' = refused
  BY DEF RunModuleCctor, history
<1>3. Gives(w, Item) = {}
  BY <1>1 DEF Gives
<1>4. CASE modDone
  <2>1. Continue(<<>>)
    BY <1>4 DEF RunModuleCctor
  <2> QED BY <1>1, <1>2, <1>3, <2>1, NoneLeft, ReadyPlain
<1>5. CASE ~modDone
  <2>1. Continue(<<x, y>>)
    BY <1>5 DEF RunModuleCctor
  <2>2. /\ x \in WorkItems /\ x.op = "init" /\ Gives(w, x) = {<<"All", w.module>>}
        /\ y \in WorkItems /\ y.op = "modstart" /\ y.of = w.module
    <3>1. x.op = "init" /\ y.of = w.module
      BY DEF Initialize, Work, Do
    <3> QED BY <1>1, <3>1, Asked, NativeCall, GivenCall
  <2>3. Wants(w, x) = {} /\ Wants(w, y) = {<<"All", w.module>>}
    BY <2>2 DEF Wants
  <2> HIDE DEF x, y, K
  <2>4. <<x, y>> \in Seq(WorkItems) /\ Ready(w, <<x, y>>, K)
    BY <2>2, <2>3, TwoItems, TwoReady
  <2>5. NoEnd(<<x, y>>)
    <3>1. DOMAIN <<x, y>> = {1, 2} /\ <<x, y>>[1] = x /\ <<x, y>>[2] = y
      BY <2>2, TwoItems
    <3> DEFINE s == <<x, y>>
    <3> HIDE DEF s
    <3> QED BY <2>2, <3>1 DEF s, NoEnd
  <2> QED BY <1>1, <1>2, <1>3, <2>1, <2>4, <2>5, ReadyPlain DEF K
<1> QED BY <1>4, <1>5

-----------------------------------------------------------------------------
(* A constructor starts when nothing of its own activation is in progress: its class is complete. *)
LEMMA BehindNoEnds ==
  ASSUME NEW s, WaitsWell(s)
  PROVE  Ends(s) = {}
BY DEF WaitsWell, Ends, EndOf

LEMMA StartsComplete ==
  ASSUME Inv, Todo # <<>>, Item.op \in {"start", "modstart"},
         NEW K, K = Facts(flags, status, kl), Closed(w, calls, flags, done, K)
  PROVE  /\ Item.of \in Classes /\ CompleteUp(w, Item.of, done) /\ kl[Item.of].hasMethods = TRUE
         /\ flags = done /\ WaitsWell(Tail(Todo))
<1>1. Item.of \in Classes /\ w \in Worlds /\ WaitsWell(Tail(Todo))
  BY ItemTyped, Invariants, NothingBehind
<1>2. Ends(TodoOf(calls)) = {}
  <2>1. EndOf(Item) = {}
    BY DEF EndOf
  <2>2. Ends(Todo) \subseteq EndOf(Item) \cup Ends(Tail(Todo))
    BY Current, EndsHead
  <2> QED BY <1>1, <2>1, <2>2, BehindNoEnds, TodoTop
<1>3. Saturated(done) /\ flags = done
  BY <1>2, Quieted
<1>4. <<"All", Item.of>> \in done
  <2>1. Wants(w, Item) = {<<"All", Item.of>>}
    BY DEF Wants
  <2>2. Wants(w, Item) \subseteq K
    BY Current, TopReady, ReadyTail
  <2> QED BY <1>3, <2>1, <2>2, MarkFacts
<1>5. CompleteUp(w, Item.of, done)
  BY <1>1, <1>3, <1>4, CompleteDone
<1>6. kl[Item.of].hasMethods = TRUE
  <2>1. <<"Method", Item.of>> \in done
    BY <1>1, <1>3, <1>4, AllDone DEF Parts
  <2>2. <<"methods", Item.of>> \in Rests(w, "Method", Item.of)
    BY DEF Rests
  <2>3. "Method" \in Parts \cup {"All"}
    BY DEF Parts
  <2>4. <<"methods", Item.of>> \in K
    BY <1>1, <2>1, <2>2, <2>3 DEF Closed
  <2>5. <<"methods", Item.of>> \notin flags
    BY DEF Closed, Marks, Parts
  <2> QED BY <1>1, <2>4, <2>5 DEF Facts
<1> QED BY <1>1, <1>3, <1>5, <1>6

\* The work behind the item, alone or below the constructor.
LEMMA StartsReady ==
  ASSUME Inv, ReadyInv, Todo # <<>>, Item.op \in {"start", "modstart"},
         w' = w, kl' = kl, flags' = flags, done' = done, fails' = fails, refused' = refused,
         \/ status' = status /\ Item.op = "modstart"
         \/ status' = [status EXCEPT ![Item.of] = "InitSelf"],
         InvokeCctor(Item.of)
  PROVE  ReadyInv'
<1> DEFINE c == Item.of
           K == Facts(flags, status, kl)
           K2 == Facts(flags', status', kl')
           ds == Replaced(calls, Tail(Todo))
           a == [of |-> c, todo |-> <<>>]
<1>1. HasMethods(kl') /\ fails' \in Nat
  BY DEF ReadyInv
<1>2. SUFFICES ASSUME NoErrors'
               PROVE  /\ Closed(w', calls', flags', done', K2)
                      /\ Served(w', calls', done', status', started')
  BY <1>1 DEF ReadyInv
<1>3. Closed(w, calls, flags, done, K) /\ Served(w, calls, done, status, started)
  BY <1>2 DEF NoErrors, ReadyInv
<1>4. /\ c \in Classes /\ CompleteUp(w, c, done) /\ kl[c].hasMethods = TRUE
      /\ flags = done /\ WaitsWell(Tail(Todo))
  BY <1>3, StartsComplete
<1>5. /\ status \in [Classes -> {"NotInited", "InitSelf"}] /\ started \in [Classes -> Nat]
      /\ Tail(Todo) \in Seq(WorkItems)
  BY Invariants, Current DEF OnceInv
<1>6. /\ \A d \in Classes \ {c} : status'[d] = status[d]
      /\ \A d \in Classes : status[d] # "NotInited" => status'[d] # "NotInited"
      /\ Item.op = "start" => status'[c] # "NotInited"
      /\ status'[c] # status[c] => Item.op = "start" \/ status'[c] = "InitSelf"
  BY <1>4, <1>5
<1>7. K \subseteq K2
  BY <1>6 DEF Facts
<1>8. Gives(w, Item) \subseteq K2
  <2>1. CASE Item.op = "start"
    BY <1>4, <1>6, <2>1, MarkIn DEF Gives
  <2>2. CASE Item.op = "modstart"
    BY <2>2 DEF Gives
  <2> QED BY <2>1, <2>2
<1>9. <<>> \o Tail(Todo) = Tail(Todo)
  BY <1>5
<1>10. Closed(w, ds, flags, done, K2)
  <2> HIDE DEF K, K2, ds
  <2>1. EndOf(Item) = {}
    BY DEF EndOf
  <2>2. Closed(w, Replaced(calls, <<>> \o Tail(Todo)), flags, done, K2)
    BY <1>3, <1>7, <1>8, <2>1, NoneLeft, MovesOn
  <2> QED BY <1>9, <2>2 DEF ds
<1>11. /\ ds \in Seq(Activations) /\ Len(ds) = Len(calls) /\ Len(calls) \in Nat /\ Len(calls) > 0
       /\ DOMAIN ds = DOMAIN calls
       /\ \A k \in DOMAIN calls : ds[k].of = calls[k].of
  <2> DEFINE u == Tail(Todo)
  <2>1. calls \in Seq(Activations) /\ Len(calls) \in Nat /\ Len(calls) > 0
    BY Invariants
  <2>2. u \in Seq(WorkItems)
    BY <1>5
  <2> HIDE DEF u
  <2>3. Replaced(calls, u) \in Seq(Activations)
    BY <2>1, <2>2, TopReplaced
  <2>4. /\ DOMAIN Replaced(calls, u) = DOMAIN calls /\ Len(Replaced(calls, u)) = Len(calls)
        /\ \A k \in DOMAIN calls : Replaced(calls, u)[k].of = calls[k].of
    BY <2>2, ReplacedOf
  <2> QED BY <2>1, <2>3, <2>4 DEF u
<1>13. \/ /\ c \in w.cctor /\ calls' = Append(ds, a) /\ started' = [started EXCEPT ![c] = @ + 1]
       \/ /\ c \notin w.cctor /\ calls' = ds /\ started' = started
  BY <1>4, <1>9 DEF InvokeCctor, Invoke, Continue, Replaced
<1>14. \A d \in Classes : status'[d] # "NotInited" =>
          CompleteUp(w, d, done) /\ (d \in w.cctor => started'[d] > 0)
  <2> SUFFICES ASSUME NEW d \in Classes, status'[d] # "NotInited"
               PROVE  CompleteUp(w, d, done) /\ (d \in w.cctor => started'[d] > 0)
    OBVIOUS
  <2>1. CASE d # c
    <3>1. started'[d] = started[d]
      BY <1>4, <1>5, <1>13, <2>1
    <3> QED BY <1>3, <1>6, <2>1, <3>1 DEF Served
  <2>2. CASE d = c
    <3>1. c \in w.cctor => started'[c] = started[c] + 1 /\ started[c] \in Nat
      BY <1>4, <1>5, <1>13
    <3> QED BY <1>4, <2>2, <3>1
  <2> QED BY <2>1, <2>2
<1>15. \A k \in DOMAIN ds : k > 1 => ds[k].of \in Classes /\ CompleteUp(w, ds[k].of, done)
  BY <1>3, <1>11 DEF Served
<1> HIDE DEF ds, K, K2, c
<1>16. CASE calls' = ds
  <2>1. Served(w, ds, done, status', started')
    BY <1>14, <1>15 DEF Served
  <2> QED BY <1>10, <1>16, <2>1
<1>17. CASE calls' = Append(ds, a)
  <2> DEFINE es == Append(ds, a)
  <2>1. a.todo = <<>> /\ a.of = c
    OBVIOUS
  <2> HIDE DEF a
  <2>2. /\ Len(es) = Len(ds) + 1 /\ es[Len(es)] = a
        /\ \A k \in DOMAIN es : k = Len(es) \/ (k \in DOMAIN ds /\ es[k] = ds[k])
    BY <1>11
  <2> HIDE DEF es
  <2>3. \A k \in DOMAIN es : Ready(w, es[k].todo, K2)
    BY <1>10, <2>1, <2>2, NoneLeft DEF Closed
  <2>4. flags \subseteq done \cup Ends(TodoOf(es))
    BY <1>4
  <2>5. Closed(w, es, flags, done, K2)
    BY <1>10, <2>3, <2>4 DEF Closed
  <2>6. \A k \in DOMAIN es : k > 1 => es[k].of \in Classes /\ CompleteUp(w, es[k].of, done)
    BY <1>4, <1>15, <2>1, <2>2
  <2>7. Served(w, es, done, status', started')
    BY <1>14, <2>6 DEF Served
  <2> QED BY <1>17, <2>5, <2>7 DEF es
<1> QED BY <1>13, <1>16, <1>17

LEMMA StartCctorReady ==
  ASSUME Inv, ReadyInv, StartCctor
  PROVE  ReadyInv'
BY StartsReady DEF StartCctor, Running

LEMMA StartModuleCctorReady ==
  ASSUME Inv, ReadyInv, StartModuleCctor
  PROVE  ReadyInv'
BY StartsReady DEF StartModuleCctor, Running

-----------------------------------------------------------------------------
(* Managed code. *)
LEMMA RequestReady ==
  ASSUME Inv, ReadyInv, NEW s \in Seq(WorkItems), Request(s), \A K : Ready(w, s, K)
  PROVE  ReadyInv'
<1> DEFINE K == Facts(flags, status, kl)
<1>1. /\ TodoOf(calls) = <<>> /\ calls' = Replaced(calls, s)
      /\ w' = w /\ kl' = kl /\ flags' = flags /\ done' = done /\ status' = status /\ started' = started
      /\ fails' = fails /\ refused' = refused
  BY TodoTop DEF Request, history, Replaced
<1>2. HasMethods(kl') /\ fails' \in Nat
  BY <1>1 DEF ReadyInv
<1>3. SUFFICES ASSUME NoErrors
               PROVE  Closed(w, calls', flags, done, K) /\ Served(w, calls', done, status, started)
  BY <1>1, <1>2 DEF ReadyInv, NoErrors
<1>4. Closed(w, calls, flags, done, K) /\ Served(w, calls, done, status, started)
  BY <1>3 DEF ReadyInv
<1> HIDE DEF K
<1>5. \A k \in DOMAIN calls' : Ready(w, calls'[k].todo, K)
  BY <1>1, <1>4, ReplacedOf DEF Closed
<1>6. flags \subseteq done
  BY <1>1, <1>4, NoneLeft DEF Closed
<1>7. Closed(w, calls', flags, done, K)
  BY <1>4, <1>5, <1>6 DEF Closed
<1>8. Served(w, calls', done, status, started)
  BY <1>1, <1>4, ServedStays
<1> QED BY <1>7, <1>8

LEMMA OneReady ==
  ASSUME NEW x \in WorkItems, Wants(w, x) = {}
  PROVE  <<x>> \in Seq(WorkItems) /\ \A K : Ready(w, <<x>>, K)
<1>1. <<x>> \in Seq(WorkItems) /\ DOMAIN <<x>> = {1} /\ <<x>>[1] = x
  BY TwoItems
<1> DEFINE r == <<x>>
<1> HIDE DEF r
<1>2. \A K : Ready(w, r, K)
  BY <1>1 DEF r, Ready
<1> QED BY <1>1, <1>2 DEF r

LEMMA UseReady ==
  ASSUME Inv, ReadyInv, NEW c \in Classes, Use(c)
  PROVE  ReadyInv'
<1> DEFINE x == Work("cctor", c)
<1>1. x \in WorkItems /\ x.op = "cctor"
  BY Asked, Invariants DEF Use
<1>2. Wants(w, x) = {}
  BY <1>1 DEF Wants
<1>3. Request(<<x>>)
  BY DEF Use
<1> HIDE DEF x
<1> QED BY <1>1, <1>2, <1>3, OneReady, RequestReady

LEMMA NewReady ==
  ASSUME Inv, ReadyInv, NEW c \in Classes, New(c)
  PROVE  ReadyInv'
<1> DEFINE x == Work("hierarchy", c)
           y == Work("allocate", c)
<1>1. /\ x \in WorkItems /\ x.op = "hierarchy"
      /\ y \in WorkItems /\ y.op = "allocate"
  BY Asked, Invariants DEF New
<1>2. x.of = c /\ y.of = c
  BY DEF Work, Do
<1>3. Wants(w, x) = {} /\ Wants(w, y) = Gives(w, x)
  BY <1>1, <1>2 DEF Wants, Gives
<1>4. Request(<<x, y>>)
  BY DEF New
<1> HIDE DEF x, y
<1>5. <<x, y>> \in Seq(WorkItems) /\ \A K : Ready(w, <<x, y>>, K)
  BY <1>1, <1>3, TwoItems, TwoReady
<1> QED BY <1>4, <1>5, RequestReady

LEMMA ResolveReady ==
  ASSUME Inv, ReadyInv, NEW c \in Classes, NEW p \in w.asked, Resolve(p, c)
  PROVE  ReadyInv'
<1> DEFINE s == <<Initialize(p, c)>>
<1>1. NativeWork(s)
  BY World, Invariants, NativeCall
<1>2. Request(s)
  BY DEF Resolve
<1> HIDE DEF s
<1>3. s \in Seq(WorkItems) /\ \A K : Ready(w, s, K)
  BY <1>1, NativeRow, NativeReady
<1> QED BY <1>2, <1>3, RequestReady

LEMMA UseModuleReady ==
  ASSUME Inv, ReadyInv, UseModule
  PROVE  ReadyInv'
<1> DEFINE x == Work("module", w.module)
<1>1. x \in WorkItems /\ x.op = "module"
  BY World, Asked, Invariants
<1>2. Wants(w, x) = {}
  BY <1>1 DEF Wants
<1>3. Request(<<x>>)
  BY DEF UseModule
<1> HIDE DEF x
<1> QED BY <1>1, <1>2, <1>3, OneReady, RequestReady

LEMMA ReturnReady ==
  ASSUME Inv, ReadyInv, Return \/ Throw
  PROVE  ReadyInv'
<1> DEFINE ds == SubSeq(calls, 1, Len(calls) - 1)
           K == Facts(flags, status, kl)
<1>1. /\ Len(calls) > 1 /\ TodoOf(calls) = <<>>
      /\ w' = w /\ kl' = kl /\ flags' = flags /\ done' = done /\ status' = status /\ started' = started
      /\ fails' = fails /\ refused' = refused
  BY TodoTop DEF Return, Throw, history
<1>2. HasMethods(kl') /\ fails' \in Nat
  BY <1>1 DEF ReadyInv
<1>3. SUFFICES ASSUME NoErrors
               PROVE  Closed(w, calls', flags, done, K) /\ Served(w, calls', done, status, started)
  BY <1>1, <1>2 DEF ReadyInv, NoErrors
<1>4. Closed(w, calls, flags, done, K) /\ Served(w, calls, done, status, started)
  BY <1>3 DEF ReadyInv
<1>5. /\ ds \in Seq(Activations) /\ Len(ds) = Len(calls) - 1 /\ Len(ds) > 0
      /\ \A k \in DOMAIN ds : k \in DOMAIN calls /\ ds[k] = calls[k]
  BY <1>1, Invariants, Popped
<1>6. calls' = ds \/ calls' = Replaced(ds, <<>>)
  BY <1>5 DEF Return, Throw, Replaced
<1> HIDE DEF ds, K
<1>7. /\ DOMAIN calls' = DOMAIN ds
      /\ \A k \in DOMAIN ds : /\ calls'[k].of = ds[k].of
                              /\ calls'[k].todo = <<>> \/ calls'[k].todo = ds[k].todo
  <2>1. CASE calls' = ds
    BY <2>1
  <2>2. CASE calls' = Replaced(ds, <<>>)
    <3>1. /\ DOMAIN Replaced(ds, <<>>) = DOMAIN ds /\ TodoOf(Replaced(ds, <<>>)) = <<>>
          /\ Len(Replaced(ds, <<>>)) = Len(ds)
          /\ \A k \in DOMAIN ds : k # Len(ds) => Replaced(ds, <<>>)[k] = ds[k]
      BY <1>5, EmptyTodo, TopReplaced
    <3>2. ds[Len(ds)] \in Activations /\ Len(ds) \in DOMAIN ds
      BY <1>5
    <3>3. Replaced(ds, <<>>)[Len(ds)] = [ds[Len(ds)] EXCEPT !.todo = <<>>]
      BY <1>5, <3>2 DEF Replaced
    <3>4. Replaced(ds, <<>>)[Len(ds)].of = ds[Len(ds)].of /\ Replaced(ds, <<>>)[Len(ds)].todo = <<>>
      BY <3>2, <3>3 DEF Activations
    <3> QED BY <2>2, <3>1, <3>4
  <2> QED BY <1>6, <2>1, <2>2
<1>8. \A k \in DOMAIN calls' : Ready(w, calls'[k].todo, K)
  BY <1>4, <1>5, <1>7, NoneLeft DEF Closed
<1>9. flags \subseteq done
  BY <1>1, <1>4, NoneLeft DEF Closed
<1>10. Closed(w, calls', flags, done, K)
  BY <1>4, <1>8, <1>9 DEF Closed
<1>11. Served(w, calls', done, status, started)
  BY <1>4, <1>5, <1>7 DEF Served
<1> QED BY <1>10, <1>11

-----------------------------------------------------------------------------
LEMMA InitReady == Init => ReadyInv
<1> SUFFICES ASSUME Init PROVE ReadyInv
  OBVIOUS
<1> DEFINE a == [of |-> NoClass, todo |-> <<>>]
           K == Facts(flags, status, kl)
<1>1. /\ calls = <<a>> /\ flags = {} /\ done = {} /\ fails = 0
      /\ kl = [c \in Classes |-> BlankClass]
      /\ status = [c \in Classes |-> "NotInited"]
  BY DEF Init
<1>2. "hasMethods" \in DOMAIN BlankClass
  BY DEF BlankClass
<1>3. HasMethods(kl) /\ fails \in Nat
  BY <1>1, <1>2 DEF HasMethods
<1>4. a.todo = <<>>
  OBVIOUS
<1> HIDE DEF a, K
<1>5. DOMAIN calls = {1} /\ calls[1] = a
  BY <1>1
<1>6. Closed(w, calls, flags, done, K)
  BY <1>1, <1>4, <1>5, NoneLeft DEF Closed
<1>7. Served(w, calls, done, status, started)
  BY <1>1, <1>5 DEF Served
<1> QED BY <1>3, <1>6, <1>7 DEF ReadyInv, K

LEMMA NextReady == Inv /\ ReadyInv /\ [Next]_vars => ReadyInv'
<1> SUFFICES ASSUME Inv, ReadyInv, [Next]_vars PROVE ReadyInv'
  OBVIOUS
<1>1. CASE Native
  BY <1>1, EnterPartReady, EndPartReady, DoWorkReady, FailureReady, InstanceFieldReady,
     StaticFieldReady, InterfaceTablesReady, RunCctorReady, RunModuleCctorReady,
     StartModuleCctorReady, StartCctorReady, RunHierarchyReady, AllocateReady DEF Native
<1>2. CASE Managed
  BY <1>2, UseReady, NewReady, ResolveReady, UseModuleReady, ReturnReady DEF Managed
<1>3. CASE UNCHANGED vars
  BY <1>3 DEF vars, ReadyInv, NoErrors
<1> QED BY <1>1, <1>2, <1>3 DEF Next

LEMMA ReadyAlways == Spec => [](Inv /\ ReadyInv)
BY InitInv, NextInv, InitReady, NextReady, PTL DEF Spec

(* Whatever classes are asked for first and however their initialization comes back to them: when *)
(* managed code runs and nothing failed, what initialize_<part> has finished rests on finished     *)
(* parts only, up the hierarchy and through interfaces, value fields and signatures.               *)
THEOREM DoneRestsOnDone == Spec => []DoneIsClosed
<1>1. Inv /\ ReadyInv => DoneIsClosed
  <2> SUFFICES ASSUME Inv, ReadyInv, Quiet, NoErrors, NEW d \in done, d[1] \in Parts
               PROVE  Needs(d[1], d[2]) \subseteq done
    BY DEF DoneIsClosed
  <2> DEFINE p == d[1]
             c == d[2]
             K == Facts(flags, status, kl)
  <2>1. Closed(w, calls, flags, done, K) /\ w \in Worlds
    BY Invariants DEF ReadyInv
  <2>2. Saturated(done) /\ flags = done
    BY <2>1, NoneLeft, Quieted, TodoTop DEF Quiet
  <2>3. d = <<p, c>> /\ c \in Classes /\ p \in Parts
    BY <2>1 DEF Closed, Marks
  <2> HIDE DEF K, p, c
  <2>4. {p} \X AncestorsOf(c) \subseteq done
    BY <2>1, <2>2, <2>3, AboveDone, AboveIs
  <2>5. ASSUME p = "Field" PROVE {<<"Field", t>> : t \in ValuesOf(w.fields[c])} \subseteq done
    <3> SUFFICES ASSUME NEW t \in ValuesOf(w.fields[c]) PROVE <<"Field", t>> \in done
      OBVIOUS
    <3>1. <<"Field", t>> \in Rests(w, p, c)
      BY <2>5 DEF Rests
    <3>2. t \in Classes
      BY <2>1, <2>3, World DEF ValuesOf
    <3> QED BY <2>2, <2>3, <2>5, <3>1, <3>2 DEF Saturated
  <2>6. ASSUME p = "Method" PROVE {<<"Field", w.sigs[c][i]>> : i \in DOMAIN w.sigs[c]} \subseteq done
    <3> SUFFICES ASSUME NEW i \in DOMAIN w.sigs[c] PROVE <<"Field", w.sigs[c][i]>> \in done
      OBVIOUS
    <3>1. <<"Field", w.sigs[c][i]>> \in Rests(w, p, c)
      BY <2>6 DEF Rests
    <3>2. w.sigs[c][i] \in Classes
      BY <2>1, <2>3, World
    <3>3. "Field" \in Parts
      BY DEF Parts
    <3> QED BY <2>2, <2>3, <3>1, <3>2, <3>3 DEF Saturated
  <2>7. ASSUME p = "Property" PROVE <<"Method", c>> \in done
    <3>1. <<"Method", c>> \in Rests(w, p, c) /\ "Method" \in Parts
      BY <2>7 DEF Rests, Parts
    <3> QED BY <2>2, <2>3, <3>1 DEF Saturated
  <2>8. p = "Interfaces" => Parts \X InterfacesOf(c) \subseteq done
    BY <2>1, <2>2, <2>3, ListedDone, AboveIs
  <2>9. ASSUME p = "VTable"
        PROVE  /\ {<<"VTable", i>> : i \in InterfacesOf(c)} \subseteq done
               /\ {<<q, c>> : q \in {"SuperTypes", "Interfaces", "Method"}} \subseteq done
    <3>1. \A q \in {"SuperTypes", "Interfaces", "Method"} : <<q, c>> \in Rests(w, p, c) /\ q \in Parts
      BY <2>9 DEF Rests, Parts
    <3>2. \A q \in {"SuperTypes", "Interfaces", "Method"} : <<q, c>> \in done
      BY <2>2, <2>3, <3>1 DEF Saturated
    <3>3. Parts \X InterfacesOf(c) \subseteq done
      BY <2>1, <2>2, <2>3, <3>2, ListedDone, AboveIs
    <3>4. "VTable" \in Parts
      BY DEF Parts
    <3> QED BY <3>2, <3>3, <3>4
  <2>10. {<<p, a>> : a \in AncestorsOf(c) \ {c}} \subseteq done
    BY <2>4
  <2>11. Needs(p, c) \subseteq done
    BY <2>5, <2>6, <2>7, <2>8, <2>9, <2>10 DEF Needs
  <2> QED BY <2>11 DEF p, c
<1> QED BY <1>1, ReadyAlways, PTL

(* As long as nothing failed, a static constructor runs only when every part of its class, of the *)
(* ancestors and of the listed interfaces is there.                                               *)
THEOREM ConstructorsFindClasses == Spec => []CctorReady
<1>1. Inv /\ ReadyInv => CctorReady
  <2> SUFFICES ASSUME Inv, ReadyInv, NEW k \in 2..Len(calls), NoErrors
               PROVE  Parts \X (AncestorsOf(calls[k].of) \cup InterfacesOf(calls[k].of)) \subseteq done
    BY DEF CctorReady
  <2>1. Served(w, calls, done, status, started) /\ w \in Worlds
    BY Invariants DEF ReadyInv
  <2>2. k \in DOMAIN calls /\ k > 1
    BY Invariants
  <2>3. calls[k].of \in Classes /\ CompleteUp(w, calls[k].of, done)
    BY <2>1, <2>2 DEF Served
  <2> QED BY <2>1, <2>3, AboveIs DEF CompleteUp
<1> QED BY <1>1, ReadyAlways, PTL

(* As long as nothing failed, an object is allocated after the static constructors of its class   *)
(* and of all its ancestors have started, and with the layout of its class.                       *)
THEOREM AllocationFindsClass == Spec => []AllocationReady
<1>1. Inv /\ ReadyInv => AllocationReady
  <2> SUFFICES ASSUME Inv, ReadyInv, Running("allocate"), NoErrors
               PROVE  /\ \A a \in AncestorsOf(Item.of) \cap w.cctor : started[a] > 0
                      /\ <<"Field", Item.of>> \in done
    BY DEF AllocationReady
  <2> DEFINE c == Item.of
             K == Facts(flags, status, kl)
  <2>1. /\ Closed(w, calls, flags, done, K) /\ Served(w, calls, done, status, started)
        /\ w \in Worlds /\ c \in Classes /\ Todo # <<>> /\ Item.op = "allocate"
    BY Invariants, ItemTyped DEF ReadyInv, Running
  <2>2. Above(w, c) = AncestorsOf(c) /\ Above(w, c) \subseteq Classes /\ c \in Above(w, c)
    BY <2>1, AboveIs
  <2>3. \A a \in Above(w, c) : <<"start", a>> \in K
    <3>1. Wants(w, Item) = {"start"} \X Above(w, c)
      BY <2>1 DEF Wants
    <3> HIDE DEF K
    <3>2. Wants(w, Item) \subseteq K
      BY <2>1, Current, TopReady, ReadyTail
    <3> QED BY <3>1, <3>2
  <2>4. \A a \in Above(w, c) : <<"start", a>> \notin flags
    BY <2>1 DEF Closed, Marks, Parts
  <2>5. \A a \in Above(w, c) : status[a] # "NotInited"
    BY <2>2, <2>3, <2>4 DEF Facts
  <2>6. \A a \in Above(w, c) \cap w.cctor : started[a] > 0
    BY <2>1, <2>2, <2>5 DEF Served
  <2>7. CompleteUp(w, c, done)
    BY <2>1, <2>2, <2>5 DEF Served
  <2>8. <<"Field", c>> \in done
    BY <2>2, <2>7 DEF CompleteUp, Parts
  <2> QED BY <2>2, <2>6, <2>8
<1> QED BY <1>1, ReadyAlways, PTL

(***************************************************************************)
(* Loops over the fields.  Each is a recursive function on 0..n: it exists, *)
(* so it satisfies its equation, and what holds after no round and after a  *)
(* round when it held before it holds at the end.                          *)
(***************************************************************************)
LEMMA Induct ==
  ASSUME NEW n \in Nat, NEW S, 0 \in S, \A i \in 0..(n - 1) : i \in S => i + 1 \in S
  PROVE  0..n \subseteq S
<1> DEFINE T == (0..n) \ S
<1>1. ASSUME T # {} PROVE FALSE
  <2>1. IsWellFoundedOn(OpToRel(<, Nat), Nat)
    BY NatLessThanWellFounded
  <2>2. T \subseteq Nat
    OBVIOUS
  <2> HIDE DEF T
  <2>3. PICK m \in T : \A s \in T : ~ (<<s, m>> \in OpToRel(<, Nat))
    BY <1>1, <2>1, <2>2, WFMin
  <2>4. \A s \in T : ~ (s < m)
    BY <2>2, <2>3 DEF OpToRel
  <2> USE DEF T
  <2>5. m \in Nat /\ m # 0 /\ m <= n
    OBVIOUS
  <2>6. m - 1 \in 0..(n - 1) /\ m - 1 \notin T /\ m - 1 \in 0..n
    BY <2>4, <2>5
  <2> QED BY <2>6
<1> QED BY <1>1

Rounds(n, T) == [(1..n) \X T -> T]
Loops(n, T, e, step) == {f \in [0..n -> T] : f[0] = e /\ \A i \in 1..n : f[i] = step[<<i, f[i - 1]>>]}

LEMMA Recursion ==
  ASSUME NEW n \in Nat, NEW T, NEW e \in T, NEW step \in Rounds(n, T)
  PROVE  Loops(n, T, e, step) # {}
<1> USE DEF Rounds
<1> DEFINE Upto(m, f) == f \in [0..m -> T] /\ f[0] = e /\ \A i \in 1..m : f[i] = step[<<i, f[i - 1]>>]
           S == {m \in 0..n : \E f : Upto(m, f)}
<1>1. 0 \in S
  <2>1. Upto(0, [i \in 0..0 |-> e])
    OBVIOUS
  <2>2. 0 \in 0..n
    OBVIOUS
  <2> QED BY <2>1, <2>2
<1>2. ASSUME NEW m \in 0..(n - 1), m \in S PROVE m + 1 \in S
  <2>1. PICK f : Upto(m, f)
    BY <1>2
  <2> DEFINE v == step[<<m + 1, f[m]>>]
             g == [i \in 0..(m + 1) |-> IF i = m + 1 THEN v ELSE f[i]]
  <2>2. m \in Nat /\ m + 1 \in 1..n /\ m + 1 \in 0..n
    OBVIOUS
  <2>3. f \in [0..m -> T] /\ f[m] \in T /\ v \in T
    BY <2>1, <2>2
  <2>4. g \in [0..(m + 1) -> T] /\ g[m + 1] = v /\ \A i \in 0..m : g[i] = f[i]
    BY <2>2, <2>3
  <2>5. \A i \in 1..m : f[i] = step[<<i, f[i - 1]>>]
    BY <2>1
  <2> HIDE DEF g
  <2>6. ASSUME NEW i \in 1..(m + 1) PROVE g[i] = step[<<i, g[i - 1]>>]
    <3>1. CASE i = m + 1
      BY <2>2, <2>4, <3>1
    <3>2. CASE i # m + 1
      <4>1. i \in 1..m /\ i - 1 \in 0..m /\ i \in 0..m
        BY <2>2, <3>2
      <4> QED BY <2>4, <2>5, <4>1
    <3> QED BY <3>1, <3>2
  <2>7. g[0] = e
    BY <2>1, <2>2, <2>4
  <2>8. Upto(m + 1, g)
    BY <2>4, <2>6, <2>7
  <2> QED BY <2>2, <2>8
<1> HIDE DEF S
<1>3. n \in S
  BY <1>1, <1>2, Induct
<1> QED BY <1>3 DEF S, Loops

\* FieldsOf: the fields of one kind, in their order.
LEMMA FieldsAre ==
  ASSUME NEW D, NEW fs \in Seq(D), NEW static \in BOOLEAN
  PROVE  /\ FieldsOf(fs, static) \in Seq(D)
         /\ \A i \in DOMAIN FieldsOf(fs, static) :
              \E j \in DOMAIN fs : fs[j].static = static /\ FieldsOf(fs, static)[i] = fs[j]
         /\ \A j \in DOMAIN fs : fs[j].static = static =>
              \E i \in DOMAIN FieldsOf(fs, static) : FieldsOf(fs, static)[i] = fs[j]
<1> DEFINE L == Len(fs)
           Rule(k) == [n \in 0..L |-> IF n = 0 THEN <<>>
                                      ELSE IF fs[n].static = static THEN Append(k[n - 1], fs[n]) ELSE k[n - 1]]
           kept == CHOOSE k : k = Rule(k)
           step == [p \in (1..L) \X Seq(D) |-> IF fs[p[1]].static = static THEN Append(p[2], fs[p[1]]) ELSE p[2]]
<1>1. L \in Nat /\ DOMAIN fs = 1..L /\ \A i \in 1..L : fs[i] \in D
  OBVIOUS
<1>2. FieldsOf(fs, static) = kept[L]
  BY DEF FieldsOf
<1>3. step \in [(1..L) \X Seq(D) -> Seq(D)]
  BY <1>1
<1>4. \A i \in 1..L, s \in Seq(D) :
        step[<<i, s>>] = IF fs[i].static = static THEN Append(s, fs[i]) ELSE s
  OBVIOUS
<1>5. <<>> \in Seq(D)
  OBVIOUS
<1>0. L \in Nat
  OBVIOUS
<1> HIDE DEF step, L, Rule, kept
<1>6. PICK f \in [0..L -> Seq(D)] : f[0] = <<>> /\ \A i \in 1..L : f[i] = step[<<i, f[i - 1]>>]
  <2>1. step \in Rounds(L, Seq(D))
    BY <1>3 DEF Rounds
  <2>2. Loops(L, Seq(D), <<>>, step) # {}
    BY <1>0, <1>5, <2>1, Recursion
  <2> QED BY <2>2 DEF Loops
<1> USE DEF Rule, kept
<1>7. f = Rule(f)
  <2>1. ASSUME NEW i \in 0..L PROVE f[i] = Rule(f)[i]
    <3>1. CASE i = 0
      BY <1>6, <3>1
    <3>2. CASE i # 0
      <4>1. i \in 1..L /\ i - 1 \in 0..L
        BY <1>1, <3>2
      <4>2. f[i - 1] \in Seq(D)
        BY <4>1
      <4> QED BY <1>4, <1>6, <3>2, <4>1, <4>2
    <3> QED BY <3>1, <3>2
  <2>2. f = [n \in 0..L |-> f[n]]
    BY <1>6
  <2>3. f = [n \in 0..L |-> Rule(f)[n]]
    BY <2>1, <2>2
  <2> QED BY <2>3
<1>8. kept = Rule(kept)
  BY <1>7
<1> HIDE DEF kept
<1>9. /\ kept[0] = <<>>
      /\ \A n \in 1..L : kept[n] = IF fs[n].static = static THEN Append(kept[n - 1], fs[n]) ELSE kept[n - 1]
  <2>1. 0 \in 0..L /\ \A n \in 1..L : n \in 0..L /\ n # 0
    BY <1>0
  <2>2. \A n \in 0..L : kept[n] = Rule(kept)[n]
    BY <1>8
  <2> QED BY <2>1, <2>2
<1> DEFINE From(t) == /\ t \in Seq(D)
                      /\ \A i \in DOMAIN t : \E j \in 1..L : fs[j].static = static /\ t[i] = fs[j]
           Has(n, t) == \A j \in 1..n : fs[j].static = static => \E i \in DOMAIN t : t[i] = fs[j]
           S == {n \in 0..L : From(kept[n]) /\ Has(n, kept[n])}
<1>10. 0 \in S
  <2>1. 0 \in 0..L /\ From(<<>>) /\ Has(0, <<>>)
    BY <1>0
  <2>2. kept[0] = <<>>
    BY <1>9
  <2> HIDE DEF From, Has
  <2> QED BY <2>1, <2>2
<1>11. ASSUME NEW n \in 0..(L - 1), n \in S PROVE n + 1 \in S
  <2>1. n + 1 \in 1..L /\ n + 1 \in 0..L /\ n \in Nat /\ From(kept[n]) /\ Has(n, kept[n]) /\ fs[n + 1] \in D
    BY <1>1, <1>11
  <2>2. kept[n + 1] = IF fs[n + 1].static = static THEN Append(kept[n], fs[n + 1]) ELSE kept[n]
    BY <1>9, <2>1
  <2>3. CASE fs[n + 1].static = static
    <3> DEFINE s == kept[n]
               t == Append(s, fs[n + 1])
    <3>1. s \in Seq(D) /\ kept[n + 1] = t
      BY <2>1, <2>2, <2>3
    <3>2. /\ t \in Seq(D) /\ \A i \in DOMAIN t : (i \in DOMAIN s /\ t[i] = s[i]) \/ t[i] = fs[n + 1]
          /\ \A i \in DOMAIN s : i \in DOMAIN t /\ t[i] = s[i]
          /\ \E i \in DOMAIN t : t[i] = fs[n + 1]
      <4> HIDE DEF s
      <4>1. Len(s) + 1 \in DOMAIN t /\ t[Len(s) + 1] = fs[n + 1]
        BY <2>1, <3>1
      <4>2. fs[n + 1] \in D
        BY <2>1
      <4> QED BY <3>1, <4>1, <4>2, SMTT(30)
    <3>3. \A i \in DOMAIN s : \E j \in 1..L : fs[j].static = static /\ s[i] = fs[j]
      BY <2>1
    <3>4. From(t)
      <4> HIDE DEF s, t
      <4>1. n + 1 \in 1..L /\ fs[n + 1].static = static
        BY <2>1, <2>3
      <4>2. ASSUME NEW i \in DOMAIN t
            PROVE  \E j \in 1..L : fs[j].static = static /\ t[i] = fs[j]
        <5>1. CASE i \in DOMAIN s /\ t[i] = s[i]
          BY <3>3, <5>1
        <5>2. CASE t[i] = fs[n + 1]
          BY <4>1, <5>2
        <5> QED BY <3>2, <5>1, <5>2
      <4> QED BY <3>2, <4>2
    <3>5. Has(n + 1, t)
      <4>1. \A j \in 1..n : fs[j].static = static => \E i \in DOMAIN s : s[i] = fs[j]
        BY <2>1
      <4>2. \A j \in 1..(n + 1) : j \in 1..n \/ j = n + 1
        BY <2>1
      <4> HIDE DEF s, t
      <4> QED BY <3>2, <4>1, <4>2
    <3> HIDE DEF From, Has
    <3> QED BY <2>1, <3>1, <3>4, <3>5
  <2>4. CASE fs[n + 1].static # static
    <3>1. \A j \in 1..(n + 1) : j \in 1..n \/ j = n + 1
      BY <2>1
    <3>2. Has(n + 1, kept[n])
      BY <2>1, <2>4, <3>1
    <3> QED BY <2>1, <2>2, <2>4, <3>2
  <2> QED BY <2>3, <2>4
<1> HIDE DEF S, Rule
<1>12. L \in S
  <2>1. 0..L \subseteq S
    BY ONLY <1>0, <1>10, <1>11, Induct
  <2> QED BY <1>0, <2>1
<1> USE DEF S
<1>13. From(kept[L]) /\ Has(L, kept[L])
  BY <1>12
<1>14. FieldsOf(fs, static) \in Seq(D)
  BY <1>2, <1>13
<1>15. \A i \in DOMAIN kept[L] : \E j \in DOMAIN fs : fs[j].static = static /\ kept[L][i] = fs[j]
  BY <1>1, <1>13
<1>16. \A j \in DOMAIN fs : fs[j].static = static => \E i \in DOMAIN kept[L] : kept[L][i] = fs[j]
  BY <1>1, <1>13
<1> HIDE DEF From, Has, S
<1> QED BY <1>2, <1>14, <1>15, <1>16

LEMMA InstanceAre ==
  ASSUME NEW D, NEW fs \in Seq(D)
  PROVE  /\ InstanceFields(fs) \in Seq(D)
         /\ \A i \in DOMAIN InstanceFields(fs) :
              \E j \in DOMAIN fs : fs[j].static = FALSE /\ InstanceFields(fs)[i] = fs[j]
         /\ \A j \in DOMAIN fs : fs[j].static = FALSE =>
              \E i \in DOMAIN InstanceFields(fs) : InstanceFields(fs)[i] = fs[j]
<1>1. PICK b \in BOOLEAN : b = FALSE
  OBVIOUS
<1>2. InstanceFields(fs) = FieldsOf(fs, b)
  BY <1>1 DEF InstanceFields
<1>3. /\ FieldsOf(fs, b) \in Seq(D)
      /\ \A i \in DOMAIN FieldsOf(fs, b) : \E j \in DOMAIN fs : fs[j].static = b /\ FieldsOf(fs, b)[i] = fs[j]
      /\ \A j \in DOMAIN fs : fs[j].static = b => \E i \in DOMAIN FieldsOf(fs, b) : FieldsOf(fs, b)[i] = fs[j]
  BY FieldsAre
<1>4. \A j : fs[j].static = b <=> fs[j].static = FALSE
  BY <1>1, Zenon
<1>5. ASSUME NEW i \in DOMAIN InstanceFields(fs)
      PROVE  \E j \in DOMAIN fs : fs[j].static = FALSE /\ InstanceFields(fs)[i] = fs[j]
  <2>1. PICK j \in DOMAIN fs : fs[j].static = b /\ FieldsOf(fs, b)[i] = fs[j]
    BY <1>2, <1>3
  <2>2. fs[j].static = FALSE
    BY <1>4, <2>1, Zenon
  <2> QED BY <1>2, <2>1, <2>2, Zenon
<1>6. ASSUME NEW j \in DOMAIN fs, fs[j].static = FALSE
      PROVE  \E i \in DOMAIN InstanceFields(fs) : InstanceFields(fs)[i] = fs[j]
  <2>1. fs[j].static = b
    BY <1>4, <1>6, Zenon
  <2> QED BY <1>2, <1>3, <2>1
<1>7. InstanceFields(fs) \in Seq(D)
  BY <1>2, <1>3
<1> QED BY <1>5, <1>6, <1>7, Zenon

(***************************************************************************)
(* The arithmetic of a layout.                                             *)
(***************************************************************************)
Aligns   == {1, 2, 4, 8}
Packings == {0, 1, 2, 4, 8, 16, 32, 64, 128}

LEMMA MinTwo == ASSUME NEW a \in Nat, NEW b \in Nat PROVE Min({a, b}) = IF a <= b THEN a ELSE b
BY DEF Min

LEMMA MaxTwo == ASSUME NEW a \in Nat, NEW b \in Nat PROVE Max({a, b}) = IF a <= b THEN b ELSE a
BY DEF Max

LEMMA MaxThree ==
  ASSUME NEW a \in Nat, NEW b \in Nat, NEW c \in Nat
  PROVE  Max({a, b, c}) \in Nat /\ a <= Max({a, b, c}) /\ c <= Max({a, b, c})
<1>1. \E m \in {a, b, c} : \A x \in {a, b, c} : m >= x
  <2>1. CASE a >= b /\ a >= c
    BY <2>1
  <2>2. CASE b >= a /\ b >= c
    BY <2>2
  <2>3. CASE c >= a /\ c >= b
    BY <2>3
  <2> QED BY <2>1, <2>2, <2>3
<1> QED BY <1>1 DEF Max

LEMMA AlignUpIs ==
  ASSUME NEW v \in Nat, NEW a \in Aligns
  PROVE  /\ AlignUp(v, a) \in Nat /\ v <= AlignUp(v, a)
         /\ a >= PtrSize => AlignUp(v, a) % PtrSize = 0
<1>1. CASE a = 1
  BY <1>1, PtrSizeAssumption DEF AlignUp
<1>2. CASE a = 2
  BY <1>2, PtrSizeAssumption DEF AlignUp
<1>3. CASE a = 4
  BY <1>3, PtrSizeAssumption DEF AlignUp
<1>4. CASE a = 8
  BY <1>4, PtrSizeAssumption DEF AlignUp
<1> QED BY <1>1, <1>2, <1>3, <1>4 DEF Aligns

LEMMA AlignUpZero == ASSUME NEW v \in Nat PROVE AlignUp(v, 0) = 0
BY DEF AlignUp

\* A field whose type has been laid out, or not yet (its alignment is 0).
Sized(k, f) == FieldSize(k, f).size \in Nat /\ FieldSize(k, f).align \in Aligns \cup {0}
Solid(k, f) == FieldSize(k, f).size \in Nat /\ FieldSize(k, f).align \in Aligns

LEMMA EffectiveIs ==
  ASSUME NEW k, NEW f, NEW packing \in Packings, Sized(k, f)
  PROVE  /\ EffectiveAlign(k, f, packing) \in Aligns \cup {0}
         /\ Solid(k, f) => EffectiveAlign(k, f, packing) \in Aligns
         /\ packing = 0 => EffectiveAlign(k, f, packing) = FieldSize(k, f).align
<1> DEFINE a == FieldSize(k, f).align
<1>1. a \in Nat /\ packing \in Nat /\ a \in Aligns \cup {0} /\ (Solid(k, f) => a \in Aligns)
  BY DEF Sized, Solid, Aligns, Packings
<1>2. EffectiveAlign(k, f, packing) = IF packing = 0 THEN a ELSE Min({a, packing})
  BY DEF EffectiveAlign
<1> HIDE DEF a
<1>3. EffectiveAlign(k, f, packing) = IF packing = 0 \/ a <= packing THEN a ELSE packing
  BY <1>1, <1>2, MinTwo
<1>4. packing # 0 /\ a > packing => packing \in {1, 2, 4}
  BY <1>1 DEF Packings, Aligns
<1> QED BY <1>1, <1>3, <1>4 DEF Aligns, a

Accs == [size : Nat, align : Aligns, offs : Seq(Nat)]

LEMMA EmptyAcc == Empty \in Accs
BY DEF Empty, Accs, Aligns

LEMMA AlignUpTyped ==
  ASSUME NEW v \in Nat, NEW a \in Aligns \cup {0}
  PROVE  AlignUp(v, a) \in Nat
BY AlignUpIs, AlignUpZero

LEMMA PlaceIs ==
  ASSUME NEW k, NEW f, NEW packing \in Packings, Sized(k, f), NEW acc \in Accs
  PROVE  LET e == EffectiveAlign(k, f, packing)
             o == AlignUp(acc.size, e)
             l == Place(k, packing, acc, f)
         IN  /\ l \in Accs /\ o \in Nat
             /\ l.offs = Append(acc.offs, o) /\ l.size = o + FieldSize(k, f).size
             /\ acc.align <= l.align /\ e <= l.align
<1> DEFINE e == EffectiveAlign(k, f, packing)
           o == AlignUp(acc.size, e)
           l == Place(k, packing, acc, f)
<1>1. acc.size \in Nat /\ acc.align \in Aligns /\ acc.offs \in Seq(Nat) /\ acc.align \in Nat
  BY DEF Accs, Aligns
<1>2. e \in Aligns \cup {0} /\ e \in Nat
  BY EffectiveIs DEF Aligns
<1>3. o \in Nat
  BY <1>1, <1>2, AlignUpTyped
<1>4. l = [size |-> o + FieldSize(k, f).size, align |-> Max({acc.align, e}), offs |-> Append(acc.offs, o)]
  BY DEF Place
<1> HIDE DEF e, o, l
<1>5. Max({acc.align, e}) = IF acc.align <= e THEN e ELSE acc.align
  BY <1>1, <1>2, MaxTwo
<1>6. Max({acc.align, e}) \in Aligns /\ acc.align <= Max({acc.align, e}) /\ e <= Max({acc.align, e})
  BY <1>1, <1>2, <1>5 DEF Aligns
<1>7. Append(acc.offs, o) \in Seq(Nat) /\ o + FieldSize(k, f).size \in Nat
  BY <1>1, <1>3 DEF Sized
<1>8. l.offs = Append(acc.offs, o) /\ l.size = o + FieldSize(k, f).size /\ l.align = Max({acc.align, e})
  BY <1>4
<1>9. l \in Accs
  BY <1>4, <1>6, <1>7 DEF Accs
<1>10. l \in Accs /\ o \in Nat /\ l.offs = Append(acc.offs, o) /\ l.size = o + FieldSize(k, f).size
       /\ acc.align <= l.align /\ e <= l.align
  BY <1>3, <1>6, <1>8, <1>9
<1> QED BY <1>10 DEF e, o, l

LEMMA PlaceExplicitIs ==
  ASSUME NEW k, NEW f, NEW packing \in Packings, Sized(k, f), NEW acc \in Accs, f.at \in Nat
  PROVE  LET e == EffectiveAlign(k, f, packing)
             l == PlaceExplicit(k, packing, acc, f)
         IN  /\ l \in Accs
             /\ l.offs = Append(acc.offs, f.at) /\ acc.size <= l.size
             /\ f.at + FieldSize(k, f).size <= l.size
             /\ acc.align <= l.align /\ e <= l.align
<1> DEFINE e == EffectiveAlign(k, f, packing)
           z == f.at + FieldSize(k, f).size
           l == PlaceExplicit(k, packing, acc, f)
<1>1. /\ acc.size \in Nat /\ acc.align \in Aligns /\ acc.offs \in Seq(Nat) /\ acc.align \in Nat
      /\ z \in Nat
  BY DEF Accs, Aligns, Sized
<1>2. e \in Aligns \cup {0} /\ e \in Nat
  BY EffectiveIs DEF Aligns
<1>4. l = [size |-> Max({acc.size, z}), align |-> Max({acc.align, e}), offs |-> Append(acc.offs, f.at)]
  BY DEF PlaceExplicit
<1> HIDE DEF e, z, l
<1>5. /\ Max({acc.align, e}) = IF acc.align <= e THEN e ELSE acc.align
      /\ Max({acc.size, z}) = IF acc.size <= z THEN z ELSE acc.size
  BY <1>1, <1>2, MaxTwo
<1>6. Max({acc.align, e}) \in Aligns /\ acc.align <= Max({acc.align, e}) /\ e <= Max({acc.align, e})
  BY <1>1, <1>2, <1>5 DEF Aligns
<1>7. Append(acc.offs, f.at) \in Seq(Nat)
  BY <1>1
<1>8. l.offs = Append(acc.offs, f.at) /\ l.size = Max({acc.size, z}) /\ l.align = Max({acc.align, e})
  BY <1>4
<1>9. l \in Accs
  BY <1>1, <1>4, <1>5, <1>6, <1>7 DEF Accs
<1>10. l \in Accs /\ l.offs = Append(acc.offs, f.at) /\ acc.size <= l.size /\ z <= l.size
       /\ acc.align <= l.align /\ e <= l.align
  BY <1>1, <1>5, <1>6, <1>8, <1>9
<1> QED BY <1>10 DEF e, z, l

\* Every field at the first place behind the field before it that suits its alignment.
Packed(k, fs, packing, offs) ==
    /\ Len(offs) = Len(fs)
    /\ \A i \in DOMAIN fs :
         offs[i] = AlignUp(IF i = 1 THEN 0 ELSE offs[i - 1] + FieldSize(k, fs[i - 1]).size,
                           EffectiveAlign(k, fs[i], packing))

\* What the loop of ComputeLayout has after each round.
LayoutRounds(k, fs, packing) ==
    {after \in [0..Len(fs) -> Accs] :
        /\ ComputeLayout(k, fs, packing) = Padded(after[Len(fs)])
        /\ after[0] = Empty
        /\ \A i \in 1..Len(fs) : after[i] = Place(k, packing, after[i - 1], fs[i])}

LEMMA LayoutRuns ==
  ASSUME NEW k, NEW D, NEW fs \in Seq(D), NEW packing \in Packings, \A i \in DOMAIN fs : Sized(k, fs[i])
  PROVE  LayoutRounds(k, fs, packing) # {}
<1> DEFINE L == Len(fs)
           Rule(g) == [n \in 0..L |-> IF n = 0 THEN Empty ELSE Place(k, packing, g[n - 1], fs[n])]
           after == CHOOSE g : g = Rule(g)
           step == [p \in (1..L) \X Accs |-> Place(k, packing, p[2], fs[p[1]])]
<1>0. L \in Nat /\ DOMAIN fs = 1..L
  OBVIOUS
<1>1. ComputeLayout(k, fs, packing) = Padded(after[L])
  BY DEF ComputeLayout
<1>2. ASSUME NEW i \in 1..L, NEW acc \in Accs PROVE Place(k, packing, acc, fs[i]) \in Accs
  BY <1>0, PlaceIs
<1>3. step \in Rounds(L, Accs)
  BY <1>2 DEF Rounds
<1>4. \A i \in 1..L, acc \in Accs : step[<<i, acc>>] = Place(k, packing, acc, fs[i])
  OBVIOUS
<1> HIDE DEF step, L, after
<1>5. Loops(L, Accs, Empty, step) # {}
  BY <1>0, <1>3, EmptyAcc, Recursion
<1>6. PICK f \in [0..L -> Accs] : f[0] = Empty /\ \A i \in 1..L : f[i] = step[<<i, f[i - 1]>>]
  BY <1>5 DEF Loops
<1>7. f = Rule(f)
  <2>1. ASSUME NEW i \in 0..L PROVE f[i] = Rule(f)[i]
    <3>1. CASE i = 0
      BY <1>6, <3>1
    <3>2. CASE i # 0
      <4>1. i \in 1..L /\ i - 1 \in 0..L
        BY <1>0, <3>2
      <4>2. f[i - 1] \in Accs
        BY <4>1
      <4>3. f[i] = Place(k, packing, f[i - 1], fs[i])
        BY <1>4, <1>6, <4>1, <4>2
      <4> QED BY <3>2, <4>3
    <3> QED BY <3>1, <3>2
  <2>2. f = [n \in 0..L |-> f[n]]
    BY <1>6
  <2>3. f = [n \in 0..L |-> Rule(f)[n]]
    BY <2>1, <2>2
  <2> QED BY <2>3
<1>8. after = Rule(after)
  BY <1>7 DEF after
<1>9. after[0] = Empty /\ \A i \in 1..L : after[i] = Place(k, packing, after[i - 1], fs[i])
  <2>1. 0 \in 0..L /\ \A n \in 1..L : n \in 0..L /\ n # 0
    BY <1>0
  <2>2. \A n \in 0..L : after[n] = Rule(after)[n]
    BY <1>8
  <2> QED BY <2>1, <2>2
<1> DEFINE S == {n \in 0..L : after[n] \in Accs}
<1>10. 0 \in S
  BY <1>0, <1>9, EmptyAcc
<1>11. ASSUME NEW n \in 0..(L - 1), n \in S PROVE n + 1 \in S
  <2>1. n + 1 \in 1..L /\ n + 1 \in 0..L /\ (n + 1) - 1 = n /\ after[n] \in Accs
    BY <1>0, <1>11
  <2>2. after[n + 1] = Place(k, packing, after[n], fs[n + 1])
    BY <1>9, <2>1
  <2> QED BY <1>2, <2>1, <2>2
<1> HIDE DEF S, Rule
<1>12. 0..L \subseteq S
  BY <1>0, <1>10, <1>11, Induct
<1>13. \A n \in 0..L : after[n] \in Accs
  BY <1>12 DEF S
<1>14. after = [n \in 0..L |-> after[n]]
  BY <1>8 DEF Rule
<1>15. after \in [0..L -> Accs]
  BY <1>13, <1>14
<1> QED BY <1>1, <1>9, <1>15 DEF L, LayoutRounds

LEMMA LayoutIs ==
  ASSUME NEW k, NEW D, NEW fs \in Seq(D), NEW packing \in Packings, \A i \in DOMAIN fs : Sized(k, fs[i])
  PROVE  LET l == ComputeLayout(k, fs, packing)
         IN  /\ l \in Accs /\ Packed(k, fs, packing, l.offs)
             /\ \A i \in DOMAIN fs : EffectiveAlign(k, fs[i], packing) <= l.align
             /\ (\A i \in DOMAIN fs : Solid(k, fs[i])) =>
                  \A i \in DOMAIN fs : l.offs[i] + FieldSize(k, fs[i]).size <= l.size
<1> DEFINE L == Len(fs)
           e(i) == EffectiveAlign(k, fs[i], packing)
           z(i) == FieldSize(k, fs[i]).size
<1>1. L \in Nat /\ DOMAIN fs = 1..L /\ \A i \in 1..L : Sized(k, fs[i])
  OBVIOUS
<1>2. PICK after \in [0..L -> Accs] :
           /\ ComputeLayout(k, fs, packing) = Padded(after[L])
           /\ after[0] = Empty
           /\ \A i \in 1..L : after[i] = Place(k, packing, after[i - 1], fs[i])
  <2>1. LayoutRounds(k, fs, packing) # {}
    BY LayoutRuns
  <2> QED BY <2>1 DEF LayoutRounds
<1> DEFINE o(i) == AlignUp(after[i - 1].size, e(i))
<1>3. ASSUME NEW i \in 1..L
      PROVE  /\ after[i] \in Accs /\ after[i - 1] \in Accs /\ o(i) \in Nat
             /\ after[i].offs = Append(after[i - 1].offs, o(i)) /\ after[i].size = o(i) + z(i)
             /\ after[i - 1].align <= after[i].align /\ e(i) <= after[i].align
             /\ e(i) \in Aligns \cup {0}
  <2>1. i \in 0..L /\ i - 1 \in 0..L /\ Sized(k, fs[i])
    BY <1>1
  <2>2. after[i] \in Accs /\ after[i - 1] \in Accs /\ after[i] = Place(k, packing, after[i - 1], fs[i])
    BY <1>2, <2>1
  <2> QED BY <2>1, <2>2, PlaceIs, EffectiveIs
<1>4. \A i \in 0..L : /\ after[i] \in Accs /\ after[i].size \in Nat /\ after[i].align \in Aligns
                      /\ after[i].align \in Nat /\ after[i].offs \in Seq(Nat)
  BY DEF Accs, Aligns
<1>5. \A i \in 1..L : e(i) \in Nat /\ z(i) \in Nat
  <2>1. \A i \in 1..L : z(i) \in Nat
    BY <1>1 DEF Sized
  <2>2. \A i \in 1..L : e(i) \in Aligns \cup {0}
    BY <1>3
  <2> HIDE DEF e, z
  <2> QED BY <2>1, <2>2 DEF Aligns
<1> HIDE DEF e, z, o
<1> DEFINE Q(n) == /\ Len(after[n].offs) = n
                   /\ \A i \in 1..n : after[n].offs[i] = o(i) /\ e(i) <= after[n].align
                   /\ (\A i \in 1..L : Solid(k, fs[i])) => \A i \in 1..n : o(i) + z(i) <= after[n].size
           S == {n \in 0..L : Q(n)}
<1>6. 0 \in S
  BY <1>1, <1>2 DEF Empty
<1>7. ASSUME NEW n \in 0..(L - 1), n \in S PROVE n + 1 \in S
  <2>1. n + 1 \in 1..L /\ n + 1 \in 0..L /\ (n + 1) - 1 = n /\ n \in Nat /\ n \in 0..L /\ Q(n)
    BY <1>1, <1>7
  <2>2. /\ after[n + 1].offs = Append(after[n].offs, o(n + 1)) /\ after[n + 1].size = o(n + 1) + z(n + 1)
        /\ after[n].align <= after[n + 1].align /\ e(n + 1) <= after[n + 1].align /\ o(n + 1) \in Nat
    BY <1>3, <2>1
  <2>3. /\ after[n].offs \in Seq(Nat) /\ after[n].size \in Nat /\ after[n].align \in Nat
        /\ after[n + 1].align \in Nat
    BY <1>4, <2>1
  <2>4. Len(after[n + 1].offs) = n + 1
    BY <2>1, <2>2, <2>3
  <2>5. ASSUME NEW i \in 1..(n + 1)
        PROVE  after[n + 1].offs[i] = o(i) /\ e(i) <= after[n + 1].align
    <3>1. CASE i = n + 1
      BY <2>1, <2>2, <2>3, <3>1
    <3>2. CASE i # n + 1
      <4>1. i \in 1..n /\ i \in 1..L
        BY <2>1, <3>2
      <4>2. after[n].offs[i] = o(i) /\ e(i) <= after[n].align
        BY <2>1, <4>1
      <4>3. after[n + 1].offs[i] = after[n].offs[i]
        BY <2>1, <2>2, <2>3, <4>1
      <4>4. e(i) \in Nat
        BY <1>5, <4>1
      <4> HIDE DEF Q
      <4>5. after[n + 1].offs[i] = o(i)
        BY <4>2, <4>3
      <4>6. e(i) <= after[n + 1].align
        BY <2>2, <2>3, <4>2, <4>4
      <4> QED BY <4>5, <4>6
    <3> QED BY <3>1, <3>2
  <2>6. ASSUME \A i \in 1..L : Solid(k, fs[i]), NEW i \in 1..(n + 1)
        PROVE  o(i) + z(i) <= after[n + 1].size
    <3>1. CASE i = n + 1
      BY <1>5, <2>1, <2>2, <3>1
    <3>2. CASE i # n + 1
      <4>1. i \in 1..n /\ i \in 1..L
        BY <2>1, <3>2
      <4>2. o(i) + z(i) <= after[n].size
        BY <2>1, <2>6, <4>1
      <4>3. e(n + 1) \in Aligns
        BY <1>1, <2>1, <2>6, EffectiveIs DEF e
      <4>4. after[n].size <= o(n + 1)
        BY <2>1, <2>3, <4>3, AlignUpIs DEF o
      <4> QED BY <1>3, <1>5, <2>1, <2>2, <2>3, <4>1, <4>2, <4>4
    <3> QED BY <3>1, <3>2
  <2> QED BY <2>1, <2>4, <2>5, <2>6
<1> HIDE DEF S
<1>8. 0..L \subseteq S
  BY <1>1, <1>6, <1>7, Induct
<1> USE DEF S
<1>9. Q(L) /\ L \in 0..L
  BY <1>1, <1>8
<1> DEFINE a == after[L]
           l == ComputeLayout(k, fs, packing)
<1>10. a \in Accs /\ a.size \in Nat /\ a.align \in Aligns /\ a.offs \in Seq(Nat)
  BY <1>4, <1>9
<1>11. l = [a EXCEPT !.size = AlignUp(a.size, a.align)]
  BY <1>2 DEF Padded
<1>12. AlignUp(a.size, a.align) \in Nat /\ a.size <= AlignUp(a.size, a.align)
  BY <1>10, AlignUpIs
<1> HIDE DEF a, l, S, Q
<1>13. l \in Accs /\ l.offs = a.offs /\ l.align = a.align /\ a.size <= l.size /\ l.size \in Nat
  BY <1>10, <1>11, <1>12 DEF Accs
<1>14. /\ Len(a.offs) = L
       /\ \A i \in 1..L : a.offs[i] = o(i) /\ e(i) <= a.align
       /\ (\A i \in 1..L : Solid(k, fs[i])) => \A i \in 1..L : o(i) + z(i) <= a.size
  BY <1>9 DEF Q, a
<1>15. ASSUME NEW i \in 1..L
       PROVE  l.offs[i] = AlignUp(IF i = 1 THEN 0 ELSE l.offs[i - 1] + z(i - 1), e(i))
  <2>1. l.offs[i] = AlignUp(after[i - 1].size, e(i))
    BY <1>13, <1>14 DEF o
  <2>2. CASE i = 1
    BY <1>2, <2>1, <2>2 DEF Empty
  <2>3. CASE i # 1
    <3>1. i - 1 \in 1..L
      BY <2>3
    <3>2. after[i - 1].size = o(i - 1) + z(i - 1)
      BY <1>3, <3>1
    <3>3. l.offs[i - 1] = o(i - 1)
      BY <1>13, <1>14, <3>1
    <3> QED BY <2>1, <2>3, <3>2, <3>3
  <2> QED BY <2>2, <2>3
<1>16. Packed(k, fs, packing, l.offs)
  BY <1>1, <1>13, <1>14, <1>15 DEF Packed, e, z
<1>17. \A i \in 1..L : e(i) <= l.align
  BY <1>13, <1>14
<1>18. ASSUME \A i \in 1..L : Solid(k, fs[i]), NEW i \in 1..L
       PROVE  l.offs[i] + z(i) <= l.size
  <2>1. l.offs[i] = o(i) /\ o(i) + z(i) <= a.size /\ o(i) \in Nat
    BY <1>3, <1>13, <1>14, <1>18
  <2> QED BY <1>5, <1>10, <1>13, <2>1
<1> QED BY <1>1, <1>13, <1>16, <1>17, <1>18 DEF e, z, l

\* What the loop of ComputeExplicitLayout has after each round.
ExplicitRounds(k, fs, packing) ==
    {after \in [0..Len(fs) -> Accs] :
        /\ ComputeExplicitLayout(k, fs, packing) = Padded(after[Len(fs)])
        /\ after[0] = Empty
        /\ \A i \in 1..Len(fs) : after[i] = PlaceExplicit(k, packing, after[i - 1], fs[i])}

LEMMA ExplicitRuns ==
  ASSUME NEW k, NEW D, NEW fs \in Seq(D), NEW packing \in Packings, \A i \in DOMAIN fs : Sized(k, fs[i]) /\ fs[i].at \in Nat
  PROVE  ExplicitRounds(k, fs, packing) # {}
<1> DEFINE L == Len(fs)
           Rule(g) == [n \in 0..L |-> IF n = 0 THEN Empty ELSE PlaceExplicit(k, packing, g[n - 1], fs[n])]
           after == CHOOSE g : g = Rule(g)
           step == [p \in (1..L) \X Accs |-> PlaceExplicit(k, packing, p[2], fs[p[1]])]
<1>0. L \in Nat /\ DOMAIN fs = 1..L
  OBVIOUS
<1>1. ComputeExplicitLayout(k, fs, packing) = Padded(after[L])
  BY DEF ComputeExplicitLayout
<1>2. ASSUME NEW i \in 1..L, NEW acc \in Accs PROVE PlaceExplicit(k, packing, acc, fs[i]) \in Accs
  BY <1>0, PlaceExplicitIs
<1>3. step \in Rounds(L, Accs)
  BY <1>2 DEF Rounds
<1>4. \A i \in 1..L, acc \in Accs : step[<<i, acc>>] = PlaceExplicit(k, packing, acc, fs[i])
  OBVIOUS
<1> HIDE DEF step, L, after
<1>5. Loops(L, Accs, Empty, step) # {}
  BY <1>0, <1>3, EmptyAcc, Recursion
<1>6. PICK f \in [0..L -> Accs] : f[0] = Empty /\ \A i \in 1..L : f[i] = step[<<i, f[i - 1]>>]
  BY <1>5 DEF Loops
<1>7. f = Rule(f)
  <2>1. ASSUME NEW i \in 0..L PROVE f[i] = Rule(f)[i]
    <3>1. CASE i = 0
      BY <1>6, <3>1
    <3>2. CASE i # 0
      <4>1. i \in 1..L /\ i - 1 \in 0..L
        BY <1>0, <3>2
      <4>2. f[i - 1] \in Accs
        BY <4>1
      <4>3. f[i] = PlaceExplicit(k, packing, f[i - 1], fs[i])
        BY <1>4, <1>6, <4>1, <4>2
      <4> QED BY <3>2, <4>3
    <3> QED BY <3>1, <3>2
  <2>2. f = [n \in 0..L |-> f[n]]
    BY <1>6
  <2>3. f = [n \in 0..L |-> Rule(f)[n]]
    BY <2>1, <2>2
  <2> QED BY <2>3
<1>8. after = Rule(after)
  BY <1>7 DEF after
<1>9. after[0] = Empty /\ \A i \in 1..L : after[i] = PlaceExplicit(k, packing, after[i - 1], fs[i])
  <2>1. 0 \in 0..L /\ \A n \in 1..L : n \in 0..L /\ n # 0
    BY <1>0
  <2>2. \A n \in 0..L : after[n] = Rule(after)[n]
    BY <1>8
  <2> QED BY <2>1, <2>2
<1> DEFINE S == {n \in 0..L : after[n] \in Accs}
<1>10. 0 \in S
  BY <1>0, <1>9, EmptyAcc
<1>11. ASSUME NEW n \in 0..(L - 1), n \in S PROVE n + 1 \in S
  <2>1. n + 1 \in 1..L /\ n + 1 \in 0..L /\ (n + 1) - 1 = n /\ after[n] \in Accs
    BY <1>0, <1>11
  <2>2. after[n + 1] = PlaceExplicit(k, packing, after[n], fs[n + 1])
    BY <1>9, <2>1
  <2> QED BY <1>2, <2>1, <2>2
<1> HIDE DEF S, Rule
<1>12. 0..L \subseteq S
  BY <1>0, <1>10, <1>11, Induct
<1>13. \A n \in 0..L : after[n] \in Accs
  BY <1>12 DEF S
<1>14. after = [n \in 0..L |-> after[n]]
  BY <1>8 DEF Rule
<1>15. after \in [0..L -> Accs]
  BY <1>13, <1>14
<1> QED BY <1>1, <1>9, <1>15 DEF L, ExplicitRounds

LEMMA ExplicitIs ==
  ASSUME NEW k, NEW D, NEW fs \in Seq(D), NEW packing \in Packings,
         \A i \in DOMAIN fs : Sized(k, fs[i]) /\ fs[i].at \in Nat
  PROVE  LET l == ComputeExplicitLayout(k, fs, packing)
         IN  /\ l \in Accs /\ Len(l.offs) = Len(fs)
             /\ \A i \in DOMAIN fs : /\ EffectiveAlign(k, fs[i], packing) <= l.align
                                     /\ l.offs[i] = fs[i].at
                                     /\ l.offs[i] + FieldSize(k, fs[i]).size <= l.size
<1> DEFINE L == Len(fs)
           e(i) == EffectiveAlign(k, fs[i], packing)
           z(i) == fs[i].at + FieldSize(k, fs[i]).size
<1>1. L \in Nat /\ DOMAIN fs = 1..L /\ \A i \in 1..L : Sized(k, fs[i]) /\ fs[i].at \in Nat
  OBVIOUS
<1>2. PICK after \in [0..L -> Accs] :
           /\ ComputeExplicitLayout(k, fs, packing) = Padded(after[L])
           /\ after[0] = Empty
           /\ \A i \in 1..L : after[i] = PlaceExplicit(k, packing, after[i - 1], fs[i])
  <2>1. ExplicitRounds(k, fs, packing) # {}
    BY ExplicitRuns
  <2> QED BY <2>1 DEF ExplicitRounds
<1>3. ASSUME NEW i \in 1..L
      PROVE  /\ after[i] \in Accs /\ after[i - 1] \in Accs
             /\ after[i].offs = Append(after[i - 1].offs, fs[i].at) /\ after[i - 1].size <= after[i].size
             /\ z(i) <= after[i].size
             /\ after[i - 1].align <= after[i].align /\ e(i) <= after[i].align
             /\ e(i) \in Aligns \cup {0}
  <2>1. i \in 0..L /\ i - 1 \in 0..L /\ Sized(k, fs[i]) /\ fs[i].at \in Nat
    BY <1>1
  <2>2. /\ after[i] \in Accs /\ after[i - 1] \in Accs
        /\ after[i] = PlaceExplicit(k, packing, after[i - 1], fs[i])
    BY <1>2, <2>1
  <2>3. e(i) \in Aligns \cup {0}
    BY <2>1, EffectiveIs
  <2>4. /\ PlaceExplicit(k, packing, after[i - 1], fs[i]).offs = Append(after[i - 1].offs, fs[i].at)
        /\ after[i - 1].size <= PlaceExplicit(k, packing, after[i - 1], fs[i]).size
        /\ z(i) <= PlaceExplicit(k, packing, after[i - 1], fs[i]).size
        /\ after[i - 1].align <= PlaceExplicit(k, packing, after[i - 1], fs[i]).align
        /\ e(i) <= PlaceExplicit(k, packing, after[i - 1], fs[i]).align
    BY <2>1, <2>2, PlaceExplicitIs
  <2> HIDE DEF e, z
  <2> QED BY <2>2, <2>3, <2>4
<1>4. \A i \in 0..L : /\ after[i] \in Accs /\ after[i].size \in Nat /\ after[i].align \in Aligns
                      /\ after[i].align \in Nat /\ after[i].offs \in Seq(Nat)
  BY DEF Accs, Aligns
<1>5. \A i \in 1..L : e(i) \in Nat /\ z(i) \in Nat
  <2>1. \A i \in 1..L : z(i) \in Nat
    BY <1>1 DEF Sized
  <2>2. \A i \in 1..L : e(i) \in Aligns \cup {0}
    BY <1>3
  <2> HIDE DEF e, z
  <2> QED BY <2>1, <2>2 DEF Aligns
<1> HIDE DEF e, z
<1> DEFINE Q(n) == /\ Len(after[n].offs) = n
                   /\ \A i \in 1..n : /\ after[n].offs[i] = fs[i].at /\ e(i) <= after[n].align
                                      /\ z(i) <= after[n].size
           S == {n \in 0..L : Q(n)}
<1>6. 0 \in S
  BY <1>1, <1>2 DEF Empty
<1>7. ASSUME NEW n \in 0..(L - 1), n \in S PROVE n + 1 \in S
  <2>1. n + 1 \in 1..L /\ n + 1 \in 0..L /\ (n + 1) - 1 = n /\ n \in Nat /\ n \in 0..L /\ Q(n)
    BY <1>1, <1>7
  <2>2. /\ after[n + 1].offs = Append(after[n].offs, fs[n + 1].at) /\ after[n].size <= after[n + 1].size
        /\ z(n + 1) <= after[n + 1].size
        /\ after[n].align <= after[n + 1].align /\ e(n + 1) <= after[n + 1].align
    BY <1>3, <2>1
  <2>3. /\ after[n].offs \in Seq(Nat) /\ after[n].size \in Nat /\ after[n].align \in Nat
        /\ after[n + 1].align \in Nat /\ after[n + 1].size \in Nat /\ fs[n + 1].at \in Nat
    BY <1>1, <1>4, <2>1
  <2>4. Len(after[n + 1].offs) = n + 1
    BY <2>1, <2>2, <2>3
  <2>5. ASSUME NEW i \in 1..(n + 1)
        PROVE  /\ after[n + 1].offs[i] = fs[i].at /\ e(i) <= after[n + 1].align
               /\ z(i) <= after[n + 1].size
    <3>1. CASE i = n + 1
      BY <2>1, <2>2, <2>3, <3>1
    <3>2. CASE i # n + 1
      <4>1. i \in 1..n /\ i \in 1..L
        BY <2>1, <3>2
      <4>2. after[n].offs[i] = fs[i].at /\ e(i) <= after[n].align /\ z(i) <= after[n].size
        BY <2>1, <4>1
      <4>3. after[n + 1].offs[i] = after[n].offs[i]
        BY <2>1, <2>2, <2>3, <4>1
      <4>4. e(i) \in Nat /\ z(i) \in Nat
        BY <1>5, <4>1
      <4> HIDE DEF Q
      <4>5. after[n + 1].offs[i] = fs[i].at
        BY <4>2, <4>3
      <4>6. e(i) <= after[n + 1].align
        BY <2>2, <2>3, <4>2, <4>4
      <4>7. z(i) <= after[n + 1].size
        <5>1. z(i) \in Nat /\ after[n].size \in Nat /\ after[n + 1].size \in Nat
          BY <2>3, <4>4
        <5>2. z(i) <= after[n].size /\ after[n].size <= after[n + 1].size
          BY <2>2, <4>2
        <5> QED BY <5>1, <5>2
      <4> QED BY <4>5, <4>6, <4>7
    <3> QED BY <3>1, <3>2
  <2> QED BY <2>1, <2>4, <2>5
<1> HIDE DEF S
<1>8. 0..L \subseteq S
  BY <1>1, <1>6, <1>7, Induct
<1> USE DEF S
<1>9. Q(L) /\ L \in 0..L
  BY <1>1, <1>8
<1> DEFINE a == after[L]
           l == ComputeExplicitLayout(k, fs, packing)
<1>10. a \in Accs /\ a.size \in Nat /\ a.align \in Aligns /\ a.offs \in Seq(Nat)
  BY <1>4, <1>9
<1>11. l = [a EXCEPT !.size = AlignUp(a.size, a.align)]
  BY <1>2 DEF Padded
<1>12. AlignUp(a.size, a.align) \in Nat /\ a.size <= AlignUp(a.size, a.align)
  BY <1>10, AlignUpIs
<1> HIDE DEF a, l, S, Q
<1>13. l \in Accs /\ l.offs = a.offs /\ l.align = a.align /\ a.size <= l.size /\ l.size \in Nat
  BY <1>10, <1>11, <1>12 DEF Accs
<1>14. /\ Len(a.offs) = L
       /\ \A i \in 1..L : a.offs[i] = fs[i].at /\ e(i) <= a.align /\ z(i) <= a.size
  BY <1>9 DEF Q, a
<1>15. ASSUME NEW i \in 1..L
       PROVE  /\ e(i) <= l.align /\ l.offs[i] = fs[i].at
              /\ l.offs[i] + FieldSize(k, fs[i]).size <= l.size
  <2>1. e(i) <= l.align /\ l.offs[i] = fs[i].at /\ z(i) <= a.size /\ z(i) \in Nat
    BY <1>5, <1>13, <1>14
  <2>2. z(i) <= l.size
    BY <1>10, <1>13, <2>1
  <2> QED BY <2>1, <2>2 DEF z
<1> QED BY <1>1, <1>13, <1>14, <1>15 DEF e, l

\* The fields of a packed layout lie one behind the other.
LEMMA PackedApart ==
  ASSUME NEW k, NEW D, NEW fs \in Seq(D), NEW packing \in Packings, \A i \in DOMAIN fs : Solid(k, fs[i]),
         NEW offs \in Seq(Nat), Packed(k, fs, packing, offs)
  PROVE  \A i, j \in DOMAIN fs : i < j => offs[i] + FieldSize(k, fs[i]).size <= offs[j]
<1> DEFINE L == Len(fs)
           z(i) == FieldSize(k, fs[i]).size
<1>1. L \in Nat /\ DOMAIN fs = 1..L
  OBVIOUS
<1>2. \A i \in 1..L : offs[i] \in Nat /\ z(i) \in Nat
  <2>1. Len(offs) = L
    BY DEF Packed
  <2>2. \A i \in 1..L : offs[i] \in Nat
    BY <2>1
  <2>3. \A i \in 1..L : z(i) \in Nat
    BY <1>1 DEF Solid
  <2> QED BY <2>2, <2>3
<1>3. ASSUME NEW i \in 1..L, i # 1 PROVE i - 1 \in 1..L /\ offs[i - 1] + z(i - 1) <= offs[i]
  <2>1. i - 1 \in 1..L
    BY <1>3
  <2>2. EffectiveAlign(k, fs[i], packing) \in Aligns
    BY <1>1, EffectiveIs DEF Sized, Solid
  <2>3. offs[i] = AlignUp(offs[i - 1] + z(i - 1), EffectiveAlign(k, fs[i], packing))
    BY <1>1, <1>3 DEF Packed
  <2>4. offs[i - 1] + z(i - 1) \in Nat
    BY <1>2, <2>1
  <2> HIDE DEF z
  <2> QED BY <2>1, <2>2, <2>3, <2>4, AlignUpIs
<1> SUFFICES ASSUME NEW i \in 1..L PROVE \A j \in 1..L : i < j => offs[i] + z(i) <= offs[j]
  BY <1>1
<1> HIDE DEF z
<1> DEFINE S == {n \in 0..L : n \in 1..L /\ i < n => offs[i] + z(i) <= offs[n]}
<1>4. 0 \in S
  BY <1>1
<1>5. ASSUME NEW n \in 0..(L - 1), n \in S PROVE n + 1 \in S
  <2>1. n + 1 \in 1..L /\ n + 1 \in 0..L /\ (n + 1) - 1 = n
    BY <1>1
  <2>2. CASE i < n + 1
    <3>1. n \in 1..L /\ n + 1 # 1
      BY <1>1, <2>1, <2>2
    <3>2. offs[n] + z(n) <= offs[n + 1]
      BY <1>3, <2>1, <3>1
    <3>3. i = n \/ i < n
      BY <2>2
    <3>4. i < n => offs[i] + z(i) <= offs[n]
      BY <1>5, <3>1
    <3>5. offs[i] \in Nat /\ z(i) \in Nat /\ offs[n] \in Nat /\ z(n) \in Nat /\ offs[n + 1] \in Nat
      BY <1>2, <2>1, <3>1
    <3>6. offs[i] + z(i) <= offs[n + 1]
      <4>1. CASE i = n
        BY <3>2, <4>1
      <4>2. CASE i < n
        <5>1. offs[i] + z(i) <= offs[n]
          BY <3>4, <4>2
        <5>2. ASSUME NEW a \in Nat, NEW b \in Nat, NEW x \in Nat, NEW y \in Nat, NEW v \in Nat,
                     a + b <= x, x + y <= v
              PROVE  a + b <= v
          BY <5>2
        <5> QED BY <3>2, <3>5, <5>1, <5>2
      <4> QED BY <3>3, <4>1, <4>2
    <3> QED BY <2>1, <3>6
  <2> QED BY <2>1, <2>2
<1> HIDE DEF S
<1>6. 0..L \subseteq S
  BY <1>1, <1>4, <1>5, Induct
<1>7. ASSUME NEW j \in 1..L PROVE j \in S
  BY <1>1, <1>6
<1>8. \A j \in 1..L : i < j => offs[i] + z(i) <= offs[j]
  BY <1>7 DEF S
<1> QED BY <1>8

\* A class that goes on after its parent has the fields of the parent where the parent has them.
LEMMA PackedPrefix ==
  ASSUME NEW k, NEW D, NEW fs \in Seq(D), NEW gs \in Seq(D), NEW packing,
         NEW o \in Seq(Nat), NEW q \in Seq(Nat), Packed(k, fs, packing, o), Packed(k, fs \o gs, packing, q)
  PROVE  IsPrefix(o, q)
<1> DEFINE L == Len(fs)
           fg == fs \o gs
<1>1. /\ L \in Nat /\ Len(o) = L /\ Len(q) = L + Len(gs) /\ Len(gs) \in Nat
      /\ DOMAIN fs = 1..L /\ DOMAIN fg = 1..(L + Len(gs)) /\ \A i \in 1..L : fg[i] = fs[i]
  BY DEF Packed
<1>2. ASSUME NEW i \in 1..L
      PROVE  /\ o[i] = AlignUp(IF i = 1 THEN 0 ELSE o[i - 1] + FieldSize(k, fs[i - 1]).size,
                               EffectiveAlign(k, fs[i], packing))
             /\ q[i] = AlignUp(IF i = 1 THEN 0 ELSE q[i - 1] + FieldSize(k, fs[i - 1]).size,
                               EffectiveAlign(k, fs[i], packing))
  <2>1. i \in DOMAIN fs /\ i \in DOMAIN fg /\ fg[i] = fs[i] /\ (i # 1 => fg[i - 1] = fs[i - 1])
    BY <1>1, SMTT(30)
  <2> HIDE DEF fg
  <2>2. o[i] = AlignUp(IF i = 1 THEN 0 ELSE o[i - 1] + FieldSize(k, fs[i - 1]).size,
                       EffectiveAlign(k, fs[i], packing))
    BY <2>1 DEF Packed
  <2>3. q[i] = AlignUp(IF i = 1 THEN 0 ELSE q[i - 1] + FieldSize(k, fg[i - 1]).size,
                       EffectiveAlign(k, fg[i], packing))
    BY <2>1 DEF Packed, fg
  <2> QED BY <2>1, <2>2, <2>3
<1> HIDE DEF fg
<1> DEFINE S == {n \in 0..L : n \in 1..L => o[n] = q[n]}
<1>3. 0 \in S
  BY <1>1
<1>4. ASSUME NEW n \in 0..(L - 1), n \in S PROVE n + 1 \in S
  <2>1. n + 1 \in 1..L /\ n + 1 \in 0..L /\ (n + 1) - 1 = n
    BY <1>1
  <2>2. n + 1 # 1 => o[n] = q[n]
    BY <1>1, <1>4
  <2>3. o[n + 1] = q[n + 1]
    BY <1>2, <2>1, <2>2
  <2> QED BY <2>1, <2>3
<1> HIDE DEF S
<1>5. 0..L \subseteq S
  BY <1>1, <1>3, <1>4, Induct
<1>6. ASSUME NEW i \in 1..L PROVE o[i] = q[i]
  <2>1. i \in 0..L
    BY <1>1
  <2>2. i \in S
    BY <1>5, <2>1
  <2> QED BY <2>2 DEF S
<1>7. Len(o) <= Len(q) /\ \A i \in 1..Len(o) : o[i] = q[i]
  BY <1>1, <1>6
<1>8. SubSeq(q, 1, Len(o)) = o
  BY <1>1, <1>7
<1> QED BY <1>7, <1>8 DEF IsPrefix

(***************************************************************************)
(* The instance fields of a class and its ancestors.                       *)
(***************************************************************************)
FieldsStep(k, up, x, a) == (IF up[x] = NoClass THEN <<>> ELSE a[up[x]]) \o InstanceFields(k[x].fields)
FieldsRule(k, x, a) == FieldsStep(k, w.parent, x, a)

PartialFields(k, a) ==
    /\ DOMAIN a \subseteq Classes
    /\ \A x \in DOMAIN a : /\ w.parent[x] # NoClass => w.parent[x] \in DOMAIN a
                           /\ a[x] = FieldsRule(k, x, a)

LEMMA FieldsAgree ==
  ASSUME w \in Worlds, NEW k, NEW g, NEW h, PartialFields(k, g), PartialFields(k, h),
         NEW c \in DOMAIN g \cap DOMAIN h
  PROVE  g[c] = h[c]
<1> DEFINE S == {x \in DOMAIN g \cap DOMAIN h : g[x] # h[x]}
<1>1. ASSUME S # {} PROVE FALSE
  <2>1. S \in SUBSET Classes
    BY DEF PartialFields
  <2>2. PICK x \in S : w.parent[x] \notin S
    BY <1>1, <2>1, Grounded
  <2>3. w.parent[x] # NoClass => g[w.parent[x]] = h[w.parent[x]]
    BY <2>2 DEF PartialFields
  <2>4. g[x] = FieldsRule(k, x, g) /\ h[x] = FieldsRule(k, x, h)
    BY <2>2 DEF PartialFields
  <2>5. FieldsRule(k, x, g) = FieldsRule(k, x, h)
    BY <2>3 DEF FieldsRule, FieldsStep
  <2> QED BY <2>2, <2>4, <2>5
<1> QED BY <1>1

LEMMA FieldsExist ==
  ASSUME w \in Worlds, NEW k, NEW c \in Classes
  PROVE  \E a : PartialFields(k, a) /\ c \in DOMAIN a
<1> DEFINE S == {x \in Classes : ~\E a : PartialFields(k, a) /\ x \in DOMAIN a}
           own(x) == InstanceFields(k[x].fields)
<1>1. ASSUME S # {} PROVE FALSE
  <2>1. PICK x \in S : w.parent[x] \notin S
    BY <1>1, Grounded
  <2>2. CASE w.parent[x] = NoClass
    <3> DEFINE a == [y \in {x} |-> <<>> \o own(x)]
    <3>1. PartialFields(k, a) /\ x \in DOMAIN a
      BY <2>1, <2>2 DEF PartialFields, FieldsRule, FieldsStep
    <3> QED BY <2>1, <3>1
  <2>3. CASE w.parent[x] # NoClass
    <3>1. w.parent[x] \in Classes
      BY <2>1, <2>3, World
    <3>2. PICK g : PartialFields(k, g) /\ w.parent[x] \in DOMAIN g
      BY <2>1, <3>1
    <3>3. x \notin DOMAIN g
      BY <2>1, <3>2
    <3> DEFINE D == DOMAIN g \cup {x}
               a == [y \in D |-> IF y = x THEN g[w.parent[x]] \o own(x) ELSE g[y]]
    <3>4. DOMAIN a = D /\ a[x] = g[w.parent[x]] \o own(x) /\ \A y \in DOMAIN g : a[y] = g[y]
      BY <3>3
    <3> HIDE DEF a
    <3>5. ASSUME NEW y \in D
          PROVE  (w.parent[y] # NoClass => w.parent[y] \in D) /\ a[y] = FieldsRule(k, y, a)
      <4>1. CASE y = x
        BY <2>3, <3>2, <3>4, <4>1 DEF FieldsRule, FieldsStep
      <4>2. CASE y # x
        <5>1. /\ y \in DOMAIN g /\ g[y] = FieldsRule(k, y, g)
              /\ w.parent[y] # NoClass => w.parent[y] \in DOMAIN g
          BY <3>2, <4>2 DEF PartialFields
        <5>2. FieldsRule(k, y, g) = FieldsRule(k, y, a)
          BY <3>4, <5>1 DEF FieldsRule, FieldsStep
        <5> QED BY <3>4, <5>1, <5>2
      <4> QED BY <4>1, <4>2
    <3>6. PartialFields(k, a)
      BY <2>1, <3>2, <3>4, <3>5 DEF PartialFields
    <3> QED BY <2>1, <3>4, <3>6
  <2> QED BY <2>2, <2>3
<1> QED BY <1>1

LEMMA HierarchyIs ==
  ASSUME NEW k, NEW up, NEW c \in Classes, \E a : a = [x \in Classes |-> FieldsStep(k, up, x, a)]
  PROVE  \E a : /\ \A x \in Classes : HierarchyFields(k, up, x) = a[x]
                /\ a = [x \in Classes |-> FieldsStep(k, up, x, a)]
BY DEF HierarchyFields, FieldsStep

LEMMA HierarchyRule ==
  ASSUME w \in Worlds, NEW k, NEW c \in Classes
  PROVE  HierarchyFields(k, w.parent, c) =
           (IF w.parent[c] = NoClass THEN <<>> ELSE HierarchyFields(k, w.parent, w.parent[c]))
           \o InstanceFields(k[c].fields)
<1> DEFINE G(x) == CHOOSE a : PartialFields(k, a) /\ x \in DOMAIN a
           m == [x \in Classes |-> G(x)[x]]
<1>1. \A x \in Classes : PartialFields(k, G(x)) /\ x \in DOMAIN G(x)
  BY FieldsExist
<1> HIDE DEF G
<1>2. ASSUME NEW x \in Classes PROVE m[x] = FieldsRule(k, x, m)
  <2>1. /\ G(x)[x] = FieldsRule(k, x, G(x))
        /\ w.parent[x] # NoClass => w.parent[x] \in DOMAIN G(x)
    BY <1>1 DEF PartialFields
  <2>2. w.parent[x] # NoClass => G(x)[w.parent[x]] = m[w.parent[x]]
    <3> SUFFICES ASSUME w.parent[x] # NoClass PROVE G(x)[w.parent[x]] = m[w.parent[x]]
      OBVIOUS
    <3>1. w.parent[x] \in Classes
      BY World
    <3>2. G(x)[w.parent[x]] = G(w.parent[x])[w.parent[x]]
      BY <1>1, <2>1, <3>1, FieldsAgree
    <3> QED BY <3>1, <3>2
  <2> HIDE DEF m
  <2>3. FieldsRule(k, x, G(x)) = FieldsRule(k, x, m)
    BY <2>2 DEF FieldsRule, FieldsStep
  <2> USE DEF m
  <2> QED BY <2>1, <2>3
<1>3. m = [x \in Classes |-> FieldsRule(k, x, m)]
  BY <1>2
<1>4. \E a : a = [x \in Classes |-> FieldsStep(k, w.parent, x, a)]
  <2>1. m = [x \in Classes |-> FieldsStep(k, w.parent, x, m)]
    BY <1>3 DEF FieldsRule
  <2> QED BY <2>1
<1> HIDE DEF m
<1>5. PICK a : /\ \A x \in Classes : HierarchyFields(k, w.parent, x) = a[x]
               /\ a = [x \in Classes |-> FieldsStep(k, w.parent, x, a)]
  BY <1>4, HierarchyIs
<1>6. a[c] = FieldsStep(k, w.parent, c, a)
  BY <1>5
<1>7. w.parent[c] # NoClass => a[w.parent[c]] = HierarchyFields(k, w.parent, w.parent[c])
  BY <1>5, World
<1> QED BY <1>5, <1>6, <1>7 DEF FieldsStep

\* The classes as the metadata declare them, and all the instance fields of one.
Declared == [x \in Classes |-> [fields |-> w.fields[x]]]
Whole(c) == HierarchyFields(Declared, w.parent, c)

LEMMA WholeRule ==
  ASSUME w \in Worlds, NEW c \in Classes
  PROVE  Whole(c) = (IF w.parent[c] = NoClass THEN <<>> ELSE Whole(w.parent[c]))
                    \o InstanceFields(w.fields[c])
<1>1. Declared[c].fields = w.fields[c]
  BY DEF Declared
<1> QED BY <1>1, HierarchyRule DEF Whole

\* A field of the whole is an instance field that some ancestor declares.
LEMMA WholeTyped ==
  ASSUME w \in Worlds, NEW c \in Classes
  PROVE  /\ Whole(c) \in Seq(Fields)
         /\ \A i \in DOMAIN Whole(c) :
              \E a \in AncestorsOf(c) : \E j \in DOMAIN InstanceFields(w.fields[a]) :
                 Whole(c)[i] = InstanceFields(w.fields[a])[j]
<1> DEFINE Good(x) == /\ Whole(x) \in Seq(Fields)
                      /\ \A i \in DOMAIN Whole(x) :
                           \E a \in AncestorsOf(x) : \E j \in DOMAIN InstanceFields(w.fields[a]) :
                              Whole(x)[i] = InstanceFields(w.fields[a])[j]
           S == {x \in Classes : ~Good(x)}
<1>1. ASSUME S # {} PROVE FALSE
  <2>1. PICK x \in S : w.parent[x] \notin S
    BY <1>1, Grounded
  <2> DEFINE p == w.parent[x]
             s == IF p = NoClass THEN <<>> ELSE Whole(p)
             r == InstanceFields(w.fields[x])
  <2>2. x \in Classes /\ Whole(x) = s \o r /\ ~Good(x)
    BY <2>1, WholeRule
  <2>3. r \in Seq(Fields)
    BY <2>2, World, InstanceAre
  <2>4. /\ s \in Seq(Fields)
        /\ \A i \in DOMAIN s : \E a \in AncestorsOf(x) : \E j \in DOMAIN InstanceFields(w.fields[a]) :
             s[i] = InstanceFields(w.fields[a])[j]
    <3>1. CASE p = NoClass
      BY <3>1
    <3>2. CASE p # NoClass
      <4>1. p \in Classes /\ Good(p) /\ AncestorsOf(p) \subseteq AncestorsOf(x)
        BY <2>1, <2>2, <3>2, Ancestors
      <4>2. s = Whole(p)
        BY <3>2
      <4> HIDE DEF s, p
      <4> QED BY <4>1, <4>2
    <3> QED BY <3>1, <3>2
  <2>5. x \in AncestorsOf(x)
    BY <2>2, Ancestors
  <2>6. \A i \in DOMAIN r : \E a \in AncestorsOf(x) : \E j \in DOMAIN InstanceFields(w.fields[a]) :
             r[i] = InstanceFields(w.fields[a])[j]
    BY <2>5
  <2> HIDE DEF s, r
  <2>7. /\ s \o r \in Seq(Fields)
        /\ \A i \in DOMAIN (s \o r) : \/ i \in DOMAIN s /\ (s \o r)[i] = s[i]
                                      \/ i - Len(s) \in DOMAIN r /\ (s \o r)[i] = r[i - Len(s)]
    BY <2>3, <2>4
  <2>8. ASSUME NEW i \in DOMAIN Whole(x)
        PROVE  \E a \in AncestorsOf(x) : \E j \in DOMAIN InstanceFields(w.fields[a]) :
                 Whole(x)[i] = InstanceFields(w.fields[a])[j]
    <3>1. CASE i \in DOMAIN s /\ Whole(x)[i] = s[i]
      <4>1. \E a \in AncestorsOf(x) : \E j \in DOMAIN InstanceFields(w.fields[a]) :
              s[i] = InstanceFields(w.fields[a])[j]
        BY <2>4, <3>1
      <4> QED BY <3>1, <4>1
    <3>2. CASE i - Len(s) \in DOMAIN r /\ Whole(x)[i] = r[i - Len(s)]
      <4> DEFINE m == i - Len(s)
      <4>1. m \in DOMAIN r /\ Whole(x)[i] = r[m]
        BY <3>2
      <4> HIDE DEF m, S
      <4>2. PICK a \in AncestorsOf(x) : \E j \in DOMAIN InstanceFields(w.fields[a]) : r[m] = InstanceFields(w.fields[a])[j]
        BY <2>6, <4>1
      <4> QED BY <4>1, <4>2
    <3>3. i \in DOMAIN (s \o r) /\ Whole(x)[i] = (s \o r)[i]
      BY <2>2
    <3>4. (i \in DOMAIN s /\ Whole(x)[i] = s[i]) \/ (i - Len(s) \in DOMAIN r /\ Whole(x)[i] = r[i - Len(s)])
      BY <2>7, <3>3
    <3> QED BY <3>1, <3>2, <3>4
  <2>9. Good(x)
    BY <2>2, <2>7, <2>8
  <2> QED BY <2>2, <2>9
<1> HIDE DEF Good
<1>2. Good(c)
  BY <1>1
<1> QED BY <1>2 DEF Good

LEMMA AncestorsUp ==
  ASSUME w \in Worlds, NEW c \in Classes, NEW x \in AncestorsOf(c), w.parent[x] # NoClass
  PROVE  w.parent[x] \in AncestorsOf(c)
<1> DEFINE S == {y \in Classes : \E a \in AncestorsOf(y) : w.parent[a] # NoClass /\ w.parent[a] \notin AncestorsOf(y)}
<1>1. ASSUME S # {} PROVE FALSE
  <2>1. PICK y \in S : w.parent[y] \notin S
    BY <1>1, Grounded
  <2>2. PICK a \in AncestorsOf(y) : w.parent[a] # NoClass /\ w.parent[a] \notin AncestorsOf(y)
    BY <2>1
  <2>3. y \in Classes
    BY <2>1
  <2>4. CASE w.parent[y] = NoClass
    <3>1. a = y
      BY <2>2, <2>3, <2>4, Ancestors
    <3> QED BY <2>2, <2>4, <3>1
  <2>5. CASE w.parent[y] # NoClass
    <3>1. w.parent[y] \in Classes /\ AncestorsOf(y) = AncestorsOf(w.parent[y]) \cup {y}
      BY <2>3, <2>5, Ancestors
    <3>2. CASE a = y
      BY <2>2, <3>1, <3>2, Ancestors
    <3>3. CASE a \in AncestorsOf(w.parent[y])
      BY <2>1, <2>2, <3>1, <3>3
    <3> QED BY <2>2, <3>1, <3>2, <3>3
  <2> QED BY <2>4, <2>5
<1> QED BY <1>1

\* When the ancestors have their fields, so has the class.
LEMMA HierarchyWhole ==
  ASSUME w \in Worlds, NEW k, NEW c \in Classes, \A a \in AncestorsOf(c) : k[a].fields = w.fields[a]
  PROVE  HierarchyFields(k, w.parent, c) = Whole(c)
<1> DEFINE S == {x \in AncestorsOf(c) : HierarchyFields(k, w.parent, x) # Whole(x)}
<1>1. ASSUME S # {} PROVE FALSE
  <2>1. S \in SUBSET Classes
    BY Ancestors
  <2>2. PICK x \in S : w.parent[x] \notin S
    BY <1>1, <2>1, Grounded
  <2>3. x \in Classes /\ x \in AncestorsOf(c) /\ HierarchyFields(k, w.parent, x) # Whole(x)
    BY <2>1, <2>2
  <2>4. w.parent[x] # NoClass => w.parent[x] \in AncestorsOf(c)
    BY <2>3, AncestorsUp
  <2>5. w.parent[x] # NoClass => HierarchyFields(k, w.parent, w.parent[x]) = Whole(w.parent[x])
    BY <2>2, <2>4
  <2>6. k[x].fields = w.fields[x]
    BY <2>3
  <2>7. HierarchyFields(k, w.parent, x) =
          (IF w.parent[x] = NoClass THEN <<>> ELSE HierarchyFields(k, w.parent, w.parent[x]))
          \o InstanceFields(w.fields[x])
    BY <2>3, <2>6, HierarchyRule
  <2> QED BY <2>3, <2>5, <2>7, WholeRule
<1> QED BY <1>1, Ancestors

(***************************************************************************)
(* The layout of a class on the way: what is left of setup_field_layout in *)
(* the todo is one chain, `fields`, then each field's round, then `layout`. *)
(***************************************************************************)
LayoutOps == {"fields", "field", "refs", "layout"}
LayoutFree(s) == \A i \in DOMAIN s : s[i].op \notin LayoutOps

\* No layout goes on behind managed work.
FrontLoaded(s) ==
    \A i, j \in DOMAIN s : i < j /\ s[i].op \notin NativeOps \cup {"end"} => s[j].op \notin LayoutOps

Rank(x) == IF x.op = "fields" THEN 0
           ELSE IF x.op \in {"field", "refs"} THEN x.arg
           ELSE Len(w.fields[x.of]) + 1

Round(c, n) == IF n <= Len(w.fields[c]) THEN Do("field", c, n) ELSE Work("layout", c)

Ranked(s) ==
    \A i, j \in DOMAIN s :
       i < j /\ s[i].op \in LayoutOps /\ s[j].op \in LayoutOps /\ s[i].of = s[j].of => Rank(s[i]) < Rank(s[j])

Chained(s) ==
    \A i \in DOMAIN s :
       s[i].op \in LayoutOps \ {"layout"} =>
          i + 1 \in DOMAIN s /\ s[i + 1] = Round(s[i].of, Rank(s[i]) + 1)

\* The type of a field is marked before the round of the field asks whether it holds references.
TypesMarked(s, fl) ==
    \A i \in DOMAIN s : s[i].op = "refs" =>
       /\ s[i].arg \in DOMAIN w.fields[s[i].of] /\ ~w.fields[s[i].of][s[i].arg].static
       /\ LET f == w.fields[s[i].of][s[i].arg]
          IN  f.kind = "value" => \/ <<"Field", f.of>> \in fl
                                  \/ i > 1 /\ s[i - 1] = Initialize("Field", f.of)

InProgress(s, fl, k) ==
    \A i \in DOMAIN s : s[i].op \in LayoutOps =>
       /\ <<"Field", s[i].of>> \in fl /\ k[s[i].of].align = 0
       /\ s[i].op = "fields" => ~k[s[i].of].refs

\* Position j of the todo is the first of its chain.
Begins(s, j) == s[j].op \in LayoutOps /\ (j = 1 \/ s[j - 1].op \notin LayoutOps \/ s[j - 1].of # s[j].of)

\* What class c knows of the type of its field f, position j being reached: a type that is not laid
\* out yet will not be before.
Seen(s, j, fl, k, c, f) ==
    /\ f.kind = "ref" => k[c].refs
    /\ f.kind = "value" =>
         /\ <<"Field", f.of>> \in fl
         /\ IF k[f.of].align # 0 THEN k[f.of].refs => k[c].refs
            ELSE \A i \in DOMAIN s : i < j => ~(s[i].op = "layout" /\ s[i].of = f.of)

Begun(s, fl, k) ==
    \A j \in DOMAIN s : Begins(s, j) /\ s[j].op # "fields" =>
       LET c == s[j].of
       IN  /\ k[c].fields = w.fields[c]
           /\ \A i \in DOMAIN w.fields[c] :
                i < Rank(s[j]) /\ ~w.fields[c][i].static => Seen(s, j, fl, k, c, w.fields[c][i])

TodoInv(s, fl, k) ==
    /\ FrontLoaded(s) /\ Ranked(s) /\ Chained(s)
    /\ TypesMarked(s, fl) /\ InProgress(s, fl, k) /\ Begun(s, fl, k)

(***************************************************************************)
(* The classes.                                                            *)
(***************************************************************************)
LayoutTyped(k) ==
    /\ DOMAIN k = Classes
    /\ \A c \in Classes :
         /\ {"fields", "refs", "size", "align", "offs"} \subseteq DOMAIN k[c]
         /\ k[c].refs \in BOOLEAN /\ k[c].size \in Nat /\ k[c].align \in Aligns \cup {0}
         /\ k[c].offs \in Seq(Nat) /\ k[c].fields \in {<<>>, w.fields[c]}

Unmarked(fl, k) == \A c \in Classes : <<"Field", c>> \notin fl => k[c].align = 0 /\ ~k[c].refs

\* A class that holds references is one of those that should, and a value type has a field that does.
RefsMeant(k) ==
    \A c \in Classes : k[c].refs =>
       /\ c \in Holders(w)
       /\ c \in w.value => \E i \in DOMAIN w.fields[c] :
                             ~w.fields[c][i].static /\ ContainsReference(k, w.fields[c][i])

PackOf(k, c) == IF c \in w.value /\ ~k[c].refs THEN w.pack[c] ELSE 0

\* The layout of a class, with those it rests on: nothing of it changes any more.
Sound(k, c) ==
    LET fs == Whole(c)
        p  == w.parent[c]
    IN  /\ \A a \in AncestorsOf(c) : k[a].fields = w.fields[a] /\ k[a].align # 0
        /\ \A i \in DOMAIN fs : fs[i].kind = "value" =>
             /\ k[fs[i].of].align # 0
             /\ k[fs[i].of].refs => k[fs[i].of].align >= PtrSize
             /\ c \in w.value /\ k[fs[i].of].refs => k[c].refs
        /\ Len(k[c].offs) = Len(fs)
        /\ IF c \in w.explicit THEN \A i \in DOMAIN fs : k[c].offs[i] = fs[i].at
                               ELSE Packed(k, fs, PackOf(k, c), k[c].offs)
        /\ \A i \in DOMAIN fs : k[c].offs[i] + FieldSize(k, fs[i]).size <= k[c].size
        /\ \A i \in DOMAIN fs : c \in w.value /\ fs[i].kind = "ref" => k[c].refs
        /\ p # NoClass /\ c \notin w.explicit => IsPrefix(k[p].offs, k[c].offs)
        /\ c \in w.value => k[c].size > 0 /\ (k[c].refs => k[c].align >= PtrSize)

-----------------------------------------------------------------------------
LEMMA WorldLayout ==
  ASSUME w \in Worlds, NEW c \in Classes
  PROVE  /\ w.pack[c] \in Packings /\ w.csize[c] \in Nat
         /\ w.parent[c] \notin w.value /\ (w.parent[c] \in w.explicit => c \in w.explicit)
         /\ \A i \in DOMAIN w.fields[c] :
              LET f == w.fields[c][i]
              IN  /\ f.kind \in {"ref", "raw", "value"} \cup DOMAIN PrimSize
                  /\ f.kind = "value" => f.of \in w.value /\ f.of \in Classes
                  /\ HoldsReferences(f, Holders(w)) => f.at % PtrSize = 0
                  /\ f.at \in Nat /\ f.static \in BOOLEAN
<1>1. /\ w.pack \in [Classes -> {0, 1, 2, 4, 8, 16, 32, 64, 128}] /\ w.csize \in [Classes -> Nat]
      /\ w.parent[c] \notin w.value /\ (w.parent[c] \in w.explicit => c \in w.explicit)
  BY LayoutAssumption
<1>2. ASSUME NEW i \in DOMAIN w.fields[c]
      PROVE  LET f == w.fields[c][i]
             IN  /\ f.kind \in {"ref", "raw", "value"} \cup DOMAIN PrimSize
                 /\ f.kind = "value" => f.of \in w.value
                 /\ HoldsReferences(f, Holders(w)) => f.at % PtrSize = 0
  BY LayoutAssumption
<1>3. ASSUME NEW i \in DOMAIN w.fields[c]
      PROVE  w.fields[c][i] \in Fields /\ (w.fields[c][i].kind = "value" => w.fields[c][i].of \in Classes)
  BY World
<1>4. \A i \in DOMAIN w.fields[c] : w.fields[c][i].at \in Nat /\ w.fields[c][i].static \in BOOLEAN
  BY <1>3 DEF Fields
<1> QED BY <1>1, <1>2, <1>3, <1>4 DEF Packings

LEMMA HoldersClosed ==
  ASSUME w \in Worlds, NEW c \in Classes
  PROVE  /\ w.parent[c] \in Holders(w) => c \in Holders(w)
         /\ \A i \in DOMAIN w.fields[c] : HoldsReferences(w.fields[c][i], Holders(w)) => c \in Holders(w)
<1> DEFINE Closed1(s) == \A y \in Classes : \/ w.parent[y] \in s
                                            \/ \E i \in DOMAIN w.fields[y] : HoldsReferences(w.fields[y][i], s)
                                            => y \in s
<1>1. Holders(w) = {x \in Classes : \A s \in SUBSET Classes : Closed1(s) => x \in s}
  BY DEF Holders
<1>2. ASSUME w.parent[c] \in Holders(w) PROVE c \in Holders(w)
  <2>1. \A s \in SUBSET Classes : Closed1(s) => w.parent[c] \in s
    BY <1>1, <1>2
  <2>2. \A s \in SUBSET Classes : Closed1(s) => c \in s
    BY <2>1
  <2> HIDE DEF Closed1
  <2> QED BY <1>1, <2>2
<1>3. ASSUME NEW i \in DOMAIN w.fields[c], HoldsReferences(w.fields[c][i], Holders(w)) PROVE c \in Holders(w)
  <2> DEFINE f == w.fields[c][i]
  <2>1. ~f.static /\ (f.kind = "ref" \/ (f.kind = "value" /\ f.of \in Holders(w)))
    BY <1>3 DEF HoldsReferences
  <2>2. \A s \in SUBSET Classes : Closed1(s) => (f.of \in Holders(w) => f.of \in s)
    BY <1>1
  <2>3. ASSUME NEW s \in SUBSET Classes, Closed1(s) PROVE c \in s
    <3>1. HoldsReferences(w.fields[c][i], s)
      BY <2>1, <2>2, <2>3 DEF HoldsReferences
    <3> QED BY <2>3, <3>1
  <2> HIDE DEF Closed1
  <2> QED BY <1>1, <2>3
<1> QED BY <1>2, <1>3

\* A value type inherits no field and no reference.
LEMMA ValueAlone ==
  ASSUME w \in Worlds, NEW c \in Classes, c \in w.value, w.parent[c] # NoClass
  PROVE  Whole(w.parent[c]) = <<>> /\ w.parent[c] \notin Holders(w)
<1>1. PICK s \in SUBSET Classes :
        /\ \A x \in s : w.parent[x] \in s \cup {NoClass} /\ \A i \in DOMAIN w.fields[x] : w.fields[x][i].static
        /\ \A x \in w.value : w.parent[x] \in s \cup {NoClass}
  BY LayoutAssumption
<1>2. w.parent[c] \in s
  BY <1>1
<1>3. ASSUME NEW x \in s PROVE InstanceFields(w.fields[x]) = <<>>
  <2> DEFINE q == InstanceFields(w.fields[x])
  <2>1. /\ q \in Seq(Fields)
        /\ \A i \in DOMAIN q : \E j \in DOMAIN w.fields[x] : w.fields[x][j].static = FALSE /\ q[i] = w.fields[x][j]
    BY World, InstanceAre
  <2>2. \A j \in DOMAIN w.fields[x] : w.fields[x][j].static
    BY <1>1
  <2> HIDE DEF q
  <2>3. \A i \in DOMAIN q : FALSE
    BY <2>1, <2>2
  <2>4. q = <<>>
    BY <2>1, <2>3
  <2> QED BY <2>4 DEF q
<1>4. \A x \in s : Whole(x) = <<>>
  <2> DEFINE S == {x \in s : Whole(x) # <<>>}
  <2>1. ASSUME S # {} PROVE FALSE
    <3>1. PICK x \in S : w.parent[x] \notin S
      BY <2>1, Grounded
    <3>2. w.parent[x] # NoClass => w.parent[x] \in s /\ Whole(w.parent[x]) = <<>>
      BY <1>1, <3>1
    <3>3. Whole(x) = <<>> \o <<>>
      BY <1>3, <3>1, <3>2, WholeRule
    <3> QED BY <3>1, <3>3
  <2> QED BY <2>1
<1>5. ASSUME NEW x \in s PROVE x \notin Holders(w)
  <2> DEFINE t == Classes \ s
  <2>1. ASSUME NEW y \in Classes,
               \/ w.parent[y] \in t
               \/ \E i \in DOMAIN w.fields[y] : HoldsReferences(w.fields[y][i], t)
        PROVE  y \in t
    <3>1. CASE w.parent[y] \in t
      BY <1>1, <3>1, ClassAssumption
    <3>2. CASE \E i \in DOMAIN w.fields[y] : HoldsReferences(w.fields[y][i], t)
      BY <1>1, <3>2 DEF HoldsReferences
    <3> QED BY <2>1, <3>1, <3>2
  <2>2. t \in SUBSET Classes /\ x \notin t
    OBVIOUS
  <2> QED BY <2>1, <2>2 DEF Holders
<1> QED BY <1>2, <1>4, <1>5

\* A field that a class or an ancestor declares.
LEMMA WholeField ==
  ASSUME w \in Worlds, NEW c \in Classes, NEW i \in DOMAIN Whole(c)
  PROVE  /\ Whole(c) \in Seq(Fields) /\ Whole(c)[i] \in Fields
         /\ \E a \in AncestorsOf(c) : a \in Classes /\ \E j \in DOMAIN w.fields[a] :
              Whole(c)[i] = w.fields[a][j] /\ ~w.fields[a][j].static
<1>1. PICK a \in AncestorsOf(c) : \E j \in DOMAIN InstanceFields(w.fields[a]) :
                                     Whole(c)[i] = InstanceFields(w.fields[a])[j]
  BY WholeTyped
<1>2. a \in Classes
  BY Ancestors
<1>3. PICK j \in DOMAIN InstanceFields(w.fields[a]) : Whole(c)[i] = InstanceFields(w.fields[a])[j]
  BY <1>1
<1>4. \E n \in DOMAIN w.fields[a] : /\ w.fields[a][n].static = FALSE
                                    /\ InstanceFields(w.fields[a])[j] = w.fields[a][n]
  BY <1>2, <1>3, World, InstanceAre
<1>5. Whole(c) \in Seq(Fields) /\ Whole(c)[i] \in Fields
  BY WholeTyped
<1> QED BY <1>1, <1>2, <1>3, <1>4, <1>5

LEMMA FieldSized ==
  ASSUME NEW k, LayoutTyped(k), NEW f, f.kind \in {"ref", "raw", "value"} \cup DOMAIN PrimSize,
         f.kind = "value" => f.of \in Classes
  PROVE  Sized(k, f) /\ (~Solid(k, f) => f.kind = "value" /\ k[f.of].align = 0)
<1>1. PtrSize \in Nat /\ PtrSize \in Aligns
  BY PtrSizeAssumption DEF Aligns
<1>2. CASE f.kind \in {"ref", "raw"}
  <2>1. f.kind \notin DOMAIN PrimSize
    BY <1>2 DEF PrimSize
  <2>2. FieldSize(k, f) = [size |-> PtrSize, align |-> PtrSize]
    BY <1>2, <2>1 DEF FieldSize
  <2> QED BY <1>1, <2>2 DEF Sized, Solid
<1>3. CASE f.kind \in DOMAIN PrimSize
  <2>1. f.kind \in {"byte", "short", "int", "long"}
    BY <1>3 DEF PrimSize
  <2>2. PrimSize[f.kind] \in Aligns /\ PrimSize[f.kind] \in Nat
    BY <2>1 DEF PrimSize, Aligns
  <2>3. FieldSize(k, f) = [size |-> PrimSize[f.kind], align |-> PrimSize[f.kind]]
    BY <1>3, <2>1 DEF FieldSize
  <2> QED BY <2>2, <2>3 DEF Sized, Solid
<1>4. CASE f.kind = "value"
  <2>1. FieldSize(k, f) = [size |-> k[f.of].size, align |-> k[f.of].align]
    BY <1>4 DEF FieldSize, PrimSize
  <2>2. k[f.of].size \in Nat /\ k[f.of].align \in Aligns \cup {0}
    BY <1>4 DEF LayoutTyped
  <2> QED BY <1>4, <2>1, <2>2 DEF Sized, Solid
<1> QED BY <1>2, <1>3, <1>4

\* The fields of a sound layout: what they are, and that their types are laid out.
LEMMA SoundFields ==
  ASSUME w \in Worlds, NEW k, LayoutTyped(k), NEW c \in Classes, Sound(k, c), NEW i \in DOMAIN Whole(c)
  PROVE  LET f == Whole(c)[i]
         IN  /\ f.kind \in {"ref", "raw", "value"} \cup DOMAIN PrimSize
             /\ f.kind = "value" => /\ f.of \in Classes /\ f.of \in w.value /\ k[f.of].align # 0
                                    /\ k[f.of].refs => k[f.of].align >= PtrSize
                                    /\ c \in w.value /\ k[f.of].refs => k[c].refs
             /\ c \in w.value /\ f.kind = "ref" => k[c].refs
             /\ f.at \in Nat /\ ~f.static
             /\ HoldsReferences(f, Holders(w)) => f.at % PtrSize = 0
             /\ Sized(k, f) /\ Solid(k, f)
<1> DEFINE f == Whole(c)[i]
<1>1. PICK a \in AncestorsOf(c) : a \in Classes /\ \E j \in DOMAIN w.fields[a] :
                                      f = w.fields[a][j] /\ ~w.fields[a][j].static
  BY WholeField
<1>2. PICK j \in DOMAIN w.fields[a] : f = w.fields[a][j] /\ ~w.fields[a][j].static
  BY <1>1
<1>3. /\ f.kind \in {"ref", "raw", "value"} \cup DOMAIN PrimSize
      /\ f.kind = "value" => f.of \in w.value /\ f.of \in Classes
      /\ HoldsReferences(f, Holders(w)) => f.at % PtrSize = 0
      /\ f.at \in Nat
  BY <1>1, <1>2, WorldLayout
<1>4. /\ f.kind = "value" => /\ k[f.of].align # 0 /\ (k[f.of].refs => k[f.of].align >= PtrSize)
                             /\ c \in w.value /\ k[f.of].refs => k[c].refs
      /\ c \in w.value /\ f.kind = "ref" => k[c].refs
  BY DEF Sound
<1>5. Sized(k, f) /\ (~Solid(k, f) => f.kind = "value" /\ k[f.of].align = 0)
  BY <1>3, FieldSized
<1> QED BY <1>2, <1>3, <1>4, <1>5

LEMMA SoundExact ==
  ASSUME w \in Worlds, LayoutTyped(kl), RefsMeant(kl), NEW c \in Classes, Sound(kl, c)
  PROVE  LET fs == HierarchyFields(kl, w.parent, c)
             p  == w.parent[c]
         IN  /\ Len(kl[c].offs) = Len(fs)
             /\ Fits(fs, kl[c].offs, kl[c].size)
             /\ c \in w.explicit \/ Disjoint(fs, kl[c].offs)
             /\ \A i \in DOMAIN fs : ContainsReference(kl, fs[i]) => kl[c].offs[i] % PtrSize = 0
             /\ p # NoClass /\ c \notin w.explicit => IsPrefix(kl[p].offs, kl[c].offs)
             /\ c \in w.value => kl[c].size > 0
<1> DEFINE fs == Whole(c)
           o == kl[c].offs
<1>1. HierarchyFields(kl, w.parent, c) = fs
  BY HierarchyWhole DEF Sound
<1>2. /\ Len(o) = Len(fs) /\ Fits(fs, o, kl[c].size)
      /\ w.parent[c] # NoClass /\ c \notin w.explicit => IsPrefix(kl[w.parent[c]].offs, o)
      /\ c \in w.value => kl[c].size > 0
  BY DEF Sound, Fits
<1>3. fs \in Seq(Fields) /\ o \in Seq(Nat) /\ PackOf(kl, c) \in Packings
  BY WholeTyped, WorldLayout DEF LayoutTyped, PackOf, Packings
<1>4. c \notin w.explicit => Packed(kl, fs, PackOf(kl, c), o)
  BY DEF Sound
<1>5. \A i \in DOMAIN fs : Solid(kl, fs[i]) /\ Sized(kl, fs[i])
  BY SoundFields
<1>6. c \in w.explicit \/ Disjoint(fs, o)
  <2> HIDE DEF fs, o
  <2> SUFFICES ASSUME c \notin w.explicit PROVE Disjoint(fs, o)
    OBVIOUS
  <2>1. \A i, j \in DOMAIN fs : i < j => o[i] + FieldSize(kl, fs[i]).size <= o[j]
    BY <1>3, <1>4, <1>5, PackedApart
  <2> QED BY <2>1 DEF Disjoint
<1>7. ASSUME NEW i \in DOMAIN fs, ContainsReference(kl, fs[i])
      PROVE  o[i] % PtrSize = 0
  <2> DEFINE f == fs[i]
  <2>1. f.kind = "ref" \/ (f.kind = "value" /\ kl[f.of].refs)
    BY <1>7 DEF ContainsReference
  <2>2. /\ f.kind = "value" => /\ f.of \in Classes /\ (kl[f.of].refs => kl[f.of].align >= PtrSize)
                               /\ c \in w.value /\ kl[f.of].refs => kl[c].refs
        /\ c \in w.value /\ f.kind = "ref" => kl[c].refs
        /\ ~f.static /\ (HoldsReferences(f, Holders(w)) => f.at % PtrSize = 0)
    BY SoundFields
  <2>3. CASE c \in w.explicit
    <3>1. o[i] = f.at
      BY <2>3 DEF Sound
    <3>2. f.kind = "value" => f.of \in Holders(w)
      BY <2>1, <2>2 DEF RefsMeant
    <3>3. HoldsReferences(f, Holders(w))
      BY <2>1, <2>2, <3>2 DEF HoldsReferences
    <3> QED BY <2>2, <3>1, <3>3
  <2>4. CASE c \notin w.explicit
    <3>1. PackOf(kl, c) = 0
      BY <2>1, <2>2 DEF PackOf
    <3>2. FieldSize(kl, f).align >= PtrSize
      <4>1. CASE f.kind = "ref"
        <5>1. "ref" \notin DOMAIN PrimSize
          BY DEF PrimSize
        <5>2. FieldSize(kl, f) = [size |-> PtrSize, align |-> PtrSize]
          BY <4>1, <5>1 DEF FieldSize
        <5> QED BY <5>2, PtrSizeAssumption
      <4>2. CASE f.kind = "value" /\ kl[f.of].refs
        <5>1. FieldSize(kl, f).align = kl[f.of].align
          BY <4>2 DEF FieldSize, PrimSize
        <5> QED BY <2>2, <4>2, <5>1
      <4> QED BY <2>1, <4>1, <4>2
    <3>3. EffectiveAlign(kl, f, 0) = FieldSize(kl, f).align /\ EffectiveAlign(kl, f, 0) \in Aligns
      BY <1>5, EffectiveIs DEF Packings
    <3> DEFINE v == IF i = 1 THEN 0 ELSE o[i - 1] + FieldSize(kl, fs[i - 1]).size
    <3>4. o[i] = AlignUp(v, EffectiveAlign(kl, f, 0))
      BY <1>4, <2>4, <3>1 DEF Packed
    <3>5. v \in Nat
      <4>1. CASE i = 1
        BY <4>1
      <4>2. CASE i # 1
        <5>1. i - 1 \in DOMAIN fs /\ i - 1 \in DOMAIN o
          BY <1>2, <1>3, <4>2
        <5>2. o[i - 1] \in Nat /\ FieldSize(kl, fs[i - 1]).size \in Nat
          BY <1>3, <1>5, <5>1 DEF Solid
        <5> QED BY <4>2, <5>2
      <4> QED BY <4>1, <4>2
    <3> HIDE DEF v, f
    <3> QED BY <3>2, <3>3, <3>4, <3>5, AlignUpIs
  <2> QED BY <2>3, <2>4
<1> HIDE DEF fs, o
<1>8. /\ Len(o) = Len(fs) /\ Fits(fs, o, kl[c].size) /\ (c \in w.explicit \/ Disjoint(fs, o))
      /\ \A i \in DOMAIN fs : ContainsReference(kl, fs[i]) => o[i] % PtrSize = 0
      /\ w.parent[c] # NoClass /\ c \notin w.explicit => IsPrefix(kl[w.parent[c]].offs, o)
      /\ c \in w.value => kl[c].size > 0
  BY <1>2, <1>6, <1>7
<1> QED BY <1>1, <1>8 DEF o

\* What a layout rests on is laid out itself, and of a class that is laid out nothing changes.
Frozen(k, l) ==
    \A x \in Classes : k[x].align # 0 =>
       /\ l[x].fields = k[x].fields /\ l[x].refs = k[x].refs /\ l[x].size = k[x].size
       /\ l[x].align = k[x].align /\ l[x].offs = k[x].offs

LEMMA SoundStays ==
  ASSUME w \in Worlds, NEW k, NEW l, LayoutTyped(k), Frozen(k, l), NEW c \in Classes, Sound(k, c)
  PROVE  Sound(l, c)
<1> DEFINE fs == Whole(c)
<1>1. /\ AncestorsOf(c) \subseteq Classes /\ c \in AncestorsOf(c)
      /\ w.parent[c] # NoClass => w.parent[c] \in AncestorsOf(c)
  BY Ancestors
<1>2. \A a \in AncestorsOf(c) : k[a].fields = w.fields[a] /\ k[a].align # 0
  BY DEF Sound
<1>3. \A a \in AncestorsOf(c) : /\ l[a].fields = w.fields[a] /\ l[a].align # 0
                                /\ l[a].refs = k[a].refs /\ l[a].size = k[a].size
                                /\ l[a].align = k[a].align /\ l[a].offs = k[a].offs
  BY <1>1, <1>2 DEF Frozen
<1>4. ASSUME NEW i \in DOMAIN fs
      PROVE  /\ FieldSize(l, fs[i]) = FieldSize(k, fs[i])
             /\ fs[i].kind = "value" => /\ l[fs[i].of].refs = k[fs[i].of].refs
                                        /\ l[fs[i].of].align = k[fs[i].of].align
  <2> DEFINE f == fs[i]
  <2>1. f.kind = "value" => f.of \in Classes /\ k[f.of].align # 0
    BY SoundFields
  <2> HIDE DEF f
  <2>2. f.kind = "value" => /\ l[f.of].refs = k[f.of].refs /\ l[f.of].align = k[f.of].align
                            /\ l[f.of].size = k[f.of].size
    BY <2>1 DEF Frozen
  <2>3. FieldSize(l, f) = FieldSize(k, f)
    BY <2>2 DEF FieldSize
  <2> QED BY <2>2, <2>3 DEF f
<1>5. PackOf(l, c) = PackOf(k, c)
  BY <1>1, <1>3 DEF PackOf
<1>6. fs \in Seq(Fields)
  BY WholeTyped
<1> HIDE DEF fs
<1>7. \A i \in DOMAIN fs : EffectiveAlign(l, fs[i], PackOf(l, c)) = EffectiveAlign(k, fs[i], PackOf(k, c))
  BY <1>4, <1>5 DEF EffectiveAlign
<1>8. ASSUME Packed(k, fs, PackOf(k, c), k[c].offs) PROVE Packed(l, fs, PackOf(l, c), l[c].offs)
  <2>1. l[c].offs = k[c].offs
    BY <1>1, <1>3
  <2>2. \A i \in DOMAIN fs : i # 1 => FieldSize(l, fs[i - 1]) = FieldSize(k, fs[i - 1])
    BY <1>4, <1>6
  <2>3. ASSUME NEW i \in DOMAIN fs
        PROVE  k[c].offs[i] = AlignUp(IF i = 1 THEN 0 ELSE k[c].offs[i - 1] + FieldSize(l, fs[i - 1]).size,
                                      EffectiveAlign(l, fs[i], PackOf(l, c)))
    <3>1. k[c].offs[i] = AlignUp(IF i = 1 THEN 0 ELSE k[c].offs[i - 1] + FieldSize(k, fs[i - 1]).size,
                                 EffectiveAlign(k, fs[i], PackOf(k, c)))
      BY <1>8 DEF Packed
    <3> QED BY <1>7, <2>2, <3>1
  <2>4. Len(k[c].offs) = Len(fs)
    BY <1>8 DEF Packed
  <2> QED BY <2>1, <2>3, <2>4 DEF Packed
<1>9. /\ \A i \in DOMAIN fs : fs[i].kind = "value" =>
             /\ k[fs[i].of].align # 0
             /\ k[fs[i].of].refs => k[fs[i].of].align >= PtrSize
             /\ c \in w.value /\ k[fs[i].of].refs => k[c].refs
      /\ Len(k[c].offs) = Len(fs)
      /\ IF c \in w.explicit THEN \A i \in DOMAIN fs : k[c].offs[i] = fs[i].at
                             ELSE Packed(k, fs, PackOf(k, c), k[c].offs)
      /\ \A i \in DOMAIN fs : k[c].offs[i] + FieldSize(k, fs[i]).size <= k[c].size
      /\ \A i \in DOMAIN fs : c \in w.value /\ fs[i].kind = "ref" => k[c].refs
      /\ w.parent[c] # NoClass /\ c \notin w.explicit => IsPrefix(k[w.parent[c]].offs, k[c].offs)
      /\ c \in w.value => k[c].size > 0 /\ (k[c].refs => k[c].align >= PtrSize)
  BY DEF Sound, fs
<1>10. /\ l[c].refs = k[c].refs /\ l[c].size = k[c].size /\ l[c].align = k[c].align /\ l[c].offs = k[c].offs
       /\ w.parent[c] # NoClass => l[w.parent[c]].offs = k[w.parent[c]].offs
  BY <1>1, <1>3
<1>11. \A i \in DOMAIN fs : fs[i].kind = "value" =>
             /\ l[fs[i].of].align # 0
             /\ l[fs[i].of].refs => l[fs[i].of].align >= PtrSize
             /\ c \in w.value /\ l[fs[i].of].refs => l[c].refs
  BY <1>4, <1>9, <1>10
<1>12. /\ Len(l[c].offs) = Len(fs)
       /\ IF c \in w.explicit THEN \A i \in DOMAIN fs : l[c].offs[i] = fs[i].at
                              ELSE Packed(l, fs, PackOf(l, c), l[c].offs)
  BY <1>8, <1>9, <1>10
<1>13. /\ \A i \in DOMAIN fs : l[c].offs[i] + FieldSize(l, fs[i]).size <= l[c].size
       /\ \A i \in DOMAIN fs : c \in w.value /\ fs[i].kind = "ref" => l[c].refs
  BY <1>4, <1>9, <1>10
<1>14. /\ w.parent[c] # NoClass /\ c \notin w.explicit => IsPrefix(l[w.parent[c]].offs, l[c].offs)
       /\ c \in w.value => l[c].size > 0 /\ (l[c].refs => l[c].align >= PtrSize)
  BY <1>9, <1>10
<1>15. \A a \in AncestorsOf(c) : l[a].fields = w.fields[a] /\ l[a].align # 0
  BY <1>3
<1> QED BY <1>11, <1>12, <1>13, <1>14, <1>15 DEF Sound, fs

\* A field that a program may have.
Kinded == {f \in Fields : /\ f.kind \in {"ref", "raw", "value"} \cup DOMAIN PrimSize
                          /\ f.kind = "value" => f.of \in Classes}

LEMMA DeclaredKinded ==
  ASSUME w \in Worlds, NEW c \in Classes
  PROVE  w.fields[c] \in Seq(Kinded)
<1>1. w.fields[c] \in Seq(Fields)
  BY World
<1>2. \A i \in DOMAIN w.fields[c] : w.fields[c][i] \in Kinded
  BY <1>1, WorldLayout DEF Kinded
<1> DEFINE s == w.fields[c]
<1> HIDE DEF s
<1>3. s \in Seq(Fields) /\ \A i \in DOMAIN s : s[i] \in Kinded
  BY <1>1, <1>2 DEF s
<1>4. s \in Seq(Kinded)
  BY <1>3
<1> QED BY <1>4 DEF s

LEMMA HierarchyKinded ==
  ASSUME w \in Worlds, NEW k, LayoutTyped(k), NEW c \in Classes
  PROVE  HierarchyFields(k, w.parent, c) \in Seq(Kinded)
<1> DEFINE H(x) == HierarchyFields(k, w.parent, x)
           S == {x \in Classes : H(x) \notin Seq(Kinded)}
<1>1. ASSUME S # {} PROVE FALSE
  <2>1. PICK x \in S : w.parent[x] \notin S
    BY <1>1, Grounded
  <2>2. x \in Classes /\ H(x) \notin Seq(Kinded)
    BY <2>1
  <2>3. H(x) = (IF w.parent[x] = NoClass THEN <<>> ELSE H(w.parent[x])) \o InstanceFields(k[x].fields)
    BY <2>2, HierarchyRule
  <2>4. k[x].fields \in Seq(Kinded)
    <3>1. k[x].fields \in {<<>>, w.fields[x]}
      BY <2>2 DEF LayoutTyped
    <3>2. <<>> \in Seq(Kinded)
      OBVIOUS
    <3> QED BY <2>2, <3>1, <3>2, DeclaredKinded
  <2>5. InstanceFields(k[x].fields) \in Seq(Kinded)
    BY <2>4, InstanceAre
  <2> DEFINE p == IF w.parent[x] = NoClass THEN <<>> ELSE H(w.parent[x])
             q == InstanceFields(k[x].fields)
  <2>6. p \in Seq(Kinded)
    <3>1. w.parent[x] # NoClass => H(w.parent[x]) \in Seq(Kinded)
      BY <2>1, <2>2, World
    <3>2. <<>> \in Seq(Kinded)
      OBVIOUS
    <3> QED BY <3>1, <3>2
  <2>7. H(x) = p \o q /\ q \in Seq(Kinded)
    BY <2>3, <2>5
  <2> HIDE DEF p, q, H
  <2>8. p \o q \in Seq(Kinded)
    BY <2>6, <2>7
  <2> QED BY <2>2, <2>7, <2>8
<1> QED BY <1>1

LEMMA KindedSized ==
  ASSUME NEW k, LayoutTyped(k), NEW fs \in Seq(Kinded)
  PROVE  \A i \in DOMAIN fs : Sized(k, fs[i]) /\ fs[i].at \in Nat
<1> SUFFICES ASSUME NEW i \in DOMAIN fs PROVE Sized(k, fs[i]) /\ fs[i].at \in Nat
  OBVIOUS
<1> DEFINE f == fs[i]
<1>1. f \in Kinded
  OBVIOUS
<1> HIDE DEF f
<1>2. f.kind \in {"ref", "raw", "value"} \cup DOMAIN PrimSize /\ (f.kind = "value" => f.of \in Classes)
  BY <1>1 DEF Kinded
<1>3. f.at \in Nat
  BY <1>1 DEF Kinded, Fields
<1>4. Sized(k, f)
  BY <1>2, FieldSized
<1> QED BY <1>3, <1>4 DEF f

\* The packing that setup_field_layout chooses, and what it then computes.
LEMMA InstanceIs ==
  ASSUME w \in Worlds, NEW k, LayoutTyped(k), NEW c \in Classes
  PROVE  LET l  == InstanceLayout(k, w, c)
             fs == HierarchyFields(k, w.parent, c)
         IN  /\ l.size \in Nat /\ l.align \in Aligns /\ l.offs \in Seq(Nat)
             /\ \A i \in DOMAIN fs : EffectiveAlign(k, fs[i], PackOf(k, c)) <= l.align
             /\ Len(l.offs) = Len(fs)
             /\ IF c \in w.explicit THEN \A i \in DOMAIN fs : l.offs[i] = fs[i].at
                                    ELSE Packed(k, fs, PackOf(k, c), l.offs)
             /\ (\A i \in DOMAIN fs : Solid(k, fs[i])) =>
                   \A i \in DOMAIN fs : l.offs[i] + FieldSize(k, fs[i]).size <= l.size
             /\ c \in w.value => l.size > 0
<1> DEFINE fs == HierarchyFields(k, w.parent, c)
           pk == PackOf(k, c)
           m == IF c \in w.explicit THEN ComputeExplicitLayout(k, fs, pk) ELSE ComputeLayout(k, fs, pk)
           l == InstanceLayout(k, w, c)
<1>1. fs \in Seq(Kinded) /\ pk \in Packings /\ w.csize[c] \in Nat
  BY HierarchyKinded, WorldLayout DEF PackOf, Packings
<1>2. \A i \in DOMAIN fs : Sized(k, fs[i]) /\ fs[i].at \in Nat
  BY <1>1, KindedSized
<1>3. l = IF c \in w.value THEN [m EXCEPT !.size = Max({m.size, w.csize[c], 1})] ELSE m
  BY DEF InstanceLayout, PackOf
<1> HIDE DEF fs, pk
<1>4. /\ m \in Accs /\ Len(m.offs) = Len(fs)
      /\ \A i \in DOMAIN fs : EffectiveAlign(k, fs[i], pk) <= m.align
      /\ IF c \in w.explicit THEN \A i \in DOMAIN fs : m.offs[i] = fs[i].at ELSE Packed(k, fs, pk, m.offs)
      /\ (\A i \in DOMAIN fs : Solid(k, fs[i])) =>
            \A i \in DOMAIN fs : m.offs[i] + FieldSize(k, fs[i]).size <= m.size
  <2>1. CASE c \in w.explicit
    <3>1. m = ComputeExplicitLayout(k, fs, pk)
      BY <2>1
    <3> DEFINE e == ComputeExplicitLayout(k, fs, pk)
    <3>2. /\ e \in Accs /\ Len(e.offs) = Len(fs)
          /\ \A i \in DOMAIN fs : /\ EffectiveAlign(k, fs[i], pk) <= e.align /\ e.offs[i] = fs[i].at
                                  /\ e.offs[i] + FieldSize(k, fs[i]).size <= e.size
      BY <1>1, <1>2, ExplicitIs
    <3>3. m = e
      BY <3>1
    <3> HIDE DEF e, m
    <3> QED BY <2>1, <3>2, <3>3
  <2>2. CASE c \notin w.explicit
    <3>1. m = ComputeLayout(k, fs, pk)
      BY <2>2
    <3> HIDE DEF m
    <3>2. /\ m \in Accs /\ Packed(k, fs, pk, m.offs)
          /\ \A i \in DOMAIN fs : EffectiveAlign(k, fs[i], pk) <= m.align
          /\ (\A i \in DOMAIN fs : Solid(k, fs[i])) =>
                \A i \in DOMAIN fs : m.offs[i] + FieldSize(k, fs[i]).size <= m.size
      BY <1>1, <1>2, <3>1, LayoutIs
    <3> QED BY <2>2, <3>2 DEF Packed
  <2> QED BY <2>1, <2>2
<1> HIDE DEF m
<1>5. /\ m.size \in Nat /\ m.align \in Aligns /\ m.offs \in Seq(Nat)
      /\ "size" \in DOMAIN m
  BY <1>4 DEF Accs
<1> DEFINE x == Max({m.size, w.csize[c], 1})
<1>6. x \in Nat /\ m.size <= x /\ 1 <= x
  BY <1>1, <1>5, MaxThree
<1> HIDE DEF x
<1>7. /\ l.align = m.align /\ l.offs = m.offs /\ l.size \in Nat /\ m.size <= l.size
      /\ c \in w.value => l.size > 0
  <2>1. CASE c \in w.value
    <3>1. l = [m EXCEPT !.size = x]
      BY <1>3, <2>1 DEF x
    <3>2. m = [size |-> m.size, align |-> m.align, offs |-> m.offs]
      BY <1>4 DEF Accs
    <3>3. l = [size |-> x, align |-> m.align, offs |-> m.offs]
      BY <3>1, <3>2
    <3> QED BY <1>6, <3>3
  <2>2. CASE c \notin w.value
    BY <1>3, <1>5, <2>2
  <2> QED BY <2>1, <2>2
<1> HIDE DEF l
<1>8. (\A i \in DOMAIN fs : Solid(k, fs[i])) =>
         \A i \in DOMAIN fs : l.offs[i] + FieldSize(k, fs[i]).size <= l.size
  <2> SUFFICES ASSUME \A i \in DOMAIN fs : Solid(k, fs[i]), NEW i \in DOMAIN fs
               PROVE  l.offs[i] + FieldSize(k, fs[i]).size <= l.size
    OBVIOUS
  <2>1. m.offs[i] + FieldSize(k, fs[i]).size <= m.size
    BY <1>4
  <2>2. m.offs[i] \in Nat /\ FieldSize(k, fs[i]).size \in Nat
    BY <1>1, <1>4, <1>5 DEF Solid
  <2> QED BY <1>5, <1>7, <2>1, <2>2
<1>9. /\ l.size \in Nat /\ l.align \in Aligns /\ l.offs \in Seq(Nat)
      /\ \A i \in DOMAIN fs : EffectiveAlign(k, fs[i], pk) <= l.align
      /\ Len(l.offs) = Len(fs)
      /\ IF c \in w.explicit THEN \A i \in DOMAIN fs : l.offs[i] = fs[i].at ELSE Packed(k, fs, pk, l.offs)
  BY <1>4, <1>5, <1>7
<1> QED BY <1>7, <1>8, <1>9 DEF l, fs, pk

LEMMA WholeHierarchy ==
  ASSUME w \in Worlds, NEW k, NEW c \in Classes, k[c].fields = w.fields[c],
         w.parent[c] # NoClass => \A a \in AncestorsOf(w.parent[c]) : k[a].fields = w.fields[a]
  PROVE  HierarchyFields(k, w.parent, c) = Whole(c)
<1>1. \A a \in AncestorsOf(c) : k[a].fields = w.fields[a]
  BY Ancestors
<1> QED BY <1>1, HierarchyWhole

\* A field of the whole is one that the class declares, or one of the parent's whole.
LEMMA WholeSplit ==
  ASSUME w \in Worlds, NEW c \in Classes, NEW i \in DOMAIN Whole(c)
  PROVE  \/ w.parent[c] # NoClass /\ \E j \in DOMAIN Whole(w.parent[c]) : Whole(c)[i] = Whole(w.parent[c])[j]
         \/ \E j \in DOMAIN w.fields[c] : ~w.fields[c][j].static /\ Whole(c)[i] = w.fields[c][j]
<1> DEFINE p == IF w.parent[c] = NoClass THEN <<>> ELSE Whole(w.parent[c])
           q == InstanceFields(w.fields[c])
<1>1. Whole(c) = p \o q
  BY WholeRule
<1>2. p \in Seq(Fields)
  <2>1. w.parent[c] # NoClass => Whole(w.parent[c]) \in Seq(Fields)
    BY World, WholeTyped
  <2>2. <<>> \in Seq(Fields)
    OBVIOUS
  <2> QED BY <2>1, <2>2
<1>3. q \in Seq(Fields)
  BY World, InstanceAre
<1> HIDE DEF p, q
<1>4. \/ i \in DOMAIN p /\ (p \o q)[i] = p[i]
      \/ i - Len(p) \in DOMAIN q /\ (p \o q)[i] = q[i - Len(p)]
  BY <1>1, <1>2, <1>3
<1>5. CASE i \in DOMAIN p /\ (p \o q)[i] = p[i]
  <2>1. p # <<>>
    BY <1>5
  <2>2. w.parent[c] # NoClass /\ p = Whole(w.parent[c])
    BY <2>1 DEF p
  <2> QED BY <1>1, <1>5, <2>2
<1>6. CASE i - Len(p) \in DOMAIN q /\ (p \o q)[i] = q[i - Len(p)]
  <2>1. PICK n \in DOMAIN q : (p \o q)[i] = q[n]
    BY <1>6
  <2>2. PICK j \in DOMAIN w.fields[c] : w.fields[c][j].static = FALSE /\ q[n] = w.fields[c][j]
    <3>1. n \in DOMAIN InstanceFields(w.fields[c])
      BY DEF q
    <3>2. w.fields[c] \in Seq(Fields)
      BY World
    <3>3. \E j \in DOMAIN w.fields[c] : w.fields[c][j].static = FALSE
                                         /\ InstanceFields(w.fields[c])[n] = w.fields[c][j]
      BY <3>1, <3>2, InstanceAre
    <3> QED BY <3>3 DEF q
  <2> QED BY <1>1, <2>1, <2>2
<1> QED BY <1>4, <1>5, <1>6

\* The conditions under which setup_field_layout lays out class c: its fields and whether they hold
\* references are known, and what it is laid out from is sound.
Prepared(k, c) ==
    /\ k[c].align = 0 /\ k[c].fields = w.fields[c]
    /\ \A i \in DOMAIN w.fields[c] : ~w.fields[c][i].static =>
         LET f == w.fields[c][i]
         IN  /\ f.kind = "ref" => k[c].refs
             /\ f.kind = "value" => Sound(k, f.of) /\ k[f.of].align # 0 /\ (k[f.of].refs => k[c].refs)
    /\ w.parent[c] # NoClass => Sound(k, w.parent[c]) /\ k[w.parent[c]].align # 0

LaidOut(k, l, c) ==
    LET m == InstanceLayout(k, w, c)
    IN  /\ l[c].fields = k[c].fields /\ l[c].refs = k[c].refs
        /\ l[c].size = m.size /\ l[c].align = m.align /\ l[c].offs = m.offs
        /\ \A x \in Classes : x # c => /\ l[x].fields = k[x].fields /\ l[x].refs = k[x].refs
                                       /\ l[x].size = k[x].size /\ l[x].align = k[x].align
                                       /\ l[x].offs = k[x].offs

\* The fields of the whole of a prepared class.
LEMMA PreparedFields ==
  ASSUME w \in Worlds, NEW k, LayoutTyped(k), NEW c \in Classes, Prepared(k, c), NEW i \in DOMAIN Whole(c)
  PROVE  LET f == Whole(c)[i]
         IN  /\ f.kind = "value" => /\ f.of \in Classes /\ f.of # c /\ k[f.of].align # 0
                                    /\ k[f.of].refs => k[f.of].align >= PtrSize
                                    /\ c \in w.value /\ k[f.of].refs => k[c].refs
             /\ c \in w.value /\ f.kind = "ref" => k[c].refs
             /\ Sized(k, f) /\ Solid(k, f)
<1> DEFINE f == Whole(c)[i]
           p == w.parent[c]
           Good == /\ f.kind = "value" => /\ f.of \in Classes /\ k[f.of].align # 0
                                          /\ k[f.of].refs => k[f.of].align >= PtrSize
                                          /\ c \in w.value /\ k[f.of].refs => k[c].refs
                   /\ c \in w.value /\ f.kind = "ref" => k[c].refs
                   /\ Sized(k, f) /\ Solid(k, f)
<1>1. CASE p # NoClass /\ \E j \in DOMAIN Whole(p) : f = Whole(p)[j]
  <2>1. PICK j \in DOMAIN Whole(p) : f = Whole(p)[j]
    BY <1>1
  <2>2. p \in Classes /\ Sound(k, p)
    BY <1>1, World DEF Prepared
  <2>3. LET g == Whole(p)[j]
        IN  /\ g.kind = "value" => /\ g.of \in Classes /\ k[g.of].align # 0
                                   /\ k[g.of].refs => k[g.of].align >= PtrSize
            /\ Sized(k, g) /\ Solid(k, g)
    BY <2>2, SoundFields
  <2>4. c \notin w.value
    <3>1. ASSUME c \in w.value PROVE FALSE
      <4>1. Whole(p) = <<>>
        BY <1>1, <3>1, ValueAlone
      <4> QED BY <2>1, <4>1
    <3> QED BY <3>1
  <2>5. Good
    BY <2>1, <2>3, <2>4
  <2> QED BY <2>5 DEF Prepared
<1>2. CASE \E j \in DOMAIN w.fields[c] : ~w.fields[c][j].static /\ f = w.fields[c][j]
  <2>1. PICK j \in DOMAIN w.fields[c] : ~w.fields[c][j].static /\ f = w.fields[c][j]
    BY <1>2
  <2>2. /\ f.kind \in {"ref", "raw", "value"} \cup DOMAIN PrimSize
        /\ f.kind = "value" => f.of \in w.value /\ f.of \in Classes
    BY <2>1, WorldLayout
  <2>3. /\ f.kind = "ref" => k[c].refs
        /\ f.kind = "value" => Sound(k, f.of) /\ k[f.of].align # 0 /\ (k[f.of].refs => k[c].refs)
    BY <2>1 DEF Prepared
  <2>4. f.kind = "value" => (k[f.of].refs => k[f.of].align >= PtrSize)
    BY <2>2, <2>3 DEF Sound
  <2>5. Sized(k, f) /\ (~Solid(k, f) => f.kind = "value" /\ k[f.of].align = 0)
    BY <2>2, FieldSized
  <2> HIDE DEF f
  <2>6. Good
    BY <2>2, <2>3, <2>4, <2>5
  <2> QED BY <2>6 DEF Prepared, f
<1> QED BY <1>1, <1>2, WholeSplit

LEMMA WholeHas ==
  ASSUME w \in Worlds, NEW c \in Classes, NEW j \in DOMAIN w.fields[c], ~w.fields[c][j].static
  PROVE  \E i \in DOMAIN Whole(c) : Whole(c)[i] = w.fields[c][j]
<1> DEFINE p == IF w.parent[c] = NoClass THEN <<>> ELSE Whole(w.parent[c])
           q == InstanceFields(w.fields[c])
<1>1. Whole(c) = p \o q
  BY WholeRule
<1>2. p \in Seq(Fields)
  <2>1. w.parent[c] # NoClass => Whole(w.parent[c]) \in Seq(Fields)
    BY World, WholeTyped
  <2>2. <<>> \in Seq(Fields)
    OBVIOUS
  <2> QED BY <2>1, <2>2
<1>3. w.fields[c] \in Seq(Fields) /\ w.fields[c][j].static = FALSE
  <2>1. w.fields[c][j].static \in BOOLEAN
    BY WorldLayout
  <2> QED BY <2>1, World
<1>4. q \in Seq(Fields) /\ \E n \in DOMAIN q : q[n] = w.fields[c][j]
  BY <1>3, InstanceAre
<1>5. PICK n \in DOMAIN q : q[n] = w.fields[c][j]
  BY <1>4
<1> HIDE DEF p, q
<1>6. n + Len(p) \in DOMAIN (p \o q) /\ (p \o q)[n + Len(p)] = q[n]
  BY <1>2, <1>4
<1> QED BY <1>1, <1>5, <1>6

\* A field that contains a reference is aligned like one.
LEMMA ReferenceAligned ==
  ASSUME NEW k, NEW f, ContainsReference(k, f), f.kind = "value" => (k[f.of].refs => k[f.of].align >= PtrSize)
  PROVE  FieldSize(k, f).align >= PtrSize
<1>1. f.kind = "ref" \/ (f.kind = "value" /\ k[f.of].refs)
  BY DEF ContainsReference
<1>2. CASE f.kind = "ref"
  <2>1. "ref" \notin DOMAIN PrimSize
    BY DEF PrimSize
  <2>2. FieldSize(k, f) = [size |-> PtrSize, align |-> PtrSize]
    BY <1>2, <2>1 DEF FieldSize
  <2> QED BY <2>2, PtrSizeAssumption
<1>3. CASE f.kind = "value" /\ k[f.of].refs
  <2>1. FieldSize(k, f).align = k[f.of].align
    BY <1>3 DEF FieldSize, PrimSize
  <2> QED BY <1>3, <2>1
<1> QED BY <1>1, <1>2, <1>3

LEMMA LayoutSound ==
  ASSUME w \in Worlds, NEW k, NEW l, LayoutTyped(k), RefsMeant(k), NEW c \in Classes, Prepared(k, c), LaidOut(k, l, c)
  PROVE  Sound(l, c)
<1> DEFINE fs == Whole(c)
           pk == PackOf(k, c)
           p  == w.parent[c]
           m  == InstanceLayout(k, w, c)
<1>1. /\ AncestorsOf(c) \subseteq Classes
      /\ p = NoClass => AncestorsOf(c) = {c}
      /\ p # NoClass => p \in Classes /\ AncestorsOf(c) = AncestorsOf(p) \cup {c} /\ p \in AncestorsOf(p)
  BY Ancestors
<1>2. p # NoClass => /\ Sound(k, p) /\ \A a \in AncestorsOf(p) : k[a].fields = w.fields[a] /\ k[a].align # 0
  BY DEF Prepared, Sound
<1>3. HierarchyFields(k, w.parent, c) = fs
  BY <1>2, WholeHierarchy DEF Prepared
<1>4. /\ m.size \in Nat /\ m.align \in Aligns /\ m.offs \in Seq(Nat)
      /\ \A i \in DOMAIN fs : EffectiveAlign(k, fs[i], pk) <= m.align
      /\ Len(m.offs) = Len(fs)
      /\ IF c \in w.explicit THEN \A i \in DOMAIN fs : m.offs[i] = fs[i].at
                             ELSE Packed(k, fs, pk, m.offs)
      /\ (\A i \in DOMAIN fs : Solid(k, fs[i])) =>
            \A i \in DOMAIN fs : m.offs[i] + FieldSize(k, fs[i]).size <= m.size
      /\ c \in w.value => m.size > 0
  BY <1>3, InstanceIs
<1>5. fs \in Seq(Fields) /\ pk \in Packings
  BY WholeTyped, WorldLayout DEF PackOf, Packings
<1>6. ASSUME NEW i \in DOMAIN fs
      PROVE  LET f == fs[i]
             IN  /\ f.kind = "value" => /\ f.of \in Classes /\ f.of # c /\ k[f.of].align # 0
                                        /\ k[f.of].refs => k[f.of].align >= PtrSize
                                        /\ c \in w.value /\ k[f.of].refs => k[c].refs
                 /\ c \in w.value /\ f.kind = "ref" => k[c].refs
                 /\ Sized(k, f) /\ Solid(k, f)
  BY PreparedFields
<1>7. /\ l[c].fields = w.fields[c] /\ l[c].refs = k[c].refs
      /\ l[c].size = m.size /\ l[c].align = m.align /\ l[c].offs = m.offs
      /\ \A x \in Classes : x # c => /\ l[x].fields = k[x].fields /\ l[x].refs = k[x].refs
                                     /\ l[x].size = k[x].size /\ l[x].align = k[x].align
                                     /\ l[x].offs = k[x].offs
  BY DEF LaidOut, Prepared
<1>8. k[c].align = 0
  BY DEF Prepared
<1> HIDE DEF fs, m, pk
<1>9. ASSUME NEW i \in DOMAIN fs
      PROVE  /\ FieldSize(l, fs[i]) = FieldSize(k, fs[i])
             /\ fs[i].kind = "value" => /\ l[fs[i].of].refs = k[fs[i].of].refs
                                        /\ l[fs[i].of].align = k[fs[i].of].align
  <2> DEFINE f == fs[i]
  <2>1. f.kind = "value" => f.of \in Classes /\ f.of # c
    BY <1>6
  <2> HIDE DEF f
  <2>2. f.kind = "value" => /\ l[f.of].refs = k[f.of].refs /\ l[f.of].align = k[f.of].align
                            /\ l[f.of].size = k[f.of].size
    BY <1>7, <2>1
  <2>3. FieldSize(l, f) = FieldSize(k, f)
    BY <2>2 DEF FieldSize
  <2> QED BY <2>2, <2>3 DEF f
<1>10. PackOf(l, c) = pk
  BY <1>7 DEF PackOf, pk
<1>11. \A i \in DOMAIN fs : EffectiveAlign(l, fs[i], pk) = EffectiveAlign(k, fs[i], pk)
  BY <1>9 DEF EffectiveAlign
<1>12. Packed(k, fs, pk, m.offs) => Packed(l, fs, pk, m.offs)
  <2> SUFFICES ASSUME Packed(k, fs, pk, m.offs) PROVE Packed(l, fs, pk, m.offs)
    OBVIOUS
  <2>2. \A i \in DOMAIN fs : i # 1 => FieldSize(l, fs[i - 1]) = FieldSize(k, fs[i - 1])
    BY <1>5, <1>9
  <2>3. ASSUME NEW i \in DOMAIN fs
        PROVE  m.offs[i] = AlignUp(IF i = 1 THEN 0 ELSE m.offs[i - 1] + FieldSize(l, fs[i - 1]).size,
                                   EffectiveAlign(l, fs[i], pk))
    <3>1. m.offs[i] = AlignUp(IF i = 1 THEN 0 ELSE m.offs[i - 1] + FieldSize(k, fs[i - 1]).size,
                              EffectiveAlign(k, fs[i], pk))
      BY DEF Packed
    <3> QED BY <1>11, <2>2, <3>1
  <2> QED BY <2>3 DEF Packed
<1>13. \A a \in AncestorsOf(c) : l[a].fields = w.fields[a] /\ l[a].align # 0
  <2>1. m.align # 0
    BY <1>4 DEF Aligns
  <2>2. ASSUME NEW a \in AncestorsOf(c) PROVE l[a].fields = w.fields[a] /\ l[a].align # 0
    <3>1. CASE a = c
      BY <1>7, <2>1, <3>1
    <3>2. CASE a # c
      <4>1. k[a].fields = w.fields[a] /\ k[a].align # 0 /\ a \in Classes
        BY <1>1, <1>2, <3>2
      <4> QED BY <1>7, <3>2, <4>1
    <3> QED BY <3>1, <3>2
  <2> QED BY <2>2
<1>14. \A i \in DOMAIN fs : fs[i].kind = "value" =>
             /\ l[fs[i].of].align # 0
             /\ l[fs[i].of].refs => l[fs[i].of].align >= PtrSize
             /\ c \in w.value /\ l[fs[i].of].refs => l[c].refs
  BY <1>6, <1>7, <1>9
<1>15. /\ Len(l[c].offs) = Len(fs)
       /\ IF c \in w.explicit THEN \A i \in DOMAIN fs : l[c].offs[i] = fs[i].at
                              ELSE Packed(l, fs, PackOf(l, c), l[c].offs)
  BY <1>4, <1>7, <1>10, <1>12
<1>16. \A i \in DOMAIN fs : l[c].offs[i] + FieldSize(l, fs[i]).size <= l[c].size
  BY <1>4, <1>6, <1>7, <1>9
<1>17. \A i \in DOMAIN fs : c \in w.value /\ fs[i].kind = "ref" => l[c].refs
  BY <1>6, <1>7
<1>18. ASSUME p # NoClass, c \notin w.explicit PROVE IsPrefix(l[p].offs, l[c].offs)
  <2>1. p \in Classes /\ p # c /\ l[p].offs = k[p].offs
    BY <1>1, <1>2, <1>7, <1>8, <1>18
  <2> DEFINE gs == InstanceFields(w.fields[c])
             ps == Whole(p)
  <2>2. fs = ps \o gs /\ ps \in Seq(Fields) /\ gs \in Seq(Fields)
    BY <1>18, <2>1, World, WholeRule, WholeTyped, InstanceAre DEF fs
  <2>3. k[p].offs \in Seq(Nat)
    BY <2>1 DEF LayoutTyped
  <2>4. Packed(k, fs, pk, m.offs)
    BY <1>4, <1>18
  <2>5. Packed(k, ps, pk, k[p].offs)
    <3>1. /\ Len(k[p].offs) = Len(Whole(p))
          /\ IF p \in w.explicit THEN \A i \in DOMAIN Whole(p) : k[p].offs[i] = Whole(p)[i].at
                                 ELSE Packed(k, Whole(p), PackOf(k, p), k[p].offs)
      BY <1>2, <1>18 DEF Sound
    <3>2. p \notin w.value /\ p \notin w.explicit
      BY <1>18, WorldLayout
    <3>3. CASE c \in w.value
      <4>1. ps = <<>>
        BY <1>18, <3>3, ValueAlone
      <4>2. Len(k[p].offs) = Len(ps)
        BY <3>1
      <4> HIDE DEF ps
      <4> QED BY <4>1, <4>2 DEF Packed
    <3>4. CASE c \notin w.value
      <4>1. pk = 0 /\ PackOf(k, p) = 0
        BY <3>2, <3>4 DEF pk, PackOf
      <4> QED BY <3>1, <3>2, <4>1
    <3> QED BY <3>3, <3>4
  <2> HIDE DEF gs, ps
  <2>6. IsPrefix(k[p].offs, m.offs)
    <3>1. Packed(k, ps \o gs, pk, m.offs) /\ m.offs \in Seq(Nat)
      BY <1>4, <2>2, <2>4
    <3> QED BY <2>2, <2>3, <2>5, <3>1, PackedPrefix
  <2> QED BY <1>7, <2>1, <2>6
<1>19. ASSUME c \in w.value PROVE l[c].size > 0 /\ (l[c].refs => l[c].align >= PtrSize)
  <2>1. l[c].size > 0
    BY <1>4, <1>7, <1>19
  <2>2. ASSUME l[c].refs PROVE l[c].align >= PtrSize
    <3>1. k[c].refs
      BY <1>7, <2>2
    <3>2. PICK j \in DOMAIN w.fields[c] : ~w.fields[c][j].static /\ ContainsReference(k, w.fields[c][j])
      BY <1>19, <3>1 DEF RefsMeant
    <3>3. PICK i \in DOMAIN fs : fs[i] = w.fields[c][j]
      BY <3>2, WholeHas DEF fs
    <3>4. pk = 0
      BY <3>1 DEF pk, PackOf
    <3>5. FieldSize(k, fs[i]).align >= PtrSize
      BY <1>6, <3>2, <3>3, ReferenceAligned
    <3>6. EffectiveAlign(k, fs[i], 0) = FieldSize(k, fs[i]).align
      BY <1>6, EffectiveIs DEF Packings
    <3>7. EffectiveAlign(k, fs[i], 0) <= m.align /\ EffectiveAlign(k, fs[i], 0) \in Nat /\ m.align \in Nat
      <4>1. FieldSize(k, fs[i]).align \in Nat
        BY <1>6 DEF Solid, Aligns
      <4>2. m.align \in Nat
        BY <1>4 DEF Aligns
      <4> QED BY <1>4, <3>4, <3>6, <4>1, <4>2
    <3> QED BY <1>7, <3>5, <3>6, <3>7, PtrSizeAssumption
  <2> QED BY <2>1, <2>2
<1> QED BY <1>13, <1>14, <1>15, <1>16, <1>17, <1>18, <1>19 DEF Sound, fs

(***************************************************************************)
(* The todo of the class layouts, item by item.                            *)
(***************************************************************************)
LEMMA FreeTodo ==
  ASSUME NEW s, LayoutFree(s), NEW fl, NEW k
  PROVE  TodoInv(s, fl, k)
BY DEF LayoutFree, LayoutOps, TodoInv, FrontLoaded, Ranked, Chained, TypesMarked, InProgress, Begun, Begins

\* All of it but the marks of the types.
TodoRest(s, fl, k) ==
    FrontLoaded(s) /\ Ranked(s) /\ Chained(s) /\ InProgress(s, fl, k) /\ Begun(s, fl, k)

\* The marks that an item of work leaves when it is a call of initialize_fields.
Marked(x, fl) == x.op = "init" /\ x.arg = "Field" => <<"Field", x.of>> \in fl

\* An item that is no part of a layout goes.
LEMMA TailRest ==
  ASSUME NEW s \in Seq(WorkItems), s # <<>>, NEW fl, NEW k, TodoRest(s, fl, k), s[1].op \notin LayoutOps
  PROVE  TodoRest(Tail(s), fl, k)
<1> DEFINE t == Tail(s)
<1>1. /\ t \in Seq(WorkItems) /\ Len(t) = Len(s) - 1 /\ 1 \in DOMAIN s
      /\ \A i \in DOMAIN t : i + 1 \in DOMAIN s /\ t[i] = s[i + 1]
      /\ \A i \in DOMAIN s : i = 1 \/ (i - 1 \in DOMAIN t /\ s[i] = t[i - 1])
  BY TailOf
<1>2. FrontLoaded(s) /\ Ranked(s) /\ Chained(s) /\ InProgress(s, fl, k) /\ Begun(s, fl, k)
  BY DEF TodoRest
<1>3. DOMAIN t \subseteq Nat /\ \A i \in DOMAIN t : i >= 1
  BY <1>1
<1> HIDE DEF t
<1>4. FrontLoaded(t)
  BY <1>1, <1>2, <1>3 DEF FrontLoaded
<1>5. Ranked(t)
  <2> SUFFICES ASSUME NEW i \in DOMAIN t, NEW j \in DOMAIN t, i < j, t[i].op \in LayoutOps, t[j].op \in LayoutOps,
                      t[i].of = t[j].of
               PROVE  Rank(t[i]) < Rank(t[j])
    BY DEF Ranked
  <2>1. /\ i + 1 \in DOMAIN s /\ t[i] = s[i + 1] /\ j + 1 \in DOMAIN s /\ t[j] = s[j + 1]
        /\ i + 1 < j + 1
    BY <1>1, <1>3
  <2> QED BY <1>2, <2>1 DEF Ranked
<1>6. Chained(t)
  <2> SUFFICES ASSUME NEW i \in DOMAIN t, t[i].op \in LayoutOps \ {"layout"}
               PROVE  i + 1 \in DOMAIN t /\ t[i + 1] = Round(t[i].of, Rank(t[i]) + 1)
    BY DEF Chained
  <2>1. i + 1 \in DOMAIN s /\ t[i] = s[i + 1] /\ i \in Nat /\ i >= 1
    BY <1>1, <1>3
  <2>2. (i + 1) + 1 \in DOMAIN s /\ s[(i + 1) + 1] = Round(t[i].of, Rank(t[i]) + 1)
    BY <1>2, <2>1 DEF Chained
  <2>3. (i + 1) + 1 # 1 /\ ((i + 1) + 1) - 1 = i + 1
    BY <2>1
  <2> QED BY <1>1, <2>2, <2>3
<1>8. InProgress(t, fl, k)
  BY <1>1, <1>2 DEF InProgress
<1>9. Begun(t, fl, k)
  <2> SUFFICES ASSUME NEW j \in DOMAIN t, Begins(t, j), t[j].op # "fields"
               PROVE  LET c == t[j].of
                      IN  /\ k[c].fields = w.fields[c]
                          /\ \A i \in DOMAIN w.fields[c] :
                               i < Rank(t[j]) /\ ~w.fields[c][i].static => Seen(t, j, fl, k, c, w.fields[c][i])
    BY DEF Begun
  <2> DEFINE c == t[j].of
  <2>1. j + 1 \in DOMAIN s /\ t[j] = s[j + 1] /\ j \in Nat /\ j >= 1 /\ (j + 1) - 1 = j
    BY <1>1, <1>3
  <2>2. j # 1 => s[j] = t[j - 1]
    <3>1. j \in DOMAIN s
      BY <1>1, <2>1
    <3> QED BY <1>1, <3>1
  <2>3. Begins(s, j + 1)
    BY <2>1, <2>2 DEF Begins
  <2>4. /\ k[c].fields = w.fields[c]
        /\ \A i \in DOMAIN w.fields[c] :
              i < Rank(t[j]) /\ ~w.fields[c][i].static => Seen(s, j + 1, fl, k, c, w.fields[c][i])
    BY <1>2, <2>1, <2>3 DEF Begun
  <2>5. ASSUME NEW f, Seen(s, j + 1, fl, k, c, f) PROVE Seen(t, j, fl, k, c, f)
    <3>1. ASSUME \A i \in DOMAIN s : i < j + 1 => ~(s[i].op = "layout" /\ s[i].of = f.of)
          PROVE  \A i \in DOMAIN t : i < j => ~(t[i].op = "layout" /\ t[i].of = f.of)
      <4> SUFFICES ASSUME NEW i \in DOMAIN t, i < j PROVE ~(t[i].op = "layout" /\ t[i].of = f.of)
        OBVIOUS
      <4>1. i + 1 \in DOMAIN s /\ t[i] = s[i + 1] /\ i + 1 < j + 1
        BY <1>1, <1>3, <2>1
      <4> QED BY <3>1, <4>1
    <3> QED BY <2>5, <3>1 DEF Seen
  <2> QED BY <2>4, <2>5
<1> QED BY <1>4, <1>5, <1>6, <1>8, <1>9 DEF TodoRest, t

LEMMA RestGrows ==
  ASSUME NEW s, NEW fl, NEW fl2, NEW k, TodoRest(s, fl, k), fl \subseteq fl2
  PROVE  TodoRest(s, fl2, k)
<1>1. InProgress(s, fl2, k)
  BY DEF TodoRest, InProgress
<1>2. \A j, c, f : Seen(s, j, fl, k, c, f) => Seen(s, j, fl2, k, c, f)
  BY DEF Seen
<1>3. Begun(s, fl2, k)
  BY <1>2 DEF TodoRest, Begun
<1> QED BY <1>1, <1>3 DEF TodoRest

LEMMA TailTodo ==
  ASSUME NEW s \in Seq(WorkItems), s # <<>>, NEW fl, NEW fl2, NEW k, TodoInv(s, fl, k),
         s[1].op \notin LayoutOps, fl \subseteq fl2, Marked(s[1], fl2)
  PROVE  TodoInv(Tail(s), fl2, k) /\ TodoRest(Tail(s), fl, k)
<1> DEFINE t == Tail(s)
<1>1. /\ t \in Seq(WorkItems) /\ Len(t) = Len(s) - 1 /\ 1 \in DOMAIN s
      /\ \A i \in DOMAIN t : i + 1 \in DOMAIN s /\ t[i] = s[i + 1]
      /\ \A i \in DOMAIN s : i = 1 \/ (i - 1 \in DOMAIN t /\ s[i] = t[i - 1])
  BY TailOf
<1>2. TypesMarked(s, fl) /\ TodoRest(s, fl, k)
  BY DEF TodoInv, TodoRest
<1>3. DOMAIN t \subseteq Nat /\ \A i \in DOMAIN t : i >= 1
  BY <1>1
<1>4. TodoRest(t, fl, k)
  BY <1>2, TailRest
<1>5. TodoRest(t, fl2, k)
  BY <1>4, RestGrows
<1> HIDE DEF t
<1>7. TypesMarked(t, fl2)
  <2> SUFFICES ASSUME NEW i \in DOMAIN t, t[i].op = "refs"
               PROVE  /\ t[i].arg \in DOMAIN w.fields[t[i].of] /\ ~w.fields[t[i].of][t[i].arg].static
                      /\ LET f == w.fields[t[i].of][t[i].arg]
                         IN  f.kind = "value" => \/ <<"Field", f.of>> \in fl2
                                                 \/ i > 1 /\ t[i - 1] = Initialize("Field", f.of)
    BY DEF TypesMarked
  <2> DEFINE f == w.fields[t[i].of][t[i].arg]
  <2>1. i + 1 \in DOMAIN s /\ t[i] = s[i + 1] /\ i \in Nat /\ i >= 1
    BY <1>1, <1>3
  <2>2. /\ t[i].arg \in DOMAIN w.fields[t[i].of] /\ ~w.fields[t[i].of][t[i].arg].static
        /\ f.kind = "value" => \/ <<"Field", f.of>> \in fl
                               \/ s[(i + 1) - 1] = Initialize("Field", f.of)
    BY <1>2, <2>1 DEF TypesMarked
  <2>3. (i + 1) - 1 = i
    BY <2>1
  <2>4. CASE i = 1
    <3>1. s[1] = Initialize("Field", f.of) => <<"Field", f.of>> \in fl2
      BY DEF Marked, Initialize, Do
    <3> QED BY <2>2, <2>3, <2>4, <3>1
  <2>5. CASE i # 1
    <3>1. i \in DOMAIN s /\ i > 1
      BY <1>1, <2>1, <2>5
    <3>2. s[i] = t[i - 1]
      BY <1>1, <2>5, <3>1
    <3> QED BY <2>2, <2>3, <3>1, <3>2
  <2> QED BY <2>4, <2>5
<1> QED BY <1>4, <1>5, <1>7 DEF TodoInv, TodoRest, t

\* Work that is no part of a layout comes in front.
LEMMA JoinRest ==
  ASSUME NEW b \in Seq(WorkItems), NEW t \in Seq(WorkItems), NEW fl, NEW k, TodoRest(t, fl, k), LayoutFree(b),
         LayoutFree(t) \/ \A i \in DOMAIN b : b[i].op \in NativeOps \cup {"end"}
  PROVE  TodoRest(b \o t, fl, k)
<1> DEFINE u == b \o t
           n == Len(b)
<1>1. /\ u \in Seq(WorkItems) /\ n \in Nat
      /\ \A i \in DOMAIN u : \/ i \in DOMAIN b /\ u[i] = b[i]
                             \/ i - n \in DOMAIN t /\ u[i] = t[i - n] /\ i > n
      /\ \A i \in DOMAIN b : i \in DOMAIN u /\ u[i] = b[i] /\ i \in Nat /\ i <= n
      /\ \A i \in DOMAIN t : i + n \in DOMAIN u /\ u[i + n] = t[i] /\ i \in Nat /\ i >= 1
  BY Joined
<1>2. FrontLoaded(t) /\ Ranked(t) /\ Chained(t) /\ InProgress(t, fl, k) /\ Begun(t, fl, k)
  BY DEF TodoRest
<1>3. DOMAIN u \subseteq Nat
  BY <1>1
<1> HIDE DEF u, n
<1>4. \A i \in DOMAIN u : u[i].op \in LayoutOps => i - n \in DOMAIN t /\ u[i] = t[i - n] /\ i > n
  BY <1>1 DEF LayoutFree
<1>5. FrontLoaded(u)
  <2> SUFFICES ASSUME NEW i \in DOMAIN u, NEW j \in DOMAIN u, i < j, u[i].op \notin NativeOps \cup {"end"},
                      u[j].op \in LayoutOps
               PROVE  FALSE
    BY DEF FrontLoaded
  <2>1. j - n \in DOMAIN t /\ u[j] = t[j - n]
    BY <1>4
  <2>2. \A x \in DOMAIN b : b[x].op \in NativeOps \cup {"end"}
    BY <2>1 DEF LayoutFree
  <2>3. i - n \in DOMAIN t /\ u[i] = t[i - n]
    BY <1>1, <2>2
  <2>4. i - n < j - n
    BY <1>1, <1>3
  <2> QED BY <1>2, <2>1, <2>3, <2>4 DEF FrontLoaded
<1>6. Ranked(u)
  <2> SUFFICES ASSUME NEW i \in DOMAIN u, NEW j \in DOMAIN u, i < j, u[i].op \in LayoutOps, u[j].op \in LayoutOps,
                      u[i].of = u[j].of
               PROVE  Rank(u[i]) < Rank(u[j])
    BY DEF Ranked
  <2>1. /\ i - n \in DOMAIN t /\ u[i] = t[i - n] /\ j - n \in DOMAIN t /\ u[j] = t[j - n]
        /\ i - n < j - n
    BY <1>1, <1>3, <1>4
  <2> QED BY <1>2, <2>1 DEF Ranked
<1>7. Chained(u)
  <2> SUFFICES ASSUME NEW i \in DOMAIN u, u[i].op \in LayoutOps \ {"layout"}
               PROVE  i + 1 \in DOMAIN u /\ u[i + 1] = Round(u[i].of, Rank(u[i]) + 1)
    BY DEF Chained
  <2>1. i - n \in DOMAIN t /\ u[i] = t[i - n]
    BY <1>4
  <2>2. (i - n) + 1 \in DOMAIN t /\ t[(i - n) + 1] = Round(u[i].of, Rank(u[i]) + 1)
    BY <1>2, <2>1 DEF Chained
  <2>3. ((i - n) + 1) + n = i + 1
    BY <1>1, <1>3
  <2> QED BY <1>1, <2>2, <2>3
<1>9. InProgress(u, fl, k)
  BY <1>2, <1>4 DEF InProgress
<1>10. Begun(u, fl, k)
  <2> SUFFICES ASSUME NEW j \in DOMAIN u, Begins(u, j), u[j].op # "fields"
               PROVE  LET c == u[j].of
                      IN  /\ k[c].fields = w.fields[c]
                          /\ \A i \in DOMAIN w.fields[c] :
                               i < Rank(u[j]) /\ ~w.fields[c][i].static => Seen(u, j, fl, k, c, w.fields[c][i])
    BY DEF Begun
  <2> DEFINE c == u[j].of
             m == j - n
  <2>1. m \in DOMAIN t /\ u[j] = t[m] /\ m \in Nat /\ m >= 1 /\ m + n = j
    BY <1>1, <1>3, <1>4 DEF Begins
  <2> HIDE DEF m
  <2>2. Begins(t, m)
    <3>1. CASE m = 1
      BY <2>1, <3>1 DEF Begins
    <3>2. CASE m # 1
      <4>1. m - 1 \in DOMAIN t /\ (m - 1) + n = j - 1 /\ j # 1
        BY <1>1, <2>1, <3>2
      <4>2. u[j - 1] = t[m - 1]
        BY <1>1, <4>1
      <4> QED BY <2>1, <4>1, <4>2 DEF Begins
    <3> QED BY <3>1, <3>2
  <2>4. /\ k[c].fields = w.fields[c]
        /\ \A i \in DOMAIN w.fields[c] :
              i < Rank(u[j]) /\ ~w.fields[c][i].static => Seen(t, m, fl, k, c, w.fields[c][i])
    BY <1>2, <2>1, <2>2 DEF Begun
  <2>5. ASSUME NEW f, Seen(t, m, fl, k, c, f) PROVE Seen(u, j, fl, k, c, f)
    <3>1. ASSUME \A i \in DOMAIN t : i < m => ~(t[i].op = "layout" /\ t[i].of = f.of),
                 NEW i \in DOMAIN u, i < j, u[i].op = "layout" /\ u[i].of = f.of
          PROVE  FALSE
      <4>1. i - n \in DOMAIN t /\ u[i] = t[i - n]
        BY <1>4, <3>1 DEF LayoutOps
      <4>2. i - n < m
        BY <1>1, <1>3, <2>1, <3>1
      <4> QED BY <3>1, <4>1, <4>2
    <3> QED BY <2>5, <3>1 DEF Seen
  <2> QED BY <2>4, <2>5
<1> QED BY <1>5, <1>6, <1>7, <1>9, <1>10 DEF TodoRest, u

LEMMA JoinTodo ==
  ASSUME NEW b \in Seq(WorkItems), NEW t \in Seq(WorkItems), NEW fl, NEW k, TodoInv(t, fl, k), LayoutFree(b),
         LayoutFree(t) \/ \A i \in DOMAIN b : b[i].op \in NativeOps \cup {"end"}
  PROVE  TodoInv(b \o t, fl, k)
<1> DEFINE u == b \o t
           n == Len(b)
<1>1. /\ u \in Seq(WorkItems) /\ n \in Nat
      /\ \A i \in DOMAIN u : \/ i \in DOMAIN b /\ u[i] = b[i]
                             \/ i - n \in DOMAIN t /\ u[i] = t[i - n] /\ i > n
      /\ \A i \in DOMAIN t : i + n \in DOMAIN u /\ u[i + n] = t[i] /\ i \in Nat /\ i >= 1
  BY Joined
<1>2. TypesMarked(t, fl) /\ TodoRest(t, fl, k)
  BY DEF TodoInv, TodoRest
<1>3. DOMAIN u \subseteq Nat /\ TodoRest(u, fl, k)
  BY <1>1, <1>2, JoinRest
<1> HIDE DEF u, n
<1>4. \A i \in DOMAIN u : u[i].op \in LayoutOps => i - n \in DOMAIN t /\ u[i] = t[i - n] /\ i > n
  BY <1>1 DEF LayoutFree
<1>8. TypesMarked(u, fl)
  <2> SUFFICES ASSUME NEW i \in DOMAIN u, u[i].op = "refs"
               PROVE  /\ u[i].arg \in DOMAIN w.fields[u[i].of] /\ ~w.fields[u[i].of][u[i].arg].static
                      /\ LET f == w.fields[u[i].of][u[i].arg]
                         IN  f.kind = "value" => \/ <<"Field", f.of>> \in fl
                                                 \/ i > 1 /\ u[i - 1] = Initialize("Field", f.of)
    BY DEF TypesMarked
  <2> DEFINE f == w.fields[u[i].of][u[i].arg]
  <2>1. i - n \in DOMAIN t /\ u[i] = t[i - n]
    BY <1>4 DEF LayoutOps
  <2>2. /\ u[i].arg \in DOMAIN w.fields[u[i].of] /\ ~w.fields[u[i].of][u[i].arg].static
        /\ f.kind = "value" => \/ <<"Field", f.of>> \in fl
                               \/ i - n > 1 /\ t[(i - n) - 1] = Initialize("Field", f.of)
    BY <1>2, <2>1 DEF TypesMarked
  <2>3. ASSUME i - n > 1 PROVE i > 1 /\ u[i - 1] = t[(i - n) - 1]
    <3>1. (i - n) - 1 \in DOMAIN t /\ ((i - n) - 1) + n = i - 1 /\ i > 1
      BY <1>1, <1>3, <2>1, <2>3
    <3> QED BY <1>1, <3>1
  <2> HIDE DEF f
  <2>4. f.kind = "value" => \/ <<"Field", f.of>> \in fl
                            \/ i > 1 /\ u[i - 1] = Initialize("Field", f.of)
    BY <2>2, <2>3
  <2> QED BY <2>2, <2>4 DEF f
<1> QED BY <1>3, <1>8 DEF TodoInv, TodoRest, u

\* The round of an item is one of those of its class.
LEMMA Ranks ==
  ASSUME w \in Worlds, NEW s \in Seq(WorkItems), NEW fl, TypesMarked(s, fl), NEW i \in DOMAIN s, s[i].op \in LayoutOps
  PROVE  LET L == Len(w.fields[s[i].of])
         IN  /\ L \in Nat /\ s[i].of \in Classes /\ Rank(s[i]) \in 0..(L + 1)
             /\ s[i].op = "layout" <=> Rank(s[i]) = L + 1
             /\ s[i].op = "fields" <=> Rank(s[i]) = 0
<1>1. s[i] \in WorkItems
  OBVIOUS
<1>2. s[i].of \in Classes /\ (s[i].op = "field" => s[i].arg \in DOMAIN w.fields[s[i].of])
  BY <1>1 DEF WorkItems
<1>3. s[i].op = "refs" => s[i].arg \in DOMAIN w.fields[s[i].of]
  BY DEF TypesMarked
<1>4. w.fields[s[i].of] \in Seq(Fields)
  BY <1>2, World
<1> DEFINE fs == w.fields[s[i].of]
<1>5. Len(fs) \in Nat /\ DOMAIN fs = 1..Len(fs)
  BY <1>4
<1> HIDE DEF fs
<1>6. s[i].op \in {"field", "refs"} => s[i].arg \in 1..Len(fs)
  BY <1>2, <1>3, <1>5 DEF fs
<1>7. s[i].op \in {"fields", "field", "refs", "layout"}
  BY DEF LayoutOps
<1>8. s[i].op = "fields" => Rank(s[i]) = 0
  BY DEF Rank
<1>9. s[i].op \in {"field", "refs"} => Rank(s[i]) = s[i].arg
  BY DEF Rank
<1>10. s[i].op = "layout" => Rank(s[i]) = Len(fs) + 1
  BY DEF Rank, fs
<1>11. /\ Rank(s[i]) \in 0..(Len(fs) + 1)
       /\ s[i].op = "layout" <=> Rank(s[i]) = Len(fs) + 1
       /\ s[i].op = "fields" <=> Rank(s[i]) = 0
  <2>1. PICK n \in Nat : n = Len(fs)
    BY <1>5
  <2>2. CASE s[i].op = "fields"
    BY <1>8, <2>1, <2>2
  <2>3. CASE s[i].op \in {"field", "refs"}
    <3>1. s[i].arg \in 1..n /\ Rank(s[i]) = s[i].arg
      BY <1>6, <1>9, <2>1, <2>3
    <3>2. Rank(s[i]) \in 0..(n + 1) /\ Rank(s[i]) # n + 1 /\ Rank(s[i]) # 0
      BY <3>1
    <3> QED BY <2>1, <2>3, <3>2
  <2>4. CASE s[i].op = "layout"
    BY <1>10, <2>1, <2>4
  <2> QED BY <1>7, <2>2, <2>3, <2>4
<1> QED BY <1>2, <1>5, <1>11 DEF fs

LEMMA RoundIs ==
  ASSUME w \in Worlds, NEW c \in Classes, NEW n \in 1..(Len(w.fields[c]) + 1)
  PROVE  Round(c, n).op \in LayoutOps /\ Round(c, n).of = c /\ Rank(Round(c, n)) = n
<1>1. Len(w.fields[c]) \in Nat
  BY World
<1>2. CASE n <= Len(w.fields[c])
  BY <1>2 DEF Round, Do, Rank, LayoutOps
<1>3. CASE ~(n <= Len(w.fields[c]))
  <2>1. n = Len(w.fields[c]) + 1
    BY <1>1, <1>3
  <2> QED BY <1>3, <2>1 DEF Round, Do, Work, Rank, LayoutOps
<1> QED BY <1>2, <1>3

\* What is left of the layout of the class in front is one chain.
LEMMA OneChain ==
  ASSUME w \in Worlds, NEW s \in Seq(WorkItems), s # <<>>, NEW fl, TypesMarked(s, fl), Ranked(s), Chained(s),
         s[1].op \in LayoutOps, NEW j \in DOMAIN s, j > 1, s[j].op \in LayoutOps, s[j].of = s[1].of
  PROVE  s[j - 1].op \in LayoutOps /\ s[j - 1].of = s[1].of
<1> DEFINE c == s[1].of
           L == Len(w.fields[c])
           r == Rank(s[1])
           N == L + 1 - r
           In(m) == 1 + m \in DOMAIN s /\ s[1 + m].op \in LayoutOps /\ s[1 + m].of = c /\ Rank(s[1 + m]) = r + m
           S == {m \in 0..N : In(m)}
<1>1. 1 \in DOMAIN s
  OBVIOUS
<1>2. L \in Nat /\ c \in Classes /\ r \in 0..(L + 1)
  BY <1>1, Ranks
<1>3. \A i \in DOMAIN s : s[i].op \in LayoutOps /\ s[i].of = c =>
         Rank(s[i]) \in 0..(L + 1) /\ (s[i].op = "layout" <=> Rank(s[i]) = L + 1)
  BY Ranks
<1> HIDE DEF c, L, r
<1>4. N \in Nat
  BY <1>2
<1>5. 0 \in S
  BY <1>1, <1>2, <1>4 DEF c, r
<1>6. ASSUME NEW m \in 0..(N - 1), m \in S PROVE m + 1 \in S
  <2>1. In(m) /\ r + m < L + 1
    BY <1>2, <1>4, <1>6
  <2>2. s[1 + m].op # "layout"
    BY <1>2, <1>3, <2>1
  <2>3. (1 + m) + 1 \in DOMAIN s /\ s[(1 + m) + 1] = Round(c, (r + m) + 1)
    BY <2>1, <2>2 DEF Chained
  <2>4. (r + m) + 1 \in 1..(L + 1)
    BY <1>2, <2>1, <1>6
  <2>5. /\ Round(c, (r + m) + 1).op \in LayoutOps /\ Round(c, (r + m) + 1).of = c
        /\ Rank(Round(c, (r + m) + 1)) = (r + m) + 1
    BY <1>2, <2>4, RoundIs DEF L
  <2>6. (1 + m) + 1 = 1 + (m + 1) /\ (r + m) + 1 = r + (m + 1) /\ m + 1 \in 0..N
    BY <1>2, <1>4, <1>6
  <2> QED BY <2>3, <2>5, <2>6
<1>7. 0..N \subseteq S
  <2> HIDE DEF S, N
  <2> QED BY <1>4, <1>5, <1>6, Induct
<1>8. Rank(s[j]) \in 0..(L + 1) /\ r < Rank(s[j])
  <2>1. s[j].of = c /\ r = Rank(s[1])
    BY DEF c, r
  <2>2. Rank(s[1]) < Rank(s[j])
    BY <1>1 DEF Ranked
  <2>3. Rank(s[j]) \in 0..(L + 1)
    BY <1>3, <2>1
  <2> QED BY <2>1, <2>2, <2>3
<1> DEFINE m == Rank(s[j]) - r
<1>9. m \in 1..N /\ m - 1 \in 0..N /\ r + m = Rank(s[j])
  BY <1>2, <1>8
<1> HIDE DEF m
<1>10. In(m) /\ In(m - 1)
  <2> HIDE DEF In, N
  <2>1. \A x \in 0..N : In(x)
    BY <1>7
  <2>2. m \in 0..N
    BY <1>4, <1>9
  <2> QED BY <1>9, <2>1, <2>2
<1>11. 1 + m = j
  <2>1. j \in Nat /\ 1 + m \in Nat
    BY <1>9
  <2>2. ~(1 + m < j) /\ ~(j < 1 + m)
    <3>1. Rank(s[1 + m]) = Rank(s[j]) /\ s[1 + m].of = s[j].of
      BY <1>9, <1>10 DEF c
    <3>2. Rank(s[j]) \in Int
      BY <1>2, <1>8
    <3> QED BY <1>10, <3>1, <3>2 DEF Ranked
  <2> QED BY <2>1, <2>2
<1>12. 1 + (m - 1) = j - 1
  BY <1>9, <1>11
<1> QED BY <1>10, <1>12 DEF c

\* Only class c has changed, of what the layouts read.
Alike(k, l, c) ==
    \A x \in Classes : x # c => l[x].fields = k[x].fields /\ l[x].refs = k[x].refs /\ l[x].align = k[x].align

\* The first item of a chain is done: the rest of the chain knows what it has found.
LEMMA HeadTodo ==
  ASSUME w \in Worlds, NEW s \in Seq(WorkItems), s # <<>>, NEW fl, NEW k, NEW l, TodoInv(s, fl, k),
         s[1].op \in LayoutOps, NEW c, c = s[1].of, Alike(k, l, c),
         s[1].op # "layout" =>
           /\ l[c].align = 0 /\ l[c].fields = w.fields[c]
           /\ \A i \in DOMAIN w.fields[c] :
                i <= Rank(s[1]) /\ ~w.fields[c][i].static => Seen(Tail(s), 1, fl, l, c, w.fields[c][i])
  PROVE  TodoInv(Tail(s), fl, l)
<1> DEFINE t == Tail(s)
           L == Len(w.fields[c])
<1>1. /\ t \in Seq(WorkItems) /\ Len(t) = Len(s) - 1 /\ 1 \in DOMAIN s
      /\ \A i \in DOMAIN t : i + 1 \in DOMAIN s /\ t[i] = s[i + 1]
      /\ \A i \in DOMAIN s : i = 1 \/ (i - 1 \in DOMAIN t /\ s[i] = t[i - 1])
  BY TailOf
<1>2. FrontLoaded(s) /\ Ranked(s) /\ Chained(s) /\ TypesMarked(s, fl) /\ InProgress(s, fl, k) /\ Begun(s, fl, k)
  BY DEF TodoInv
<1>3. DOMAIN t \subseteq Nat /\ \A i \in DOMAIN t : i >= 1
  BY <1>1
<1>4. c \in Classes /\ L \in Nat /\ Rank(s[1]) \in 0..(L + 1) /\ (s[1].op = "layout" <=> Rank(s[1]) = L + 1)
  BY <1>1, <1>2, Ranks
<1> HIDE DEF t, L
<1>5. ASSUME NEW i \in DOMAIN t, t[i].op \in LayoutOps, t[i].of = c
      PROVE  s[1].op # "layout" /\ t[i].op # "fields"
  <2>1. i + 1 \in DOMAIN s /\ t[i] = s[i + 1] /\ 1 < i + 1
    BY <1>1, <1>3
  <2>2. Rank(s[1]) < Rank(s[i + 1])
    BY <1>1, <1>2, <1>5, <2>1 DEF Ranked
  <2>3. Rank(s[i + 1]) \in 0..(L + 1) /\ (s[i + 1].op = "fields" <=> Rank(s[i + 1]) = 0)
    BY <1>2, <1>5, <2>1, Ranks DEF L
  <2> QED BY <1>4, <2>1, <2>2, <2>3
<1>6. FrontLoaded(t)
  <2> SUFFICES ASSUME NEW i \in DOMAIN t, NEW j \in DOMAIN t, i < j, t[i].op \notin NativeOps \cup {"end"}
               PROVE  t[j].op \notin LayoutOps
    BY DEF FrontLoaded
  <2>1. /\ i + 1 \in DOMAIN s /\ t[i] = s[i + 1] /\ j + 1 \in DOMAIN s /\ t[j] = s[j + 1]
        /\ i + 1 < j + 1
    BY <1>1, <1>3
  <2> QED BY <1>2, <2>1 DEF FrontLoaded
<1>7. Ranked(t)
  <2> SUFFICES ASSUME NEW i \in DOMAIN t, NEW j \in DOMAIN t, i < j, t[i].op \in LayoutOps, t[j].op \in LayoutOps,
                      t[i].of = t[j].of
               PROVE  Rank(t[i]) < Rank(t[j])
    BY DEF Ranked
  <2>1. /\ i + 1 \in DOMAIN s /\ t[i] = s[i + 1] /\ j + 1 \in DOMAIN s /\ t[j] = s[j + 1]
        /\ i + 1 < j + 1
    BY <1>1, <1>3
  <2> QED BY <1>2, <2>1 DEF Ranked
<1>8. Chained(t)
  <2> SUFFICES ASSUME NEW i \in DOMAIN t, t[i].op \in LayoutOps \ {"layout"}
               PROVE  i + 1 \in DOMAIN t /\ t[i + 1] = Round(t[i].of, Rank(t[i]) + 1)
    BY DEF Chained
  <2>1. i + 1 \in DOMAIN s /\ t[i] = s[i + 1] /\ i \in Nat /\ i >= 1
    BY <1>1, <1>3
  <2>2. (i + 1) + 1 \in DOMAIN s /\ s[(i + 1) + 1] = Round(t[i].of, Rank(t[i]) + 1)
    BY <1>2, <2>1 DEF Chained
  <2>3. (i + 1) + 1 # 1 /\ ((i + 1) + 1) - 1 = i + 1
    BY <2>1
  <2> QED BY <1>1, <2>2, <2>3
<1>9. TypesMarked(t, fl)
  <2> SUFFICES ASSUME NEW i \in DOMAIN t, t[i].op = "refs"
               PROVE  /\ t[i].arg \in DOMAIN w.fields[t[i].of] /\ ~w.fields[t[i].of][t[i].arg].static
                      /\ LET f == w.fields[t[i].of][t[i].arg]
                         IN  f.kind = "value" => \/ <<"Field", f.of>> \in fl
                                                 \/ i > 1 /\ t[i - 1] = Initialize("Field", f.of)
    BY DEF TypesMarked
  <2> DEFINE f == w.fields[t[i].of][t[i].arg]
  <2>1. i + 1 \in DOMAIN s /\ t[i] = s[i + 1] /\ i \in Nat /\ i >= 1
    BY <1>1, <1>3
  <2>2. /\ t[i].arg \in DOMAIN w.fields[t[i].of] /\ ~w.fields[t[i].of][t[i].arg].static
        /\ f.kind = "value" => \/ <<"Field", f.of>> \in fl
                               \/ s[(i + 1) - 1] = Initialize("Field", f.of)
    BY <1>2, <2>1 DEF TypesMarked
  <2>3. (i + 1) - 1 = i
    BY <2>1
  <2>4. CASE i = 1
    <3>1. s[1] # Initialize("Field", f.of)
      BY DEF Initialize, Do, LayoutOps
    <3> QED BY <2>2, <2>3, <2>4, <3>1
  <2>5. CASE i # 1
    <3>1. i \in DOMAIN s /\ i > 1
      BY <1>1, <2>1, <2>5
    <3>2. s[i] = t[i - 1]
      BY <1>1, <2>5, <3>1
    <3> QED BY <2>2, <2>3, <3>1, <3>2
  <2> QED BY <2>4, <2>5
<1>10. InProgress(t, fl, l)
  <2> SUFFICES ASSUME NEW i \in DOMAIN t, t[i].op \in LayoutOps
               PROVE  /\ <<"Field", t[i].of>> \in fl /\ l[t[i].of].align = 0
                      /\ t[i].op = "fields" => ~l[t[i].of].refs
    BY DEF InProgress
  <2>1. i + 1 \in DOMAIN s /\ t[i] = s[i + 1] /\ t[i].of \in Classes
    <3>1. i + 1 \in DOMAIN s /\ t[i] = s[i + 1]
      BY <1>1
    <3> QED BY <1>2, <3>1, Ranks
  <2>2. <<"Field", t[i].of>> \in fl /\ k[t[i].of].align = 0 /\ (t[i].op = "fields" => ~k[t[i].of].refs)
    BY <1>2, <2>1 DEF InProgress
  <2>3. CASE t[i].of = c
    BY <1>5, <2>2, <2>3
  <2>4. CASE t[i].of # c
    BY <2>1, <2>2, <2>4 DEF Alike
  <2> QED BY <2>3, <2>4
<1>11. Begun(t, fl, l)
  <2> SUFFICES ASSUME NEW j \in DOMAIN t, Begins(t, j), t[j].op # "fields"
               PROVE  LET d == t[j].of
                      IN  /\ l[d].fields = w.fields[d]
                          /\ \A i \in DOMAIN w.fields[d] :
                               i < Rank(t[j]) /\ ~w.fields[d][i].static => Seen(t, j, fl, l, d, w.fields[d][i])
    BY DEF Begun
  <2> DEFINE d == t[j].of
  <2>1. j + 1 \in DOMAIN s /\ t[j] = s[j + 1] /\ j \in Nat /\ j >= 1 /\ (j + 1) - 1 = j
    BY <1>1, <1>3
  <2>2. j # 1 => s[j] = t[j - 1]
    <3>1. j \in DOMAIN s
      BY <1>1, <2>1
    <3> QED BY <1>1, <3>1
  <2>3. t[j].op \in LayoutOps
    BY DEF Begins
  <2>4. d \in Classes
    BY <1>2, <2>1, <2>3, Ranks
  <2>5. CASE d = c
    <3>1. s[1].op # "layout"
      BY <1>5, <2>3, <2>5
    <3>2. s[j].op \in LayoutOps /\ s[j].of = c
      <4>1. /\ s[j + 1].op \in LayoutOps /\ s[j + 1].of = s[1].of /\ j + 1 > 1
        BY <2>1, <2>3, <2>5
      <4> QED BY <1>2, <2>1, <4>1, OneChain
    <3>3. j = 1
      BY <2>1, <2>2, <2>5, <3>2 DEF Begins
    <3>4. t[j] = Round(c, Rank(s[1]) + 1)
      <4>1. s[1 + 1] = Round(c, Rank(s[1]) + 1)
        BY <1>1, <1>2, <3>1 DEF Chained
      <4> QED BY <2>1, <3>3, <4>1
    <3>5. Rank(s[1]) + 1 \in 1..(L + 1)
      BY <1>4, <3>1
    <3>6. Rank(t[j]) = Rank(s[1]) + 1
      BY <1>4, <3>4, <3>5, RoundIs DEF L
    <3>7. ASSUME NEW i \in DOMAIN w.fields[c], i < Rank(t[j]), ~w.fields[c][i].static
          PROVE  Seen(t, j, fl, l, c, w.fields[c][i])
      <4>1. i \in Nat
        BY <1>4, World
      <4>2. i <= Rank(s[1])
        BY <1>4, <3>6, <3>7, <4>1
      <4> QED BY <3>1, <3>3, <3>7, <4>2 DEF t
    <3> QED BY <2>5, <3>1, <3>7
  <2>6. CASE d # c
    <3>1. Begins(s, j + 1)
      <4>1. CASE j = 1
        <5>1. s[(j + 1) - 1].of # s[j + 1].of
          BY <2>1, <2>6, <4>1
        <5> QED BY <2>1, <2>3, <5>1 DEF Begins
      <4>2. CASE j # 1
        BY <2>1, <2>2, <4>2 DEF Begins
      <4> QED BY <4>1, <4>2
    <3>2. /\ k[d].fields = w.fields[d]
          /\ \A i \in DOMAIN w.fields[d] :
                i < Rank(t[j]) /\ ~w.fields[d][i].static => Seen(s, j + 1, fl, k, d, w.fields[d][i])
      BY <1>2, <2>1, <3>1 DEF Begun
    <3>3. l[d].fields = k[d].fields /\ l[d].refs = k[d].refs
      BY <2>4, <2>6 DEF Alike
    <3>4. ASSUME NEW f, f.kind = "value" => f.of \in Classes, Seen(s, j + 1, fl, k, d, f)
          PROVE  Seen(t, j, fl, l, d, f)
      <4>1. (f.kind = "ref" => l[d].refs) /\ (f.kind = "value" => <<"Field", f.of>> \in fl)
        BY <3>3, <3>4 DEF Seen
      <4>2. ASSUME \A i \in DOMAIN s : i < j + 1 => ~(s[i].op = "layout" /\ s[i].of = f.of)
            PROVE  \A i \in DOMAIN t : i < j => ~(t[i].op = "layout" /\ t[i].of = f.of)
        <5> SUFFICES ASSUME NEW i \in DOMAIN t, i < j PROVE ~(t[i].op = "layout" /\ t[i].of = f.of)
          OBVIOUS
        <5>1. i + 1 \in DOMAIN s /\ t[i] = s[i + 1] /\ i + 1 < j + 1
          BY <1>1, <1>3, <2>1
        <5> QED BY <4>2, <5>1
      <4>3. CASE f.kind = "value" /\ f.of = c
        <5>1. k[c].align = 0
          BY <1>1, <1>2 DEF InProgress
        <5>2. \A i \in DOMAIN s : i < j + 1 => ~(s[i].op = "layout" /\ s[i].of = c)
          BY <3>4, <4>3, <5>1 DEF Seen
        <5>3. s[1].op # "layout"
          <6>1. 1 < j + 1
            BY <2>1
          <6> QED BY <1>1, <5>2, <6>1
        <5>4. l[f.of].align = 0
          BY <4>3, <5>3
        <5> QED BY <4>1, <4>2, <4>3, <5>2, <5>4 DEF Seen
      <4>4. CASE f.kind = "value" /\ f.of # c
        <5>1. l[f.of].align = k[f.of].align /\ l[f.of].refs = k[f.of].refs
          BY <3>4, <4>4 DEF Alike
        <5>2. CASE k[f.of].align # 0
          <6>1. l[f.of].refs => l[d].refs
            BY <3>3, <3>4, <4>4, <5>1, <5>2 DEF Seen
          <6> QED BY <4>1, <5>1, <5>2, <6>1 DEF Seen
        <5>3. CASE k[f.of].align = 0
          <6>1. \A i \in DOMAIN s : i < j + 1 => ~(s[i].op = "layout" /\ s[i].of = f.of)
            BY <3>4, <4>4, <5>3 DEF Seen
          <6> QED BY <4>1, <4>2, <5>1, <5>3, <6>1 DEF Seen
        <5> QED BY <5>2, <5>3
      <4>5. CASE f.kind # "value"
        BY <4>1, <4>5 DEF Seen
      <4> QED BY <4>3, <4>4, <4>5
    <3>5. \A i \in DOMAIN w.fields[d] : w.fields[d][i].kind = "value" => w.fields[d][i].of \in Classes
      BY <2>4, World
    <3> QED BY <3>2, <3>3, <3>4, <3>5
  <2> QED BY <2>5, <2>6
<1> QED BY <1>6, <1>7, <1>8, <1>9, <1>10, <1>11 DEF TodoInv, t

\* A round of the fields goes on to ask whether the field holds references.
LEMMA HeadSwap ==
  ASSUME NEW s \in Seq(WorkItems), s # <<>>, NEW fl, NEW k, TodoRest(s, fl, k), s[1].op = "field",
         NEW y \in WorkItems, y.op = "refs", y.of = s[1].of, y.arg = s[1].arg
  PROVE  TodoRest(<<y>> \o Tail(s), fl, k)
<1> DEFINE u == <<y>> \o Tail(s)
<1>1. /\ u \in Seq(WorkItems) /\ DOMAIN u = DOMAIN s /\ u[1] = y /\ 1 \in DOMAIN s
      /\ \A i \in DOMAIN s : i # 1 => u[i] = s[i]
      /\ DOMAIN s \subseteq Nat /\ \A i \in DOMAIN s : i >= 1
  OBVIOUS
<1>2. FrontLoaded(s) /\ Ranked(s) /\ Chained(s) /\ InProgress(s, fl, k) /\ Begun(s, fl, k)
  BY DEF TodoRest
<1> HIDE DEF u
<1>3. \A i \in DOMAIN s : /\ u[i].of = s[i].of
                          /\ u[i].op \in LayoutOps <=> s[i].op \in LayoutOps
                          /\ u[i].op = "layout" <=> s[i].op = "layout"
                          /\ u[i].op = "fields" <=> s[i].op = "fields"
                          /\ u[i].op \in NativeOps \cup {"end"} <=> s[i].op \in NativeOps \cup {"end"}
  BY <1>1 DEF LayoutOps, NativeOps, WorkOps
<1>4. ASSUME NEW i \in DOMAIN s, s[i].op \in LayoutOps PROVE Rank(u[i]) = Rank(s[i])
  <2>1. Rank(y) = y.arg /\ Rank(s[1]) = s[1].arg
    BY DEF Rank
  <2> QED BY <1>1, <2>1
<1>5. FrontLoaded(u)
  BY <1>1, <1>2, <1>3 DEF FrontLoaded
<1>6. Ranked(u)
  BY <1>1, <1>2, <1>3, <1>4 DEF Ranked
<1>7. Chained(u)
  <2> SUFFICES ASSUME NEW i \in DOMAIN u, u[i].op \in LayoutOps \ {"layout"}
               PROVE  i + 1 \in DOMAIN u /\ u[i + 1] = Round(u[i].of, Rank(u[i]) + 1)
    BY DEF Chained
  <2>1. i \in DOMAIN s /\ s[i].op \in LayoutOps \ {"layout"} /\ s[i].of = u[i].of /\ Rank(u[i]) = Rank(s[i])
    BY <1>1, <1>3, <1>4
  <2>2. i + 1 \in DOMAIN s /\ s[i + 1] = Round(s[i].of, Rank(s[i]) + 1)
    BY <1>2, <2>1 DEF Chained
  <2>3. i + 1 # 1
    BY <1>1, <2>1
  <2> QED BY <1>1, <2>1, <2>2, <2>3
<1>8. InProgress(u, fl, k)
  BY <1>1, <1>2, <1>3 DEF InProgress
<1>9. Begun(u, fl, k)
  <2> SUFFICES ASSUME NEW j \in DOMAIN u, Begins(u, j), u[j].op # "fields"
               PROVE  LET d == u[j].of
                      IN  /\ k[d].fields = w.fields[d]
                          /\ \A i \in DOMAIN w.fields[d] :
                               i < Rank(u[j]) /\ ~w.fields[d][i].static => Seen(u, j, fl, k, d, w.fields[d][i])
    BY DEF Begun
  <2> DEFINE d == u[j].of
  <2>1. /\ j \in DOMAIN s /\ j \in Nat /\ j >= 1 /\ s[j].op \in LayoutOps /\ s[j].op # "fields" /\ s[j].of = d
        /\ Rank(u[j]) = Rank(s[j])
    BY <1>1, <1>3, <1>4 DEF Begins
  <2>2. Begins(s, j)
    <3>1. j # 1 => j - 1 \in DOMAIN s
      BY <1>1, <2>1
    <3> QED BY <1>3, <2>1, <3>1 DEF Begins
  <2>3. /\ k[d].fields = w.fields[d]
        /\ \A i \in DOMAIN w.fields[d] :
              i < Rank(s[j]) /\ ~w.fields[d][i].static => Seen(s, j, fl, k, d, w.fields[d][i])
    BY <1>2, <2>1, <2>2 DEF Begun
  <2>4. ASSUME NEW f, Seen(s, j, fl, k, d, f) PROVE Seen(u, j, fl, k, d, f)
    BY <1>1, <1>3, <2>4 DEF Seen
  <2> QED BY <2>1, <2>3, <2>4
<1> QED BY <1>5, <1>6, <1>7, <1>8, <1>9 DEF TodoRest, u

\* setup_fields_typedef and the instance half of setup_field_layout, as they come in the todo.
Chain(c) == <<Work("fields", c)>> \o InstanceRounds(c) \o <<Work("layout", c)>>

LEMMA ChainIs ==
  ASSUME w \in Worlds, NEW c \in Classes
  PROVE  LET L == Len(w.fields[c])
         IN  /\ L \in Nat /\ Chain(c) \in Seq(WorkItems) /\ DOMAIN Chain(c) = 1..(L + 2) /\ Len(Chain(c)) = L + 2
             /\ Chain(c)[1] = Work("fields", c)
             /\ \A i \in 1..(L + 1) : Chain(c)[i + 1] = Round(c, i)
<1> DEFINE L == Len(w.fields[c])
           a == <<Work("fields", c)>>
           b == InstanceRounds(c)
           d == <<Work("layout", c)>>
<1>1. L \in Nat /\ DOMAIN w.fields[c] = 1..L
  BY World
<1>2. /\ b = [i \in 1..L |-> Do("field", c, i)] /\ b \in Seq(WorkItems)
      /\ a \in Seq(WorkItems) /\ d \in Seq(WorkItems)
  <2>1. b \in Seq(WorkItems)
    BY NativeFields DEF NativeWork
  <2>2. a \in Seq(WorkItems) /\ d \in Seq(WorkItems)
    BY NativePiece DEF NativeWork, WorkOps
  <2> QED BY <1>1, <2>1, <2>2 DEF InstanceRounds
<1>3. Len(b) = L /\ \A i \in 1..L : b[i] = Do("field", c, i)
  BY <1>1, <1>2
<1>4. /\ Len(a) = 1 /\ a[1] = Work("fields", c) /\ Len(d) = 1 /\ d[1] = Work("layout", c)
  OBVIOUS
<1>5. Chain(c) = (a \o b) \o d
  BY DEF Chain
<1> HIDE DEF a, b, d, L
<1>6. /\ a \o b \in Seq(WorkItems) /\ Len(a \o b) = L + 1 /\ (a \o b)[1] = a[1]
      /\ \A i \in 1..L : (a \o b)[i + 1] = b[i]
  <2>1. /\ a \o b \in Seq(WorkItems) /\ Len(a \o b) = Len(a) + Len(b)
        /\ \A i \in DOMAIN a : (a \o b)[i] = a[i]
        /\ \A i \in DOMAIN b : (a \o b)[i + Len(a)] = b[i]
    <3>1. a \in Seq(WorkItems) /\ b \in Seq(WorkItems)
      BY <1>2
    <3> QED BY <3>1, Joined, SMTT(30)
  <2>2. 1 \in DOMAIN a /\ DOMAIN b = 1..L
    BY <1>1, <1>2, <1>3, <1>4
  <2> QED BY <1>1, <1>3, <1>4, <2>1, <2>2
<1> DEFINE e == a \o b
<1> HIDE DEF e
<1>7. e \in Seq(WorkItems) /\ Len(e) = L + 1 /\ e[1] = a[1] /\ \A i \in 1..L : e[i + 1] = b[i]
  BY <1>6 DEF e
<1>8. /\ e \o d \in Seq(WorkItems) /\ Len(e \o d) = L + 2
      /\ \A i \in 1..(L + 1) : (e \o d)[i] = e[i]
      /\ (e \o d)[L + 2] = d[1]
  <2>1. /\ e \o d \in Seq(WorkItems) /\ Len(e \o d) = Len(e) + Len(d)
        /\ \A i \in DOMAIN e : (e \o d)[i] = e[i]
        /\ \A i \in DOMAIN d : (e \o d)[i + Len(e)] = d[i]
    <3>1. e \in Seq(WorkItems) /\ d \in Seq(WorkItems)
      BY <1>2, <1>7
    <3> QED BY <3>1, Joined
  <2>2. DOMAIN e = 1..(L + 1) /\ 1 \in DOMAIN d
    BY <1>1, <1>2, <1>4, <1>7
  <2>3. 1 + Len(e) = L + 2 /\ Len(e) + Len(d) = L + 2
    <3>1. Len(d) = 1 /\ Len(e) = L + 1
      BY <1>4, <1>7
    <3> HIDE DEF e
    <3> QED BY <1>1, <3>1
  <2> QED BY <2>1, <2>2, <2>3
<1>9. Chain(c) = e \o d
  BY <1>5 DEF e
<1>10. ASSUME NEW i \in 1..(L + 1) PROVE Chain(c)[i + 1] = Round(c, i)
  <2>1. CASE i <= L
    <3>1. i + 1 \in 1..(L + 1) /\ i \in 1..L
      BY <1>1, <1>10, <2>1
    <3> QED BY <1>3, <1>7, <1>8, <1>9, <2>1, <3>1 DEF Round, L
  <2>2. CASE ~(i <= L)
    <3>1. i = L + 1 /\ i + 1 = L + 2
      BY <1>1, <1>10, <2>2
    <3> QED BY <1>4, <1>8, <1>9, <2>2, <3>1 DEF Round, L
  <2> QED BY <2>1, <2>2
<1>11. Chain(c)[1] = Work("fields", c)
  <2>1. 1 \in 1..(L + 1)
    BY <1>1
  <2> QED BY <1>4, <1>7, <1>8, <1>9, <2>1
<1>12. /\ L \in Nat /\ Chain(c) \in Seq(WorkItems) /\ DOMAIN Chain(c) = 1..(L + 2) /\ Len(Chain(c)) = L + 2
  BY <1>1, <1>8, <1>9
<1> QED BY <1>10, <1>11, <1>12 DEF L

\* Every item of the chain is of class c, and its round is its place.
LEMMA ChainItems ==
  ASSUME w \in Worlds, NEW c \in Classes, NEW i \in DOMAIN Chain(c)
  PROVE  LET x == Chain(c)[i]
         IN  /\ x.of = c /\ x.op \in {"fields", "field", "layout"} /\ Rank(x) = i - 1
             /\ x.op = "fields" <=> i = 1
             /\ x.op = "layout" <=> i = Len(Chain(c))
<1> DEFINE L == Len(w.fields[c])
<1>1. /\ L \in Nat /\ i \in 1..(L + 2) /\ Len(Chain(c)) = L + 2
      /\ Chain(c)[1] = Work("fields", c)
      /\ \A n \in 1..(L + 1) : Chain(c)[n + 1] = Round(c, n)
  BY ChainIs
<1>2. CASE i = 1
  <2>1. Chain(c)[i] = Work("fields", c)
    BY <1>1, <1>2
  <2>2. Work("fields", c).op = "fields" /\ Work("fields", c).of = c
    BY DEF Work, Do
  <2> QED BY <1>1, <1>2, <2>1, <2>2 DEF Rank
<1>3. CASE i # 1
  <2> DEFINE n == i - 1
  <2>1. n \in 1..(L + 1) /\ n + 1 = i
    BY <1>1, <1>3
  <2> HIDE DEF n
  <2>2. Chain(c)[i] = Round(c, n)
    BY <1>1, <2>1
  <2>3. Rank(Round(c, n)) = n /\ Round(c, n).of = c
    BY <2>1, RoundIs
  <2>4. n = i - 1
    BY <1>1, <2>1
  <2> HIDE DEF L
  <2>5. CASE n <= L
    <3>1. Round(c, n).op = "field"
      BY <2>5 DEF Round, Do, L
    <3>2. i # L + 2
      BY <1>1, <2>1, <2>5
    <3> QED BY <1>1, <1>3, <2>2, <2>3, <2>4, <3>1, <3>2
  <2>6. CASE ~(n <= L)
    <3>1. Round(c, n).op = "layout"
      BY <2>6 DEF Round, Do, Work, L
    <3>2. i = L + 2
      BY <1>1, <2>1, <2>6
    <3> QED BY <1>1, <1>3, <2>2, <2>3, <2>4, <3>1, <3>2
  <2> QED BY <2>5, <2>6
<1> QED BY <1>2, <1>3

\* initialize_fields of a class that is not marked yet comes in front.
LEMMA ChainTodo ==
  ASSUME w \in Worlds, NEW c \in Classes, NEW r \in Seq(WorkItems), NEW fl, NEW k, TodoRest(r, fl, k),
         TypesMarked(r, fl \cup {<<"Field", c>>}), <<"Field", c>> \notin fl, Unmarked(fl, k)
  PROVE  TodoInv(Chain(c) \o r, fl \cup {<<"Field", c>>}, k)
<1> DEFINE q == Chain(c)
           n == Len(q)
           u == q \o r
           fl2 == fl \cup {<<"Field", c>>}
<1>1. q \in Seq(WorkItems) /\ n \in Nat
  BY ChainIs
<1>2. /\ u \in Seq(WorkItems)
      /\ \A i \in DOMAIN u : \/ i \in DOMAIN q /\ u[i] = q[i]
                             \/ i - n \in DOMAIN r /\ u[i] = r[i - n] /\ i > n
      /\ \A i \in DOMAIN q : i \in DOMAIN u /\ u[i] = q[i] /\ i \in Nat /\ i >= 1 /\ i <= n
      /\ \A i \in DOMAIN r : i + n \in DOMAIN u /\ u[i + n] = r[i] /\ i \in Nat /\ i >= 1
  BY <1>1, Joined
<1>3. /\ FrontLoaded(r) /\ Ranked(r) /\ Chained(r) /\ TypesMarked(r, fl2)
      /\ InProgress(r, fl, k) /\ Begun(r, fl, k)
  BY DEF TodoRest
<1>4. DOMAIN u \subseteq Nat
  BY <1>2
<1>5. \A i \in DOMAIN q : /\ q[i].of = c /\ q[i].op \in {"fields", "field", "layout"} /\ Rank(q[i]) = i - 1
                          /\ q[i].op = "fields" <=> i = 1
                          /\ q[i].op = "layout" <=> i = n
  BY ChainItems
<1>6. q[1] = Work("fields", c) /\ (\A i \in DOMAIN q : i # n => i + 1 \in DOMAIN q /\ q[i + 1] = Round(c, i))
  <2> DEFINE L == Len(w.fields[c])
  <2>1. /\ L \in Nat /\ DOMAIN q = 1..(L + 2) /\ n = L + 2 /\ q[1] = Work("fields", c)
        /\ \A i \in 1..(L + 1) : q[i + 1] = Round(c, i)
    BY ChainIs
  <2> QED BY <2>1
<1>7. k[c].align = 0 /\ ~k[c].refs
  BY DEF Unmarked
<1>8. \A i \in DOMAIN r : r[i].op \in LayoutOps => r[i].of # c
  BY <1>3 DEF InProgress
<1> HIDE DEF q, n, u
<1>9. \A i \in DOMAIN q : q[i].op \in NativeOps /\ q[i].op \in LayoutOps /\ q[i].op # "refs"
  BY <1>5 DEF NativeOps, WorkOps, LayoutOps
<1>10. FrontLoaded(u)
  <2> SUFFICES ASSUME NEW i \in DOMAIN u, NEW j \in DOMAIN u, i < j, u[i].op \notin NativeOps \cup {"end"},
                      u[j].op \in LayoutOps
               PROVE  FALSE
    BY DEF FrontLoaded
  <2>1. i - n \in DOMAIN r /\ u[i] = r[i - n] /\ i > n
    BY <1>2, <1>9
  <2>2. j - n \in DOMAIN r /\ u[j] = r[j - n] /\ i - n < j - n
    BY <1>1, <1>2, <1>4, <2>1
  <2> QED BY <1>3, <2>1, <2>2 DEF FrontLoaded
<1>11. Ranked(u)
  <2> SUFFICES ASSUME NEW i \in DOMAIN u, NEW j \in DOMAIN u, i < j, u[i].op \in LayoutOps, u[j].op \in LayoutOps,
                      u[i].of = u[j].of
               PROVE  Rank(u[i]) < Rank(u[j])
    BY DEF Ranked
  <2>1. CASE i \in DOMAIN q /\ u[i] = q[i]
    <3>1. j \in DOMAIN q /\ u[j] = q[j]
      BY <1>2, <1>5, <1>8, <2>1
    <3>2. Rank(u[i]) = i - 1 /\ Rank(u[j]) = j - 1
      BY <1>5, <2>1, <3>1
    <3> QED BY <1>4, <3>2
  <2>2. CASE i - n \in DOMAIN r /\ u[i] = r[i - n] /\ i > n
    <3>1. j - n \in DOMAIN r /\ u[j] = r[j - n] /\ i - n < j - n
      BY <1>1, <1>2, <1>4, <2>2
    <3> QED BY <1>3, <2>2, <3>1 DEF Ranked
  <2> QED BY <1>2, <2>1, <2>2
<1>12. Chained(u)
  <2> SUFFICES ASSUME NEW i \in DOMAIN u, u[i].op \in LayoutOps \ {"layout"}
               PROVE  i + 1 \in DOMAIN u /\ u[i + 1] = Round(u[i].of, Rank(u[i]) + 1)
    BY DEF Chained
  <2>1. CASE i \in DOMAIN q /\ u[i] = q[i]
    <3>1. i # n /\ u[i].of = c /\ Rank(u[i]) = i - 1
      BY <1>5, <2>1
    <3>2. i + 1 \in DOMAIN q /\ q[i + 1] = Round(c, i)
      BY <1>6, <2>1, <3>1
    <3>3. (i - 1) + 1 = i
      BY <1>4
    <3> QED BY <1>2, <3>1, <3>2, <3>3
  <2>2. CASE i - n \in DOMAIN r /\ u[i] = r[i - n] /\ i > n
    <3>1. (i - n) + 1 \in DOMAIN r /\ r[(i - n) + 1] = Round(u[i].of, Rank(u[i]) + 1)
      BY <1>3, <2>2 DEF Chained
    <3>2. ((i - n) + 1) + n = i + 1
      BY <1>1, <1>4
    <3> QED BY <1>2, <3>1, <3>2
  <2> QED BY <1>2, <2>1, <2>2
<1>13. TypesMarked(u, fl2)
  <2> SUFFICES ASSUME NEW i \in DOMAIN u, u[i].op = "refs"
               PROVE  /\ u[i].arg \in DOMAIN w.fields[u[i].of] /\ ~w.fields[u[i].of][u[i].arg].static
                      /\ LET f == w.fields[u[i].of][u[i].arg]
                         IN  f.kind = "value" => \/ <<"Field", f.of>> \in fl2
                                                 \/ i > 1 /\ u[i - 1] = Initialize("Field", f.of)
    BY DEF TypesMarked
  <2> DEFINE f == w.fields[u[i].of][u[i].arg]
  <2>1. i - n \in DOMAIN r /\ u[i] = r[i - n]
    BY <1>2, <1>9
  <2>2. /\ u[i].arg \in DOMAIN w.fields[u[i].of] /\ ~w.fields[u[i].of][u[i].arg].static
        /\ f.kind = "value" => \/ <<"Field", f.of>> \in fl2
                               \/ i - n > 1 /\ r[(i - n) - 1] = Initialize("Field", f.of)
    BY <1>3, <2>1 DEF TypesMarked
  <2>3. ASSUME i - n > 1 PROVE i > 1 /\ u[i - 1] = r[(i - n) - 1]
    <3>1. i \in Nat /\ DOMAIN r = 1..Len(r) /\ Len(r) \in Nat
      BY <1>4
    <3>2. (i - n) - 1 \in DOMAIN r /\ ((i - n) - 1) + n = i - 1 /\ i > 1
      BY <1>1, <2>1, <2>3, <3>1
    <3> QED BY <1>2, <3>2
  <2> HIDE DEF f
  <2>4. f.kind = "value" => \/ <<"Field", f.of>> \in fl2
                            \/ i > 1 /\ u[i - 1] = Initialize("Field", f.of)
    BY <2>2, <2>3
  <2> QED BY <2>2, <2>4 DEF f
<1>14. InProgress(u, fl2, k)
  <2> SUFFICES ASSUME NEW i \in DOMAIN u, u[i].op \in LayoutOps
               PROVE  /\ <<"Field", u[i].of>> \in fl2 /\ k[u[i].of].align = 0
                      /\ u[i].op = "fields" => ~k[u[i].of].refs
    BY DEF InProgress
  <2>1. CASE i \in DOMAIN q /\ u[i] = q[i]
    BY <1>5, <1>7, <2>1
  <2>2. CASE i - n \in DOMAIN r /\ u[i] = r[i - n]
    BY <1>3, <2>2 DEF InProgress
  <2> QED BY <1>2, <2>1, <2>2
<1>15. Begun(u, fl2, k)
  <2> SUFFICES ASSUME NEW j \in DOMAIN u, Begins(u, j), u[j].op # "fields"
               PROVE  LET d == u[j].of
                      IN  /\ k[d].fields = w.fields[d]
                          /\ \A i \in DOMAIN w.fields[d] :
                               i < Rank(u[j]) /\ ~w.fields[d][i].static => Seen(u, j, fl2, k, d, w.fields[d][i])
    BY DEF Begun
  <2> DEFINE d == u[j].of
             m == j - n
  <2>1. j \notin DOMAIN q
    <3>1. ASSUME j \in DOMAIN q PROVE FALSE
      <4>1. u[j] = q[j] /\ j # 1
        BY <1>2, <1>5, <3>1
      <4>2. j - 1 \in DOMAIN q /\ u[j - 1] = q[j - 1]
        <5>1. DOMAIN q = 1..n
          BY <1>1 DEF n
        <5>2. j - 1 \in DOMAIN q
          BY <1>1, <3>1, <4>1, <5>1
        <5> QED BY <1>2, <5>2
      <4>3. u[j - 1].op \in LayoutOps /\ u[j - 1].of = u[j].of
        BY <1>5, <1>9, <3>1, <4>1, <4>2
      <4> QED BY <4>1, <4>3 DEF Begins
    <3> QED BY <3>1
  <2>2. m \in DOMAIN r /\ u[j] = r[m] /\ m \in Nat /\ m >= 1 /\ m + n = j
    BY <1>1, <1>2, <1>4, <2>1
  <2>3. u[j].op \in LayoutOps
    BY DEF Begins
  <2> HIDE DEF m
  <2>4. Begins(r, m)
    <3>1. CASE m = 1
      BY <2>2, <2>3, <3>1 DEF Begins
    <3>2. CASE m # 1
      <4>1. m - 1 \in DOMAIN r /\ (m - 1) + n = j - 1 /\ j # 1
        BY <1>1, <2>2, <3>2
      <4>2. u[j - 1] = r[m - 1]
        BY <1>2, <4>1
      <4> QED BY <2>2, <4>1, <4>2 DEF Begins
    <3> QED BY <3>1, <3>2
  <2>5. /\ k[d].fields = w.fields[d]
        /\ \A i \in DOMAIN w.fields[d] :
              i < Rank(u[j]) /\ ~w.fields[d][i].static => Seen(r, m, fl, k, d, w.fields[d][i])
    BY <1>3, <2>2, <2>4 DEF Begun
  <2>6. ASSUME NEW f, Seen(r, m, fl, k, d, f) PROVE Seen(u, j, fl2, k, d, f)
    <3>1. ASSUME f.kind = "value", \A i \in DOMAIN r : i < m => ~(r[i].op = "layout" /\ r[i].of = f.of),
                 NEW i \in DOMAIN u, i < j, u[i].op = "layout" /\ u[i].of = f.of
          PROVE  FALSE
      <4>1. f.of # c
        BY <2>6, <3>1 DEF Seen
      <4>2. i - n \in DOMAIN r /\ u[i] = r[i - n]
        BY <1>2, <1>5, <3>1, <4>1
      <4>3. i - n < m
        BY <1>1, <1>4, <2>2, <3>1
      <4> QED BY <3>1, <4>2, <4>3
    <3> QED BY <2>6, <3>1 DEF Seen
  <2> QED BY <2>5, <2>6
<1> QED BY <1>10, <1>11, <1>12, <1>13, <1>14, <1>15 DEF TodoInv, u, q

LEMMA FieldTodo ==
  ASSUME w \in Worlds, NEW s \in Seq(WorkItems), s # <<>>, NEW fl, NEW k, TodoInv(s, fl, k), s[1].op = "field"
  PROVE  LET f == w.fields[s[1].of][s[1].arg]
             b == IF f.static THEN <<>> ELSE ValueType(f) \o <<Do("refs", s[1].of, s[1].arg)>>
         IN  TodoInv(b \o Tail(s), fl, k)
<1> DEFINE c == s[1].of
           n == s[1].arg
           f == w.fields[c][n]
           t == Tail(s)
           b == IF f.static THEN <<>> ELSE ValueType(f) \o <<Do("refs", c, n)>>
<1>1. s[1] \in WorkItems /\ 1 \in DOMAIN s /\ t \in Seq(WorkItems)
  BY TailOf
<1>2. c \in Classes /\ n \in DOMAIN w.fields[c] /\ n \in Nat /\ w.fields[c] \in Seq(Fields)
  <2>1. c \in Classes /\ n \in DOMAIN w.fields[c]
    BY <1>1 DEF WorkItems
  <2>2. w.fields[c] \in Seq(Fields)
    BY <2>1, World
  <2> QED BY <2>1, <2>2
<1>3. f.kind = "value" => f.of \in Classes
  BY <1>2, World
<1>4. CASE f.static
  <2>1. k[c].align = 0
    BY <1>1 DEF TodoInv, InProgress, LayoutOps
  <2>2. Begins(s, 1) /\ s[1].op # "fields" /\ Rank(s[1]) = n
    BY DEF Begins, LayoutOps, Rank
  <2>3. /\ k[c].fields = w.fields[c]
        /\ \A i \in DOMAIN w.fields[c] : i < n /\ ~w.fields[c][i].static => Seen(s, 1, fl, k, c, w.fields[c][i])
    BY <1>1, <2>2 DEF TodoInv, Begun
  <2>4. \A g : Seen(s, 1, fl, k, c, g) => Seen(t, 1, fl, k, c, g)
    <3>1. \A i \in DOMAIN t : ~(i < 1)
      BY <1>1
    <3> QED BY <3>1 DEF Seen
  <2>5. ASSUME NEW i \in DOMAIN w.fields[c], i <= Rank(s[1]), ~w.fields[c][i].static
        PROVE  Seen(t, 1, fl, k, c, w.fields[c][i])
    <3>1. i # n
      BY <1>4, <2>5
    <3>2. i < n
      BY <1>2, <2>2, <2>5, <3>1
    <3> QED BY <2>3, <2>4, <2>5, <3>2
  <2>6. Alike(k, k, c) /\ s[1].op \in LayoutOps
    BY DEF Alike, LayoutOps
  <2>7. TodoInv(t, fl, k)
    <3> HIDE DEF c
    <3>1. c = s[1].of
      BY DEF c
    <3>2. \A i \in DOMAIN w.fields[c] : i <= Rank(s[1]) /\ ~w.fields[c][i].static
                                          => Seen(Tail(s), 1, fl, k, c, w.fields[c][i])
      BY <2>5
    <3> QED BY <2>1, <2>3, <2>6, <3>1, <3>2, HeadTodo
  <2>8. b \o t = t
    BY <1>1, <1>4
  <2> QED BY <2>7, <2>8
<1>5. CASE ~f.static
  <2> DEFINE y == Do("refs", c, n)
             a == ValueType(f)
             r == <<y>> \o t
             u == a \o r
  <2>1. y \in WorkItems /\ y.op = "refs" /\ y.of = c /\ y.arg = n
    <3>1. "refs" \in Ops /\ n \in Args
      BY <1>2 DEF Ops, NativeOps, WorkOps, Args
    <3> QED BY <1>2, <3>1, DoneItem
  <2>2. a \in Seq(WorkItems) /\ LayoutFree(a) /\ (\A i \in DOMAIN a : a[i].op \in NativeOps)
        /\ (f.kind = "value" => a = <<Initialize("Field", f.of)>>) /\ (f.kind # "value" => a = <<>>)
    <3>1. CASE f.kind = "value"
      <4>1. a = <<Initialize("Field", f.of)>>
        BY <3>1 DEF ValueType
      <4>2. NativeWork(a)
        BY <1>3, <3>1, <4>1, NativeCall DEF Parts
      <4>3. DOMAIN a = {1} /\ a[1].op = "init"
        BY <4>1 DEF Initialize, Do
      <4> QED BY <3>1, <4>1, <4>2, <4>3 DEF LayoutFree, LayoutOps, NativeWork
    <3>2. CASE f.kind # "value"
      <4>1. a = <<>>
        BY <3>2 DEF ValueType
      <4>2. NativeWork(a)
        BY <4>1, NativeNone
      <4> QED BY <3>2, <4>1, <4>2 DEF LayoutFree, NativeWork
    <3> QED BY <3>1, <3>2
  <2>3. b \o t = u
    <3>1. b = a \o <<y>>
      BY <1>5
    <3>2. <<y>> \in Seq(WorkItems)
      BY <2>1
    <3> HIDE DEF a, y, b
    <3> QED BY <1>1, <2>2, <3>1, <3>2, ConcatAssociative
  <2>4. TodoRest(r, fl, k)
    <3>1. TodoRest(s, fl, k)
      BY DEF TodoInv, TodoRest
    <3> HIDE DEF y
    <3> QED BY <2>1, <3>1, HeadSwap
  <2>5. /\ r \in Seq(WorkItems) /\ DOMAIN r = DOMAIN s /\ r[1] = y
        /\ \A i \in DOMAIN s : i # 1 => r[i] = s[i]
    <3> HIDE DEF y
    <3> QED BY <2>1
  <2> HIDE DEF a, r, y, f
  <2>6. TodoRest(u, fl, k)
    BY <2>2, <2>4, <2>5, JoinRest
  <2> DEFINE z == Len(a)
  <2>7. /\ u \in Seq(WorkItems) /\ z \in Nat
        /\ \A i \in DOMAIN u : \/ i \in DOMAIN a /\ u[i] = a[i]
                               \/ i - z \in DOMAIN r /\ u[i] = r[i - z] /\ i > z
        /\ \A i \in DOMAIN a : i \in DOMAIN u /\ u[i] = a[i]
        /\ \A i \in DOMAIN r : i + z \in DOMAIN u /\ u[i + z] = r[i]
    BY <2>2, <2>5, Joined
  <2>8. DOMAIN u \subseteq Nat
    BY <2>7
  <2> HIDE DEF u
  <2>9. TypesMarked(u, fl)
    <3> SUFFICES ASSUME NEW i \in DOMAIN u, u[i].op = "refs"
                 PROVE  /\ u[i].arg \in DOMAIN w.fields[u[i].of] /\ ~w.fields[u[i].of][u[i].arg].static
                        /\ LET g == w.fields[u[i].of][u[i].arg]
                           IN  g.kind = "value" => \/ <<"Field", g.of>> \in fl
                                                   \/ i > 1 /\ u[i - 1] = Initialize("Field", g.of)
      BY DEF TypesMarked
    <3> DEFINE m == i - z
               g == w.fields[u[i].of][u[i].arg]
    <3>1. m \in DOMAIN s /\ u[i] = r[m] /\ i > z /\ i \in Nat /\ m + z = i /\ m \in Nat /\ m >= 1
      <4>1. ~(i \in DOMAIN a /\ u[i] = a[i])
        BY <2>2 DEF LayoutFree, LayoutOps
      <4>2. i - z \in DOMAIN r /\ u[i] = r[i - z] /\ i > z
        BY <2>7, <4>1
      <4> QED BY <2>5, <2>7, <2>8, <4>2
    <3> HIDE DEF m
    <3>2. CASE m = 1
      <4>1. u[i] = y /\ g = f /\ u[i].arg = n /\ u[i].of = c
        BY <2>1, <2>5, <3>1, <3>2 DEF f
      <4>2. ASSUME f.kind = "value" PROVE i > 1 /\ u[i - 1] = Initialize("Field", f.of)
        <5>1. z = 1 /\ 1 \in DOMAIN a /\ a[1] = Initialize("Field", f.of)
          BY <2>2, <4>2
        <5>2. i = 2 /\ i - 1 = 1
          BY <3>1, <3>2, <5>1
        <5>3. u[1] = a[1]
          BY <2>7, <5>1
        <5> QED BY <5>1, <5>2, <5>3
      <4> QED BY <1>2, <1>5, <4>1, <4>2
    <3>3. CASE m # 1
      <4>1. u[i] = s[m]
        BY <2>5, <3>1, <3>3
      <4>2. /\ u[i].arg \in DOMAIN w.fields[u[i].of] /\ ~w.fields[u[i].of][u[i].arg].static
            /\ g.kind = "value" => \/ <<"Field", g.of>> \in fl
                                   \/ s[m - 1] = Initialize("Field", g.of)
        BY <3>1, <4>1 DEF TodoInv, TypesMarked
      <4>3. ASSUME s[m - 1] = Initialize("Field", g.of) PROVE i > 1 /\ u[i - 1] = Initialize("Field", g.of)
        <5>1. m - 1 \in DOMAIN s /\ (m - 1) + z = i - 1 /\ i > 1
          BY <2>7, <3>1, <3>3
        <5>2. m - 1 # 1
          BY <4>3 DEF Initialize, Do
        <5>3. r[m - 1] = s[m - 1]
          BY <2>5, <5>1, <5>2
        <5> QED BY <2>5, <2>7, <4>3, <5>1, <5>3
      <4> HIDE DEF g
      <4>4. g.kind = "value" => \/ <<"Field", g.of>> \in fl
                                \/ i > 1 /\ u[i - 1] = Initialize("Field", g.of)
        BY <4>2, <4>3
      <4> QED BY <4>2, <4>4 DEF g
    <3> QED BY <3>2, <3>3
  <2>10. TodoInv(u, fl, k)
    BY <2>6, <2>9 DEF TodoInv, TodoRest
  <2>11. TodoInv(b \o t, fl, k)
    BY <2>3, <2>10
  <2> QED BY <2>11 DEF f, y
<1> QED BY <1>4, <1>5

LEMMA Both ==
  ASSUME NEW D, NEW a \in Seq(D), NEW b \in Seq(D)
  PROVE  a \o b \in Seq(D)
OBVIOUS

Turn(a, b, c, d) == ((a \o b) \o c) \o d = a \o ((b \o c) \o d) /\ ((a \o b) \o c) \o d = a \o (b \o (c \o d))

LEMMA Turned ==
  ASSUME NEW a \in Seq(WorkItems), NEW b \in Seq(WorkItems), NEW c \in Seq(WorkItems), NEW d \in Seq(WorkItems)
  PROVE  Turn(a, b, c, d)
<1>1. PICK p \in Seq(WorkItems) : p = b \o c
  BY Both
<1>2. (a \o b) \o c = a \o p
  BY <1>1, ConcatAssociative, SMTT(30)
<1>3. (a \o p) \o d = a \o (p \o d)
  BY ConcatAssociative, SMTT(30)
<1>4. p \o d = b \o (c \o d)
  BY <1>1, ConcatAssociative, SMTT(30)
<1> QED BY <1>1, <1>2, <1>3, <1>4 DEF Turn

Regroup(a, b, c, d, e, f, g, t) ==
    ((((((a \o b) \o c) \o d) \o e) \o f) \o g) \o t = a \o (((b \o c) \o d) \o (((e \o f) \o g) \o t))

LEMMA Regrouped ==
  ASSUME NEW a \in Seq(WorkItems), NEW b \in Seq(WorkItems), NEW c \in Seq(WorkItems), NEW d \in Seq(WorkItems), NEW e \in Seq(WorkItems),
         NEW f \in Seq(WorkItems), NEW g \in Seq(WorkItems), NEW t \in Seq(WorkItems)
  PROVE  Regroup(a, b, c, d, e, f, g, t)
<1>1. PICK q \in Seq(WorkItems) : q = (b \o c) \o d
  BY Both
<1>2. PICK r \in Seq(WorkItems) : r = (e \o f) \o g
  BY Both
<1>3. PICK p \in Seq(WorkItems) : p = a \o q
  BY Both
<1>4. Turn(a, b, c, d)
  BY Turned
<1>5. Turn(p, e, f, g)
  BY Turned
<1>6. Turn(a, q, r, t)
  BY Turned
<1>7. ((a \o b) \o c) \o d = p
  BY <1>1, <1>3, <1>4 DEF Turn
<1>8. ((p \o e) \o f) \o g = p \o r
  BY <1>2, <1>5 DEF Turn
<1>9. (p \o r) \o t = a \o (q \o (r \o t))
  BY <1>3, <1>6 DEF Turn
<1> QED BY <1>1, <1>2, <1>7, <1>8, <1>9 DEF Regroup

LEMMA FreeJoined ==
  ASSUME NEW a \in Seq(WorkItems), NEW b \in Seq(WorkItems), LayoutFree(a), LayoutFree(b)
  PROVE  LayoutFree(a \o b)
BY Joined DEF LayoutFree

\* Calls of initialize_<part> alone.
LEMMA FreeCalls ==
  ASSUME NEW p \in Parts \cup {"All"}, NEW q \in Seq(Classes)
  PROVE  LayoutFree([i \in DOMAIN q |-> Initialize(p, q[i])])
BY DEF LayoutFree, LayoutOps, Initialize, Do

LEMMA FreeUp == ASSUME NEW p, NEW c PROVE LayoutFree(Up(p, c))
<1>1. CASE w.parent[c] = NoClass
  BY <1>1 DEF Up, LayoutFree
<1>2. CASE w.parent[c] # NoClass
  <2>1. Up(p, c) = <<Initialize(p, w.parent[c])>>
    BY <1>2 DEF Up
  <2>2. DOMAIN Up(p, c) = {1} /\ Up(p, c)[1].op = "init"
    BY <2>1 DEF Initialize, Do
  <2> QED BY <2>2 DEF LayoutFree, LayoutOps
<1> QED BY <1>1, <1>2

LEMMA FreeOne == ASSUME NEW x, x.op \notin LayoutOps PROVE LayoutFree(<<x>>)
BY DEF LayoutFree

LEMMA FreeStatics == ASSUME NEW c PROVE LayoutFree(StaticRounds(c))
BY DEF LayoutFree, LayoutOps, StaticRounds, Do

\* What initialize_fields does behind the layout of the instance.
LEMMA BodyTodo ==
  ASSUME w \in Worlds, NEW s \in Seq(WorkItems), s # <<>>, NEW fl, NEW k, TodoInv(s, fl, k),
         NEW c \in Classes, s[1] = Initialize("Field", c), <<"Field", c>> \notin fl, Unmarked(fl, k)
  PROVE  TodoInv(Append(Body("Field", c), Do("end", c, "Field")) \o Tail(s), fl \cup {<<"Field", c>>}, k)
<1> DEFINE t == Tail(s)
           fl2 == fl \cup {<<"Field", c>>}
           u == Up("Field", c)
           d == StaticRounds(c)
           x == <<Work("statics", c), Work("bitmap", c), Work("sbitmap", c), Work("data", c)>>
           e == Do("end", c, "Field")
           r == ((d \o x) \o <<e>>) \o t
<1>1. /\ NativeWork(u) /\ NativeWork(d) /\ NativeWork(x)
  <2>1. /\ NativeItem(Work("statics", c)) /\ NativeItem(Work("bitmap", c))
        /\ NativeItem(Work("sbitmap", c)) /\ NativeItem(Work("data", c))
    <3> SUFFICES ASSUME NEW op \in {"statics", "bitmap", "sbitmap", "data"} PROVE NativeItem(Work(op, c))
      OBVIOUS
    <3>1. Work(op, c).op = op /\ op \in NativeOps /\ op \in WorkOps
      BY DEF Work, Do, NativeOps, WorkOps
    <3> QED BY <3>1, NativePiece DEF NativeItem
  <2> QED BY <2>1, NativeUp, NativeFields, NativeFour DEF Parts
<1>2. /\ u \in Seq(WorkItems) /\ d \in Seq(WorkItems) /\ x \in Seq(WorkItems) /\ t \in Seq(WorkItems)
      /\ \A i \in DOMAIN u : u[i].op \in NativeOps
      /\ \A i \in DOMAIN d : d[i].op \in NativeOps
      /\ \A i \in DOMAIN x : x[i].op \in NativeOps
  BY <1>1, TailOf DEF NativeWork
<1>3. LayoutFree(u) /\ LayoutFree(d) /\ LayoutFree(x)
  <2>1. DOMAIN x = 1..4 /\ x[1].op = "statics" /\ x[2].op = "bitmap" /\ x[3].op = "sbitmap" /\ x[4].op = "data"
    BY DEF Work, Do
  <2>2. LayoutFree(x)
    <3> HIDE DEF x
    <3>1. \A i \in 1..4 : i = 1 \/ i = 2 \/ i = 3 \/ i = 4
      OBVIOUS
    <3> QED BY <2>1, <3>1 DEF LayoutFree, LayoutOps
  <2> QED BY <2>2, FreeUp, FreeStatics
<1>4. e \in WorkItems /\ e.op = "end" /\ <<e>> \in Seq(WorkItems) /\ LayoutFree(<<e>>)
  <2>1. "end" \in Ops /\ "Field" \in Args
    BY DEF Ops, Args, Parts
  <2>2. e \in WorkItems /\ e.op = "end"
    BY <2>1, DoneItem
  <2> HIDE DEF e
  <2>3. LayoutFree(<<e>>)
    BY <2>2, FreeOne DEF LayoutOps
  <2> QED BY <2>2, <2>3
<1>5. TodoInv(t, fl2, k) /\ TodoRest(t, fl, k)
  <2>1. s[1].op \notin LayoutOps /\ Marked(s[1], fl2)
    BY DEF Initialize, Do, LayoutOps, Marked
  <2> HIDE DEF fl2
  <2>2. fl \subseteq fl2
    BY DEF fl2
  <2> QED BY <2>1, <2>2, TailTodo
<1> HIDE DEF t, u, d, x, e
<1> DEFINE y == (d \o x) \o <<e>>
<1>6. y \in Seq(WorkItems) /\ LayoutFree(y) /\ \A i \in DOMAIN y : y[i].op \in NativeOps \cup {"end"}
  <2>1. d \o x \in Seq(WorkItems) /\ LayoutFree(d \o x) /\ \A i \in DOMAIN (d \o x) : (d \o x)[i].op \in NativeOps
    <3>1. d \o x \in Seq(WorkItems)
      BY <1>2, <1>3, Joined
    <3>3. LayoutFree(d \o x)
      BY <1>2, <1>3, FreeJoined
    <3>2. \A i \in DOMAIN (d \o x) : (d \o x)[i].op \in NativeOps
      BY <1>2, <1>3, Joined, SMTT(30)
    <3> QED BY <3>1, <3>2, <3>3
  <2> DEFINE z == d \o x
  <2> HIDE DEF z
  <2>2. z \in Seq(WorkItems) /\ LayoutFree(z) /\ \A i \in DOMAIN z : z[i].op \in NativeOps
    BY <2>1 DEF z
  <2>3. z \o <<e>> \in Seq(WorkItems) /\ LayoutFree(z \o <<e>>)
    BY <1>4, <2>2, FreeJoined, Joined
  <2>4. \A i \in DOMAIN (z \o <<e>>) : (z \o <<e>>)[i].op \in NativeOps \cup {"end"}
    <3>1. \A i \in DOMAIN <<e>> : <<e>>[i].op = "end"
      BY <1>4
    <3> QED BY <1>4, <2>2, <3>1, Joined
  <2> QED BY <2>3, <2>4 DEF z
<1>7. TodoRest(r, fl, k) /\ TodoInv(r, fl2, k) /\ r \in Seq(WorkItems)
  <2> HIDE DEF y
  <2>1. TodoRest(y \o t, fl, k) /\ TodoInv(y \o t, fl2, k) /\ y \o t \in Seq(WorkItems)
    BY <1>2, <1>5, <1>6, JoinRest, JoinTodo, Joined
  <2> QED BY <2>1 DEF y
<1> DEFINE v == Chain(c) \o r
<1>8. TodoInv(v, fl2, k) /\ v \in Seq(WorkItems)
  <2> HIDE DEF r
  <2>1. TypesMarked(r, fl2)
    BY <1>7 DEF TodoInv
  <2>2. TodoInv(v, fl2, k)
    BY <1>7, <2>1, ChainTodo
  <2>3. v \in Seq(WorkItems)
    BY <1>7, ChainIs, Both
  <2> QED BY <2>2, <2>3
<1>9. TodoInv(u \o v, fl2, k)
  <2> HIDE DEF v
  <2> QED BY <1>2, <1>3, <1>8, JoinTodo
<1>10. Append(Body("Field", c), e) \o t = u \o v
  <2> DEFINE a == <<Work("fields", c)>>
             b == InstanceRounds(c)
             l == <<Work("layout", c)>>
  <2>1. a \in Seq(WorkItems) /\ b \in Seq(WorkItems) /\ l \in Seq(WorkItems)
    BY NativePiece, NativeFields DEF NativeWork, WorkOps
  <2>2. Body("Field", c) = ((((u \o a) \o b) \o l) \o d) \o x
    BY DEF Body, FieldBody, u, d, x
  <2>3. Body("Field", c) \in Seq(WorkItems)
    BY NativeBody DEF NativeWork, Parts
  <2>4. Append(Body("Field", c), e) = Body("Field", c) \o <<e>>
    BY <1>4, <2>3
  <2>5. Chain(c) = (a \o b) \o l
    BY DEF Chain
  <2> HIDE DEF a, b, l
  <2>6. ((((((u \o a) \o b) \o l) \o d) \o x) \o <<e>>) \o t = u \o (((a \o b) \o l) \o (((d \o x) \o <<e>>) \o t))
    <3>1. Regroup(u, a, b, l, d, x, <<e>>, t)
      BY <1>2, <1>4, <2>1, Regrouped
    <3> QED BY <3>1 DEF Regroup
  <2> QED BY <2>2, <2>4, <2>5, <2>6
<1> QED BY <1>9, <1>10 DEF e, t

\* What the layouts read of no class has changed.
LEMMA TodoSame ==
  ASSUME w \in Worlds, NEW s \in Seq(WorkItems), NEW fl, NEW k, NEW l, TodoInv(s, fl, k), Alike(k, l, NoClass)
  PROVE  TodoInv(s, fl, l)
<1>1. \A x \in Classes : l[x].fields = k[x].fields /\ l[x].refs = k[x].refs /\ l[x].align = k[x].align
  BY ClassAssumption DEF Alike
<1>2. \A i \in DOMAIN s : s[i].of \in Classes
  BY DEF WorkItems
<1>3. FrontLoaded(s) /\ Ranked(s) /\ Chained(s) /\ TypesMarked(s, fl) /\ InProgress(s, fl, k) /\ Begun(s, fl, k)
  BY DEF TodoInv
<1>4. InProgress(s, fl, l)
  BY <1>1, <1>2, <1>3 DEF InProgress
<1>5. Begun(s, fl, l)
  <2> SUFFICES ASSUME NEW j \in DOMAIN s, Begins(s, j), s[j].op # "fields"
               PROVE  LET c == s[j].of
                      IN  /\ l[c].fields = w.fields[c]
                          /\ \A i \in DOMAIN w.fields[c] :
                               i < Rank(s[j]) /\ ~w.fields[c][i].static => Seen(s, j, fl, l, c, w.fields[c][i])
    BY DEF Begun
  <2> DEFINE c == s[j].of
  <2>1. /\ k[c].fields = w.fields[c]
        /\ \A i \in DOMAIN w.fields[c] :
             i < Rank(s[j]) /\ ~w.fields[c][i].static => Seen(s, j, fl, k, c, w.fields[c][i])
    BY <1>3 DEF Begun
  <2>2. c \in Classes
    BY <1>2
  <2> HIDE DEF c
  <2>3. ASSUME NEW i \in DOMAIN w.fields[c], i < Rank(s[j]), ~w.fields[c][i].static
        PROVE  Seen(s, j, fl, l, c, w.fields[c][i])
    <3> DEFINE f == w.fields[c][i]
    <3>1. Seen(s, j, fl, k, c, f)
      BY <2>1, <2>3
    <3>2. f.kind = "value" => f.of \in Classes
      BY <2>2, World
    <3> HIDE DEF f
    <3>3. l[c].refs = k[c].refs /\ (f.kind = "value" => l[f.of].refs = k[f.of].refs /\ l[f.of].align = k[f.of].align)
      BY <1>1, <2>2, <3>2
    <3>4. Seen(s, j, fl, l, c, f)
      BY <3>1, <3>3 DEF Seen
    <3> QED BY <3>4 DEF f
  <2>4. l[c].fields = w.fields[c]
    BY <1>1, <2>1, <2>2
  <2> QED BY <2>3, <2>4 DEF c
<1> QED BY <1>3, <1>4, <1>5 DEF TodoInv

Idle(cs) == \A n \in DOMAIN cs : n < Len(cs) => LayoutFree(cs[n].todo)
WorkInv(cs, fl, k) == Idle(cs) /\ TodoInv(TodoOf(cs), fl, k)

\* The work on top becomes u.
LEMMA WorkBecomes ==
  ASSUME Inv, Idle(calls), NEW u \in Seq(WorkItems), calls' = Replaced(calls, u), NEW fl, NEW k, TodoInv(u, fl, k)
  PROVE  WorkInv(calls', fl, k)
<1>1. calls \in Seq(Activations) /\ Len(calls) > 0
  BY DEF Inv, CallsInv
<1>2. /\ Len(calls') = Len(calls) /\ DOMAIN calls' = DOMAIN calls /\ TodoOf(calls') = u
      /\ \A n \in DOMAIN calls : n # Len(calls) => calls'[n] = calls[n]
  BY <1>1, TopReplaced
<1>3. \A n \in DOMAIN calls : n < Len(calls) => n # Len(calls)
  BY <1>1
<1> QED BY <1>2, <1>3 DEF WorkInv, Idle

\* Behind managed work there is no layout.
LEMMA ManagedFirst ==
  ASSUME NEW s \in Seq(WorkItems), s # <<>>, FrontLoaded(s), s[1].op \notin NativeOps \cup {"end"}
  PROVE  LayoutFree(Tail(s))
<1> SUFFICES ASSUME NEW i \in DOMAIN Tail(s) PROVE Tail(s)[i].op \notin LayoutOps
  BY DEF LayoutFree
<1>1. i + 1 \in DOMAIN s /\ Tail(s)[i] = s[i + 1] /\ 1 \in DOMAIN s
  BY TailOf
<1>2. 1 < i + 1
  OBVIOUS
<1> QED BY <1>1, <1>2 DEF FrontLoaded

\* An item that is no part of a layout is replaced by others that are not.
LEMMA OtherWork ==
  ASSUME Inv, WorkInv(calls, flags, kl), Todo # <<>>, Item.op \notin LayoutOps, NEW s \in Seq(WorkItems), LayoutFree(s),
         Item.op \in NativeOps \cup {"end"} => \A i \in DOMAIN s : s[i].op \in NativeOps \cup {"end"},
         NEW fl, flags \subseteq fl, Marked(Item, fl), Continue(s)
  PROVE  WorkInv(calls', fl, kl)
<1>1. Todo \in Seq(WorkItems) /\ Tail(Todo) \in Seq(WorkItems) /\ Item = Todo[1]
  BY Current, TailOf
<1>2. TodoInv(Todo, flags, kl) /\ Idle(calls)
  BY TodoTop DEF WorkInv
<1>3. TodoInv(Tail(Todo), fl, kl)
  BY <1>1, <1>2, TailTodo
<1>4. LayoutFree(Tail(Todo)) \/ \A i \in DOMAIN s : s[i].op \in NativeOps \cup {"end"}
  <2>1. FrontLoaded(Todo)
    BY <1>2 DEF TodoInv
  <2> QED BY <1>1, <2>1, ManagedFirst
<1>5. TodoInv(s \o Tail(Todo), fl, kl)
  BY <1>1, <1>3, <1>4, JoinTodo
<1>6. s \o Tail(Todo) \in Seq(WorkItems) /\ calls' = Replaced(calls, s \o Tail(Todo))
  <2>1. s \o Tail(Todo) \in Seq(WorkItems)
    BY <1>1, Joined
  <2> QED BY <2>1 DEF Continue, Replaced
<1> QED BY <1>2, <1>5, <1>6, WorkBecomes

\* Nothing is left of the work on top.
LEMMA NoWork ==
  ASSUME Inv, Idle(calls), NEW s \in Seq(WorkItems), LayoutFree(s), calls' = [calls EXCEPT ![Len(calls)].todo = s], NEW fl, NEW k
  PROVE  WorkInv(calls', fl, k)
<1>1. calls' = Replaced(calls, s)
  BY DEF Replaced
<1> QED BY <1>1, FreeTodo, WorkBecomes

LEMMA FreeNone == <<>> \in Seq(WorkItems) /\ LayoutFree(<<>>) /\ \A i \in DOMAIN <<>> : FALSE
BY EmptyTodo DEF LayoutFree

\* A managed constructor is called.
LEMMA InvokeWork ==
  ASSUME Inv, WorkInv(calls, flags, kl), Todo # <<>>, Item.op \notin NativeOps \cup {"end"}, NEW c, NEW fl, NEW k, Invoke(c)
  PROVE  WorkInv(calls', fl, k)
<1> DEFINE a == [of |-> c, todo |-> <<>>]
           ds == Replaced(calls, Tail(Todo))
<1>1. calls \in Seq(Activations) /\ Len(calls) > 0
  BY DEF Inv, CallsInv
<1>2. Todo \in Seq(WorkItems) /\ Tail(Todo) \in Seq(WorkItems) /\ Item = Todo[1]
  BY Current, TailOf
<1>3. FrontLoaded(Todo) /\ Idle(calls)
  BY TodoTop DEF WorkInv, TodoInv
<1>4. LayoutFree(Tail(Todo))
  BY <1>2, <1>3, ManagedFirst
<1>5. WorkInv(ds, fl, k) /\ ds \in Seq(Activations) /\ TodoOf(ds) = Tail(Todo) /\ Len(ds) > 0
  <2>1. /\ Len(ds) = Len(calls) /\ DOMAIN ds = DOMAIN calls /\ TodoOf(ds) = Tail(Todo) /\ ds \in Seq(Activations)
        /\ \A n \in DOMAIN calls : n # Len(calls) => ds[n] = calls[n]
    BY <1>1, <1>2, TopReplaced
  <2>2. \A n \in DOMAIN calls : n < Len(calls) => n # Len(calls)
    BY <1>1
  <2> HIDE DEF ds
  <2>3. Idle(ds)
    BY <1>3, <2>1, <2>2 DEF Idle
  <2> QED BY <1>1, <1>4, <2>1, <2>3, FreeTodo DEF WorkInv
<1>6. calls' = Append(ds, a)
  BY DEF Invoke, Replaced
<1> HIDE DEF ds, a
<1>7. /\ Len(calls') = Len(ds) + 1 /\ calls'[Len(ds) + 1] = a
      /\ \A n \in DOMAIN calls' : n < Len(ds) + 1 => n \in DOMAIN ds /\ calls'[n] = ds[n] /\ (n < Len(ds) \/ n = Len(ds))
  <2>1. DOMAIN ds = 1..Len(ds) /\ Len(ds) \in Nat
    BY <1>5
  <2>2. /\ Len(calls') = Len(ds) + 1 /\ DOMAIN calls' = 1..(Len(ds) + 1)
        /\ \A n \in 1..(Len(ds) + 1) : calls'[n] = IF n <= Len(ds) THEN ds[n] ELSE a
    BY <1>6, <2>1
  <2> QED BY <2>1, <2>2
<1>8. TodoOf(calls') = <<>>
  BY <1>7 DEF TodoOf, a
<1>9. Idle(calls')
  <2>1. Idle(ds) /\ LayoutFree(ds[Len(ds)].todo)
    BY <1>4, <1>5 DEF WorkInv, TodoOf
  <2> QED BY <1>7, <2>1 DEF Idle
<1> QED BY <1>8, <1>9, FreeNone, FreeTodo DEF WorkInv

\* What the layouts read of class x is in l what it is in k.
Same(k, l, x) ==
    /\ l[x].fields = k[x].fields /\ l[x].refs = k[x].refs /\ l[x].size = k[x].size
    /\ l[x].align = k[x].align /\ l[x].offs = k[x].offs

LayoutParts == {"fields", "refs", "size", "align", "offs"}

\* What a piece of work does to the class it works on.
LEMMA WorkEffect ==
  ASSUME w \in Worlds, LayoutTyped(kl), DoWork, Item.of \in Classes
  PROVE  /\ DOMAIN kl' = Classes /\ \A x \in Classes : LayoutParts \subseteq DOMAIN kl'[x]
         /\ \A x \in Classes : x # Item.of => Same(kl, kl', x)
         /\ Item.op \notin {"fields", "refs", "layout"} => Same(kl, kl', Item.of)
         /\ Item.op = "fields" =>
              /\ kl'[Item.of].fields = w.fields[Item.of] /\ kl'[Item.of].refs = Inherited(Item.of, "refs")
              /\ kl'[Item.of].size = kl[Item.of].size /\ kl'[Item.of].align = kl[Item.of].align
              /\ kl'[Item.of].offs = kl[Item.of].offs
         /\ Item.op = "refs" =>
              /\ kl'[Item.of].refs = (kl[Item.of].refs \/ ContainsReference(kl, kl[Item.of].fields[Item.arg]))
              /\ kl'[Item.of].fields = kl[Item.of].fields
              /\ kl'[Item.of].size = kl[Item.of].size /\ kl'[Item.of].align = kl[Item.of].align
              /\ kl'[Item.of].offs = kl[Item.of].offs
         /\ Item.op = "layout" => LaidOut(kl, kl', Item.of)
<1> DEFINE c == Item.of
           op == Item.op
           i == Item.arg
           e == Effect(op, c, i)
<1>1. kl' = [kl EXCEPT ![c] = e] /\ c \in Classes
  BY DEF DoWork
<1>2. DOMAIN kl = Classes /\ \A x \in Classes : LayoutParts \subseteq DOMAIN kl[x]
  BY DEF LayoutTyped, LayoutParts
<1>3. /\ DOMAIN kl' = Classes /\ kl'[c] = e /\ \A x \in Classes : x # c => kl'[x] = kl[x]
  <2> HIDE DEF c, e
  <2> QED BY <1>1, <1>2
<1>4. LayoutParts \subseteq DOMAIN kl[c]
  BY <1>1, <1>2
<1>5. CASE op = "fields"
  <2>1. e = [kl[c] EXCEPT !.fields = w.fields[c], !.refs = Inherited(c, "refs")]
    BY <1>5 DEF Effect
  <2> HIDE DEF c, e
  <2>2. /\ e.fields = w.fields[c] /\ e.refs = Inherited(c, "refs") /\ e.size = kl[c].size
        /\ e.align = kl[c].align /\ e.offs = kl[c].offs /\ DOMAIN e = DOMAIN kl[c]
    BY <1>4, <2>1 DEF LayoutParts
  <2> QED BY <1>2, <1>3, <1>5, <2>2 DEF Same, c
<1>6. CASE op = "refs"
  <2>1. e = [kl[c] EXCEPT !.refs = @ \/ ContainsReference(kl, kl[c].fields[i])]
    BY <1>6 DEF Effect
  <2> DEFINE v == kl[c].refs \/ ContainsReference(kl, kl[c].fields[i])
  <2>2. e = [kl[c] EXCEPT !.refs = v]
    BY <2>1
  <2> HIDE DEF c, e, v
  <2>3. /\ e.fields = kl[c].fields /\ e.refs = v /\ e.size = kl[c].size
        /\ e.align = kl[c].align /\ e.offs = kl[c].offs /\ DOMAIN e = DOMAIN kl[c]
    BY <1>4, <2>2 DEF LayoutParts
  <2> QED BY <1>2, <1>3, <1>6, <2>3 DEF Same, c, v
<1>7. CASE op = "layout"
  <2> DEFINE m == InstanceLayout(kl, w, c)
  <2>1. e = [kl[c] EXCEPT !.size = m.size, !.align = m.align, !.offs = m.offs]
    BY <1>7 DEF Effect, WithLayout
  <2> HIDE DEF c, e, m
  <2>2. /\ e.fields = kl[c].fields /\ e.refs = kl[c].refs /\ e.size = m.size
        /\ e.align = m.align /\ e.offs = m.offs /\ DOMAIN e = DOMAIN kl[c]
    BY <1>4, <2>1 DEF LayoutParts
  <2>3. LaidOut(kl, kl', c)
    BY <1>3, <2>2 DEF LaidOut, m
  <2> QED BY <1>2, <1>3, <1>7, <2>2, <2>3 DEF Same, c
<1>8. CASE op \notin {"fields", "refs", "layout"}
  <2> DEFINE Kept(x) == /\ x.fields = kl[c].fields /\ x.refs = kl[c].refs /\ x.size = kl[c].size
                        /\ x.align = kl[c].align /\ x.offs = kl[c].offs /\ DOMAIN x = DOMAIN kl[c]
  <2>1. Kept(e)
    <3>1. CASE op = "supers"
      <4>1. e = [kl[c] EXCEPT !.supers = Append(Inherited(c, "supers"), c)]
        BY <3>1 DEF Effect
      <4> HIDE DEF e, c
      <4> QED BY <1>4, <4>1 DEF LayoutParts
    <3>2. CASE op = "interfaces"
      <4>1. e = [kl[c] EXCEPT !.ifs = ListedInterfaces(c)]
        BY <3>2 DEF Effect
      <4> HIDE DEF e, c
      <4> QED BY <1>4, <4>1 DEF LayoutParts
    <3>3. CASE op = "statics"
      <4> DEFINE m == StaticLayout(kl, c)
      <4>1. e = [kl[c] EXCEPT !.ssize = m.size, !.soffs = m.offs]
        BY <3>3 DEF Effect, WithStatics
      <4> HIDE DEF e, c, m
      <4> QED BY <1>4, <4>1 DEF LayoutParts
    <3>4. CASE op = "bitmap"
      <4> DEFINE m == IF kl[c].refs THEN InstanceBits(kl, w.parent, c) ELSE {}
      <4>1. e = [kl[c] EXCEPT !.bits = m]
        BY <3>4 DEF Effect, WithBitmap
      <4> HIDE DEF e, c, m
      <4> QED BY <1>4, <4>1 DEF LayoutParts
    <3>5. CASE op = "sbitmap"
      <4> DEFINE m == StaticBits(kl, c)
      <4>1. e = [kl[c] EXCEPT !.sbits = m]
        BY <3>5 DEF Effect
      <4> HIDE DEF e, c, m
      <4> QED BY <1>4, <4>1 DEF LayoutParts
    <3>6. CASE op = "methods"
      <4>1. e = [kl[c] EXCEPT !.methods = w.methods[c], !.hasMethods = TRUE]
        BY <3>6 DEF Effect
      <4> HIDE DEF e, c
      <4> QED BY <1>4, <4>1 DEF LayoutParts
    <3>7. CASE op = "vtable"
      <4> DEFINE t == SetupVTable(kl, w, c)
      <4>1. e = [kl[c] EXCEPT !.vtable = t.tbl, !.ioffs = t.ioffs, !.slots = t.slots]
        BY <3>7 DEF Effect, WithVTable
      <4> HIDE DEF e, c, t
      <4> QED BY <1>4, <4>1 DEF LayoutParts
    <3>8. CASE op \notin {"supers", "interfaces", "statics", "bitmap", "sbitmap", "methods", "vtable"}
      <4>1. e = kl[c]
        BY <1>8, <3>8 DEF Effect
      <4> HIDE DEF e, c
      <4> QED BY <4>1
    <3> QED BY <3>1, <3>2, <3>3, <3>4, <3>5, <3>6, <3>7, <3>8
  <2> HIDE DEF e, c
  <2> QED BY <1>2, <1>3, <1>8, <2>1 DEF Same, c
<1> QED BY <1>5, <1>6, <1>7, <1>8

\* The piece of work in front is one of the chain of its class.
LEMMA WorkHead ==
  ASSUME Inv, WorkInv(calls, flags, kl), Todo # <<>>, Item.op \in LayoutOps
  PROVE  /\ TodoInv(Todo, flags, kl) /\ Todo \in Seq(WorkItems) /\ Todo[1] = Item /\ Item.of \in Classes
         /\ <<"Field", Item.of>> \in flags /\ kl[Item.of].align = 0
         /\ Item.op = "fields" => ~kl[Item.of].refs
         /\ Item.op # "fields" =>
              /\ kl[Item.of].fields = w.fields[Item.of]
              /\ \A i \in DOMAIN w.fields[Item.of] : i < Rank(Item) /\ ~w.fields[Item.of][i].static =>
                    Seen(Todo, 1, flags, kl, Item.of, w.fields[Item.of][i])
<1>1. Todo \in Seq(WorkItems) /\ Item = Todo[1] /\ 1 \in DOMAIN Todo /\ Item.of \in Classes
  BY Current, ItemTyped, TailOf
<1>2. TodoInv(Todo, flags, kl)
  BY TodoTop DEF WorkInv
<1>3. Begins(Todo, 1)
  BY <1>1 DEF Begins
<1>4. <<"Field", Item.of>> \in flags /\ kl[Item.of].align = 0 /\ (Item.op = "fields" => ~kl[Item.of].refs)
  BY <1>1, <1>2 DEF TodoInv, InProgress
<1>5. Item.op # "fields" =>
         /\ kl[Item.of].fields = w.fields[Item.of]
         /\ \A i \in DOMAIN w.fields[Item.of] : i < Rank(Item) /\ ~w.fields[Item.of][i].static =>
               Seen(Todo, 1, flags, kl, Item.of, w.fields[Item.of][i])
  BY <1>1, <1>2, <1>3 DEF TodoInv, Begun
<1> QED BY <1>1, <1>2, <1>4, <1>5

\* The round that asks about a field.
LEMMA RefsHead ==
  ASSUME Inv, WorkInv(calls, flags, kl), Todo # <<>>, Item.op = "refs"
  PROVE  /\ Item.arg \in DOMAIN w.fields[Item.of] /\ Rank(Item) = Item.arg
         /\ LET f == w.fields[Item.of][Item.arg]
            IN  ~f.static /\ (f.kind = "value" => <<"Field", f.of>> \in flags)
<1>1. TodoInv(Todo, flags, kl) /\ Todo[1] = Item /\ 1 \in DOMAIN Todo
  BY WorkHead, Current, TailOf DEF LayoutOps
<1>2. TypesMarked(Todo, flags)
  BY <1>1 DEF TodoInv
<1>3. Rank(Item) = Item.arg
  BY DEF Rank
<1> QED BY <1>1, <1>2, <1>3 DEF TypesMarked

LEMMA DoWorkTodo ==
  ASSUME Inv, WorkInv(calls, flags, kl), LayoutTyped(kl), DoWork
  PROVE  WorkInv(calls', flags, kl')
<1> DEFINE c == Item.of
           f(i) == w.fields[c][i]
<1>1. Todo # <<>> /\ w \in Worlds /\ Item.of \in Classes /\ Continue(<<>>) /\ Item.op \in WorkOps
  BY ItemTyped DEF DoWork, Inv
<1>2. /\ Todo \in Seq(WorkItems) /\ Tail(Todo) \in Seq(WorkItems) /\ Item = Todo[1] /\ Idle(calls)
      /\ calls' = Replaced(calls, Tail(Todo))
  <2>1. /\ Todo \in Seq(WorkItems) /\ Tail(Todo) \in Seq(WorkItems) /\ Item = Todo[1]
    BY <1>1, Current, TailOf
  <2>2. <<>> \o Tail(Todo) = Tail(Todo)
    BY <2>1
  <2> QED BY <1>1, <2>1, <2>2 DEF WorkInv, Continue, Replaced
<1>3. TodoInv(Todo, flags, kl)
  BY TodoTop DEF WorkInv
<1>4. Alike(kl, kl', c)
  BY <1>1, WorkEffect DEF Alike, Same
<1> SUFFICES TodoInv(Tail(Todo), flags, kl')
  BY <1>2, WorkBecomes
<1>5. CASE Item.op \notin {"fields", "refs", "layout"}
  <2>1. Item.op \notin LayoutOps
    BY <1>1, <1>5 DEF LayoutOps, WorkOps
  <2>2. Marked(Item, flags)
    BY <1>1 DEF Marked, WorkOps
  <2>3. TodoInv(Tail(Todo), flags, kl)
    BY <1>1, <1>2, <1>3, <2>1, <2>2, TailTodo
  <2>4. Alike(kl, kl', NoClass)
    BY <1>1, <1>4, <1>5, WorkEffect DEF Alike, Same
  <2> QED BY <1>1, <1>2, <2>3, <2>4, TodoSame
<1>6. CASE Item.op = "layout"
  <2>1. Todo[1].op \in LayoutOps /\ Todo[1].op = "layout" /\ c = Todo[1].of
    BY <1>2, <1>6 DEF LayoutOps
  <2> HIDE DEF c
  <2> QED BY <1>1, <1>2, <1>3, <1>4, <2>1, HeadTodo
<1>7. CASE Item.op = "fields"
  <2>1. Todo[1].op \in LayoutOps /\ c = Todo[1].of /\ Rank(Todo[1]) = 0
    BY <1>2, <1>7 DEF LayoutOps, Rank
  <2>2. kl'[c].align = 0 /\ kl'[c].fields = w.fields[c]
    BY <1>1, <1>2, <1>7, <2>1, WorkEffect, WorkHead
  <2>3. \A i \in DOMAIN w.fields[c] : ~(i <= Rank(Todo[1]))
    BY <1>1, <2>1, World
  <2> HIDE DEF c
  <2> QED BY <1>1, <1>2, <1>3, <1>4, <2>1, <2>2, <2>3, HeadTodo
<1>8. CASE Item.op = "refs"
  <2>1. Todo[1].op \in LayoutOps /\ c = Todo[1].of /\ Rank(Todo[1]) = Item.arg
    BY <1>1, <1>2, <1>8, RefsHead DEF LayoutOps
  <2>2. /\ kl[c].align = 0 /\ kl[c].fields = w.fields[c]
        /\ \A i \in DOMAIN w.fields[c] : i < Item.arg /\ ~f(i).static => Seen(Todo, 1, flags, kl, c, f(i))
    BY <1>1, <1>2, <1>8, <2>1, WorkHead
  <2>3. /\ kl'[c].align = 0 /\ kl'[c].fields = w.fields[c]
        /\ kl'[c].refs = (kl[c].refs \/ ContainsReference(kl, f(Item.arg)))
    BY <1>1, <1>8, <2>2, WorkEffect
  <2>4. ASSUME NEW i \in DOMAIN w.fields[c], i <= Item.arg, ~f(i).static
        PROVE  Seen(Tail(Todo), 1, flags, kl', c, f(i))
    <3>1. ~\E n \in DOMAIN Tail(Todo) : n < 1
      BY <1>2
    <3>2. Item.arg \in DOMAIN w.fields[c] /\ (f(Item.arg).kind = "value" => <<"Field", f(Item.arg).of>> \in flags)
      BY <1>1, <1>8, RefsHead
    <3>3. i < Item.arg \/ i = Item.arg
      <4>1. DOMAIN w.fields[c] \subseteq Nat
        BY <1>1, World
      <4> QED BY <2>4, <3>2, <4>1
    <3>4. f(i).kind = "value" => f(i).of \in Classes
      BY <1>1, World
    <3>5. /\ f(i).kind = "ref" => kl'[c].refs
          /\ f(i).kind = "value" => <<"Field", f(i).of>> \in flags /\ (kl[f(i).of].align # 0 /\ kl[f(i).of].refs => kl'[c].refs)
      <4>1. CASE i < Item.arg
        <5>1. Seen(Todo, 1, flags, kl, c, f(i))
          BY <2>2, <2>4, <4>1
        <5> HIDE DEF f, c
        <5> QED BY <2>3, <5>1 DEF Seen
      <4>2. CASE i = Item.arg
        <5>1. ContainsReference(kl, f(i)) => kl'[c].refs
          BY <2>3, <4>2
        <5> HIDE DEF f, c
        <5> QED BY <3>2, <4>2, <5>1 DEF ContainsReference
      <4> QED BY <3>3, <4>1, <4>2
    <3>6. f(i).kind = "value" /\ kl'[f(i).of].align # 0 => kl[f(i).of].align # 0 /\ kl'[f(i).of].refs = kl[f(i).of].refs
      <4> HIDE DEF f
      <4> QED BY <1>4, <2>3, <3>4 DEF Alike
    <3> HIDE DEF f, c
    <3> QED BY <3>1, <3>5, <3>6 DEF Seen
  <2>5. \A i \in DOMAIN w.fields[c] : i <= Rank(Todo[1]) /\ ~w.fields[c][i].static =>
           Seen(Tail(Todo), 1, flags, kl', c, w.fields[c][i])
    BY <2>1, <2>4
  <2> HIDE DEF c
  <2> QED BY <1>1, <1>2, <1>3, <1>4, <2>1, <2>3, <2>5, HeadTodo
<1> QED BY <1>5, <1>6, <1>7, <1>8

ClassesInv(k, fl, h) ==
    /\ LayoutTyped(k) /\ Unmarked(fl, k) /\ RefsMeant(k)
    /\ \A c \in Classes : k[c].align # 0 /\ <<"instance", c>> \notin h => Sound(k, c)

\* Asking the fields finds the references that the class is meant to hold.
LEMMA RefsKept ==
  ASSUME Inv, WorkInv(calls, flags, kl), LayoutTyped(kl), RefsMeant(kl), DoWork
  PROVE  RefsMeant(kl')
<1> DEFINE c == Item.of
           Meant(k, x) == /\ x \in Holders(w)
                          /\ x \in w.value => \E i \in DOMAIN w.fields[x] :
                                                ~w.fields[x][i].static /\ ContainsReference(k, w.fields[x][i])
<1>1. Todo # <<>> /\ w \in Worlds /\ c \in Classes
  BY ItemTyped DEF DoWork, Inv
<1>2. ASSUME NEW x \in Classes, kl[x].refs PROVE kl'[x].refs
  <2>1. CASE x # c
    BY <1>1, <1>2, <2>1, WorkEffect DEF Same
  <2>2. CASE x = c /\ Item.op = "fields"
    BY <1>1, <1>2, <2>2, WorkHead DEF LayoutOps
  <2>3. CASE x = c /\ Item.op = "refs"
    BY <1>1, <1>2, <2>3, WorkEffect
  <2>4. CASE x = c /\ Item.op = "layout"
    BY <1>1, <1>2, <2>4, WorkEffect DEF LaidOut
  <2>5. CASE x = c /\ Item.op \notin {"fields", "refs", "layout"}
    BY <1>1, <1>2, <2>5, WorkEffect DEF Same
  <2> QED BY <2>1, <2>2, <2>3, <2>4, <2>5
<1>3. ASSUME NEW x \in Classes, NEW i \in DOMAIN w.fields[x], ContainsReference(kl, w.fields[x][i])
      PROVE  ContainsReference(kl', w.fields[x][i])
  <2>1. w.fields[x][i].kind = "value" => w.fields[x][i].of \in Classes
    BY <1>1, World
  <2> QED BY <1>2, <1>3, <2>1 DEF ContainsReference
<1>4. ASSUME NEW x \in Classes, Meant(kl, x) PROVE Meant(kl', x)
  BY <1>3, <1>4
<1>5. ASSUME NEW x \in Classes, kl'[x].refs PROVE Meant(kl', x)
  <2>1. CASE kl[x].refs
    BY <1>4, <2>1 DEF RefsMeant
  <2>2. CASE ~kl[x].refs /\ x # c
    BY <1>1, <1>5, <2>2, WorkEffect DEF Same
  <2>3. CASE ~kl[x].refs /\ x = c /\ Item.op = "fields"
    <3>1. Inherited(c, "refs")
      BY <1>1, <1>5, <2>3, WorkEffect
    <3>2. w.parent[c] # NoClass
      BY <3>1 DEF Inherited, BlankClass
    <3>3. w.parent[c] \in Classes /\ kl[w.parent[c]].refs
      BY <1>1, <3>1, <3>2, World DEF Inherited
    <3>4. w.parent[c] \in Holders(w)
      BY <3>3 DEF RefsMeant
    <3>5. c \in Holders(w)
      BY <1>1, <3>4, HoldersClosed
    <3>6. c \notin w.value
      BY <1>1, <3>2, <3>4, ValueAlone
    <3> QED BY <2>3, <3>5, <3>6
  <2>4. CASE ~kl[x].refs /\ x = c /\ Item.op = "refs"
    <3> DEFINE f == w.fields[c][Item.arg]
    <3>1. kl[c].fields = w.fields[c]
      BY <1>1, <2>4, WorkHead DEF LayoutOps
    <3>2. ContainsReference(kl, f)
      BY <1>1, <1>5, <2>4, <3>1, WorkEffect
    <3>3. Item.arg \in DOMAIN w.fields[c] /\ ~f.static
      BY <1>1, <2>4, RefsHead
    <3>4. f.kind = "value" => f.of \in Classes
      BY <1>1, <3>3, World
    <3>5. HoldsReferences(f, Holders(w))
      <4> HIDE DEF f
      <4> QED BY <3>2, <3>3, <3>4 DEF ContainsReference, HoldsReferences, RefsMeant
    <3>6. c \in Holders(w)
      BY <1>1, <3>3, <3>5, HoldersClosed
    <3>7. ContainsReference(kl', f)
      BY <1>1, <1>3, <3>2, <3>3
    <3> QED BY <2>4, <3>3, <3>6, <3>7
  <2>5. CASE ~kl[x].refs /\ x = c /\ Item.op = "layout"
    BY <1>1, <1>5, <2>5, WorkEffect DEF LaidOut
  <2>6. CASE ~kl[x].refs /\ x = c /\ Item.op \notin {"fields", "refs", "layout"}
    BY <1>1, <1>5, <2>6, WorkEffect DEF Same
  <2> QED BY <2>1, <2>2, <2>3, <2>4, <2>5, <2>6
<1> QED BY <1>5 DEF RefsMeant

\* A type that a layout reads.
LEMMA InstanceReading ==
  ASSUME w \in Worlds, NEW c \in Classes, kl[c].fields = w.fields[c]
  PROVE  /\ w.parent[c] # NoClass => w.parent[c] \in InstanceReads(c)
         /\ \A i \in DOMAIN w.fields[c] : ~w.fields[c][i].static /\ w.fields[c][i].kind = "value" =>
               w.fields[c][i].of \in InstanceReads(c)
<1> DEFINE q == InstanceFields(w.fields[c])
<1>1. w.fields[c] \in Seq(Fields)
  BY World
<1>2. ASSUME NEW i \in DOMAIN w.fields[c], ~w.fields[c][i].static
      PROVE  \E j \in DOMAIN q : q[j] = w.fields[c][i]
  <2>1. w.fields[c][i] \in Fields
    BY <1>1
  <2>2. w.fields[c][i].static = FALSE
    BY <1>2, <2>1, Zenon DEF Fields
  <2> QED BY <1>1, <2>2, InstanceAre
<1>3. ASSUME NEW i \in DOMAIN w.fields[c], ~w.fields[c][i].static, w.fields[c][i].kind = "value"
      PROVE  w.fields[c][i].of \in ValuesOf(q)
  <2>1. PICK j \in DOMAIN q : q[j] = w.fields[c][i]
    BY <1>2, <1>3
  <2> HIDE DEF q
  <2> QED BY <1>3, <2>1 DEF ValuesOf
<1> QED BY <1>3 DEF InstanceReads

\* A class whose types were all there is prepared when its layout comes.
LEMMA ReadsReady ==
  ASSUME Inv, WorkInv(calls, flags, kl), ClassesInv(kl, flags, hasty), Todo # <<>>, Item.op = "layout",
         <<"instance", Item.of>> \notin hasty \cup Hasty("layout", Item.of)
  PROVE  Prepared(kl, Item.of)
<1> DEFINE c == Item.of
<1>1. /\ c \in Classes /\ kl[c].align = 0 /\ kl[c].fields = w.fields[c] /\ w \in Worlds
      /\ \A i \in DOMAIN w.fields[c] : i < Rank(Item) /\ ~w.fields[c][i].static =>
            Seen(Todo, 1, flags, kl, c, w.fields[c][i])
  BY WorkHead, Invariants DEF LayoutOps
<1>2. \A t \in InstanceReads(c) : kl[t].align # 0 /\ <<"instance", t>> \notin hasty
  <2>1. Hasty("layout", c) = {<<"instance", c>> : t \in {x \in InstanceReads(c) : LacksLayout(x)}}
    BY DEF Hasty
  <2> QED BY <2>1 DEF LacksLayout
<1>3. \A t \in Classes : t \in InstanceReads(c) => kl[t].align # 0 /\ Sound(kl, t)
  BY <1>2 DEF ClassesInv
<1>4. ASSUME NEW i \in DOMAIN w.fields[c], ~w.fields[c][i].static
      PROVE  LET f == w.fields[c][i]
             IN  /\ f.kind = "ref" => kl[c].refs
                 /\ f.kind = "value" => Sound(kl, f.of) /\ kl[f.of].align # 0 /\ (kl[f.of].refs => kl[c].refs)
  <2> DEFINE f == w.fields[c][i]
  <2>1. i < Rank(Item)
    <3>1. Rank(Item) = Len(w.fields[c]) + 1
      BY DEF Rank
    <3>2. w.fields[c] \in Seq(Fields)
      BY <1>1, World
    <3> QED BY <3>1, <3>2
  <2>2. Seen(Todo, 1, flags, kl, c, f)
    BY <1>1, <1>4, <2>1
  <2>3. f.kind = "value" => f.of \in Classes /\ f.of \in InstanceReads(c)
    BY <1>1, <1>4, InstanceReading, World
  <2>4. f.kind = "value" => kl[f.of].align # 0 /\ Sound(kl, f.of)
    BY <1>3, <2>3
  <2> HIDE DEF f, c
  <2>5. /\ f.kind = "ref" => kl[c].refs
        /\ f.kind = "value" => (kl[f.of].refs => kl[c].refs)
    BY <2>2, <2>4 DEF Seen
  <2> QED BY <2>4, <2>5 DEF f
<1>5. w.parent[c] # NoClass => Sound(kl, w.parent[c]) /\ kl[w.parent[c]].align # 0
  BY <1>1, <1>3, InstanceReading, World
<1> QED BY <1>1, <1>4, <1>5 DEF Prepared

LEMMA DoWorkClasses ==
  ASSUME Inv, WorkInv(calls, flags, kl), ClassesInv(kl, flags, hasty), DoWork
  PROVE  ClassesInv(kl', flags, hasty')
<1> DEFINE c == Item.of
<1>1. /\ Todo # <<>> /\ w \in Worlds /\ c \in Classes
      /\ hasty' = hasty \cup Hasty(Item.op, c)
  BY ItemTyped DEF DoWork, Inv
<1>2. LayoutTyped(kl) /\ Unmarked(flags, kl) /\ RefsMeant(kl)
  BY DEF ClassesInv
<1>3. Item.op \in {"fields", "refs", "layout"} => <<"Field", c>> \in flags /\ kl[c].align = 0
  BY <1>1, WorkHead DEF LayoutOps
<1>4. /\ DOMAIN kl' = Classes /\ \A x \in Classes : LayoutParts \subseteq DOMAIN kl'[x]
      /\ \A x \in Classes : x # c => Same(kl, kl', x)
      /\ Item.op \notin {"fields", "refs", "layout"} => Same(kl, kl', c)
  BY <1>1, <1>2, WorkEffect
<1>5. LayoutTyped(kl')
  <2> DEFINE Typed(x) == /\ x.refs \in BOOLEAN /\ x.size \in Nat /\ x.align \in Aligns \cup {0}
                         /\ x.offs \in Seq(Nat)
  <2>1. \A x \in Classes : Typed(kl[x]) /\ kl[x].fields \in {<<>>, w.fields[x]}
    BY <1>2 DEF LayoutTyped
  <2>2. ASSUME NEW x \in Classes, Same(kl, kl', x) PROVE Typed(kl'[x]) /\ kl'[x].fields \in {<<>>, w.fields[x]}
    BY <2>1, <2>2 DEF Same
  <2>3. CASE Item.op = "fields"
    <3>1. Inherited(c, "refs") \in BOOLEAN
      <4>1. CASE w.parent[c] = NoClass
        BY <4>1 DEF Inherited, BlankClass
      <4>2. CASE w.parent[c] # NoClass
        <5>1. kl[w.parent[c]].refs \in BOOLEAN
          BY <1>1, <2>1, <4>2, World
        <5> QED BY <4>2, <5>1 DEF Inherited
      <4> QED BY <4>1, <4>2
    <3>2. /\ kl'[c].fields = w.fields[c] /\ kl'[c].refs = Inherited(c, "refs")
          /\ kl'[c].size = kl[c].size /\ kl'[c].align = kl[c].align
          /\ kl'[c].offs = kl[c].offs
      BY <1>1, <1>2, <2>3, WorkEffect
    <3> HIDE DEF c
    <3>3. Typed(kl'[c]) /\ kl'[c].fields \in {<<>>, w.fields[c]}
      BY <1>1, <2>1, <3>1, <3>2
    <3>4. \A x \in Classes : Typed(kl'[x]) /\ kl'[x].fields \in {<<>>, w.fields[x]}
      BY <1>4, <2>2, <3>3
    <3> QED BY <1>4, <3>4 DEF LayoutTyped, LayoutParts
  <2>4. CASE Item.op = "refs"
    <3> DEFINE v == kl[c].refs \/ ContainsReference(kl, kl[c].fields[Item.arg])
    <3>1. v \in BOOLEAN
      OBVIOUS
    <3>2. /\ kl'[c].refs = v /\ kl'[c].fields = kl[c].fields
          /\ kl'[c].size = kl[c].size /\ kl'[c].align = kl[c].align
          /\ kl'[c].offs = kl[c].offs
      BY <1>1, <1>2, <2>4, WorkEffect
    <3> HIDE DEF c, v
    <3>3. Typed(kl'[c]) /\ kl'[c].fields \in {<<>>, w.fields[c]}
      BY <1>1, <2>1, <3>1, <3>2
    <3>4. \A x \in Classes : Typed(kl'[x]) /\ kl'[x].fields \in {<<>>, w.fields[x]}
      BY <1>4, <2>2, <3>3
    <3> QED BY <1>4, <3>4 DEF LayoutTyped, LayoutParts
  <2>5. CASE Item.op = "layout"
    <3> DEFINE m == InstanceLayout(kl, w, c)
    <3>1. m.size \in Nat /\ m.align \in Aligns /\ m.offs \in Seq(Nat)
      BY <1>1, <1>2, InstanceIs
    <3>2. /\ kl'[c].refs = kl[c].refs /\ kl'[c].fields = kl[c].fields
          /\ kl'[c].size = m.size /\ kl'[c].align = m.align
          /\ kl'[c].offs = m.offs
      BY <1>1, <1>2, <2>5, WorkEffect DEF LaidOut
    <3> HIDE DEF c, m
    <3>3. Typed(kl'[c]) /\ kl'[c].fields \in {<<>>, w.fields[c]}
      BY <1>1, <2>1, <3>1, <3>2
    <3>4. \A x \in Classes : Typed(kl'[x]) /\ kl'[x].fields \in {<<>>, w.fields[x]}
      BY <1>4, <2>2, <3>3
    <3> QED BY <1>4, <3>4 DEF LayoutTyped, LayoutParts
  <2>6. CASE Item.op \notin {"fields", "refs", "layout"}
    <3>1. \A x \in Classes : Typed(kl'[x]) /\ kl'[x].fields \in {<<>>, w.fields[x]}
      BY <1>4, <2>2, <2>6
    <3> QED BY <1>4, <3>1 DEF LayoutTyped, LayoutParts
  <2> QED BY <2>3, <2>4, <2>5, <2>6
<1>6. Unmarked(flags, kl')
  <2> SUFFICES ASSUME NEW x \in Classes, <<"Field", x>> \notin flags PROVE kl'[x].align = 0 /\ ~kl'[x].refs
    BY DEF Unmarked
  <2>1. Same(kl, kl', x)
    BY <1>3, <1>4
  <2> QED BY <1>2, <2>1 DEF Unmarked, Same
<1>7. RefsMeant(kl')
  BY <1>2, RefsKept
<1>8. Frozen(kl, kl')
  <2> SUFFICES ASSUME NEW x \in Classes, kl[x].align # 0 PROVE Same(kl, kl', x)
    BY DEF Frozen, Same
  <2> QED BY <1>3, <1>4
<1>9. ASSUME NEW x \in Classes, kl'[x].align # 0, <<"instance", x>> \notin hasty'
      PROVE  Sound(kl', x)
  <2>1. CASE kl[x].align # 0
    <3>1. Sound(kl, x)
      BY <1>1, <1>9, <2>1 DEF ClassesInv
    <3> QED BY <1>1, <1>2, <1>8, <3>1, SoundStays
  <2>2. CASE kl[x].align = 0
    <3>1. x = c /\ Item.op = "layout"
      <4>1. ~Same(kl, kl', x)
        BY <1>9, <2>2 DEF Same
      <4>2. Item.op \in {"fields", "refs", "layout"} /\ x = c
        BY <1>4, <4>1
      <4>3. Item.op \in {"fields", "refs"} => kl'[c].align = kl[c].align
        BY <1>1, <1>2, WorkEffect
      <4> QED BY <1>9, <2>2, <4>2, <4>3
    <3>2. Prepared(kl, c)
      BY <1>1, <1>9, <3>1, ReadsReady
    <3>3. LaidOut(kl, kl', c)
      BY <1>1, <1>2, <3>1, WorkEffect
    <3> QED BY <1>1, <1>2, <3>1, <3>2, <3>3, LayoutSound
  <2> QED BY <2>1, <2>2
<1> QED BY <1>5, <1>6, <1>7, <1>9 DEF ClassesInv

LEMMA FreeFew ==
  ASSUME NEW x \in WorkItems, NEW y \in WorkItems, NEW z \in WorkItems,
         x.op \notin LayoutOps, y.op \notin LayoutOps, z.op \notin LayoutOps
  PROVE  /\ <<x>> \in Seq(WorkItems) /\ LayoutFree(<<x>>)
         /\ <<x, y>> \in Seq(WorkItems) /\ LayoutFree(<<x, y>>)
         /\ <<x, y, z>> \in Seq(WorkItems) /\ LayoutFree(<<x, y, z>>)
<1>1. <<x>> \in Seq(WorkItems) /\ LayoutFree(<<x>>)
  BY DEF LayoutFree
<1>2. <<x, y>> \in Seq(WorkItems) /\ LayoutFree(<<x, y>>)
  BY DEF LayoutFree
<1>3. <<x, y, z>> \in Seq(WorkItems) /\ LayoutFree(<<x, y, z>>)
  BY DEF LayoutFree
<1> QED BY <1>1, <1>2, <1>3

\* A part other than the fields lays nothing out by itself.
LEMMA FreeBody ==
  ASSUME w \in Worlds, NEW p \in Parts \cup {"All"}, p # "Field", NEW c \in Classes
  PROVE  LayoutFree(Body(p, c))
<1> DEFINE Free(s) == s \in Seq(WorkItems) /\ LayoutFree(s)
<1>1. ASSUME NEW a, NEW b, Free(a), Free(b) PROVE Free(a \o b)
  BY <1>1, Both, FreeJoined
<1>2. \A q \in Parts : Free(Up(q, c))
  BY NativeUp, FreeUp DEF NativeWork
<1>3. \A op \in (WorkOps \cup {"ifacetables"}) \ LayoutOps : Free(<<Work(op, c)>>)
  <2> SUFFICES ASSUME NEW op \in (WorkOps \cup {"ifacetables"}) \ LayoutOps PROVE Free(<<Work(op, c)>>)
    OBVIOUS
  <2>1. Work(op, c).op = op
    BY DEF Work, Do
  <2>2. <<Work(op, c)>> \in Seq(WorkItems)
    BY NativePiece DEF NativeWork
  <2> QED BY <2>1, <2>2, FreeOne
<1>4. \A q \in Parts \cup {"All"} : Free(<<Initialize(q, c)>>) /\ Initialize(q, c).op \notin LayoutOps
  <2> SUFFICES ASSUME NEW q \in Parts \cup {"All"} PROVE Free(<<Initialize(q, c)>>) /\ Initialize(q, c).op \notin LayoutOps
    OBVIOUS
  <2>1. Initialize(q, c).op \notin LayoutOps
    BY DEF Initialize, Do, LayoutOps
  <2>2. <<Initialize(q, c)>> \in Seq(WorkItems)
    BY NativeCall DEF NativeWork
  <2> QED BY <2>1, <2>2, FreeOne
<1>5. ASSUME NEW q \in Parts \cup {"All"}, NEW cs \in Seq(Classes)
      PROVE  Free([i \in DOMAIN cs |-> Initialize(q, cs[i])])
  BY NativeRounds, FreeCalls DEF NativeWork
<1> HIDE DEF Free
<1>6. CASE p = "Method"
  <2>1. Free(Up("Method", c)) /\ Free(<<Work("methods", c)>>) /\ Free(<<Work("argdescs", c)>>)
    BY <1>2, <1>3 DEF Parts, WorkOps, LayoutOps
  <2>2. Free([i \in DOMAIN w.sigs[c] |-> Initialize("Field", w.sigs[c][i])])
    BY <1>5, World DEF Parts
  <2>3. Free(MethodBody(c))
    BY <1>1, <2>1, <2>2 DEF MethodBody
  <2> QED BY <1>6, <2>3 DEF Body, Free
<1>7. CASE p = "Interfaces"
  <2>1. Free(Up("Interfaces", c)) /\ Free(<<Work("interfaces", c)>>)
    BY <1>2, <1>3 DEF Parts, WorkOps, LayoutOps
  <2>2. ListedInterfaces(c) \in Seq(Classes)
    BY World DEF ListedInterfaces
  <2>3. Free([i \in DOMAIN ListedInterfaces(c) |-> Initialize("All", ListedInterfaces(c)[i])])
    BY <1>5, <2>2
  <2>4. Free(InterfacesBody(c))
    BY <1>1, <2>1, <2>3 DEF InterfacesBody
  <2> QED BY <1>7, <2>4 DEF Body, Free
<1>8. CASE p = "VTable"
  <2> DEFINE s == <<Initialize("SuperTypes", c), Initialize("Interfaces", c), Initialize("Method", c),
                    Work("ifacetables", c), Work("vtable", c)>>
  <2>1. Free(Up("VTable", c))
    BY <1>2 DEF Parts
  <2>2. Free(s)
    <3>1. s = (<<Initialize("SuperTypes", c)>> \o <<Initialize("Interfaces", c)>>)
               \o ((<<Initialize("Method", c)>> \o <<Work("ifacetables", c)>>) \o <<Work("vtable", c)>>)
      OBVIOUS
    <3>2. /\ Free(<<Initialize("SuperTypes", c)>>) /\ Free(<<Initialize("Interfaces", c)>>)
          /\ Free(<<Initialize("Method", c)>>) /\ Free(<<Work("ifacetables", c)>>) /\ Free(<<Work("vtable", c)>>)
      BY <1>3, <1>4 DEF Parts, WorkOps, LayoutOps
    <3>3. /\ Free(<<Initialize("SuperTypes", c)>> \o <<Initialize("Interfaces", c)>>)
          /\ Free((<<Initialize("Method", c)>> \o <<Work("ifacetables", c)>>) \o <<Work("vtable", c)>>)
      BY <1>1, <3>2
    <3> QED BY <1>1, <3>1, <3>3
  <2>3. VTableBody(c) = Up("VTable", c) \o s
    BY DEF VTableBody
  <2> HIDE DEF s
  <2>4. Free(VTableBody(c))
    BY <1>1, <2>1, <2>2, <2>3
  <2> QED BY <1>8, <2>4 DEF Body, Free
<1>9. CASE p = "Property"
  <2>1. Free(<<Initialize("Method", c)>>) /\ Free(Up("Property", c)) /\ Free(<<Work("property", c)>>)
    BY <1>2, <1>3, <1>4 DEF Parts, WorkOps, LayoutOps
  <2>2. Free((<<Initialize("Method", c)>> \o Up("Property", c)) \o <<Work("property", c)>>)
    BY <1>1, <2>1
  <2> QED BY <1>9, <2>2 DEF Body, Free
<1>10. CASE p = "All"
  <2> DEFINE s == <<Initialize("SuperTypes", c), Initialize("Interfaces", c), Initialize("Nested", c),
                    Initialize("Field", c), Initialize("Method", c), Initialize("Property", c),
                    Initialize("Event", c), Initialize("VTable", c)>>
  <2>1. DOMAIN s = 1..8
    OBVIOUS
  <2>2. \A i \in 1..8 : s[i].op = "init"
    <3>1. \A q : Initialize(q, c).op = "init"
      BY DEF Initialize, Do
    <3>2. \A i \in 1..8 : i = 1 \/ i = 2 \/ i = 3 \/ i = 4 \/ i = 5 \/ i = 6 \/ i = 7 \/ i = 8
      OBVIOUS
    <3> QED BY <3>1, <3>2
  <2>3. Body(p, c) = s
    BY <1>10 DEF Body
  <2> HIDE DEF s
  <2> QED BY <2>1, <2>2, <2>3 DEF LayoutFree, LayoutOps
<1>11. CASE p = "SuperTypes"
  <2>1. Free(Up(p, c)) /\ Free(<<Work("supers", c)>>)
    BY <1>2, <1>3, <1>11 DEF Parts, WorkOps, LayoutOps
  <2>2. Free(Up(p, c) \o <<Work("supers", c)>>)
    BY <1>1, <2>1
  <2> QED BY <1>11, <2>2 DEF Body, Free
<1>12. CASE p = "Nested"
  <2>1. Free(Up(p, c)) /\ Free(<<Work("nested", c)>>)
    BY <1>2, <1>3, <1>12 DEF Parts, WorkOps, LayoutOps
  <2>2. Free(Up(p, c) \o <<Work("nested", c)>>)
    BY <1>1, <2>1
  <2> QED BY <1>12, <2>2 DEF Body, Free
<1>13. CASE p = "Event"
  <2>1. Free(Up(p, c)) /\ Free(<<Work("event", c)>>)
    BY <1>2, <1>3, <1>13 DEF Parts, WorkOps, LayoutOps
  <2>2. Free(Up(p, c) \o <<Work("event", c)>>)
    BY <1>1, <2>1
  <2> QED BY <1>13, <2>2 DEF Body, Free
<1> QED BY <1>6, <1>7, <1>8, <1>9, <1>10, <1>11, <1>12, <1>13 DEF Parts

LEMMA EnterPartWork ==
  ASSUME Inv, WorkInv(calls, flags, kl), ClassesInv(kl, flags, hasty), EnterPart
  PROVE  WorkInv(calls', flags', kl)
<1> DEFINE c == Item.of
           p == Item.arg
           e == Do("end", c, p)
           b == Body(p, c)
           fl == flags \cup {<<p, c>>}
<1>1. /\ Todo # <<>> /\ Item.op = "init" /\ c \in Classes /\ p \in Parts \cup {"All"} /\ w \in Worlds
      /\ Item = Initialize(p, c)
  <2>1. /\ Todo # <<>> /\ Item.op = "init" /\ c \in Classes /\ p \in Parts \cup {"All"} /\ w \in Worlds
    BY ItemTyped, Invariants DEF EnterPart, Running
  <2>2. Item \in [op : Ops, of : Classes, arg : Args]
    BY <2>1, Current DEF WorkItems
  <2>3. Item = [op |-> Item.op, of |-> Item.of, arg |-> Item.arg]
    BY <2>2
  <2> QED BY <2>1, <2>3 DEF Initialize, Do
<1>2. Item.op \notin LayoutOps
  BY <1>1 DEF LayoutOps
<1>3. CASE <<p, c>> \in flags
  <2>1. Continue(<<>>) /\ flags' = flags
    BY <1>3 DEF EnterPart
  <2>2. Marked(Item, flags)
    BY <1>3 DEF Marked
  <2> QED BY <1>1, <1>2, <2>1, <2>2, FreeNone, OtherWork
<1>4. CASE <<p, c>> \notin flags
  <2>1. Continue(Append(b, e)) /\ flags' = fl
    BY <1>4 DEF EnterPart
  <2>2. e \in WorkItems /\ e.op = "end" /\ <<e>> \in Seq(WorkItems) /\ LayoutFree(<<e>>)
    <3>1. "end" \in Ops /\ p \in Args
      BY <1>1 DEF Args, Ops
    <3> HIDE DEF p
    <3>2. e \in WorkItems /\ e.op = "end"
      BY <1>1, <3>1, DoneItem
    <3> HIDE DEF e
    <3> QED BY <3>2, FreeOne DEF LayoutOps
  <2>3. b \in Seq(WorkItems) /\ \A i \in DOMAIN b : b[i].op \in NativeOps
    BY <1>1, NativeBody DEF NativeWork
  <2>4. CASE p # "Field"
    <3>1. LayoutFree(b)
      BY <1>1, <2>4, FreeBody
    <3> HIDE DEF b, e
    <3>2. Append(b, e) = b \o <<e>>
      BY <2>2, <2>3, AppendIsConcat
    <3>3. b \o <<e>> \in Seq(WorkItems) /\ LayoutFree(b \o <<e>>)
      BY <2>2, <2>3, <3>1, Both, FreeJoined
    <3>4. \A i \in DOMAIN (b \o <<e>>) : (b \o <<e>>)[i].op \in NativeOps \cup {"end"}
      <4>1. \A i \in DOMAIN <<e>> : <<e>>[i].op = "end"
        BY <2>2
      <4> QED BY <2>2, <2>3, <4>1, Joined
    <3>5. Marked(Item, flags')
      BY <2>4 DEF Marked
    <3>6. flags \subseteq flags'
      BY <2>1
    <3> DEFINE s == b \o <<e>>
    <3>7. s \in Seq(WorkItems) /\ LayoutFree(s) /\ (\A i \in DOMAIN s : s[i].op \in NativeOps \cup {"end"}) /\ Continue(s)
      BY <2>1, <3>2, <3>3, <3>4
    <3> HIDE DEF s
    <3> QED BY <1>1, <1>2, <3>5, <3>6, <3>7, OtherWork
  <2>5. CASE p = "Field"
    <3>1. Todo \in Seq(WorkItems) /\ Tail(Todo) \in Seq(WorkItems) /\ Todo[1] = Initialize("Field", c)
      BY <1>1, <2>5, Current, TailOf
    <3>2. TodoInv(Todo, flags, kl) /\ Idle(calls) /\ Unmarked(flags, kl)
      BY TodoTop DEF WorkInv, ClassesInv
    <3> DEFINE u == Append(Body("Field", c), Do("end", c, "Field")) \o Tail(Todo)
    <3>3. TodoInv(u, flags \cup {<<"Field", c>>}, kl)
      <4>1. <<"Field", c>> \notin flags
        BY <1>4, <2>5
      <4> HIDE DEF c
      <4> QED BY <1>1, <3>1, <3>2, <4>1, BodyTodo
    <3>4. flags' = flags \cup {<<"Field", c>>} /\ Continue(Append(Body("Field", c), Do("end", c, "Field")))
      BY <2>1, <2>5
    <3>5. u \in Seq(WorkItems)
      <4>1. Append(b, e) \in Seq(WorkItems)
        <5> HIDE DEF b, e
        <5> QED BY <2>2, <2>3
      <4> QED BY <2>5, <3>1, <4>1, Both
    <3>6. calls' = Replaced(calls, u)
      BY <3>4 DEF Continue, Replaced
    <3> HIDE DEF u, c
    <3> QED BY <3>2, <3>3, <3>4, <3>5, <3>6, WorkBecomes
  <2> QED BY <2>4, <2>5
<1> QED BY <1>3, <1>4

LEMMA InstanceFieldWork ==
  ASSUME Inv, WorkInv(calls, flags, kl), InstanceField
  PROVE  WorkInv(calls', flags, kl)
<1> DEFINE f == w.fields[Item.of][Item.arg]
           b == IF f.static THEN <<>> ELSE ValueType(f) \o <<Do("refs", Item.of, Item.arg)>>
<1>1. /\ Todo # <<>> /\ w \in Worlds /\ Item.op = "field" /\ Continue(b)
      /\ Item.of \in Classes /\ Item.arg \in DOMAIN w.fields[Item.of]
  BY ItemTyped, Invariants DEF InstanceField, Running
<1>2. /\ Todo \in Seq(WorkItems) /\ Tail(Todo) \in Seq(WorkItems) /\ Item = Todo[1]
      /\ TodoInv(Todo, flags, kl) /\ Idle(calls)
  BY <1>1, Current, TailOf, TodoTop DEF WorkInv
<1>3. TodoInv(b \o Tail(Todo), flags, kl)
  BY <1>1, <1>2, FieldTodo
<1>4. b \in Seq(WorkItems)
  <2>1. ValueType(f) \in Seq(WorkItems)
    BY <1>1, NativeValueType DEF NativeWork
  <2>2. Do("refs", Item.of, Item.arg) \in WorkItems
    <3>1. "refs" \in Ops /\ Item.arg \in Args
      BY <1>1, ItemTyped DEF Ops, NativeOps, WorkOps
    <3> QED BY <1>1, <3>1, DoneItem
  <2>3. <<Do("refs", Item.of, Item.arg)>> \in Seq(WorkItems)
    BY <2>2
  <2>4. ValueType(f) \o <<Do("refs", Item.of, Item.arg)>> \in Seq(WorkItems)
    BY <2>1, <2>3, Both
  <2> QED BY <2>4, EmptyTodo
<1> HIDE DEF b
<1>5. b \o Tail(Todo) \in Seq(WorkItems) /\ calls' = Replaced(calls, b \o Tail(Todo))
  <2>1. b \o Tail(Todo) \in Seq(WorkItems)
    BY <1>2, <1>4, Both
  <2> QED BY <1>1, <2>1 DEF Continue, Replaced
<1> QED BY <1>2, <1>3, <1>5, WorkBecomes

\* Native work that marks no field part and lays nothing out.
LEMMA NativeOther ==
  ASSUME Inv, WorkInv(calls, flags, kl), Todo # <<>>, Item.op \notin LayoutOps \cup {"init"},
         NEW s, NativeWork(s), LayoutFree(s), Continue(s)
  PROVE  WorkInv(calls', flags, kl)
<1>1. Marked(Item, flags)
  BY DEF Marked
<1>2. s \in Seq(WorkItems) /\ \A i \in DOMAIN s : s[i].op \in NativeOps \cup {"end"}
  BY DEF NativeWork
<1> QED BY <1>1, <1>2, OtherWork

LEMMA EndPartWork ==
  ASSUME Inv, WorkInv(calls, flags, kl), EndPart
  PROVE  WorkInv(calls', flags, kl)
BY FreeNone, NativeNone, NativeOther DEF EndPart, Running, LayoutOps

LEMMA AllocateWork ==
  ASSUME Inv, WorkInv(calls, flags, kl), Allocate
  PROVE  WorkInv(calls', flags, kl)
BY FreeNone, NativeNone, NativeOther DEF Allocate, Running, LayoutOps

LEMMA FreeValueType == ASSUME NEW f PROVE LayoutFree(ValueType(f))
<1>1. LayoutFree(<<Initialize("Field", f.of)>>)
  <2>1. Initialize("Field", f.of).op \notin LayoutOps
    BY DEF Initialize, Do, LayoutOps
  <2> QED BY <2>1, FreeOne
<1> QED BY <1>1, FreeNone DEF ValueType

LEMMA StaticFieldWork ==
  ASSUME Inv, WorkInv(calls, flags, kl), StaticField
  PROVE  WorkInv(calls', flags, kl)
<1> DEFINE f == w.fields[Item.of][Item.arg]
           s == IF f.static THEN ValueType(f) ELSE <<>>
<1>1. /\ Todo # <<>> /\ w \in Worlds /\ Item.op = "sfield" /\ Continue(s)
      /\ Item.of \in Classes /\ Item.arg \in DOMAIN w.fields[Item.of]
  BY ItemTyped, Invariants DEF StaticField, Running
<1>2. NativeWork(s) /\ LayoutFree(s)
  BY <1>1, NativeValueType, NativeNone, FreeNone, FreeValueType
<1> HIDE DEF s
<1> QED BY <1>1, <1>2, NativeOther DEF LayoutOps

LEMMA InterfaceTablesWork ==
  ASSUME Inv, WorkInv(calls, flags, kl), InterfaceTables
  PROVE  WorkInv(calls', flags, kl)
<1> DEFINE q == kl[Item.of].ifs
           s == [i \in DOMAIN q |-> Initialize("VTable", q[i])]
<1>1. /\ Todo # <<>> /\ Item.op = "ifacetables" /\ Continue(s) /\ q \in Seq(Classes)
  BY ItemTyped, Invariants DEF InterfaceTables, Running, GivenInv
<1>2. NativeWork(s) /\ LayoutFree(s)
  <2> HIDE DEF q
  <2> QED BY <1>1, NativeRounds, FreeCalls DEF Parts
<1> HIDE DEF s
<1> QED BY <1>1, <1>2, NativeOther DEF LayoutOps

\* Managed work that is replaced by other work.
LEMMA ManagedOther ==
  ASSUME Inv, WorkInv(calls, flags, kl), Todo # <<>>, Item.op \notin NativeOps \cup {"end"},
         NEW s \in Seq(WorkItems), LayoutFree(s), Continue(s)
  PROVE  WorkInv(calls', flags, kl)
<1>1. Item.op \notin LayoutOps /\ Marked(Item, flags)
  BY DEF LayoutOps, Marked, NativeOps, WorkOps
<1> QED BY <1>1, OtherWork

LEMMA RunCctorWork ==
  ASSUME Inv, WorkInv(calls, flags, kl), RunCctor
  PROVE  WorkInv(calls', flags, kl)
<1> DEFINE c == Item.of
           x == Work("module", w.module)
           y == Initialize("All", c)
           z == Work("start", c)
<1>1. /\ Todo # <<>> /\ w \in Worlds /\ Item.op = "cctor" /\ c \in Classes /\ c # w.module
      /\ Item.op \notin NativeOps \cup {"end"}
  BY ItemTyped, Invariants DEF RunCctor, Running, NativeOps, WorkOps
<1>2. Continue(<<>>) \/ Continue(<<x, y, z>>)
  BY DEF RunCctor
<1>3. <<x, y, z>> \in Seq(WorkItems) /\ LayoutFree(<<x, y, z>>)
  <2>1. /\ x \in WorkItems /\ x.op = "module" /\ z \in WorkItems /\ z.op = "start"
    BY <1>1, Asked
  <2>2. y \in WorkItems /\ y.op = "init"
    <3>1. y.op = "init"
      BY DEF Initialize, Do
    <3> QED BY <1>1, <3>1, NativeCall
  <2> HIDE DEF x, y, z
  <2> QED BY <2>1, <2>2, FreeFew DEF LayoutOps
<1> HIDE DEF x, y, z
<1> QED BY <1>1, <1>2, <1>3, FreeNone, ManagedOther

LEMMA RunModuleCctorWork ==
  ASSUME Inv, WorkInv(calls, flags, kl), RunModuleCctor
  PROVE  WorkInv(calls', flags, kl)
<1> DEFINE x == Initialize("All", w.module)
           y == Work("modstart", w.module)
<1>1. /\ Todo # <<>> /\ w \in Worlds /\ Item.op = "module" /\ w.module \in Classes
      /\ Item.op \notin NativeOps \cup {"end"}
  BY World, Invariants DEF RunModuleCctor, Running, NativeOps, WorkOps
<1>2. Continue(<<>>) \/ Continue(<<x, y>>)
  BY DEF RunModuleCctor
<1>3. <<x, y>> \in Seq(WorkItems) /\ LayoutFree(<<x, y>>)
  <2>1. /\ x \in WorkItems /\ x.op = "init" /\ y \in WorkItems /\ y.op = "modstart"
    <3>1. x.op = "init"
      BY DEF Initialize, Do
    <3> QED BY <1>1, <3>1, Asked, NativeCall
  <2> HIDE DEF x, y
  <2> QED BY <2>1, FreeFew DEF LayoutOps
<1> HIDE DEF x, y
<1> QED BY <1>1, <1>2, <1>3, FreeNone, ManagedOther

LEMMA RunHierarchyWork ==
  ASSUME Inv, WorkInv(calls, flags, kl), RunHierarchy
  PROVE  WorkInv(calls', flags, kl)
<1> DEFINE c == Item.of
           p == w.parent[c]
           x == Work("cctor", c)
           y == Work("hierarchy", p)
<1>1. /\ Todo # <<>> /\ w \in Worlds /\ Item.op = "hierarchy" /\ c \in Classes /\ c # w.module
      /\ Item.op \notin NativeOps \cup {"end"}
  BY ItemTyped, Invariants DEF RunHierarchy, Running, NativeOps, WorkOps
<1>2. x \in WorkItems /\ x.op = "cctor" /\ (p # NoClass => y \in WorkItems /\ y.op = "hierarchy")
  BY <1>1, Asked, World
<1>3. IF p = NoClass THEN Continue(<<x>>) ELSE Continue(<<x, y>>)
  BY DEF RunHierarchy
<1> HIDE DEF x, y
<1>4. <<x>> \in Seq(WorkItems) /\ LayoutFree(<<x>>)
  BY <1>2, FreeFew DEF LayoutOps
<1>5. CASE p = NoClass
  BY <1>1, <1>3, <1>4, <1>5, ManagedOther
<1>6. CASE p # NoClass
  <2>1. <<x, y>> \in Seq(WorkItems) /\ LayoutFree(<<x, y>>)
    BY <1>2, <1>6, FreeFew DEF LayoutOps
  <2> QED BY <1>1, <1>3, <1>6, <2>1, ManagedOther
<1> QED BY <1>5, <1>6

LEMMA StartWork ==
  ASSUME Inv, WorkInv(calls, flags, kl), StartCctor \/ StartModuleCctor
  PROVE  WorkInv(calls', flags, kl)
<1>1. /\ Todo # <<>> /\ Item.op \notin NativeOps \cup {"end"}
      /\ InvokeCctor(Item.of)
  BY DEF StartCctor, StartModuleCctor, Running, NativeOps, WorkOps
<1>2. Continue(<<>>) \/ Invoke(Item.of)
  BY <1>1 DEF InvokeCctor
<1> QED BY <1>1, <1>2, FreeNone, ManagedOther, InvokeWork

\* A request of managed code asks for no layout by itself.
LEMMA RequestWork ==
  ASSUME Inv, WorkInv(calls, flags, kl), NEW s \in Seq(WorkItems), LayoutFree(s), Request(s)
  PROVE  WorkInv(calls', flags, kl)
BY NoWork DEF Request, WorkInv

LEMMA ManagedWork ==
  ASSUME Inv, WorkInv(calls, flags, kl), Managed
  PROVE  WorkInv(calls', flags, kl)
<1>1. ASSUME NEW c \in Classes, Use(c) PROVE WorkInv(calls', flags, kl)
  <2> DEFINE x == Work("cctor", c)
  <2>1. x \in WorkItems /\ x.op = "cctor"
    BY <1>1, Asked, Invariants DEF Use
  <2>2. Request(<<x>>)
    BY <1>1 DEF Use
  <2> HIDE DEF x
  <2>3. <<x>> \in Seq(WorkItems) /\ LayoutFree(<<x>>)
    BY <2>1, FreeFew DEF LayoutOps
  <2> QED BY <2>2, <2>3, RequestWork
<1>2. ASSUME NEW c \in Classes, New(c) PROVE WorkInv(calls', flags, kl)
  <2> DEFINE x == Work("hierarchy", c)
             y == Work("allocate", c)
  <2>1. /\ x \in WorkItems /\ x.op = "hierarchy" /\ y \in WorkItems /\ y.op = "allocate"
    BY <1>2, Asked, Invariants DEF New
  <2>2. Request(<<x, y>>)
    BY <1>2 DEF New
  <2> HIDE DEF x, y
  <2>3. <<x, y>> \in Seq(WorkItems) /\ LayoutFree(<<x, y>>)
    BY <2>1, FreeFew DEF LayoutOps
  <2> QED BY <2>2, <2>3, RequestWork
<1>3. ASSUME NEW c \in Classes, NEW p \in w.asked, Resolve(p, c) PROVE WorkInv(calls', flags, kl)
  <2> DEFINE x == Initialize(p, c)
  <2>1. x \in WorkItems
    BY World, Invariants, NativeCall
  <2>2. x.op = "init" /\ Request(<<x>>)
    BY <1>3 DEF Resolve, Initialize, Do
  <2> HIDE DEF x
  <2>3. <<x>> \in Seq(WorkItems) /\ LayoutFree(<<x>>)
    BY <2>1, <2>2, FreeFew DEF LayoutOps
  <2> QED BY <2>2, <2>3, RequestWork
<1>4. ASSUME UseModule PROVE WorkInv(calls', flags, kl)
  <2> DEFINE x == Work("module", w.module)
  <2>1. x \in WorkItems /\ x.op = "module"
    BY World, Asked, Invariants
  <2>2. Request(<<x>>)
    BY <1>4 DEF UseModule
  <2> HIDE DEF x
  <2>3. <<x>> \in Seq(WorkItems) /\ LayoutFree(<<x>>)
    BY <2>1, FreeFew DEF LayoutOps
  <2> QED BY <2>2, <2>3, RequestWork
<1>5. ASSUME Return \/ Throw PROVE WorkInv(calls', flags, kl)
  <2> DEFINE ds == SubSeq(calls, 1, Len(calls) - 1)
  <2>1. calls \in Seq(Activations) /\ Len(calls) > 1 /\ Idle(calls)
    BY <1>5, Invariants DEF Return, Throw, WorkInv
  <2>2. /\ ds \in Seq(Activations) /\ Len(ds) = Len(calls) - 1 /\ Len(ds) \in DOMAIN ds
        /\ \A k \in DOMAIN ds : k \in DOMAIN calls /\ k < Len(calls) /\ ds[k] = calls[k] /\ k <= Len(ds)
    BY <2>1, Popped
  <2>3. calls' = ds \/ calls' = Replaced(ds, <<>>)
    BY <1>5, <2>2 DEF Return, Throw, Replaced
  <2> HIDE DEF ds
  <2>4. \A k \in DOMAIN ds : LayoutFree(ds[k].todo)
    BY <2>1, <2>2 DEF Idle
  <2>5. CASE calls' = ds
    <3>1. Idle(ds) /\ LayoutFree(TodoOf(ds))
      BY <2>2, <2>4 DEF Idle, TodoOf
    <3> QED BY <2>5, <3>1, FreeTodo DEF WorkInv
  <2>6. CASE calls' = Replaced(ds, <<>>)
    <3>1. Len(ds) > 0
      BY <2>1, <2>2
    <3>2. /\ Len(calls') = Len(ds) /\ DOMAIN calls' = DOMAIN ds /\ TodoOf(calls') = <<>>
          /\ \A k \in DOMAIN ds : k # Len(ds) => calls'[k] = ds[k]
      BY <2>2, <2>6, <3>1, EmptyTodo, TopReplaced
    <3>3. Idle(calls')
      <4>1. \A k \in DOMAIN ds : k < Len(ds) => k # Len(ds)
        BY <2>2
      <4> QED BY <2>4, <3>2, <4>1 DEF Idle
    <3> QED BY <3>2, <3>3, FreeNone, FreeTodo DEF WorkInv
  <2> QED BY <2>3, <2>5, <2>6
<1> QED BY <1>1, <1>2, <1>3, <1>4, <1>5 DEF Managed

LEMMA AbandonWork ==
  ASSUME Inv, WorkInv(calls, flags, kl), Abandon
  PROVE  WorkInv(calls', flags, kl)
BY FreeNone, NoWork DEF Abandon, WorkInv

(***************************************************************************)
(* The layouts of all steps.                                               *)
(***************************************************************************)
LayoutInv == WorkInv(calls, flags, kl) /\ ClassesInv(kl, flags, hasty)

LEMMA FramedWork ==
  ASSUME w' = w, WorkInv(calls', flags', kl')
  PROVE  WorkInv(calls, flags, kl)'
<1> DEFINE s == TodoOf(calls')
<1>1. Idle(calls') /\ TodoInv(s, flags', kl')
  BY DEF WorkInv
<1>2. \A x : Rank(x)' = Rank(x)
  BY DEF Rank
<1>3. TodoInv(TodoOf(calls), flags, kl)'
  <2>1. FrontLoaded(s) /\ Ranked(s) /\ Chained(s) /\ TypesMarked(s, flags') /\ InProgress(s, flags', kl') /\ Begun(s, flags', kl')
    BY <1>1 DEF TodoInv
  <2>2. Ranked(TodoOf(calls))'
    BY <2>1 DEF Ranked, Rank
  <2>3. Chained(TodoOf(calls))'
    BY <2>1 DEF Chained, Rank, Round
  <2>4. TypesMarked(TodoOf(calls), flags)'
    BY <2>1 DEF TypesMarked
  <2>5. Begun(TodoOf(calls), flags, kl)'
    BY <2>1 DEF Begun, Rank
  <2> QED BY <2>1, <2>2, <2>3, <2>4, <2>5 DEF TodoInv
<1> QED BY <1>1, <1>3 DEF WorkInv

LEMMA FramedClasses ==
  ASSUME w' = w, ClassesInv(kl', flags', hasty')
  PROVE  ClassesInv(kl, flags, hasty)'
<1>1. LayoutTyped(kl)'
  BY DEF ClassesInv, LayoutTyped
<1>2. RefsMeant(kl)'
  BY DEF ClassesInv, RefsMeant
<1>3. Unmarked(flags, kl)'
  BY DEF ClassesInv, Unmarked
<1>4. ASSUME NEW c \in Classes, Sound(kl', c) PROVE Sound(kl, c)'
  <2>1. Whole(c)' = Whole(c)
    BY DEF Whole, Declared
  <2>2. AncestorsOf(c)' = AncestorsOf(c)
    BY DEF AncestorsOf
  <2>3. PackOf(kl, c)' = PackOf(kl', c)
    BY DEF PackOf
  <2> QED BY <1>4, <2>1, <2>2, <2>3 DEF Sound
<1>5. \A c \in Classes : kl'[c].align # 0 /\ <<"instance", c>> \notin hasty' => Sound(kl', c)
  BY DEF ClassesInv
<1>6. \A c \in Classes : (kl[c].align # 0 /\ <<"instance", c>> \notin hasty => Sound(kl, c))'
  BY <1>4, <1>5
<1> QED BY <1>1, <1>2, <1>3, <1>6 DEF ClassesInv

LEMMA ClassesKept ==
  ASSUME ClassesInv(kl, flags, hasty), NEW fl, NEW h, flags \subseteq fl, hasty \subseteq h
  PROVE  ClassesInv(kl, fl, h)
BY DEF ClassesInv, Unmarked

LEMMA InitLayouts == Init => LayoutInv
<1> SUFFICES ASSUME Init PROVE LayoutInv
  OBVIOUS
<1>1. /\ calls = <<[of |-> NoClass, todo |-> <<>>]>> /\ kl = [c \in Classes |-> BlankClass]
  BY DEF Init
<1>2. TodoOf(calls) = <<>> /\ Idle(calls)
  BY <1>1 DEF TodoOf, Idle
<1>3. WorkInv(calls, flags, kl)
  BY <1>2, FreeNone, FreeTodo DEF WorkInv
<1>4. \A c \in Classes : kl[c] = BlankClass
  BY <1>1
<1>5. /\ {"fields", "refs", "size", "align", "offs"} \subseteq DOMAIN BlankClass
      /\ BlankClass.refs = FALSE /\ BlankClass.size = 0 /\ BlankClass.align = 0
      /\ BlankClass.offs = <<>> /\ BlankClass.fields = <<>>
  BY DEF BlankClass
<1>6. LayoutTyped(kl)
  <2>1. DOMAIN kl = Classes
    BY <1>1
  <2>2. 0 \in Nat /\ 0 \in Aligns \cup {0} /\ <<>> \in Seq(Nat) /\ FALSE \in BOOLEAN
    OBVIOUS
  <2>3. \A c \in Classes : /\ {"fields", "refs", "size", "align", "offs"} \subseteq DOMAIN kl[c]
                            /\ kl[c].refs = FALSE /\ kl[c].size = 0 /\ kl[c].align = 0
                            /\ kl[c].offs = <<>> /\ kl[c].fields = <<>>
    BY <1>4, <1>5
  <2> QED BY <2>1, <2>2, <2>3 DEF LayoutTyped
<1>7. Unmarked(flags, kl) /\ RefsMeant(kl)
  BY <1>4, <1>5 DEF Unmarked, RefsMeant
<1> QED BY <1>3, <1>4, <1>5, <1>6, <1>7 DEF LayoutInv, ClassesInv

LEMMA NextLayouts == Inv /\ LayoutInv /\ [Next]_vars => LayoutInv'
<1> SUFFICES ASSUME Inv, LayoutInv, [Next]_vars PROVE LayoutInv'
  OBVIOUS
<1>0. WorkInv(calls, flags, kl) /\ ClassesInv(kl, flags, hasty)
  BY DEF LayoutInv
<1>1. ASSUME w' = w, WorkInv(calls', flags', kl'), ClassesInv(kl', flags', hasty') PROVE LayoutInv'
  BY <1>1, FramedWork, FramedClasses DEF LayoutInv
<1>2. ASSUME w' = w, kl' = kl, WorkInv(calls', flags', kl), flags \subseteq flags', hasty \subseteq hasty' PROVE LayoutInv'
  BY <1>0, <1>1, <1>2, ClassesKept
<1>3. CASE EnterPart
  <2>1. w' = w /\ kl' = kl /\ flags \subseteq flags' /\ hasty' = hasty
    BY <1>3 DEF EnterPart, history
  <2> QED BY <1>0, <1>2, <1>3, <2>1, EnterPartWork
<1>4. CASE DoWork
  <2>1. w' = w /\ flags' = flags
    BY <1>4 DEF DoWork
  <2>2. WorkInv(calls', flags, kl') /\ ClassesInv(kl', flags, hasty')
    BY <1>0, <1>4, DoWorkTodo, DoWorkClasses DEF ClassesInv
  <2> QED BY <1>1, <2>1, <2>2
<1>5. CASE Refuse \/ Fail
  <2>1. w' = w /\ kl' = kl /\ flags' = flags /\ hasty \subseteq hasty' /\ Abandon
    BY <1>5 DEF Refuse, Fail, history
  <2> QED BY <1>0, <1>2, <2>1, AbandonWork
<1>6. CASE InstanceField \/ EndPart \/ Allocate \/ StaticField \/ InterfaceTables
  <2>1. w' = w /\ kl' = kl /\ flags' = flags /\ hasty' = hasty
    BY <1>6 DEF InstanceField, EndPart, Allocate, StaticField, InterfaceTables, history
  <2>2. WorkInv(calls', flags, kl)
    BY <1>0, <1>6, InstanceFieldWork, EndPartWork, AllocateWork, StaticFieldWork, InterfaceTablesWork
  <2> QED BY <1>2, <2>1, <2>2
<1>7. CASE RunCctor \/ RunModuleCctor \/ RunHierarchy \/ StartCctor \/ StartModuleCctor
  <2>1. w' = w /\ kl' = kl /\ flags' = flags /\ hasty' = hasty
    BY <1>7 DEF RunCctor, RunModuleCctor, RunHierarchy, StartCctor, StartModuleCctor, history
  <2>2. WorkInv(calls', flags, kl)
    BY <1>0, <1>7, RunCctorWork, RunModuleCctorWork, RunHierarchyWork, StartWork
  <2> QED BY <1>2, <2>1, <2>2
<1>8. CASE Managed
  <2>1. w' = w /\ kl' = kl /\ flags' = flags /\ hasty' = hasty
    BY <1>8 DEF Managed, Use, New, Resolve, UseModule, Return, Throw, Request, history
  <2>2. WorkInv(calls', flags, kl)
    BY <1>0, <1>8, ManagedWork
  <2> QED BY <1>2, <2>1, <2>2
<1>9. CASE UNCHANGED vars
  <2>1. w' = w /\ kl' = kl /\ flags' = flags /\ hasty' = hasty /\ calls' = calls
    BY <1>9 DEF vars
  <2> QED BY <1>0, <1>2, <2>1
<1> QED BY <1>3, <1>4, <1>5, <1>6, <1>7, <1>8, <1>9 DEF Next, Native

LEMMA LayoutsAlways == Spec => [](Inv /\ LayoutInv)
<1>1. Init => Inv /\ LayoutInv
  BY InitInv, InitLayouts
<1>2. Inv /\ LayoutInv /\ [Next]_vars => (Inv /\ LayoutInv)'
  BY NextInv, NextLayouts
<1> QED BY <1>1, <1>2, PTL DEF Spec

(* Whatever the metadata, in whatever order classes are initialized and whatever fails, a class   *)
(* that was laid out from finished types has its instance fields inside the object, apart from    *)
(* each other unless its layout is explicit, references on word boundaries, and the fields of its *)
(* ancestors where their own code finds them.                                                     *)
THEOREM LayoutsExact == Spec => []LayoutExact
<1>1. Inv /\ LayoutInv => LayoutExact
  <2> SUFFICES ASSUME Inv, LayoutInv,
                      NEW c \in Classes, kl[c].align # 0, <<"instance", c>> \notin hasty
               PROVE  LET fs == HierarchyFields(kl, w.parent, c)
                          p  == w.parent[c]
                      IN  /\ Len(kl[c].offs) = Len(fs)
                          /\ Fits(fs, kl[c].offs, kl[c].size)
                          /\ c \in w.explicit \/ Disjoint(fs, kl[c].offs)
                          /\ \A i \in DOMAIN fs : ContainsReference(kl, fs[i]) => kl[c].offs[i] % PtrSize = 0
                          /\ p # NoClass /\ c \notin w.explicit => IsPrefix(kl[p].offs, kl[c].offs)
                          /\ c \in w.value => kl[c].size > 0
    BY DEF LayoutExact
  <2>1. w \in Worlds
    BY Invariants
  <2>2. LayoutTyped(kl) /\ RefsMeant(kl) /\ Sound(kl, c)
    BY DEF LayoutInv, ClassesInv
  <2> QED BY <2>1, <2>2, SoundExact
<1> QED BY <1>1, LayoutsAlways, PTL
=============================================================================
