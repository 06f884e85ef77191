------------------------------- MODULE ClassInit -------------------------------
(***************************************************************************)
(* Class initialization (vm/class.cpp) and static constructors              *)
(* (vm/runtime.cpp): which parts of which classes are set up, in which      *)
(* order, and when the managed constructors run.                            *)
(*                                                                         *)
(* A class is initialized part by part, on demand.  initialize_<part> marks *)
(* its part before it works, then calls itself on the parent, on interfaces *)
(* and on the value types of the fields, which may lead back to a class     *)
(* whose part is still being computed.  The native call stack is a sequence *)
(* of items still to do: an item is one call or one piece of straight-line  *)
(* work, `Body` is what a call of initialize_<part> expands to.  `calls` is  *)
(* the stack of managed activations: the program (its `of` is NoClass) and  *)
(* the static constructors that run above it, each with the native work it  *)
(* is waiting for.  A native error empties the work of the top activation,  *)
(* which sees it as an exception.                                           *)
(*                                                                         *)
(* The metadata w never changes: one program per initial state.  Classes    *)
(* are type definitions; generic instances, arrays and pointers, which      *)
(* borrow their parts from a base class, are left out.                      *)
(***************************************************************************)
EXTENDS VTable, FiniteSets

(* The programs, one of which is loaded: its metadata, and the bounds of what it does: `uses`     *)
(* requests of managed code, `fails` native errors in the work of the classes `faulty`, and the    *)
(* parts `asked` that managed code asks for on their own.                                          *)
CONSTANT Worlds

VARIABLES
  w,         \* the metadata of the program
  kl,        \* RtClass: what each class has been given so far
  flags,     \* init_flags: the pairs <<part, class>> that are marked
  done,      \* history: the pairs whose initialize_<part> returned without error
  status,    \* cctor_status
  modDone,   \* is_module_cctor_finished of the image
  calls,     \* the managed activations, each [of, todo]
  statics,   \* s_all_classes_with_static_data
  started,   \* history: how often each static constructor was invoked
  again,     \* history: classes used while their own first use waits for the module constructor
  hasty,     \* history: <<"instance" or "static", c>> laid out from a type that had no layout yet
  refused,   \* history: classes whose metadata the runtime rejected
  uses, fails

vars == <<w, kl, flags, done, status, modDone, calls, statics,
          started, again, hasty, refused, uses, fails>>

history == <<started, again, hasty, refused>>

Parts == {"SuperTypes", "Interfaces", "Nested", "Field", "Method", "Property", "Event", "VTable"}

(* What the metadata of every program guarantee: <Module> has no subclass, tables name classes   *)
(* that exist, and no class is among its own ancestors (from any set of classes some parent      *)
(* leads out).                                                                                   *)
Fields == [static : BOOLEAN, kind : STRING, of : Classes \cup {NoClass}, at : Nat]

ASSUME WorldAssumption ==
  \A x \in Worlds :
     /\ x.module \in Classes
     /\ x.parent \in [Classes -> (Classes \cup {NoClass}) \ {x.module}]
     /\ x.sigs \in [Classes -> Seq(Classes)] /\ x.ifaces \in [Classes -> Seq(Classes)]
     /\ x.fields \in [Classes -> Seq(Fields)]
     /\ \A c \in Classes : \A i \in DOMAIN x.fields[c] :
          x.fields[c][i].kind = "value" => x.fields[c][i].of \in Classes
     /\ x.asked \subseteq Parts \cup {"All"}
     /\ \A s \in SUBSET Classes : s # {} => \E c \in s : x.parent[c] \notin s

(* The classes whose instances hold references: those of which every set that contains, with its *)
(* members, the classes that inherit from one or have an instance field of one, or a reference    *)
(* field, says so.                                                                                *)
HoldsReferences(f, s) == ~f.static /\ (f.kind = "ref" \/ (f.kind = "value" /\ f.of \in s))
Holders(x) ==
  {c \in Classes : \A s \in SUBSET Classes :
     (\A y \in Classes : \/ x.parent[y] \in s
                         \/ \E i \in DOMAIN x.fields[y] : HoldsReferences(x.fields[y][i], s)
                         => y \in s) => c \in s}

(* What the metadata of every program guarantee about layouts: a packing is a power of two,       *)
(* explicit offsets put references on word boundaries, nothing inherits from a value type, a      *)
(* value type inherits no field (System.ValueType and System.Enum have none), and a class with an *)
(* explicit layout has only subclasses with one: compute_layout asserts that the fields of the    *)
(* parent fall where the parent has them.                                                         *)
ASSUME LayoutAssumption ==
  \A x \in Worlds :
     /\ x.pack \in [Classes -> {0, 1, 2, 4, 8, 16, 32, 64, 128}] /\ x.csize \in [Classes -> Nat]
     /\ \A c \in Classes : \A i \in DOMAIN x.fields[c] :
          LET f == x.fields[c][i]
          IN  /\ f.kind \in {"ref", "raw", "value"} \cup DOMAIN PrimSize
              /\ f.kind = "value" => f.of \in x.value
              /\ HoldsReferences(f, Holders(x)) => f.at % PtrSize = 0
     /\ \A c \in Classes : x.parent[c] \notin x.value /\ (x.parent[c] \in x.explicit => c \in x.explicit)
     /\ \E s \in SUBSET Classes :
          /\ \A c \in s : /\ x.parent[c] \in s \cup {NoClass}
                          /\ \A i \in DOMAIN x.fields[c] : x.fields[c][i].static
          /\ \A c \in x.value : x.parent[c] \in s \cup {NoClass}

BlankClass ==
    [supers |-> <<>>, ifs |-> <<>>, hasMethods |-> FALSE, methods |-> <<>>,
     fields |-> <<>>, refs |-> FALSE, size |-> 0, align |-> 0, offs |-> <<>>,
     ssize |-> 0, soffs |-> <<>>, bits |-> {}, sbits |-> {},
     vtable |-> <<>>, ioffs |-> <<>>, slots |-> <<>>]

Do(op, c, arg) == [op |-> op, of |-> c, arg |-> arg]
Initialize(p, c) == Do("init", c, p)
Work(op, c) == Do(op, c, 0)

(***************************************************************************)
(* What initialize_<part> of c calls, in order.                             *)
(***************************************************************************)
Up(p, c) == IF w.parent[c] = NoClass THEN <<>> ELSE <<Initialize(p, w.parent[c])>>

\* The rounds of the loops over the fields
InstanceRounds(c) == [i \in DOMAIN w.fields[c] |-> Do("field", c, i)]
StaticRounds(c)   == [i \in DOMAIN w.fields[c] |-> Do("sfield", c, i)]

(* Mutant: the static fields are laid out before the size of the instance is known. *)
FieldBodyStaticsFirst(c) ==
    Up("Field", c) \o <<Work("fields", c)>>
    \o StaticRounds(c) \o <<Work("statics", c)>>
    \o InstanceRounds(c)
    \o <<Work("layout", c), Work("bitmap", c), Work("sbitmap", c), Work("data", c)>>

\* setup_fields_typedef, setup_field_layout, setup_gc_bitmap, setup_static_field_data
FieldBody(c) ==
    Up("Field", c) \o <<Work("fields", c)>>
    \o InstanceRounds(c) \o <<Work("layout", c)>>
    \o StaticRounds(c)
    \o <<Work("statics", c), Work("bitmap", c), Work("sbitmap", c), Work("data", c)>>

(* Mutant: the methods of the parent are not set up first. *)
MethodBodyOwn(c) ==
    <<Work("methods", c)>>
    \o [i \in DOMAIN w.sigs[c] |-> Initialize("Field", w.sigs[c][i])]
    \o <<Work("argdescs", c)>>

MethodBody(c) ==
    Up("Method", c) \o <<Work("methods", c)>>
    \o [i \in DOMAIN w.sigs[c] |-> Initialize("Field", w.sigs[c][i])]
    \o <<Work("argdescs", c)>>

\* Without a parent the interfaces are not read: setup_interfaces_typedef returns at once
ListedInterfaces(c) == IF w.parent[c] = NoClass THEN <<>> ELSE w.ifaces[c]

InterfacesBody(c) ==
    Up("Interfaces", c)
    \o [i \in DOMAIN ListedInterfaces(c) |-> Initialize("All", ListedInterfaces(c)[i])]
    \o <<Work("interfaces", c)>>

VTableBody(c) ==
    Up("VTable", c)
    \o <<Initialize("SuperTypes", c), Initialize("Interfaces", c), Initialize("Method", c),
         Work("ifacetables", c), Work("vtable", c)>>

Body(p, c) ==
    CASE p = "All" ->
           <<Initialize("SuperTypes", c), Initialize("Interfaces", c), Initialize("Nested", c),
             Initialize("Field", c), Initialize("Method", c), Initialize("Property", c),
             Initialize("Event", c), Initialize("VTable", c)>>
      [] p = "SuperTypes" -> Up(p, c) \o <<Work("supers", c)>>
      [] p = "Interfaces" -> InterfacesBody(c)
      [] p = "Nested"     -> Up(p, c) \o <<Work("nested", c)>>
      [] p = "Field"      -> FieldBody(c)
      [] p = "Method"     -> MethodBody(c)
      [] p = "Property"   -> <<Initialize("Method", c)>> \o Up(p, c) \o <<Work("property", c)>>
      [] p = "Event"      -> Up(p, c) \o <<Work("event", c)>>
      [] p = "VTable"     -> VTableBody(c)

-------------------------------------------------------------------------------
(* The native machine: one item of the top activation at a time. *)

Top  == calls[Len(calls)]
Todo == Top.todo
Item == Head(Todo)
Running(op) == Todo # <<>> /\ Item.op = op

Continue(s) == calls' = [calls EXCEPT ![Len(calls)].todo = s \o Tail(Todo)]
Abandon     == calls' = [calls EXCEPT ![Len(calls)].todo = <<>>]
Invoke(c)   == calls' = Append([calls EXCEPT ![Len(calls)].todo = Tail(Todo)],
                               [of |-> c, todo |-> <<>>])

Init ==
  /\ w \in Worlds
  /\ kl = [c \in Classes |-> BlankClass]
  /\ flags = {} /\ done = {}
  /\ status = [c \in Classes |-> "NotInited"]
  /\ modDone = FALSE
  /\ calls = <<[of |-> NoClass, todo |-> <<>>]>>
  /\ statics = <<>>
  /\ started = [c \in Classes |-> 0]
  /\ again = {} /\ hasty = {} /\ refused = {}
  /\ uses = 0 /\ fails = 0

(* Mutant: only a finished part is skipped. *)
EnterPartLate ==
  /\ Running("init")
  /\ IF <<Item.arg, Item.of>> \in done
     THEN Continue(<<>>) /\ UNCHANGED flags
     ELSE /\ Continue(Append(Body(Item.arg, Item.of), Do("end", Item.of, Item.arg)))
          /\ flags' = flags \cup {<<Item.arg, Item.of>>}
  /\ UNCHANGED <<w, kl, done, status, modDone, statics, history, uses, fails>>

\* try_set_initialized_part, then the body: a part that is marked is taken for done
EnterPart ==
  /\ Running("init")
  /\ IF <<Item.arg, Item.of>> \in flags
     THEN Continue(<<>>) /\ UNCHANGED flags
     ELSE /\ Continue(Append(Body(Item.arg, Item.of), Do("end", Item.of, Item.arg)))
          /\ flags' = flags \cup {<<Item.arg, Item.of>>}
  /\ UNCHANGED <<w, kl, done, status, modDone, statics, history, uses, fails>>

EndPart ==
  /\ Running("end")
  /\ Continue(<<>>)
  /\ done' = done \cup {<<Item.arg, Item.of>>}
  /\ UNCHANGED <<w, kl, flags, status, modDone, statics, history, uses, fails>>

(***************************************************************************)
(* The pieces of work.  Effect is what a piece leaves in the RtClass of its *)
(* class; a piece that finds the metadata bad is refused.                   *)
(***************************************************************************)
Inherited(c, f) == IF w.parent[c] = NoClass THEN BlankClass[f] ELSE kl[w.parent[c]][f]

WithLayout(c) ==
    LET l == InstanceLayout(kl, w, c)
    IN  [kl[c] EXCEPT !.size = l.size, !.align = l.align, !.offs = l.offs]

WithStatics(c) ==
    LET l == StaticLayout(kl, c) IN [kl[c] EXCEPT !.ssize = l.size, !.soffs = l.offs]

WithVTable(c) ==
    LET t == SetupVTable(kl, w, c)
    IN  [kl[c] EXCEPT !.vtable = t.tbl, !.ioffs = t.ioffs, !.slots = t.slots]

WithBitmap(c) ==
    [kl[c] EXCEPT !.bits = IF kl[c].refs THEN InstanceBits(kl, w.parent, c) ELSE {}]

Effect(op, c, i) ==
    CASE op = "supers"     -> [kl[c] EXCEPT !.supers = Append(Inherited(c, "supers"), c)]
      [] op = "interfaces" -> [kl[c] EXCEPT !.ifs = ListedInterfaces(c)]
      [] op = "fields"     -> [kl[c] EXCEPT !.fields = w.fields[c], !.refs = Inherited(c, "refs")]
      [] op = "refs"       -> [kl[c] EXCEPT !.refs = @ \/ ContainsReference(kl, kl[c].fields[i])]
      [] op = "layout"     -> WithLayout(c)
      [] op = "statics"    -> WithStatics(c)
      [] op = "bitmap"     -> WithBitmap(c)
      [] op = "sbitmap"    -> [kl[c] EXCEPT !.sbits = StaticBits(kl, c)]
      [] op = "methods"    -> [kl[c] EXCEPT !.methods = w.methods[c], !.hasMethods = TRUE]
      [] op = "vtable"     -> WithVTable(c)
      [] OTHER             -> kl[c]    \* nested, property, event, argdescs: nothing another part reads

\* finalize_gc_bitmap wants a bit for a class with references; setup_vtable_typedef an implementation
Refused(op, c) ==
    \/ op = "bitmap" /\ kl[c].refs /\ InstanceBits(kl, w.parent, c) = {}
    \/ op = "vtable" /\ ~SetupVTable(kl, w, c).ok

WorkOps == {"supers", "interfaces", "nested", "fields", "refs", "layout", "statics", "bitmap", "sbitmap",
            "data", "methods", "argdescs", "property", "event", "vtable"}

\* History: the types that a piece of work reads, and whether their own layout is there to be read
ValuesOf(fs) == {fs[i].of : i \in {j \in DOMAIN fs : fs[j].kind = "value"}}
InstanceReads(c) ==
    ValuesOf(InstanceFields(kl[c].fields))
    \cup (IF w.parent[c] = NoClass THEN {} ELSE {w.parent[c]})
StaticReads(c) == ValuesOf(StaticFields(kl[c].fields))

LacksLayout(t) == kl[t].align = 0 \/ <<"instance", t>> \in hasty
LacksBitmap(t) == LacksLayout(t) \/ (kl[t].refs /\ kl[t].bits = {})

Hasty(op, c) ==
    CASE op = "layout"  -> {<<"instance", c>> : t \in {x \in InstanceReads(c) : LacksLayout(x)}}
      [] op = "statics" -> {<<"static", c>>   : t \in {x \in StaticReads(c) : LacksLayout(x)}}
      [] op = "bitmap"  -> {<<"instance", c>> : t \in {x \in InstanceReads(c) : LacksBitmap(x)}}
      [] op = "sbitmap" -> {<<"static", c>>   : t \in {x \in StaticReads(c) : LacksBitmap(x)}}
      [] OTHER          -> {}

DoWork ==
  /\ Todo # <<>> /\ Item.op \in WorkOps
  /\ ~Refused(Item.op, Item.of)
  /\ Continue(<<>>)
  /\ kl' = [kl EXCEPT ![Item.of] = Effect(Item.op, Item.of, Item.arg)]
  /\ statics' = IF Item.op = "data" /\ kl[Item.of].ssize > 0 THEN Append(statics, Item.of) ELSE statics
  /\ hasty' = hasty \cup Hasty(Item.op, Item.of)
  /\ UNCHANGED <<w, flags, done, status, modDone, started, again, refused, uses, fails>>

\* The metadata are rejected: the error goes up to managed code, the marks stay
Refuse ==
  /\ Todo # <<>> /\ Item.op \in WorkOps
  /\ Refused(Item.op, Item.of)
  /\ Abandon
  /\ refused' = refused \cup {Item.of}
  /\ hasty' = hasty \cup Hasty(Item.op, Item.of)
  /\ UNCHANGED <<w, kl, flags, done, status, modDone, statics, started, again, uses, fails>>

\* A piece of work fails for a reason of its own: a row that cannot be read, no memory
Fail ==
  /\ Todo # <<>> /\ Item.op \in WorkOps \ {"refs"}
  /\ Item.of \in w.faulty
  /\ fails < w.fails /\ fails' = fails + 1
  /\ Abandon
  /\ UNCHANGED <<w, kl, flags, done, status, modDone, statics, history, uses>>

\* One round of setup_field_layout over the instance or the static fields: the type of a value
\* field is initialized first
ValueType(f) == IF f.kind = "value" THEN <<Initialize("Field", f.of)>> ELSE <<>>

InstanceField ==
  /\ Running("field")
  /\ LET f == w.fields[Item.of][Item.arg] IN
       Continue(IF f.static THEN <<>> ELSE ValueType(f) \o <<Do("refs", Item.of, Item.arg)>>)
  /\ UNCHANGED <<w, kl, flags, done, status, modDone, statics, history, uses, fails>>

StaticField ==
  /\ Running("sfield")
  /\ LET f == w.fields[Item.of][Item.arg] IN
       Continue(IF f.static THEN ValueType(f) ELSE <<>>)
  /\ UNCHANGED <<w, kl, flags, done, status, modDone, statics, history, uses, fails>>

\* The loop of initialize_vtables over the interfaces that the class was given
InterfaceTables ==
  /\ Running("ifacetables")
  /\ Continue([i \in DOMAIN kl[Item.of].ifs |-> Initialize("VTable", kl[Item.of].ifs[i])])
  /\ UNCHANGED <<w, kl, flags, done, status, modDone, statics, history, uses, fails>>

-------------------------------------------------------------------------------
(* Static constructors. *)

\* Classes whose own constructor run is below the top activation: it waits for the module constructor
Waiting == {c \in Classes : \E k \in 1..(Len(calls) - 1) :
                              \E i \in DOMAIN calls[k].todo : calls[k].todo[i] = Work("start", c)}

(* Mutant: before its constructor a class gets its methods only. *)
RunCctorMethods ==
  /\ Running("cctor")
  /\ LET c == Item.of IN
       IF status[c] # "NotInited"
       THEN Continue(<<>>) /\ UNCHANGED again
       ELSE /\ Continue(<<Work("module", w.module), Initialize("Method", c), Work("start", c)>>)
            /\ again' = IF c \in Waiting THEN again \cup {c} ELSE again
  /\ UNCHANGED <<w, kl, flags, done, status, modDone, statics, started, hasty, refused, uses, fails>>

\* run_class_static_constructor
RunCctor ==
  /\ Running("cctor")
  /\ LET c == Item.of IN
       IF status[c] # "NotInited"
       THEN Continue(<<>>) /\ UNCHANGED again
       ELSE /\ Continue(<<Work("module", w.module), Initialize("All", c), Work("start", c)>>)
            /\ again' = IF c \in Waiting THEN again \cup {c} ELSE again
  /\ UNCHANGED <<w, kl, flags, done, status, modDone, statics, started, hasty, refused, uses, fails>>

\* run_module_static_constructor, get_module_constructor
RunModuleCctor ==
  /\ Running("module")
  /\ Continue(IF modDone THEN <<>> ELSE <<Initialize("All", w.module), Work("modstart", w.module)>>)
  /\ modDone' = TRUE
  /\ UNCHANGED <<w, kl, flags, done, status, statics, history, uses, fails>>

\* get_static_constructor finds the constructor when the methods of the class were set up
InvokeCctor(c) ==
    IF c \in w.cctor /\ kl[c].hasMethods
    THEN Invoke(c) /\ started' = [started EXCEPT ![c] = @ + 1]
    ELSE Continue(<<>>) /\ UNCHANGED started

StartModuleCctor ==
  /\ Running("modstart")
  /\ InvokeCctor(Item.of)
  /\ UNCHANGED <<w, kl, flags, done, status, modDone, statics, again, hasty, refused, uses, fails>>

(* Mutant: a class that has a constructor is not marked before its constructor runs. *)
StartCctorLate ==
  /\ Running("start")
  /\ status' = IF Item.of \in w.cctor THEN status ELSE [status EXCEPT ![Item.of] = "InitSelf"]
  /\ InvokeCctor(Item.of)
  /\ UNCHANGED <<w, kl, flags, done, modDone, statics, again, hasty, refused, uses, fails>>

\* set_cctor_finished, then the call: a constructor that throws counts as finished
StartCctor ==
  /\ Running("start")
  /\ status' = [status EXCEPT ![Item.of] = "InitSelf"]
  /\ InvokeCctor(Item.of)
  /\ UNCHANGED <<w, kl, flags, done, modDone, statics, again, hasty, refused, uses, fails>>

(* Mutant: the walk stops at the class itself. *)
RunHierarchySelf ==
  /\ Running("hierarchy")
  /\ Continue(<<Work("cctor", Item.of)>>)
  /\ UNCHANGED <<w, kl, flags, done, status, modDone, statics, history, uses, fails>>

(***************************************************************************)
(* run_class_static_constructor_hierarchy: the class first, then up.  The   *)
(* status InitHierarchy, which would end the walk, is set only where it is  *)
(* set already: every allocation goes up to the root.                       *)
(***************************************************************************)
RunHierarchy ==
  /\ Running("hierarchy")
  /\ Continue(IF w.parent[Item.of] = NoClass
              THEN <<Work("cctor", Item.of)>>
              ELSE <<Work("cctor", Item.of), Work("hierarchy", w.parent[Item.of])>>)
  /\ UNCHANGED <<w, kl, flags, done, status, modDone, statics, history, uses, fails>>

\* Object::__new_object: the object is allocated when the hierarchy has run
Allocate ==
  /\ Running("allocate")
  /\ Continue(<<>>)
  /\ UNCHANGED <<w, kl, flags, done, status, modDone, statics, history, uses, fails>>

Native == \/ EnterPart \/ EndPart \/ DoWork \/ Refuse \/ Fail
          \/ InstanceField \/ StaticField \/ InterfaceTables
          \/ RunCctor \/ RunModuleCctor \/ StartModuleCctor \/ StartCctor
          \/ RunHierarchy \/ Allocate

-------------------------------------------------------------------------------
(* Managed code: the program or the static constructor on top. *)

Request(s) ==
  /\ Todo = <<>>
  /\ uses < w.uses /\ uses' = uses + 1
  /\ calls' = [calls EXCEPT ![Len(calls)].todo = s]
  /\ UNCHANGED <<w, kl, flags, done, status, modDone, statics, history, fails>>

\* A static member of c: TRY_RUN_CLASS_STATIC_CCTOR, invoke_with_run_cctor; no C# names the class <Module>
Use(c) == status[c] = "NotInited" /\ c # w.module /\ Request(<<Work("cctor", c)>>)

New(c) ==
  /\ c \notin w.value \cup w.interface \cup w.abstract \cup {w.module}
  /\ Request(<<Work("hierarchy", c), Work("allocate", c)>>)

\* A token or a reflection call that wants a part of c: the entry points of class.cpp
Resolve(p, c) == <<p, c>> \notin flags /\ Request(<<Initialize(p, c)>>)

\* RuntimeHelpers.RunModuleConstructor
UseModule == ~modDone /\ Request(<<Work("module", w.module)>>)

Return ==
  /\ Len(calls) > 1 /\ Todo = <<>>
  /\ calls' = SubSeq(calls, 1, Len(calls) - 1)
  /\ UNCHANGED <<w, kl, flags, done, status, modDone, statics, history, uses, fails>>

\* The constructor throws: the native work below is abandoned and its caller sees the exception
Throw ==
  /\ Len(calls) > 1 /\ Todo = <<>>
  /\ calls' = [SubSeq(calls, 1, Len(calls) - 1) EXCEPT ![Len(calls) - 1].todo = <<>>]
  /\ UNCHANGED <<w, kl, flags, done, status, modDone, statics, history, uses, fails>>

Managed ==
  \/ \E c \in Classes : Use(c) \/ New(c)
  \/ \E c \in Classes, p \in w.asked : Resolve(p, c)
  \/ UseModule \/ Return \/ Throw

Next == Native \/ Managed

Spec == Init /\ [][Next]_vars

-------------------------------------------------------------------------------
(* Properties. *)

NoErrors == fails = 0 /\ refused = {}
Quiet == Todo = <<>>    \* managed code runs: what it may see of the classes
AncestorsOf(c) == {Lineage(w.parent)[c][i] : i \in DOMAIN Lineage(w.parent)[c]}
InterfacesOf(c) == {ListedInterfaces(c)[i] : i \in DOMAIN ListedInterfaces(c)}

(* A part of a class is computed by one call at a time, however the recursion through parents,   *)
(* interfaces and value types comes back to the class, and never while managed code runs above:  *)
(* no static constructor sees a class in the middle of its initialization.                       *)
PartsComputedOnce ==
  \A k \in DOMAIN calls : \A i \in DOMAIN calls[k].todo :
     calls[k].todo[i].op = "end" =>
        /\ k = Len(calls)
        /\ \A j \in DOMAIN calls[k].todo : calls[k].todo[j] = calls[k].todo[i] => i = j

(* When managed code runs, what a finished part rests on is finished too, although               *)
(* initialize_<part> takes a mark for completion and skips parts that are only begun.            *)
Needs(p, c) ==
  {<<p, a>> : a \in AncestorsOf(c) \ {c}}
  \cup (IF p = "Field" THEN {<<"Field", t>> : t \in ValuesOf(w.fields[c])} ELSE {})
  \cup (IF p = "Method" THEN {<<"Field", w.sigs[c][i]>> : i \in DOMAIN w.sigs[c]} ELSE {})
  \cup (IF p = "Property" THEN {<<"Method", c>>} ELSE {})
  \cup (IF p = "Interfaces" THEN Parts \X InterfacesOf(c) ELSE {})
  \cup (IF p = "VTable" THEN {<<"VTable", i>> : i \in InterfacesOf(c)}
                            \cup {<<q, c>> : q \in {"SuperTypes", "Interfaces", "Method"}} ELSE {})

DoneIsClosed ==
  Quiet /\ NoErrors => \A d \in done : d[1] \in Parts => Needs(d[1], d[2]) \subseteq done

(* A static constructor runs at most once.  Only the class whose first use starts the module      *)
(* constructor may run twice: run_class_static_constructor tests the status before that           *)
(* constructor runs and sets it after.                                                            *)
CctorOnce == \A c \in Classes : started[c] <= IF c \in again THEN 2 ELSE 1

(* A static constructor runs only when every part of its class, of the ancestors and of the       *)
(* listed interfaces is there, as long as no initialization failed.                               *)
CctorReady ==
  \A k \in 2..Len(calls) :
     NoErrors => Parts \X (AncestorsOf(calls[k].of) \cup InterfacesOf(calls[k].of)) \subseteq done

(* An object is allocated after the static constructors of its class and of all the ancestors     *)
(* have started, whoever started them, and with the size of the finished layout.  (After an       *)
(* error they may be skipped: the retry finds the mark, and no methods yet.)                      *)
AllocationReady ==
  Running("allocate") /\ NoErrors =>
     /\ \A a \in AncestorsOf(Item.of) \cap w.cctor : started[a] > 0
     /\ <<"Field", Item.of>> \in done

Disjoint(fs, offs) ==
  \A i, j \in DOMAIN fs : i < j =>
     \/ offs[i] + FieldSize(kl, fs[i]).size <= offs[j]
     \/ offs[j] + FieldSize(kl, fs[j]).size <= offs[i]

Fits(fs, offs, size) ==
  \A i \in DOMAIN fs : offs[i] + FieldSize(kl, fs[i]).size <= size

(* The instance fields of a class lie inside the object, apart from each other unless the class   *)
(* asks for an explicit layout, references on word boundaries, and those of the ancestors where   *)
(* the ancestors' code finds them, though they are laid out again for every class.  A class laid  *)
(* out from a type that has no layout yet is exempt: CyclesOnly says when that happens.           *)
LayoutExact ==
  Quiet => \A c \in Classes : kl[c].align # 0 /\ <<"instance", c>> \notin hasty =>
     LET fs == HierarchyFields(kl, w.parent, c)
         p  == w.parent[c]
     IN  /\ Len(kl[c].offs) = Len(fs)
         /\ Fits(fs, kl[c].offs, kl[c].size)
         /\ c \in w.explicit \/ Disjoint(fs, kl[c].offs)
         /\ \A i \in DOMAIN fs : ContainsReference(kl, fs[i]) => kl[c].offs[i] % PtrSize = 0
         /\ p # NoClass /\ c \notin w.explicit => IsPrefix(kl[p].offs, kl[c].offs)
         /\ c \in w.value => kl[c].size > 0

\* The reference: where the references of a value of type c are, by the fields' own types
ReferenceBytes ==
  LET b[c \in Classes] ==
        LET fs == HierarchyFields(kl, w.parent, c)
        IN  UNION {CASE fs[i].kind = "ref"   -> {kl[c].offs[i]}
                     [] fs[i].kind = "value" -> {kl[c].offs[i] + x : x \in b[fs[i].of]}
                     [] OTHER                -> {} : i \in DOMAIN fs}
  IN  b

StaticReferenceBytes(c) ==
  LET fs == StaticFields(kl[c].fields)
  IN  UNION {CASE fs[i].kind = "ref"   -> {kl[c].soffs[i]}
               [] fs[i].kind = "value" -> {kl[c].soffs[i] + x : x \in ReferenceBytes[fs[i].of]}
               [] OTHER                -> {} : i \in DOMAIN fs}

(* The GC bitmap of a class has exactly the words of its objects that hold references, those of   *)
(* the ancestors and of nested value types included: the collector neither misses a reference nor *)
(* follows a number.                                                                              *)
BitmapExact ==
  Quiet => \A c \in Classes : <<"Field", c>> \in done /\ <<"instance", c>> \notin hasty =>
     kl[c].bits = {HeaderWords + x \div PtrSize : x \in ReferenceBytes[c]}

(* Static data holds its fields apart and has their references in its bitmap, and every class     *)
(* whose data holds a reference is in the list of roots, once.  This includes a value type with   *)
(* static fields of its own type, laid out while its own field part is in progress.               *)
StaticsExact ==
  Quiet => \A c \in Classes : <<"Field", c>> \in done /\ <<"static", c>> \notin hasty =>
     LET fs == StaticFields(kl[c].fields)
     IN  /\ Fits(fs, kl[c].soffs, kl[c].ssize) /\ Disjoint(fs, kl[c].soffs)
         /\ kl[c].sbits = {x \div PtrSize : x \in StaticReferenceBytes(c)}
         /\ Cardinality({i \in DOMAIN statics : statics[i] = c}) = IF fs = <<>> THEN 0 ELSE 1

\* t holds u: a field of t, static or not, has the value type u
Holds == {h \in w.value \X w.value : h[2] \in ValuesOf(w.fields[h[1]])}
Reaches(t) ==
  LET step[n \in Nat] ==
        LET nearer == IF n = 0 THEN {t} ELSE step[n - 1]
        IN  nearer \cup {u \in w.value : \E v \in nearer : <<v, u>> \in Holds}
  IN  step[Cardinality(w.value)]
Cyclic == \E t, u \in w.value : t # u /\ u \in Reaches(t) /\ t \in Reaches(u)

(* Whatever is initialized first, nothing is laid out from an unfinished type and no class is      *)
(* refused, unless two value types hold each other through a static field (or an error came       *)
(* first).  With such a pair the order decides: StaticsExact and BitmapExact then exempt them.    *)
CyclesOnly == fails = 0 /\ ~Cyclic => hasty = {} /\ refused = {}

\* Dispatch by the rules of the language: an override takes the nearest new slot above it, and a
\* MethodImpl the slot that it names
LineagePosition(c, d) == FirstIndex(Lineage(w.parent)[c], LAMBDA x : x = d)
Declares(x, n, new) == \E i \in DOMAIN w.methods[x] : w.methods[x][i].name = n /\ w.methods[x][i].new = new
MethodNamed(x, n) == CHOOSE m \in Range(w.methods[x]) : m.name = n
Ruled(x, m) == \E i \in DOMAIN w.impls[x] : w.impls[x][i].decl = m
RuledBody(x, m) == (CHOOSE r \in Range(w.impls[x]) : r.decl = m).body

OverrideOf(c, m) ==
  LET l     == Lineage(w.parent)[c]
      below == (LineagePosition(c, m.of) + 1)..Len(l)
      binds == {j \in below : \/ Ruled(l[j], m)
                              \/ /\ Declares(l[j], m.name, FALSE)
                                 /\ \A k \in below : k <= j => ~Declares(l[k], m.name, TRUE)}
      last  == l[Max(binds)]
  IN  IF binds = {} THEN m
      ELSE IF Ruled(last, m) THEN RuledBody(last, m) ELSE MethodNamed(last, m.name)

\* The lowest class that lists the interface or rules on the method decides: its MethodImpl, else
\* the method of that name that it sees, with the overrides of its slot
InterfaceImpl(c, m) ==
  LET l     == Lineage(w.parent)[c]
      x     == Max({j \in DOMAIN l : Ruled(l[j], m) \/ m.of \in InterfacesOf(l[j])})
      named == {j \in 1..x : Declares(l[j], m.name, TRUE)}
  IN  IF Ruled(l[x], m) THEN RuledBody(l[x], m)
      ELSE IF named = {} THEN m
      ELSE OverrideOf(c, MethodNamed(l[Max(named)], m.name))

(* A virtual call reaches the method that the rules give: through a class slot the last override  *)
(* of that slot's lineage, through an interface slot the explicit implementation, else the        *)
(* method of that name and its overrides, else the interface's own default.                       *)
DispatchExact ==
  Quiet /\ NoErrors => \A c \in Classes \ (w.interface \cup w.abstract) :
     <<"VTable", c>> \in done =>
        /\ \A a \in AncestorsOf(c) : \A i \in DOMAIN w.methods[a] :
             w.methods[a][i].new => VirtualImpl(kl, w, c, w.methods[a][i]) = OverrideOf(c, w.methods[a][i])
        /\ \A f \in UNION {InterfacesOf(a) : a \in AncestorsOf(c)} : \A i \in DOMAIN w.methods[f] :
             VirtualImpl(kl, w, c, w.methods[f][i]) = InterfaceImpl(c, w.methods[f][i])
=============================================================================
