--------------------------------- MODULE VTable ---------------------------------
(***************************************************************************)
(* The virtual method table of a class and the dispatch through it: the     *)
(* operators of setup_vtable_typedef (vm/class.cpp) and                     *)
(* get_virtual_method_impl_on_klass (vm/method.cpp) on the runtime records  *)
(* of the classes.  ClassInit decides in which order they run.              *)
(*                                                                         *)
(* A method is [of, name, new, abs]: its class, its name (which stands for  *)
(* the signature that MetadataCompare compares), and the NewSlot and        *)
(* Abstract attributes; every method here is virtual.  kl[c] has `methods`, *)
(* the interfaces `ifs`, `vtable`, a sequence of [method, impl] whose slot  *)
(* i is element i + 1, `ioffs`, the slot at which each interface starts, and *)
(* `slots`, the slot of each method of c by name (0 until it is assigned).  *)
(* A MethodImpl row of the metadata is [body, decl].                        *)
(***************************************************************************)
EXTENDS FieldLayout

CONSTANT NoMethod    \* a null method_impl

NewSlots(ms)  == SelectSeq(ms, LAMBDA m : m.new)
Overrides(ms) == SelectSeq(ms, LAMBDA m : ~m.new)

EntryOf(m) == [method |-> m, impl |-> IF m.abs THEN NoMethod ELSE m]
Entries(ms) == [i \in DOMAIN ms |-> EntryOf(ms[i])]

SlotOf(kl, m) == IF m.name \in DOMAIN kl[m.of].slots THEN kl[m.of].slots[m.name] ELSE 0

\* is_method_signature_equal, names included
SameSignature(m, n) == m.name = n.name

\* collect_virtual_methods: the virtual methods of the hierarchy, the ancestors' first
HierarchyVirtuals(kl, up, c) ==
    FlattenSeq([i \in DOMAIN Lineage(up)[c] |-> kl[Lineage(up)[c][i]].methods])

FirstIndex(s, Test(_)) == Min({i \in DOMAIN s : Test(s[i])})

(***************************************************************************)
(* The interfaces that c lists and its parent does not have get the slots   *)
(* after the parent's; `mine` are the positions in ioffs of those it lists. *)
(***************************************************************************)
AddInterface(kl, inherited, acc, i) ==
    IF \E k \in DOMAIN inherited : inherited[k].iface = i
    THEN [acc EXCEPT !.mine = @ \cup {FirstIndex(inherited, LAMBDA o : o.iface = i)}]
    ELSE [ioffs |-> Append(acc.ioffs, [iface |-> i, off |-> acc.total]),
          total |-> acc.total + Len(kl[i].vtable),
          mine  |-> acc.mine \cup {Len(acc.ioffs) + 1}]

InterfaceOffsets(kl, p, c) ==
    FoldLeft(LAMBDA acc, i : AddInterface(kl, kl[p].ioffs, acc, i),
             [ioffs |-> kl[p].ioffs, total |-> Len(kl[p].vtable), mine |-> {}],
             kl[c].ifs)

\* The parent's table, then the tables of the added interfaces
InheritedEntries(kl, p, ioffs) ==
    kl[p].vtable \o FlattenSeq([k \in DOMAIN ioffs |->
        IF ioffs[k].off < Len(kl[p].vtable) THEN <<>> ELSE kl[ioffs[k].iface].vtable])

(***************************************************************************)
(* setup_methodimpl_vtable: an explicit implementation takes the slot of    *)
(* its declaration, the first one for a slot only.  b is the table being    *)
(* built: [tbl, fixed, slots, ok], where `fixed` is                         *)
(* initialized_vtable_index_set and ok turns FALSE on a BadImageFormat or   *)
(* ExecutionEngine error.                                                   *)
(***************************************************************************)
DeclaredSlot(kl, w, ioffs, d) ==
    LET here == {k \in DOMAIN ioffs : ioffs[k].iface = d.of}
    IN  IF d.of \in w.interface THEN {ioffs[k].off + SlotOf(kl, d) : k \in here}
                                ELSE {SlotOf(kl, d)}

ApplyImpl(kl, w, ioffs, owner, b, r) ==
    LET found == DeclaredSlot(kl, w, ioffs, r.decl)
        s     == Min(found)
    IN  CASE \/ found = {}
             \/ s >= Len(b.tbl)
             \/ /\ r.decl.of \notin w.interface
                /\ ~\E k \in DOMAIN kl[owner].supers : kl[owner].supers[k] = r.decl.of
                                          -> [b EXCEPT !.ok = FALSE]
          [] OTHER                        ->
             CASE s \in b.fixed           -> b
               [] b.tbl[s + 1].method # r.decl -> [b EXCEPT !.ok = FALSE]
               [] OTHER                   -> [b EXCEPT !.tbl[s + 1].impl = r.body,
                                                       !.fixed = @ \cup {s}]

ApplyImpls(kl, w, ioffs, b, owner) ==
    FoldLeft(LAMBDA acc, r : ApplyImpl(kl, w, ioffs, owner, acc, r), b, w.impls[owner])

(* Mutant: the interface slots that the overridden method had filled keep it. *)
OverrideClassSlot(kl, inherited, parentCount, b, m) ==
    LET same == {i \in DOMAIN inherited : SameSignature(inherited[i], m)}
        s    == SlotOf(kl, inherited[Max(same)])
    IN  CASE same = {}      -> [b EXCEPT !.ok = FALSE]
          [] s \in b.fixed  -> b
          [] OTHER          -> [b EXCEPT !.slots = (m.name :> s) @@ @, !.tbl[s + 1].impl = m]

(***************************************************************************)
(* An override takes the slot of the nearest inherited method of the same   *)
(* signature, and replaces that method wherever the parent's part of the    *)
(* table still names it (the interface slots).                              *)
(***************************************************************************)
Override(kl, inherited, parentCount, b, m) ==
    LET same == {i \in DOMAIN inherited : SameSignature(inherited[i], m)}
        old  == inherited[Max(same)]
        s    == SlotOf(kl, old)
    IN  CASE same = {}      -> [b EXCEPT !.ok = FALSE]
          [] s \in b.fixed  -> b
          [] OTHER          ->
             [b EXCEPT !.slots = (m.name :> s) @@ @,
                       !.tbl   = [i \in DOMAIN @ |->
                           IF i = s + 1 \/ (i <= parentCount /\ @[i].impl = old)
                           THEN [@[i] EXCEPT !.impl = m] ELSE @[i]]]

\* A new-slot method implements the slots of that signature in the interfaces the class lists
ImplementInterfaces(kl, offsets, b, m) ==
    LET mine == UNION {{offsets.ioffs[k].off + j : j \in 1..Len(kl[offsets.ioffs[k].iface].vtable)} :
                         k \in offsets.mine}
    IN  [b EXCEPT !.tbl = [i \in DOMAIN @ |->
            IF i \in mine /\ SameSignature(m, @[i].method) THEN [@[i] EXCEPT !.impl = m] ELSE @[i]]]

\* A slot still null after that takes the nearest method of the hierarchy with its signature
FillSlot(all, e) ==
    LET same == {i \in DOMAIN all : SameSignature(e.method, all[i])}
    IN  IF e.impl # NoMethod \/ same = {} THEN e ELSE [e EXCEPT !.impl = all[Max(same)]]

FillSlots(all, parentCount, b) ==
    LET filled == [i \in DOMAIN b.tbl |->
                     IF i <= parentCount THEN b.tbl[i] ELSE FillSlot(all, b.tbl[i])]
    IN  [b EXCEPT !.tbl = filled,
                  !.ok  = @ /\ \A i \in DOMAIN filled : i > parentCount => filled[i].impl # NoMethod]

\* Slot 1 of Object, the finalizer, is the only one that may stay null in a concrete class
Complete(b) == \A i \in DOMAIN b.tbl : i # 2 => b.tbl[i].impl # NoMethod

NumberFrom(ms, n) == [x \in {ms[i].name : i \in DOMAIN ms} |-> n + FirstIndex(ms, LAMBDA m : m.name = x) - 1]

RootTable(kl, w, c) ==
    LET own == NewSlots(kl[c].methods)
    IN  IF c \in w.interface \/ c = w.object
        THEN [ok |-> TRUE, tbl |-> Entries(own), ioffs |-> <<>>, slots |-> NumberFrom(own, 0)]
        ELSE [ok |-> TRUE, tbl |-> <<>>, ioffs |-> <<>>, slots |-> <<>>]

DerivedTable(kl, w, c) ==
    LET p       == w.parent[c]
        own     == NewSlots(kl[c].methods)
        offsets == InterfaceOffsets(kl, p, c)
        start   == [tbl |-> InheritedEntries(kl, p, offsets.ioffs) \o Entries(own),
                    slots |-> NumberFrom(own, offsets.total), fixed |-> {}, ok |-> TRUE]
        \* the slots of c's own new methods are assigned before the MethodImpls are read
        kl1     == [kl EXCEPT ![c].slots = start.slots]
        explicit == FoldLeft(LAMBDA b, o : ApplyImpls(kl1, w, offsets.ioffs, b, o),
                             start, <<c>> \o Reverse(kl[c].ifs))
        overridden == FoldLeft(LAMBDA b, m : Override(kl1, HierarchyVirtuals(kl, w.parent, p),
                                                      Len(kl[p].vtable), b, m),
                               explicit, Overrides(kl[c].methods))
        listed  == FoldLeft(LAMBDA b, m : ImplementInterfaces(kl, offsets, b, m), overridden, own)
        full    == FillSlots(HierarchyVirtuals(kl, w.parent, c), Len(kl[p].vtable), listed)
    IN  [ok    |-> full.ok /\ (c \in w.abstract \/ Complete(full)),
         tbl   |-> full.tbl, ioffs |-> offsets.ioffs, slots |-> full.slots]

\* setup_vtable_typedef
SetupVTable(kl, w, c) ==
    LET p == w.parent[c]
    IN  CASE p = NoClass -> RootTable(kl, w, c)
          [] p # NoClass /\ kl[c].methods = <<>> /\ kl[c].ifs = <<>> ->
               [ok |-> TRUE, tbl |-> kl[p].vtable, ioffs |-> kl[p].ioffs, slots |-> <<>>]
          [] OTHER -> DerivedTable(kl, w, c)

\* get_virtual_method_impl_on_klass: the method that a virtual call of m runs on an object of class c
VirtualImpl(kl, w, c, m) ==
    LET ioffs == kl[c].ioffs
        base  == IF m.of \in w.interface THEN ioffs[FirstIndex(ioffs, LAMBDA o : o.iface = m.of)].off ELSE 0
    IN  IF m.of = c THEN m ELSE kl[c].vtable[base + SlotOf(kl, m) + 1].impl
=============================================================================
