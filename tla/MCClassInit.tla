------------------------------ MODULE MCClassInit ------------------------------
(***************************************************************************)
(* ClassInit on small programs, for TLC: an object root, a class and its    *)
(* subclass, two value types, an interface and <Module>.                    *)
(***************************************************************************)
EXTENDS ClassInit

CONSTANTS Obj, A, B, S, T, I, M

F(kind)      == [static |-> FALSE, kind |-> kind, of |-> NoClass, at |-> 0]
At(kind, n)  == [F(kind) EXCEPT !.at = n]
V(c)         == [F("value") EXCEPT !.of = c]
Static(f)    == [f EXCEPT !.static = TRUE]

Meth(c, n, new, abs) == [of |-> c, name |-> n, new |-> new, abs |-> abs]
Virtual(c, n)  == Meth(c, n, TRUE, FALSE)
Abstract(c, n) == Meth(c, n, TRUE, TRUE)
Overriding(c, n) == Meth(c, n, FALSE, FALSE)

None == [c \in Classes |-> <<>>]
Zero == [c \in Classes |-> 0]

\* Obj.m and the finalizer Obj.f; every field of every kind, a subclass that goes on after a byte
Plain ==
  [parent |-> (Obj :> NoClass @@ A :> Obj @@ B :> A @@ S :> Obj @@ T :> Obj @@ I :> NoClass @@ M :> NoClass),
   object |-> Obj, module |-> M, value |-> {S, T}, interface |-> {I}, abstract |-> {},
   uses |-> 2, fails |-> 1, faulty |-> {S}, asked |-> {"All", "Field", "Method", "VTable"},
   explicit |-> {}, pack |-> Zero, csize |-> Zero,
   ifaces |-> [None EXCEPT ![A] = <<I>>],
   fields |-> [None EXCEPT ![S] = <<F("byte"), F("ref")>>,
                           ![T] = <<V(S), F("short"), Static(F("ref"))>>,
                           ![A] = <<F("int"), V(S), F("byte"), Static(F("byte")), Static(V(S))>>,
                           ![B] = <<F("short"), F("ref"), V(T), Static(V(T))>>],
   sigs   |-> [None EXCEPT ![A] = <<S>>, ![S] = <<T>>],
   cctor  |-> {Obj, A, B, S, M},
   methods |-> [None EXCEPT ![Obj] = <<Virtual(Obj, "m"), Virtual(Obj, "f")>>,
                            ![I] = <<Abstract(I, "x")>>,
                            ![A] = <<Overriding(A, "m"), Virtual(A, "x")>>,
                            ![B] = <<Overriding(B, "m"), Overriding(B, "x")>>],
   impls  |-> None]

\* A value type with a static field of its own type, packing, a class that hides a slot and
\* implements its interface explicitly
SelfStatic ==
  [Plain EXCEPT
     !.faulty = {A},
     !.fields = [None EXCEPT ![S] = <<F("long"), F("ref"), Static(V(S))>>,
                             ![T] = <<F("byte"), F("int"), F("short"), Static(F("long")), Static(V(T))>>,
                             ![A] = <<V(T), F("raw")>>,
                             ![B] = <<Static(V(T)), Static(V(S)), V(S)>>],
     !.pack = [Zero EXCEPT ![T] = 2, ![S] = 1, ![A] = 1], !.csize = [Zero EXCEPT ![T] = 12],
     !.cctor = {A, B, S, M},
     !.methods = [None EXCEPT ![Obj] = <<Virtual(Obj, "m"), Virtual(Obj, "f")>>,
                              ![I] = <<Abstract(I, "x"), Abstract(I, "y")>>,
                              ![A] = <<Virtual(A, "m"), Virtual(A, "I.x"), Virtual(A, "y")>>,
                              ![B] = <<Overriding(B, "m"), Overriding(B, "y")>>],
     !.impls = [None EXCEPT ![A] = <<[body |-> Virtual(A, "I.x"), decl |-> Abstract(I, "x")]>>]]

\* Two value types that hold each other: the static field of S is a T, and a T contains an S
Cycle ==
  [SelfStatic EXCEPT
     !.faulty = {T},
     !.fields = [None EXCEPT ![S] = <<F("ref"), Static(V(T))>>, ![T] = <<V(S), F("byte")>>,
                             ![A] = <<V(T)>>, ![B] = <<V(S)>>],
     !.abstract = {A},
     !.methods = [None EXCEPT ![Obj] = <<Virtual(Obj, "m"), Virtual(Obj, "f")>>,
                              ![I] = <<Abstract(I, "x")>>,
                              ![A] = <<Abstract(A, "x"), Abstract(A, "y")>>,
                              ![B] = <<Overriding(B, "x"), Overriding(B, "y")>>],
     !.impls = None]

\* The cycle the other way round: the contained type has the static field; an explicit layout
Mutual ==
  [Plain EXCEPT
     !.fields = [None EXCEPT ![S] = <<V(T), F("ref")>>, ![T] = <<F("int"), Static(V(S))>>,
                             ![A] = <<Static(V(T)), F("byte")>>, ![B] = <<V(T), F("ref")>>],
     !.ifaces = [None EXCEPT ![B] = <<I>>],
     !.methods = [None EXCEPT ![Obj] = <<Virtual(Obj, "m"), Virtual(Obj, "f")>>,
                              ![I] = <<Abstract(I, "x"), Virtual(I, "d")>>,
                              ![A] = <<Virtual(A, "x")>>,
                              ![B] = <<Virtual(B, "z")>>],
     !.impls = [None EXCEPT ![B] = <<[body |-> Virtual(B, "z"), decl |-> Virtual(Obj, "m")]>>]]

Explicit ==
  [Plain EXCEPT
     !.fields = [None EXCEPT ![S] = <<At("int", 0), At("short", 2), At("ref", 8)>>,
                             ![T] = <<F("byte"), V(S), F("long")>>,
                             ![A] = <<F("byte")>>, ![B] = <<F("byte"), V(T), F("byte")>>],
     !.explicit = {S}, !.pack = [Zero EXCEPT ![T] = 1],
     !.ifaces = [None EXCEPT ![A] = <<I>>, ![B] = <<I>>],
     !.methods = [None EXCEPT ![Obj] = <<Virtual(Obj, "m"), Virtual(Obj, "f")>>,
                              ![I] = <<Virtual(I, "d"), Virtual(I, "e")>>,
                              ![A] = <<Overriding(A, "m")>>,
                              ![B] = <<Virtual(B, "d"), Virtual(B, "m")>>]]

\* Constructors only: longer programs, every order of uses, allocations, returns and exceptions
Constructors ==
  [Plain EXCEPT !.uses = 3, !.asked = {}, !.faulty = {A}, !.fields = None, !.sigs = None,
                !.ifaces = None, !.methods = None, !.cctor = {Obj, A, B, M}]

MCWorlds == {Plain, SelfStatic, Cycle, Mutual, Explicit, Constructors}
=============================================================================
