------------------------------ MODULE FieldLayout ------------------------------
(***************************************************************************)
(* Where the fields of a class lie and which words of its objects and of   *)
(* its static data hold references: the arithmetic of Layout               *)
(* (metadata/layout.cpp) and of the field half of Class (vm/class.cpp), as *)
(* operators on the runtime records of the classes.  ClassInit decides in  *)
(* which order they run.                                                   *)
(*                                                                         *)
(* A field is [static, kind, of, at]: its kind is a primitive of           *)
(* PrimSize, "ref" (any reference type), "raw" (a native pointer) or       *)
(* "value", a value type whose class is `of`; `at` is its offset when its  *)
(* class asks for an explicit layout.  kl maps each class to the part of   *)
(* its RtClass that the layout reads and writes; a class is allocated      *)
(* zeroed.  up maps each class to its parent.                              *)
(***************************************************************************)
EXTENDS Integers, Sequences, SequencesExt

CONSTANTS Classes, NoClass,
          PtrSize,      \* sizeof(void*): 4 on the WebGL player, 8 elsewhere
          HeaderWords   \* kFirstGCBitmapBitIndex: words of an object before its fields

ASSUME ClassAssumption   == NoClass \notin Classes
ASSUME PtrSizeAssumption == PtrSize \in {4, 8}
ASSUME HeaderAssumption  == HeaderWords \in Nat \ {0}

PrimSize == [byte |-> 1, short |-> 2, int |-> 4, long |-> 8]

\* The loop over the fields of a class puts each into one of two vectors
FieldsOf(fs, static) ==
    LET kept[n \in 0..Len(fs)] ==
          IF n = 0 THEN <<>>
          ELSE IF fs[n].static = static THEN Append(kept[n - 1], fs[n]) ELSE kept[n - 1]
    IN  kept[Len(fs)]

InstanceFields(fs) == FieldsOf(fs, FALSE)
StaticFields(fs)   == FieldsOf(fs, TRUE)

\* MemOp::align_up is (v + a - 1) & ~(a - 1): 0 when the type has no layout yet and its alignment is 0
AlignUp(v, a) == IF a = 0 THEN 0 ELSE ((v + a - 1) \div a) * a

FieldSize(kl, f) ==
    CASE f.kind \in {"ref", "raw"}  -> [size |-> PtrSize, align |-> PtrSize]
      [] f.kind \in DOMAIN PrimSize -> [size |-> PrimSize[f.kind], align |-> PrimSize[f.kind]]
      [] f.kind = "value"           -> [size |-> kl[f.of].size, align |-> kl[f.of].align]

EffectiveAlign(kl, f, packing) ==
    LET a == FieldSize(kl, f).align IN IF packing = 0 THEN a ELSE Min({a, packing})

\* One turn of the loop of compute_layout
Place(kl, packing, acc, f) ==
    LET o == AlignUp(acc.size, EffectiveAlign(kl, f, packing))
    IN  [size  |-> o + FieldSize(kl, f).size,
         align |-> Max({acc.align, EffectiveAlign(kl, f, packing)}),
         offs  |-> Append(acc.offs, o)]

PlaceExplicit(kl, packing, acc, f) ==
    [size  |-> Max({acc.size, f.at + FieldSize(kl, f).size}),
     align |-> Max({acc.align, EffectiveAlign(kl, f, packing)}),
     offs  |-> Append(acc.offs, f.at)]

Empty == [size |-> 0, align |-> 1, offs |-> <<>>]
Padded(l) == [l EXCEPT !.size = AlignUp(l.size, l.align)]

ComputeLayout(kl, fs, packing) ==
    LET after[n \in 0..Len(fs)] == IF n = 0 THEN Empty ELSE Place(kl, packing, after[n - 1], fs[n])
    IN  Padded(after[Len(fs)])

ComputeExplicitLayout(kl, fs, packing) ==
    LET after[n \in 0..Len(fs)] == IF n = 0 THEN Empty ELSE PlaceExplicit(kl, packing, after[n - 1], fs[n])
    IN  Padded(after[Len(fs)])

\* The classes from the root of the hierarchy down to c
Lineage(up) ==
    LET l[c \in Classes] == IF up[c] = NoClass THEN <<c>> ELSE Append(l[up[c]], c)
    IN  l

\* collect_instance_fields: the fields of the ancestors first
HierarchyFields(kl, up, c) ==
    LET all[x \in Classes] ==
          (IF up[x] = NoClass THEN <<>> ELSE all[up[x]]) \o InstanceFields(kl[x].fields)
    IN  all[c]

ContainsReference(kl, f) == f.kind = "ref" \/ (f.kind = "value" /\ kl[f.of].refs)

(* Mutant: the packing of a value type counts whether it holds references or not. *)
InstanceLayoutPacked(kl, w, c) ==
    LET l == ComputeLayout(kl, HierarchyFields(kl, w.parent, c), IF c \in w.value THEN w.pack[c] ELSE 0)
    IN  IF c \in w.value THEN [l EXCEPT !.size = Max({l.size, w.csize[c], 1})] ELSE l

(***************************************************************************)
(* setup_field_layout, its instance half: the packing and the size that the *)
(* metadata give count for value types alone, and the packing only without  *)
(* references.  Inherited fields are placed again, not moved.               *)
(***************************************************************************)
InstanceLayout(kl, w, c) ==
    LET packing == IF c \in w.value /\ ~kl[c].refs THEN w.pack[c] ELSE 0
        fs      == HierarchyFields(kl, w.parent, c)
        l       == IF c \in w.explicit THEN ComputeExplicitLayout(kl, fs, packing)
                                       ELSE ComputeLayout(kl, fs, packing)
    IN  IF c \in w.value THEN [l EXCEPT !.size = Max({l.size, w.csize[c], 1})] ELSE l

StaticLayout(kl, c) == ComputeLayout(kl, StaticFields(kl[c].fields), 0)

(***************************************************************************)
(* setup_gc_bitmap_for_field: the words of one field at offset `off`, as    *)
(* indices whose first field word is `base` (HeaderWords in an object, 0 in *)
(* static data); a value type contributes the bits of its own bitmap.       *)
(***************************************************************************)
FieldBits(kl, f, off, base) ==
    CASE f.kind = "ref"                      -> {base + off \div PtrSize}
      [] f.kind = "value" /\ kl[f.of].refs   -> {base + off \div PtrSize + i - HeaderWords :
                                                   i \in {j \in kl[f.of].bits : j >= HeaderWords}}
      [] OTHER                               -> {}

FieldsBits(kl, fs, offs, base) ==
    UNION {FieldBits(kl, fs[i], offs[i], base) : i \in DOMAIN fs}

\* The offsets of the fields that c itself declares, the last ones of its layout; 0 before it is laid out
OwnOffsets(kl, c) ==
    LET n == Len(InstanceFields(kl[c].fields))
    IN  [i \in 1..n |-> IF kl[c].offs = <<>> THEN 0 ELSE kl[c].offs[Len(kl[c].offs) - n + i]]

OwnBits(kl, c) == FieldsBits(kl, InstanceFields(kl[c].fields), OwnOffsets(kl, c), HeaderWords)

(* Mutant: the bitmap of a class leaves out the fields of its ancestors. *)
InstanceBitsOwn(kl, up, c) == OwnBits(kl, c)

\* setup_instance_gc_bitmap_impl goes up the parents as long as they hold references
InstanceBits(kl, up, c) ==
    LET l      == Lineage(up)[c]
        walked == {i \in DOMAIN l : \A j \in i..Len(l) : kl[l[j]].refs}
    IN  UNION {OwnBits(kl, l[i]) : i \in walked}

(* Mutant: static data is taken for an object with a header. *)
StaticBitsHeader(kl, c) ==
    IF kl[c].ssize \div PtrSize = 0 THEN {}
    ELSE FieldsBits(kl, StaticFields(kl[c].fields), kl[c].soffs, HeaderWords)

\* setup_static_gc_bitmap: nothing when the static data is smaller than a word
StaticBits(kl, c) ==
    IF kl[c].ssize \div PtrSize = 0 THEN {}
    ELSE FieldsBits(kl, StaticFields(kl[c].fields), kl[c].soffs, 0)
=============================================================================
