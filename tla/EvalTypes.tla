----------------------------- MODULE EvalTypes -----------------------------
(***************************************************************************)
(* Values of the interpreter: the types a variable may have, the part of   *)
(* an 8-byte slot each of them occupies, and the partial reads and writes  *)
(* of a slot.  A write of less than 8 bytes leaves the upper bytes as they *)
(* were, which is what makes the width every instruction is compiled with  *)
(* matter.                                                                 *)
(*                                                                         *)
(* ByteBits scales the widths down: with ByteBits = 1 an int32 has 4 bits  *)
(* and an int64 has 8, so that all boundaries are within TLC's reach.      *)
(***************************************************************************)
EXTENDS Integers, Sequences

CONSTANTS ByteBits,    \* bits of a byte (8 in the program)
          PtrSize,     \* bytes of a native int: PTR_SIZE
          StructSize   \* bytes of the value type that stands for "Other"

ASSUME WidthAssumption == /\ ByteBits \in Nat \ {0}
                          /\ PtrSize \in {4, 8}
                          /\ StructSize \in Nat \ {0}

\* RtArgOrLocOrFieldReduceType
ReduceTypes == {"I1", "U1", "I2", "U2", "I4", "I8", "I", "Ref", "Other"}

\* RtEvalStackDataType without the floating-point types.
DataTypes == {"I4", "I8", "RefOrPtr", "Other"}

IsPrimitive(data) == data # "Other"

DataTypeOf(reduce) ==
    CASE reduce \in {"I1", "U1", "I2", "U2", "I4"} -> "I4"
      [] reduce = "I8"                             -> "I8"
      [] reduce \in {"I", "Ref"}                   -> "RefOrPtr"
      [] OTHER                                     -> "Other"

ByteSize(reduce) ==
    CASE reduce \in {"I1", "U1"} -> 1
      [] reduce \in {"I2", "U2"} -> 2
      [] reduce \in {"I4", "U4"} -> 4
      [] reduce \in {"I8", "U8"} -> 8
      [] reduce \in {"I", "U", "Ref"} -> PtrSize
      [] OTHER                   -> StructSize

StackObjects(reduce) == (ByteSize(reduce) + 7) \div 8

\* The bytes of a value type that lie in its j-th 8 bytes.
StructBytes(j) == LET left == StructSize - 8 * (j - 1)
                  IN  IF left < 8 THEN left ELSE 8

\* The bytes of a value of the given type in its j-th 8 bytes; "Any" is what
\* the opcodes call a value type.
CellBytes(type, j) ==
    IF type \in {"Any", "Other"} THEN StructBytes(j) ELSE ByteSize(type)

\* select_arch: a native int is handled by the I4 or by the I8 opcodes.
Arch(reduce) ==
    IF reduce \in {"I", "Ref", "RefOrPtr"}
        THEN IF PtrSize = 4 THEN "I4" ELSE "I8"
        ELSE reduce

-----------------------------------------------------------------------------
Range2(bytes) == 2 ^ (bytes * ByteBits)

MaxInt(bytes) == (Range2(bytes) \div 2) - 1
MinInt(bytes) == -(Range2(bytes) \div 2)

\* get_stack_value_at<uintN_t> and get_stack_value_at<intN_t>.
ReadU(bytes, slot) == slot % Range2(bytes)
ReadS(bytes, slot) == IF ReadU(bytes, slot) > MaxInt(bytes)
                          THEN ReadU(bytes, slot) - Range2(bytes)
                          ELSE ReadU(bytes, slot)

\* set_stack_value_at<intN_t>: the upper bytes of the slot stay.
Overwrite(bytes, slot, value) ==
    (slot - ReadU(bytes, slot)) + (value % Range2(bytes))

Unsigned(type) == type \in {"U1", "U2", "U4", "U8", "U"}

\* A value cast to an integer type, as a mathematical integer.
Cast(type, value) ==
    IF Unsigned(type) THEN ReadU(ByteSize(type), value)
                      ELSE ReadS(ByteSize(type), value)

\* The quotient and the remainder of C and of CIL: rounding towards zero.
Abs(x) == IF x < 0 THEN -x ELSE x
Quotient(x, y)  == IF (x < 0) = (y < 0) THEN Abs(x) \div Abs(y)
                                        ELSE -(Abs(x) \div Abs(y))
Remainder(x, y) == x - y * Quotient(x, y)

\* The bit operations on two unsigned numbers of the given number of bits.
BitOp(op, bits, x, y) ==
    LET Bit(n, k) == (n \div 2 ^ k) % 2
        One(a, b) == CASE op = "And" -> a * b
                       [] op = "Or"  -> IF a + b > 0 THEN 1 ELSE 0
                       [] op = "Xor" -> (a + b) % 2
        Sum[k \in 0..bits] ==
            IF k = 0 THEN 0
            ELSE Sum[k - 1] + One(Bit(x, k - 1), Bit(y, k - 1)) * 2 ^ (k - 1)
    IN  Sum[bits]
=============================================================================
