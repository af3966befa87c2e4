------------------------------ MODULE Operands ------------------------------
(***************************************************************************)
(* The eight-byte operand of the interpreter (lyric_runtime, operand.cpp): *)
(* how a number is packed into a word with a tag, and how it is taken out. *)
(*                                                                         *)
(* A 32-bit integer of small magnitude is shifted left in a word of its    *)
(* own width, and its sign and tag go into the bits that are free; a large *)
(* one is stored as it is, in an operand of twice the width. A 64-bit      *)
(* integer is packed in the same way, and a large one goes to the heap.    *)
(* Whether a value is small is decided against a constant of its own, and  *)
(* the shift does not look at what it pushes out.                          *)
(*                                                                         *)
(* A double is rotated so that the highest bits of its exponent become the *)
(* tag. Two of their eight patterns are tags of a double; a number with    *)
(* another one goes to the heap, or, as the immediate of an instruction,   *)
(* into no operand at all, the two zeros excepted.                         *)
(*                                                                         *)
(* The widths are parameters, given as the number of values of a type: in  *)
(* the code Values8 is 2^8 and Values64 is 2^64.                           *)
(***************************************************************************)
EXTENDS Integers

CONSTANTS
    Values8, Values16, Values32, Values64,
    NaN, Inf, NegInf,   \* the numbers of a floating point type that are not whole:
    NegZero,            \* -0.0,
    Subnormal,          \* one below the normal doubles,
    Tiny, Huge          \* and normal ones with an exponent far below and above 0

\* The free bits of a word are its lowest three, four or five.
ASSUME ValuesAssumption ==
    /\ {Values8, Values16, Values32, Values64} \subseteq Nat \ {0}
    /\ Values8 % 2 = 0 /\ Values16 % 2 = 0
    /\ Values32 % 16 = 0 /\ Values64 % 32 = 0
    /\ Values8 < Values16 /\ Values16 < Values32 /\ Values32 <= Values64

\* A cast to a narrower type drops the highest bits, and so is a remainder of the
\* next wider one too.
ASSUME WidthsAssumption ==
    Values16 % Values8 = 0 /\ Values32 % Values16 = 0 /\ Values64 % Values32 = 0

SignedTypes == {"Int8", "Int16", "Int32", "Int64"}
UnsignedTypes == {"UInt8", "UInt16", "UInt32", "UInt64"}
IntTypes == SignedTypes \cup UnsignedTypes
FloatTypes == {"Float32", "Float64"}

\* The number of values of an integer type.
Size(T) ==
    CASE T \in {"Int8", "UInt8"} -> Values8
      [] T \in {"Int16", "UInt16"} -> Values16
      [] T \in {"Int32", "UInt32"} -> Values32
      [] T \in {"Int64", "UInt64"} -> Values64

\* numeric_limits<T>::min() and max().
Lowest(T) == IF T \in SignedTypes THEN -(Size(T) \div 2) ELSE 0
Highest(T) == IF T \in SignedTypes THEN Size(T) \div 2 - 1 ELSE Size(T) - 1

ValuesOf(T) == Lowest(T) .. Highest(T)

kMaxI32StackValue == Values32 \div 16
kMaxU32StackValue == Values32 \div 8 - 1
kMaxI64StackValue == Values64 \div 32
kMaxU64StackValue == Values64 \div 16 - 1

Abs(v) == IF v < 0 THEN -v ELSE v

\* The sign bit, when the sign is negative.
SignBit(v, bit) == IF v < 0 THEN bit ELSE 0

Invalid == [overlay |-> "Invalid"]
Word(w) == [overlay |-> "Word", word |-> w]
Stored(tag, v) == [overlay |-> "Stored", tag |-> tag, value |-> v]
Heap(tag, v) == [overlay |-> "Heap", tag |-> tag, value |-> v]
Double(w) == [overlay |-> "Double", word |-> w]
Enum(v) == [overlay |-> "Enum", value |-> v]
Self(tag, sign, rest) == [overlay |-> "Self", tag |-> tag, sign |-> sign, rest |-> rest]

\* Mutant: the magnitude keeps the bit where the sign goes.
FromI32Shifted3(v) ==
    IF v < -kMaxI32StackValue \/ v > kMaxI32StackValue
    THEN Stored("Int32", v)
    ELSE Word(((Abs(v) * 8) % Values32) + SignBit(v, 8) + 1)

\* fromI32: the tag is 1, the sign is the fourth bit.
FromI32(v) ==
    IF v < -kMaxI32StackValue \/ v > kMaxI32StackValue
    THEN Stored("Int32", v)
    ELSE Word(((Abs(v) * 16) % Values32) + SignBit(v, 8) + 1)

\* fromU32: the tag is 2.
FromU32(v) ==
    IF v > kMaxU32StackValue
    THEN Stored("UInt32", v)
    ELSE Word(((v * 8) % Values32) + 2)

\* fromI64: the tag is 6, the sign is the fifth bit. No operand is made of a
\* value that is too large.
FromI64(v) ==
    IF v < -kMaxI64StackValue \/ v > kMaxI64StackValue
    THEN Invalid
    ELSE Double(((Abs(v) * 32) % Values64) + SignBit(v, 16) + 6)

\* fromU64: the tag is 14.
FromU64(v) ==
    IF v > kMaxU64StackValue
    THEN Invalid
    ELSE Double(((v * 16) % Values64) + 14)

\* The numbers of a floating point type that are no integers here.
NotWhole == {NaN, Inf, NegInf, NegZero, Subnormal, Tiny, Huge}

\* The three highest of the eleven bits of the exponent of a double, biased by
\* 1023: 3 from 2^-255 up to 2, 4 from there up to 2^257.
HighExponent(v) ==
    CASE v \in {NaN, Inf, NegInf} -> 7
      [] v \in {0, NegZero, Subnormal} -> 0
      [] v = Tiny -> 2
      [] v = Huge -> 5
      [] OTHER -> IF Abs(v) = 1 THEN 3 ELSE 4

kDoubleWordSelfTags == {3, 4}

\* encode_f64, where it succeeds: the double is rotated to the right by 60 bits,
\* so that the four highest, its sign and HighExponent, become the lowest.
EncodeF64(v) == Self(HighExponent(v), SignBit(v, 1), Abs(v))

\* fromF64: the zeros have operands of their own, of any other number there is
\* none if it is not encoded.
FromF64(v) ==
    IF v \in {0, NegZero} THEN Enum(v)
    ELSE IF HighExponent(v) \in kDoubleWordSelfTags THEN EncodeF64(v) ELSE Invalid

\* value_to_operand for a value of the C++ type T. A 64-bit integer that does
\* not fit and a double that is not encoded, a zero among them, become instances
\* on the heap; the short types and a float are copied next to a tag of their own.
ValueToOperand(T, v) ==
    CASE T = "Int32" -> FromI32(v)
      [] T = "UInt32" -> FromU32(v)
      [] T = "Int64" -> IF v < -kMaxI64StackValue \/ v > kMaxI64StackValue
                        THEN Heap(T, v) ELSE FromI64(v)
      [] T = "UInt64" -> IF v > kMaxU64StackValue THEN Heap(T, v) ELSE FromU64(v)
      [] T = "Float64" -> IF HighExponent(v) \in kDoubleWordSelfTags
                          THEN EncodeF64(v) ELSE Heap(T, v)
      [] OTHER -> Stored(T, v)

\* getType: the type that the tag stands for.
GetType(op) ==
    CASE op.overlay = "Word" -> IF op.word % 8 = 1 THEN "Int32"
                                ELSE IF op.word % 8 = 2 THEN "UInt32" ELSE "Invalid"
      [] op.overlay = "Double" -> IF op.word % 16 = 6 THEN "Int64"
                                  ELSE IF op.word % 16 = 14 THEN "UInt64" ELSE "Invalid"
      [] op.overlay = "Self" -> IF op.tag \in kDoubleWordSelfTags THEN "Float64" ELSE "Invalid"
      [] op.overlay = "Enum" -> "Float64"
      [] op.overlay \in {"Stored", "Heap"} -> op.tag
      [] OTHER -> "Invalid"

\* A magnitude with its sign, when the sign bit of the word is set.
Signed(w, bit, magnitude) == IF (w \div bit) % 2 = 1 THEN -magnitude ELSE magnitude

\* operand_to_value, for the type that the operand has. A double is rotated back.
OperandToValue(op) ==
    CASE GetType(op) = "Int32" /\ op.overlay = "Word" -> Signed(op.word, 8, op.word \div 16)
      [] GetType(op) = "UInt32" /\ op.overlay = "Word" -> op.word \div 8
      [] GetType(op) = "Int64" /\ op.overlay = "Double" -> Signed(op.word, 16, op.word \div 32)
      [] GetType(op) = "UInt64" /\ op.overlay = "Double" -> op.word \div 16
      [] op.overlay = "Self" -> IF op.sign = 1 THEN -op.rest ELSE op.rest
      [] OTHER -> op.value

-----------------------------------------------------------------------------
\* The limits of the signed words are one too high: the magnitude 2^28 of a
\* 32-bit and 2^59 of a 64-bit integer passes for small, its only bit is
\* shifted out, and the word is that of zero.
AtLimit(T, v) ==
    \/ T = "Int32" /\ Abs(v) = kMaxI32StackValue
    \/ T = "Int64" /\ Abs(v) = kMaxI64StackValue

\* The value that an operand made of v has when it is read.
Kept(T, v) == IF T \in IntTypes /\ AtLimit(T, v) THEN 0 ELSE v
=============================================================================
