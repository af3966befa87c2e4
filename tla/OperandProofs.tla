---------------------------- MODULE OperandProofs ----------------------------
(***************************************************************************)
(* Packing a number in an operand keeps it, and a conversion to a wider    *)
(* type and back does: theorems about the operators of modules Operands and *)
(* NumericOps, for every width.                                            *)
(***************************************************************************)
EXTENDS NumericOps, WellFoundedInduction, TLAPS

\* A number below the modulus is its own remainder: nothing is shifted out.
LEMMA RemainderBelow ==
    ASSUME NEW m \in Nat \ {0}, NEW x \in Nat, x < m
    PROVE  x % m = x
OBVIOUS

\* The parts of the word of an Int32: the tag in three bits, the sign in one.
LEMMA WordParts ==
    ASSUME NEW n \in Nat, NEW s \in {0, 8}
    PROVE  LET w == n * 16 + s + 1
           IN w % 8 = 1 /\ w \div 16 = n /\ ((w \div 8) % 2 = 1 <=> s = 8)
OBVIOUS

\* The parts of the word of an Int64: the tag in four bits, the sign in one.
LEMMA DoubleParts ==
    ASSUME NEW n \in Nat, NEW s \in {0, 16}
    PROVE  LET w == n * 32 + s + 6
           IN w % 16 = 6 /\ w \div 32 = n /\ ((w \div 16) % 2 = 1 <=> s = 16)
OBVIOUS

\* The sizes of the words in the units of their tags.
LEMMA Sizes ==
    /\ Values32 \in Nat \ {0} /\ Values64 \in Nat \ {0}
    /\ kMaxI32StackValue \in Nat /\ Values32 = 16 * kMaxI32StackValue
    /\ kMaxU32StackValue \in Nat /\ Values32 = 8 * (kMaxU32StackValue + 1)
    /\ kMaxI64StackValue \in Nat /\ Values64 = 32 * kMaxI64StackValue
    /\ kMaxU64StackValue \in Nat /\ Values64 = 16 * (kMaxU64StackValue + 1)
  BY ValuesAssumption
     DEF kMaxI32StackValue, kMaxU32StackValue, kMaxI64StackValue, kMaxU64StackValue

\* What fromI32 packs, getType and getI32 find again: every integer but the two
\* limits, which read as zero.
LEMMA RoundTripI32 ==
    ASSUME NEW v \in Int
    PROVE  /\ GetType(FromI32(v)) = "Int32"
           /\ OperandToValue(FromI32(v)) = Kept("Int32", v)
<1> DEFINE n == (Abs(v) * 16) % Values32
           k == IF Abs(v) = kMaxI32StackValue THEN 0 ELSE Abs(v)
           s == SignBit(v, 8)
<1>1. CASE v < -kMaxI32StackValue \/ v > kMaxI32StackValue
  <2>1. FromI32(v) = Stored("Int32", v)
    BY <1>1 DEF FromI32
  <2>2. ~AtLimit("Int32", v)
    BY <1>1, Sizes DEF AtLimit, Abs
  <2>3. QED  BY <2>1, <2>2 DEF GetType, OperandToValue, Stored, Kept
<1>2. CASE ~(v < -kMaxI32StackValue \/ v > kMaxI32StackValue)
  <2>1. Abs(v) \in Nat /\ Abs(v) <= kMaxI32StackValue /\ s \in {0, 8}
        /\ (s = 8 <=> v < 0) /\ k \in Nat
    BY <1>2, Sizes DEF Abs, SignBit
  <2>2. n = k * 16
    <3>1. CASE Abs(v) = kMaxI32StackValue
      BY <3>1, Sizes
    <3>2. CASE Abs(v) < kMaxI32StackValue
      BY <2>1, <3>2, Sizes, RemainderBelow
    <3>3. QED  BY <2>1, <3>1, <3>2, Sizes
  <2>3. FromI32(v) = Word(k * 16 + s + 1)
    BY <1>2, <2>2 DEF FromI32
  <2> HIDE DEF n, k, s
  <2>4. GetType(FromI32(v)) = "Int32"
    BY <2>1, <2>3, WordParts DEF GetType, Word
  <2>5. OperandToValue(FromI32(v)) = IF s = 8 THEN -k ELSE k
    BY <2>1, <2>3, <2>4, WordParts DEF OperandToValue, Signed, Word
  <2>6. Kept("Int32", v) = IF s = 8 THEN -k ELSE k
    BY <2>1, Sizes DEF k, Kept, AtLimit, Abs, IntTypes, SignedTypes
  <2>7. QED  BY <2>4, <2>5, <2>6
<1>3. QED  BY <1>1, <1>2
\* The same for an Int64 that is not too large for a word.
LEMMA RoundTripI64 ==
    ASSUME NEW v \in Int, ~(v < -kMaxI64StackValue \/ v > kMaxI64StackValue)
    PROVE  /\ GetType(FromI64(v)) = "Int64"
           /\ OperandToValue(FromI64(v)) = Kept("Int64", v)
<1> DEFINE n == (Abs(v) * 32) % Values64
           k == IF Abs(v) = kMaxI64StackValue THEN 0 ELSE Abs(v)
           s == SignBit(v, 16)
<1>1. Abs(v) \in Nat /\ Abs(v) <= kMaxI64StackValue /\ s \in {0, 16}
      /\ (s = 16 <=> v < 0) /\ k \in Nat
  BY Sizes DEF Abs, SignBit
<1>2. n = k * 32
  <2>1. CASE Abs(v) = kMaxI64StackValue
    BY <2>1, Sizes
  <2>2. CASE Abs(v) < kMaxI64StackValue
    BY <1>1, <2>2, Sizes, RemainderBelow
  <2>3. QED  BY <1>1, <2>1, <2>2, Sizes
<1>3. FromI64(v) = Double(k * 32 + s + 6)
  BY <1>2 DEF FromI64
<1> HIDE DEF n, k, s
<1>4. GetType(FromI64(v)) = "Int64"
  BY <1>1, <1>3, DoubleParts DEF GetType, Double
<1>5. OperandToValue(FromI64(v)) = IF s = 16 THEN -k ELSE k
  BY <1>1, <1>3, <1>4, DoubleParts DEF OperandToValue, Signed, Double
<1>6. Kept("Int64", v) = IF s = 16 THEN -k ELSE k
  BY <1>1, Sizes DEF k, Kept, AtLimit, Abs, IntTypes, SignedTypes
<1>7. QED  BY <1>4, <1>5, <1>6

\* Unsigned words have no limit that is off: what is small enough is kept.
LEMMA RoundTripU32 ==
    ASSUME NEW v \in Nat
    PROVE  /\ GetType(FromU32(v)) = "UInt32"
           /\ OperandToValue(FromU32(v)) = v
<1>1. CASE v > kMaxU32StackValue
  BY <1>1 DEF FromU32, GetType, OperandToValue, Stored
<1>2. CASE ~(v > kMaxU32StackValue)
  <2>1. (v * 8) % Values32 = v * 8
    BY <1>2, Sizes, RemainderBelow
  <2>2. FromU32(v) = Word(v * 8 + 2)
    BY <1>2, <2>1 DEF FromU32
  <2>3. (v * 8 + 2) % 8 = 2 /\ (v * 8 + 2) \div 8 = v
    OBVIOUS
  <2>4. QED  BY <2>2, <2>3 DEF GetType, OperandToValue, Word
<1>3. QED  BY <1>1, <1>2, Sizes

LEMMA RoundTripU64 ==
    ASSUME NEW v \in Nat, ~(v > kMaxU64StackValue)
    PROVE  /\ GetType(FromU64(v)) = "UInt64"
           /\ OperandToValue(FromU64(v)) = v
<1>1. (v * 16) % Values64 = v * 16
  BY Sizes, RemainderBelow
<1>2. FromU64(v) = Double(v * 16 + 14)
  BY <1>1 DEF FromU64
<1>3. (v * 16 + 14) % 16 = 14 /\ (v * 16 + 14) \div 16 = v
  OBVIOUS
<1>4. QED  BY <1>2, <1>3 DEF GetType, OperandToValue, Double

\* Every integer that value_to_operand packs is found again by getType and the
\* getter of its type (RoundTrip checks it on the data stack), but for the two
\* limits of the signed words, where it is zero that is found.
THEOREM OperandKeepsInteger ==
    ASSUME NEW T \in IntTypes, NEW v \in ValuesOf(T)
    PROVE  /\ GetType(ValueToOperand(T, v)) = T
           /\ OperandToValue(ValueToOperand(T, v)) = Kept(T, v)
<1>1. v \in Int /\ (T \in UnsignedTypes => v \in Nat)
  BY ValuesAssumption DEF ValuesOf, Lowest, Highest, Size, IntTypes, SignedTypes, UnsignedTypes
<1>2. CASE T = "Int32"
  BY <1>1, <1>2, RoundTripI32 DEF ValueToOperand
<1>3. CASE T = "UInt32"
  BY <1>1, <1>3, RoundTripU32 DEF ValueToOperand, Kept, AtLimit, UnsignedTypes
<1>4. CASE T = "Int64"
  <2>1. CASE v < -kMaxI64StackValue \/ v > kMaxI64StackValue
    BY <1>1, <1>4, <2>1, Sizes DEF ValueToOperand, GetType, OperandToValue, Heap, Kept, AtLimit, Abs
  <2>2. CASE ~(v < -kMaxI64StackValue \/ v > kMaxI64StackValue)
    <3>1. ValueToOperand(T, v) = FromI64(v)
      BY <1>4, <2>2 DEF ValueToOperand
    <3>2. QED  BY <1>1, <1>4, <2>2, <3>1, RoundTripI64
  <2>3. QED  BY <2>1, <2>2
<1>5. CASE T = "UInt64"
  <2>1. CASE v > kMaxU64StackValue
    BY <1>5, <2>1 DEF ValueToOperand, GetType, OperandToValue, Heap, Kept, AtLimit
  <2>2. CASE ~(v > kMaxU64StackValue)
    <3>1. ValueToOperand(T, v) = FromU64(v)
      BY <1>5, <2>2 DEF ValueToOperand
    <3>2. QED  BY <1>1, <1>5, <2>2, <3>1, RoundTripU64 DEF Kept, AtLimit, UnsignedTypes
  <2>3. QED  BY <2>1, <2>2
<1>6. CASE T \in {"Int8", "Int16", "UInt8", "UInt16"}
  BY <1>6 DEF ValueToOperand, GetType, OperandToValue, Stored, Kept, AtLimit
<1>7. QED
  BY <1>2, <1>3, <1>4, <1>5, <1>6 DEF IntTypes, SignedTypes, UnsignedTypes

-----------------------------------------------------------------------------
(* Conversions between integer types.                                      *)

\* Quotient and remainder of any integer.
LEMMA DivMod ==
    ASSUME NEW n \in Nat \ {0}, NEW v \in Int
    PROVE  /\ v \div n \in Int /\ v % n \in 0 .. n - 1
           /\ v = n * (v \div n) + (v % n)
OBVIOUS

\* There is one remainder.
LEMMA OneRemainder ==
    ASSUME NEW n \in Nat \ {0}, NEW q \in Int, NEW p \in Int,
           NEW r \in 0 .. n - 1, NEW s \in 0 .. n - 1, n * q + r = n * p + s
    PROVE  r = s
<1>1. CASE q = p
  BY <1>1
<1>2. CASE q >= p + 1
  <2>1. n * (q - p) >= n
    BY <1>2
  <2>2. QED  BY <2>1
<1>3. CASE q <= p - 1
  <2>1. n * (p - q) >= n
    BY <1>3
  <2>2. QED  BY <2>1
<1>4. QED  BY <1>1, <1>2, <1>3

\* A number r that differs from v by a multiple of n is its remainder.
LEMMA RemainderIs ==
    ASSUME NEW n \in Nat \ {0}, NEW v \in Int, NEW q \in Int, NEW r \in 0 .. n - 1,
           v = r + q * n
    PROVE  v % n = r
<1>1. v = n * (v \div n) + (v % n) /\ v \div n \in Int /\ v % n \in 0 .. n - 1
  BY DivMod
<1>2. v = n * q + r
  OBVIOUS
<1>3. n * (v \div n) + (v % n) = n * q + r
  BY <1>1, <1>2
<1>4. QED  BY <1>1, <1>3, OneRemainder

LEMMA Half ==
    ASSUME NEW n \in Nat, n % 2 = 0
    PROVE  n = 2 * (n \div 2) /\ n \div 2 \in Nat
OBVIOUS

\* What is known of the sizes of two types: they are even, and the larger one is
\* a multiple of the other.
LEMMA SizeOfType ==
    ASSUME NEW T \in IntTypes
    PROVE  /\ Size(T) \in Nat \ {0} /\ Size(T) % 2 = 0
           /\ Size(T) \in {Values8, Values16, Values32, Values64}
           /\ ValuesOf(T) = IF T \in SignedTypes
                            THEN -(Size(T) \div 2) .. Size(T) \div 2 - 1
                            ELSE 0 .. Size(T) - 1
  BY ValuesAssumption
     DEF Size, ValuesOf, Lowest, Highest, IntTypes, SignedTypes, UnsignedTypes

LEMMA Multiple ==
    ASSUME NEW n \in Nat \ {0}, NEW m \in Nat \ {0}, m % n = 0
    PROVE  \E k \in Nat : m = k * n
<1>1. m = (m \div n) * n /\ m \div n \in Nat
  BY DivMod
<1>2. QED  BY <1>1

LEMMA SizesDivide ==
    ASSUME NEW S \in IntTypes, NEW D \in IntTypes, Size(D) >= Size(S)
    PROVE  \E k \in Nat : Size(D) = k * Size(S)
<1>1. PICK a \in Nat : Values16 = a * Values8
  BY ValuesAssumption, WidthsAssumption, Multiple
<1>2. PICK b \in Nat : Values32 = b * Values16
  BY ValuesAssumption, WidthsAssumption, Multiple
<1>3. PICK c \in Nat : Values64 = c * Values32
  BY ValuesAssumption, WidthsAssumption, Multiple
<1>4. /\ Values8 = 1 * Values8 /\ Values16 = 1 * Values16
      /\ Values32 = 1 * Values32 /\ Values64 = 1 * Values64
  BY ValuesAssumption
<1>5. /\ Values32 = (b * a) * Values8 /\ Values64 = (c * b) * Values16
      /\ Values64 = (c * (b * a)) * Values8
  BY ValuesAssumption, <1>1, <1>2, <1>3
<1>6. b * a \in Nat /\ c * b \in Nat /\ c * (b * a) \in Nat /\ 1 \in Nat
  OBVIOUS
<1>7. /\ Size(S) \in {Values8, Values16, Values32, Values64}
      /\ Size(D) \in {Values8, Values16, Values32, Values64}
  BY SizeOfType
<1>8. CASE Size(S) = Values8
  BY <1>1, <1>4, <1>5, <1>6, <1>7, <1>8
<1>9. CASE Size(S) = Values16
  BY <1>2, <1>4, <1>5, <1>6, <1>7, <1>9, ValuesAssumption
<1>10. CASE Size(S) = Values32
  BY <1>3, <1>4, <1>6, <1>7, <1>10, ValuesAssumption
<1>11. CASE Size(S) = Values64
  <2>1. Size(D) = Values64
    BY <1>7, <1>11, ValuesAssumption
  <2>2. QED  BY <1>4, <1>6, <1>11, <2>1
<1>12. QED  BY <1>7, <1>8, <1>9, <1>10, <1>11

\* static_cast yields the value of the type that differs from its argument by a
\* multiple of the width ...
LEMMA CastIs ==
    ASSUME NEW T \in IntTypes, NEW v \in Int, NEW w \in ValuesOf(T), NEW j \in Int,
           v = w + j * Size(T)
    PROVE  Cast(T, v) = w
<1> DEFINE n == Size(T)
<1>1. n \in Nat \ {0} /\ n % 2 = 0 /\ w \in Int
      /\ w \in (IF T \in SignedTypes THEN -(n \div 2) .. n \div 2 - 1 ELSE 0 .. n - 1)
      /\ Highest(T) = (IF T \in SignedTypes THEN n \div 2 - 1 ELSE n - 1)
  BY SizeOfType DEF Highest
<1>2. n = 2 * (n \div 2) /\ n \div 2 \in Nat
  BY <1>1, Half
<1>3. Cast(T, v) = IF v % n > Highest(T) THEN (v % n) - n ELSE v % n
  BY DEF Cast
<1>4. v = w + j * n
  OBVIOUS
<1> HIDE DEF n
<1>5. CASE w >= 0
  <2>1. w \in 0 .. n - 1 /\ w <= Highest(T)
    BY <1>1, <1>2, <1>5
  <2>2. v % n = w
    BY <1>1, <1>4, <2>1, RemainderIs
  <2>3. QED  BY <1>1, <1>2, <1>3, <2>1, <2>2
<1>6. CASE w < 0
  <2>1. w + n \in 0 .. n - 1 /\ w + n > Highest(T)
    BY <1>1, <1>2, <1>6
  <2>2. v = (w + n) + (j - 1) * n /\ j - 1 \in Int
    BY <1>1, <1>4
  <2>3. v % n = w + n
    BY <1>1, <2>1, <2>2, RemainderIs
  <2>4. QED  BY <1>1, <1>2, <1>3, <2>1, <2>3
<1>7. QED  BY <1>1, <1>5, <1>6

\* ... and there is one for every integer.
LEMMA CastValue ==
    ASSUME NEW T \in IntTypes, NEW v \in Int
    PROVE  /\ Cast(T, v) \in ValuesOf(T)
           /\ \E j \in Int : Cast(T, v) = v + j * Size(T)
<1> DEFINE n == Size(T)
<1>1. n \in Nat \ {0} /\ n % 2 = 0
      /\ ValuesOf(T) = (IF T \in SignedTypes THEN -(n \div 2) .. n \div 2 - 1 ELSE 0 .. n - 1)
      /\ Highest(T) = (IF T \in SignedTypes THEN n \div 2 - 1 ELSE n - 1)
  BY SizeOfType DEF Highest
<1>2. n = 2 * (n \div 2) /\ n \div 2 \in Nat
  BY <1>1, Half
<1>3. Cast(T, v) = IF v % n > Highest(T) THEN (v % n) - n ELSE v % n
  BY DEF Cast
<1>4. v \div n \in Int /\ v % n \in 0 .. n - 1 /\ v = n * (v \div n) + (v % n)
  BY <1>1, DivMod
<1> HIDE DEF n
<1>5. Cast(T, v) \in ValuesOf(T)
  BY <1>1, <1>2, <1>3, <1>4
<1> DEFINE q == v \div n
<1>6. v % n = v + (-q) * n /\ (v % n) - n = v + (-q - 1) * n /\ -q \in Int /\ -q - 1 \in Int
  BY <1>1, <1>4
<1> HIDE DEF q
<1>7. \E j \in Int : Cast(T, v) = v + j * n
  BY <1>3, <1>6
<1>8. QED  BY <1>5, <1>7 DEF n

\* A cast to a type that is no narrower is undone by a cast back.
LEMMA CastBack ==
    ASSUME NEW S \in IntTypes, NEW D \in IntTypes, NEW v \in ValuesOf(S),
           Size(D) >= Size(S)
    PROVE  Cast(S, Cast(D, v)) = v
<1>1. v \in Int /\ Size(S) \in Nat \ {0}
  BY SizeOfType
<1>2. PICK j \in Int : Cast(D, v) = v + j * Size(D)
  BY <1>1, CastValue
<1>3. PICK k \in Nat : Size(D) = k * Size(S)
  BY SizesDivide
<1>4. Cast(D, v) = v + (j * k) * Size(S) /\ j * k \in Int
  BY <1>1, <1>2, <1>3
<1>5. Cast(D, v) \in Int
  BY <1>1, <1>4
<1>6. QED  BY <1>4, <1>5, CastIs

\* The conversion between two integer types is a cast, also to the type itself.
LEMMA ConvertIsCast ==
    ASSUME NEW S \in IntTypes, NEW D \in IntTypes, NEW v \in ValuesOf(S)
    PROVE  Convert(S, D, v) = {Typed(D, Cast(D, v))}
<1>1. CASE S = D
  <2>1. v \in Int /\ Size(S) \in Int /\ v = v + 0 * Size(S)
    BY SizeOfType
  <2>2. Cast(D, v) = v
    BY <1>1, <2>1, CastIs
  <2>3. QED  BY <1>1, <2>2 DEF Convert, IntTypes, FloatTypes, SignedTypes, UnsignedTypes
<1>2. CASE S # D
  BY <1>2 DEF Convert, IntTypes, FloatTypes, SignedTypes, UnsignedTypes
<1>3. QED  BY <1>1, <1>2

\* Whatever the program has left on the stack, if the operands there are read as
\* they were packed, then every conversion of an integer among them to a type
\* that is no narrower, and back, gives the integer again: nothing is lost by the
\* two casts, nor by packing and reading what they yield.
THEOREM WideningKeepsInteger ==
    RoundTrip => WideningIsLossless
<1> SUFFICES ASSUME RoundTrip, NEW i \in DOMAIN stack, NEW D \in IntTypes,
                    GetType(stack[i]) \in IntTypes,
                    Size(D) >= Size(GetType(stack[i])),
                    ~AtLimit(D, Cast(D, OperandToValue(stack[i])))
             PROVE  ThereAndBack(stack[i], D) = {OperandToValue(stack[i])}
  BY DEF WideningIsLossless
<1> DEFINE S == GetType(stack[i])
           v == OperandToValue(stack[i])
           w == Cast(D, v)
<1>1. S = values[i].type /\ v = Kept(S, values[i].value) /\ values[i].value \in ValuesOf(S)
  BY DEF RoundTrip
<1>2. v \in ValuesOf(S) /\ ~AtLimit(S, v)
  <2>1. 0 \in ValuesOf(S) /\ ~AtLimit(S, 0)
    BY SizeOfType, Sizes DEF AtLimit, Abs
  <2>2. QED  BY <1>1, <2>1 DEF Kept
<1>3. v \in Int
  BY <1>2, SizeOfType
<1>4. S \in IntTypes /\ Size(D) >= Size(S) /\ ~AtLimit(D, w)
  OBVIOUS
<1> DEFINE backs == UNION {Convert(D, S, OperandToValue(ValueToOperand(D, there.value))) :
                              there \in Convert(S, D, v)}
<1>5. ThereAndBack(stack[i], D) =
        {OperandToValue(ValueToOperand(S, back.value)) : back \in backs}
  BY DEF ThereAndBack
<1> HIDE DEF S, v
<1>6. Convert(S, D, v) = {Typed(D, w)}
  BY <1>2, <1>4, ConvertIsCast
<1>7. w \in ValuesOf(D)
  BY <1>3, CastValue
<1> HIDE DEF w
<1>8. OperandToValue(ValueToOperand(D, w)) = w
  BY <1>4, <1>7, OperandKeepsInteger DEF Kept
<1>9. Convert(D, S, w) = {Typed(S, v)}
  BY <1>2, <1>4, <1>7, ConvertIsCast, CastBack DEF w
<1>10. OperandToValue(ValueToOperand(S, v)) = v
  BY <1>2, <1>4, OperandKeepsInteger DEF Kept
<1>11. backs = {Typed(S, v)}
  BY <1>6, <1>8, <1>9 DEF Typed
<1> HIDE DEF backs
<1>12. \A back \in backs : OperandToValue(ValueToOperand(S, back.value)) = v
  BY <1>10, <1>11 DEF Typed
<1>13. ThereAndBack(stack[i], D) = {v}
  BY <1>5, <1>11, <1>12
<1>14. QED  BY <1>13 DEF v

-----------------------------------------------------------------------------
(* Recursive functions over an interval.                                   *)

\* What holds of the first number of an interval, and of each one that follows
\* one it holds of, holds of them all.
LEMMA IntervalInduction ==
    ASSUME NEW a \in Int, NEW N \in Int, NEW P,
           a \in P, \A n \in a + 1 .. N : n - 1 \in P => n \in P
    PROVE  a .. N \subseteq P
<1> DEFINE T == {j \in Nat : a + j \in a .. N /\ a + j \notin P}
<1>1. T = {}
  <2> SUFFICES ASSUME T # {}
               PROVE  FALSE
    OBVIOUS
  <2>1. PICK j \in T : \A i \in T : ~(<<i, j>> \in OpToRel(<, Nat))
    <3>1. T \subseteq Nat
      OBVIOUS
    <3> HIDE DEF T
    <3>2. QED  BY <3>1, NatLessThanWellFounded, WFMin
  <2>2. j \in Nat /\ a + j \in a .. N /\ a + j \notin P
    OBVIOUS
  <2>3. j # 0
    <3>1. j = 0 => a + j = a
      OBVIOUS
    <3>2. QED  BY <2>2, <3>1
  <2>4. j - 1 \in Nat /\ a + j \in a + 1 .. N /\ (a + j) - 1 = a + (j - 1)
        /\ a + (j - 1) \in a .. N /\ j - 1 < j
    BY <2>2, <2>3
  <2>5. a + (j - 1) \notin P
    BY <2>2, <2>4
  <2>6. j - 1 \in T
    BY <2>4, <2>5
  <2>7. <<j - 1, j>> \in OpToRel(<, Nat)
    BY <2>2, <2>4 DEF OpToRel
  <2>8. QED  BY <2>1, <2>6, <2>7
<1>2. ASSUME NEW n \in a .. N
      PROVE  n \in P
  <2>1. n - a \in Nat /\ a + (n - a) = n
    OBVIOUS
  <2>2. n - a \notin T
    BY <1>1
  <2>3. QED  BY <2>1, <2>2
<1>3. QED  BY <1>2

\* A function that begins with b and goes on by the steps F: it exists, and its
\* values are in S when b is and the steps do not leave S.
Runs(f, a, N, b, F) == f = [n \in a .. N |-> IF n = a THEN b ELSE F[n][f[n - 1]]]

LEMMA RecursionExists ==
    ASSUME NEW a \in Int, NEW N \in Int, a <= N, NEW S, NEW b \in S,
           NEW F \in [a + 1 .. N -> [S -> S]]
    PROVE  \E f \in [a .. N -> S] : Runs(f, a, N, b, F)
<1> DEFINE P == {n \in a .. N : \E f \in [a .. n -> S] : Runs(f, a, n, b, F)}
<1>1. a \in P
  <2> DEFINE f == [n \in a .. a |-> b]
  <2>1. a .. a = {a}
    OBVIOUS
  <2>2. f \in [a .. a -> S] /\ Runs(f, a, a, b, F)
    BY <2>1 DEF Runs
  <2>3. a \in a .. N
    OBVIOUS
  <2> HIDE DEF f
  <2>4. QED  BY <2>2, <2>3
<1>2. ASSUME NEW m \in a + 1 .. N, m - 1 \in P
      PROVE  m \in P
  <2>1. PICK f \in [a .. m - 1 -> S] : Runs(f, a, m - 1, b, F)
    BY <1>2
  <2> DEFINE g == [n \in a .. m |-> IF n = m THEN F[m][f[m - 1]] ELSE f[n]]
  <2>2. /\ m \in Int /\ m \in a .. m /\ m # a /\ m - 1 \in a .. m - 1 /\ m - 1 \in a .. m
        /\ m - 1 # m /\ m \in a .. N
        /\ \A n \in a .. m : n # m => n \in a .. m - 1
        /\ \A n \in a .. m : n # a => n - 1 \in a .. m - 1 /\ n - 1 \in a .. m /\ n - 1 # m
    OBVIOUS
  <2>3. f[m - 1] \in S
    BY <2>2
  <2>4. F[m][f[m - 1]] \in S
    BY <2>3
  <2>5. g \in [a .. m -> S]
    BY <2>2, <2>4
  <2>6. \A n \in a .. m - 1 : f[n] = IF n = a THEN b ELSE F[n][f[n - 1]]
    BY <2>1 DEF Runs
  <2>7. \A n \in a .. m : g[n] = IF n = a THEN b ELSE F[n][g[n - 1]]
    <3> TAKE n \in a .. m
    <3>1. CASE n = m
      <4>1. g[n] = F[m][f[m - 1]] /\ g[m - 1] = f[m - 1]
        BY <2>2, <3>1
      <4> HIDE DEF g
      <4>2. QED  BY <2>2, <3>1, <4>1
    <3>2. CASE n # m
      <4>1. g[n] = f[n] /\ n \in a .. m - 1 /\ (n # a => g[n - 1] = f[n - 1])
        BY <2>2, <3>2
      <4> HIDE DEF g
      <4>2. QED  BY <2>6, <4>1
    <3>3. QED  BY <3>1, <3>2
  <2>8. g = [n \in a .. m |-> g[n]]
    OBVIOUS
  <2> HIDE DEF g
  <2>9. Runs(g, a, m, b, F)
    BY <2>7, <2>8 DEF Runs
  <2>10. QED  BY <2>2, <2>5, <2>9
<1>3. a .. N \subseteq P
  <2> HIDE DEF P
  <2>1. QED  BY <1>1, <1>2, IntervalInduction
<1>4. N \in P
  BY <1>3
<1>5. QED  BY <1>4

\* Powers of two: Pow2 is a function with the equation of its definition.
LEMMA Powers ==
    /\ Pow2 \in [0 .. MaxDigits -> Nat \ {0}]
    /\ Pow2[0] = 1
    /\ \A n \in 1 .. MaxDigits : Pow2[n] = 2 * Pow2[n - 1]
<1> DEFINE F == [n \in 1 .. MaxDigits |-> [x \in Nat \ {0} |-> 2 * x]]
<1>1. MaxDigits \in Nat /\ 0 + 1 .. MaxDigits = 1 .. MaxDigits
  BY DEF MaxDigits
<1>2. F \in [0 + 1 .. MaxDigits -> [Nat \ {0} -> Nat \ {0}]]
  BY <1>1
<1>3. PICK f \in [0 .. MaxDigits -> Nat \ {0}] : Runs(f, 0, MaxDigits, 1, F)
  <2> HIDE DEF F
  <2>1. 0 \in Int /\ MaxDigits \in Int /\ 0 <= MaxDigits /\ 1 \in Nat \ {0}
    BY <1>1
  <2>2. QED  BY <1>2, <2>1, RecursionExists
<1>4. \A n \in 0 .. MaxDigits : n # 0 => n - 1 \in 0 .. MaxDigits /\ n \in 1 .. MaxDigits
  BY <1>1
<1>5. \A n \in 0 .. MaxDigits : n # 0 => F[n][f[n - 1]] = 2 * f[n - 1]
  BY <1>4
<1>6. f = [n \in 0 .. MaxDigits |-> IF n = 0 THEN 1 ELSE 2 * f[n - 1]]
  <2>1. f = [n \in 0 .. MaxDigits |-> IF n = 0 THEN 1 ELSE F[n][f[n - 1]]]
    BY <1>3 DEF Runs
  <2> HIDE DEF F
  <2>2. QED  BY <1>5, <2>1
<1>7. Pow2 = [n \in 0 .. MaxDigits |-> IF n = 0 THEN 1 ELSE 2 * Pow2[n - 1]]
  BY <1>6 DEF Pow2
<1>8. 0 \in 0 .. MaxDigits /\ \A n \in 1 .. MaxDigits : n \in 0 .. MaxDigits /\ n # 0
  BY <1>1
<1>9. Pow2[0] = 1 /\ \A n \in 1 .. MaxDigits : Pow2[n] = 2 * Pow2[n - 1]
  BY <1>7, <1>8
<1>10. \A n \in 0 .. MaxDigits : Pow2[n] \in Nat \ {0}
  <2> DEFINE P == {n \in 0 .. MaxDigits : Pow2[n] \in Nat \ {0}}
  <2>1. 0 \in P
    BY <1>8, <1>9
  <2>2. \A n \in 0 + 1 .. MaxDigits : n - 1 \in P => n \in P
    <3> SUFFICES ASSUME NEW n \in 1 .. MaxDigits, Pow2[n - 1] \in Nat \ {0}
                 PROVE  n \in P
      BY <1>1
    <3>1. n \in 0 .. MaxDigits /\ Pow2[n] = 2 * Pow2[n - 1]
      BY <1>8, <1>9
    <3>2. Pow2[n] \in Nat \ {0}
      BY <3>1
    <3>3. QED  BY <3>1, <3>2
  <2>3. 0 .. MaxDigits \subseteq P
    <3>1. 0 \in Int /\ MaxDigits \in Int
      BY <1>1
    <3> HIDE DEF P
    <3>2. QED  BY <2>1, <2>2, <3>1, IntervalInduction
  <2>4. QED  BY <2>3
<1>11. QED  BY <1>7, <1>9, <1>10

-----------------------------------------------------------------------------
(* Numbers and their bits.                                                 *)

LEMMA DigitsOf ==
    ASSUME NEW T \in UnsignedTypes
    PROVE  Digits(T) \in 0 .. MaxDigits /\ Pow2[Digits(T)] = Size(T)
  BY DigitsAssumption DEF Digits

\* s adds up the powers of two of the bits in B, the lowest first.
Adds(s, D, B) ==
    /\ s \in [0 .. D -> Int]
    /\ s[0] = 0
    /\ \A n \in 1 .. D : s[n] = s[n - 1] + (IF n - 1 \in B THEN Pow2[n - 1] ELSE 0)

LEMMA FromBitsAdds ==
    ASSUME NEW T \in UnsignedTypes, NEW B
    PROVE  \E s : Adds(s, Digits(T), B) /\ FromBits(T, B) = s[Digits(T)]
<1> DEFINE D == Digits(T)
           bit(i) == IF i \in B THEN Pow2[i] ELSE 0
           F == [n \in 1 .. D |-> [x \in Int |-> x + bit(n - 1)]]
           sum == CHOOSE s : s = [n \in 0 .. D |-> IF n = 0 THEN 0 ELSE s[n - 1] + bit(n - 1)]
<1>1. D \in Nat /\ D <= MaxDigits /\ MaxDigits \in Nat /\ 0 + 1 .. D = 1 .. D
  BY DigitsOf DEF MaxDigits
<1>2. FromBits(T, B) = sum[D]
  BY DEF FromBits
<1> HIDE DEF D
<1>3. \A n \in 1 .. D : bit(n - 1) \in Int
  <2>1. \A n \in 1 .. D : n - 1 \in 0 .. MaxDigits
    BY <1>1
  <2>2. QED  BY <2>1, Powers
<1> HIDE DEF bit
<1>4. F \in [0 + 1 .. D -> [Int -> Int]]
  <2>1. \A n \in 1 .. D : [x \in Int |-> x + bit(n - 1)] \in [Int -> Int]
    BY <1>3
  <2>2. F \in [1 .. D -> [Int -> Int]]
    BY <2>1
  <2> HIDE DEF F
  <2>3. QED  BY <1>1, <2>2
<1>5. PICK f \in [0 .. D -> Int] : Runs(f, 0, D, 0, F)
  <2> HIDE DEF F
  <2>1. 0 \in Int /\ D \in Int /\ 0 <= D
    BY <1>1
  <2>2. QED  BY <1>4, <2>1, RecursionExists
<1>6. \A n \in 0 .. D : n # 0 => n - 1 \in 0 .. D /\ n \in 1 .. D
  BY <1>1
<1>7. \A n \in 0 .. D : n # 0 => F[n][f[n - 1]] = f[n - 1] + bit(n - 1)
  BY <1>6
<1>8. f = [n \in 0 .. D |-> IF n = 0 THEN 0 ELSE f[n - 1] + bit(n - 1)]
  <2>1. f = [n \in 0 .. D |-> IF n = 0 THEN 0 ELSE F[n][f[n - 1]]]
    BY <1>5 DEF Runs
  <2> HIDE DEF F
  <2>2. QED  BY <1>7, <2>1
<1>9. sum = [n \in 0 .. D |-> IF n = 0 THEN 0 ELSE sum[n - 1] + bit(n - 1)]
  BY <1>8
<1> HIDE DEF sum
<1>10. 0 \in 0 .. D /\ \A n \in 1 .. D : n \in 0 .. D /\ n # 0
  BY <1>1
<1>11. sum[0] = 0 /\ \A n \in 1 .. D : sum[n] = sum[n - 1] + bit(n - 1)
  BY <1>9, <1>10
<1>12. sum \in [0 .. D -> Int]
  <2> DEFINE P == {n \in 0 .. D : sum[n] \in Int}
  <2>1. 0 \in P
    BY <1>10, <1>11
  <2>2. \A n \in 0 + 1 .. D : n - 1 \in P => n \in P
    BY <1>1, <1>3, <1>10, <1>11
  <2>3. 0 .. D \subseteq P
    <3>1. 0 \in Int /\ D \in Int
      BY <1>1
    <3> HIDE DEF P
    <3>2. QED  BY <2>1, <2>2, <3>1, IntervalInduction
  <2>4. \A n \in 0 .. D : sum[n] \in Int
    BY <2>3
  <2>5. QED  BY <1>9, <2>4
<1>13. Adds(sum, D, B)
  BY <1>11, <1>12 DEF Adds, bit
<1>14. QED  BY <1>2, <1>13 DEF D

\* The bits below n make a number below 2^n.
LEMMA SumBelow ==
    ASSUME NEW D \in 0 .. MaxDigits, NEW B, NEW s, Adds(s, D, B)
    PROVE  \A n \in 0 .. D : s[n] \in 0 .. Pow2[n] - 1
<1> DEFINE P == {n \in 0 .. D : s[n] \in 0 .. Pow2[n] - 1}
<1>1. D \in Int /\ 0 \in 0 .. D /\ MaxDigits \in Nat
  BY DEF MaxDigits
<1>2. 0 \in P
  BY <1>1, Powers DEF Adds
<1>3. ASSUME NEW n \in 0 + 1 .. D, n - 1 \in P
      PROVE  n \in P
  <2>1. n \in 1 .. D /\ n \in 0 .. D /\ n \in 1 .. MaxDigits /\ n - 1 \in 0 .. MaxDigits
    BY <1>1
  <2>2. Pow2[n] = 2 * Pow2[n - 1] /\ Pow2[n - 1] \in Nat \ {0}
    BY <2>1, Powers
  <2>3. s[n] = s[n - 1] + (IF n - 1 \in B THEN Pow2[n - 1] ELSE 0)
    BY <2>1 DEF Adds
  <2>4. s[n - 1] \in 0 .. Pow2[n - 1] - 1
    BY <1>3
  <2>5. s[n] \in 0 .. Pow2[n] - 1
    BY <2>2, <2>3, <2>4
  <2>6. QED  BY <2>1, <2>5
<1>4. 0 .. D \subseteq P
  <2> HIDE DEF P
  <2>1. QED  BY <1>1, <1>2, <1>3, IntervalInduction
<1>5. QED  BY <1>4

\* A power of two is a multiple of each lower one.
LEMMA PowerMultiple ==
    ASSUME NEW i \in 0 .. MaxDigits
    PROVE  \A n \in i .. MaxDigits : \E q \in Nat : Pow2[n] = q * Pow2[i]
<1> DEFINE P == {n \in i .. MaxDigits : \E q \in Nat : Pow2[n] = q * Pow2[i]}
<1>1. i \in Int /\ MaxDigits \in Int /\ i \in i .. MaxDigits
  BY DEF MaxDigits
<1>2. Pow2[i] \in Nat
  BY Powers
<1>3. i \in P
  <2>1. Pow2[i] = 1 * Pow2[i] /\ 1 \in Nat
    BY <1>2
  <2>2. QED  BY <1>1, <2>1
<1>4. ASSUME NEW n \in i + 1 .. MaxDigits, n - 1 \in P
      PROVE  n \in P
  <2>1. n \in 1 .. MaxDigits /\ n \in i .. MaxDigits
    BY <1>1
  <2>2. PICK q \in Nat : Pow2[n - 1] = q * Pow2[i]
    BY <1>4
  <2>3. Pow2[n] = 2 * Pow2[n - 1]
    BY <2>1, Powers
  <2>4. Pow2[n] = (2 * q) * Pow2[i] /\ 2 * q \in Nat
    BY <1>2, <2>2, <2>3
  <2>5. QED  BY <2>1, <2>4
<1>5. i .. MaxDigits \subseteq P
  <2> HIDE DEF P
  <2>1. QED  BY <1>1, <1>3, <1>4, IntervalInduction
<1>6. QED  BY <1>5

\* A number r below p, and a multiple of p: quotient and remainder.
LEMMA QuotientIs ==
    ASSUME NEW p \in Nat \ {0}, NEW v \in Int, NEW q \in Int, NEW r \in 0 .. p - 1,
           v = r + q * p
    PROVE  v \div p = q
<1>1. v % p = r
  BY RemainderIs
<1>2. v = p * (v \div p) + (v % p) /\ v \div p \in Int
  BY DivMod
<1> DEFINE x == v \div p
<1>3. p * x = p * q /\ x \in Int
  BY <1>1, <1>2
<1> HIDE DEF x
<1>4. x = q
  <2>1. CASE x > q
    <3>1. p * (x - q) > 0
      BY <2>1, <1>3
    <3>2. QED  BY <3>1, <1>3
  <2>2. CASE x < q
    <3>1. p * (q - x) > 0
      BY <2>2, <1>3
    <3>2. QED  BY <3>1, <1>3
  <2>3. QED  BY <1>3, <2>1, <2>2
<1>5. QED  BY <1>4 DEF x

\* Whatever is added for the higher bits leaves bit i alone.
LEMMA BitOfSum ==
    ASSUME NEW D \in 0 .. MaxDigits, NEW B, NEW s, Adds(s, D, B), NEW i \in 0 .. D - 1
    PROVE  (s[D] \div Pow2[i]) % 2 = 1 <=> i \in B
<1> DEFINE p == Pow2[i]
           b == IF i \in B THEN 1 ELSE 0
           P == {n \in i + 1 .. D : \E k \in Nat : s[n] = s[i] + (b + 2 * k) * p}
<1>1. /\ D \in Int /\ MaxDigits \in Nat /\ i \in Int /\ i + 1 \in 1 .. D
      /\ i \in 0 .. MaxDigits /\ i + 1 \in 1 .. MaxDigits /\ i \in 0 .. D /\ i + 1 \in i + 1 .. D
      /\ D \in i + 1 .. D /\ (i + 1) - 1 = i
  BY DEF MaxDigits
<1>2. p \in Nat \ {0} /\ Pow2[i + 1] = 2 * p /\ b \in {0, 1} /\ (b = 1 <=> i \in B)
  BY <1>1, Powers
<1>3. s[i] \in 0 .. p - 1
  BY <1>1, SumBelow
<1>4. i + 1 \in P
  <2>1. s[i + 1] = s[i] + (IF i \in B THEN p ELSE 0)
    BY <1>1 DEF Adds
  <2>2. s[i + 1] = s[i] + (b + 2 * 0) * p /\ 0 \in Nat
    BY <1>2, <1>3, <2>1
  <2> HIDE DEF b, p
  <2>3. QED  BY <1>1, <2>2
<1>5. ASSUME NEW n \in (i + 1) + 1 .. D, n - 1 \in P
      PROVE  n \in P
  <2>1. n \in i + 1 .. D /\ n \in 1 .. D /\ n - 1 \in i + 1 .. MaxDigits /\ n \in Int
    BY <1>1
  <2>2. PICK k \in Nat : s[n - 1] = s[i] + (b + 2 * k) * p
    BY <1>5
  <2>3. PICK q \in Nat : Pow2[n - 1] = q * Pow2[i + 1]
    <3>1. i + 1 \in 0 .. MaxDigits
      BY <1>1
    <3>2. QED  BY <2>1, <3>1, PowerMultiple
  <2>4. s[n] = s[n - 1] + (IF n - 1 \in B THEN Pow2[n - 1] ELSE 0)
    BY <2>1 DEF Adds
  <2> DEFINE m == IF n - 1 \in B THEN k + q ELSE k
  <2> HIDE DEF b, p
  <2>5. m \in Nat
    OBVIOUS
  <2>6. s[n] = s[i] + (b + 2 * m) * p
    <3>1. CASE n - 1 \in B
      <4>1. s[n] = s[i] + (b + 2 * k) * p + q * (2 * p)
        BY <1>2, <2>2, <2>3, <2>4, <3>1
      <4>2. (b + 2 * k) * p + q * (2 * p) = (b + 2 * (k + q)) * p
        BY <1>2
      <4>3. (b + 2 * k) * p \in Int /\ q * (2 * p) \in Int
        BY <1>2
      <4>4. QED  BY <1>3, <3>1, <4>1, <4>2, <4>3
    <3>2. CASE n - 1 \notin B
      <4>1. (b + 2 * k) * p \in Int
        BY <1>2
      <4>2. QED  BY <1>3, <2>2, <2>4, <3>2, <4>1
    <3>3. QED  BY <3>1, <3>2
  <2> HIDE DEF m
  <2>7. QED  BY <2>1, <2>5, <2>6
<1>6. i + 1 .. D \subseteq P
  <2>1. i + 1 \in Int
    BY <1>1
  <2> HIDE DEF P
  <2>2. QED  BY <1>1, <1>4, <1>5, <2>1, IntervalInduction
<1>7. PICK k \in Nat : s[D] = s[i] + (b + 2 * k) * p
  BY <1>1, <1>6
<1> HIDE DEF b, p
<1>8. b + 2 * k \in Int /\ s[D] \in Int
  <2>1. D \in 0 .. D
    BY <1>1
  <2>2. QED  BY <1>2, <2>1 DEF Adds
<1>9. s[D] \div p = b + 2 * k
  BY <1>2, <1>3, <1>7, <1>8, QuotientIs
<1>10. (b + 2 * k) % 2 = b
  BY <1>2
<1>11. QED  BY <1>2, <1>9, <1>10 DEF p

\* The bits of a number add up to the number: what is left above them is its
\* quotient.
LEMMA SumOfBits ==
    ASSUME NEW T \in UnsignedTypes, NEW v \in Nat, NEW s,
           Adds(s, Digits(T), Bits(T, v))
    PROVE  \A n \in 0 .. Digits(T) : v = s[n] + (v \div Pow2[n]) * Pow2[n]
<1> DEFINE D == Digits(T)
           P == {n \in 0 .. D : v = s[n] + (v \div Pow2[n]) * Pow2[n]}
<1>1. /\ D \in 0 .. MaxDigits /\ MaxDigits \in Nat /\ D \in Int /\ 0 \in 0 .. D
  BY DigitsOf DEF MaxDigits
<1>2. Adds(s, D, Bits(T, v)) /\ \A i \in 0 .. D - 1 : i \in Bits(T, v) <=> (v \div Pow2[i]) % 2 = 1
  BY DEF Bits
<1> HIDE DEF D
<1>3. 0 \in P
  <2>1. v \div 1 = v
    OBVIOUS
  <2>2. QED  BY <1>1, <1>2, <2>1, Powers DEF Adds
<1>4. ASSUME NEW n \in 0 + 1 .. D, n - 1 \in P
      PROVE  n \in P
  <2> DEFINE p == Pow2[n - 1]
             q == v \div p
             c == q % 2
             h == q \div 2
  <2>1. /\ n \in 1 .. D /\ n \in 0 .. D /\ n \in 1 .. MaxDigits
        /\ n - 1 \in 0 .. MaxDigits /\ n - 1 \in 0 .. D - 1 /\ n - 1 \in 0 .. D
    BY <1>1
  <2>2. Pow2[n] = 2 * p /\ p \in Nat \ {0}
    BY <2>1, Powers
  <2>3. v = s[n - 1] + q * p
    BY <1>4
  <2>4. s[n] = s[n - 1] + (IF n - 1 \in Bits(T, v) THEN p ELSE 0)
    BY <1>2, <2>1 DEF Adds
  <2>5. n - 1 \in Bits(T, v) <=> c = 1
    BY <1>2, <2>1
  <2>6. s[n - 1] \in 0 .. p - 1
    BY <1>1, <1>2, <2>1, SumBelow
  <2>7. q \in Int
    <3>1. v \in Int
      OBVIOUS
    <3> HIDE DEF p
    <3>2. QED  BY <2>2, <3>1, DivMod
  <2> HIDE DEF p, q
  <2>8. c \in {0, 1} /\ h \in Int /\ q = 2 * h + c
    BY <2>7
  <2> HIDE DEF c, h
  <2>9. s[n] = s[n - 1] + c * p /\ s[n] \in 0 .. 2 * p - 1
    BY <2>2, <2>4, <2>5, <2>6, <2>8
  <2>10. v = s[n] + h * (2 * p)
    <3>1. (2 * h + c) * p = c * p + h * (2 * p)
      BY <2>2, <2>8
    <3>2. c * p \in Int /\ h * (2 * p) \in Int
      BY <2>2, <2>8
    <3>3. QED  BY <2>3, <2>6, <2>8, <2>9, <3>1, <3>2
  <2>11. v \div (2 * p) = h
    <3>1. 2 * p \in Nat \ {0} /\ v \in Int
      BY <2>2
    <3>2. QED  BY <2>8, <2>9, <2>10, <3>1, QuotientIs
  <2>12. QED  BY <2>1, <2>2, <2>10, <2>11
<1>5. 0 .. D \subseteq P
  <2>1. 0 \in Int
    OBVIOUS
  <2> HIDE DEF P
  <2>2. QED  BY <1>1, <1>3, <1>4, <2>1, IntervalInduction
<1>6. QED  BY <1>5 DEF D

\* Bits and FromBits undo each other, for every width: what apply_bitwise_and, or
\* and xor yield is the one number of the type that has the bits they ask for.
THEOREM BitsAreNumbers ==
    ASSUME NEW T \in UnsignedTypes
    PROVE  /\ \A B \in SUBSET (0 .. Digits(T) - 1) :
                 FromBits(T, B) \in ValuesOf(T) /\ Bits(T, FromBits(T, B)) = B
           /\ \A v \in ValuesOf(T) : FromBits(T, Bits(T, v)) = v
<1> DEFINE D == Digits(T)
<1>1. D \in 0 .. MaxDigits /\ Pow2[D] = Size(T) /\ D \in 0 .. D
  BY DigitsOf DEF MaxDigits
<1>2. ValuesOf(T) = 0 .. Size(T) - 1 /\ Size(T) \in Nat \ {0}
  BY SizeOfType DEF IntTypes, SignedTypes, UnsignedTypes
<1>3. ASSUME NEW B \in SUBSET (0 .. D - 1)
      PROVE  FromBits(T, B) \in ValuesOf(T) /\ Bits(T, FromBits(T, B)) = B
  <2>1. PICK s : Adds(s, D, B) /\ FromBits(T, B) = s[D]
    BY FromBitsAdds
  <2>2. s[D] \in 0 .. Size(T) - 1
    BY <1>1, <2>1, SumBelow
  <2>3. \A i \in 0 .. D - 1 : (s[D] \div Pow2[i]) % 2 = 1 <=> i \in B
    BY <1>1, <2>1, BitOfSum
  <2>4. Bits(T, s[D]) = B
    BY <2>3 DEF Bits
  <2>5. QED  BY <1>2, <2>1, <2>2, <2>4
<1>4. ASSUME NEW v \in ValuesOf(T)
      PROVE  FromBits(T, Bits(T, v)) = v
  <2>1. PICK s : Adds(s, D, Bits(T, v)) /\ FromBits(T, Bits(T, v)) = s[D]
    BY FromBitsAdds
  <2>2. v \in Nat /\ v \in 0 .. Size(T) - 1
    BY <1>2
  <2>3. v = s[D] + (v \div Size(T)) * Size(T)
    BY <1>1, <2>1, <2>2, SumOfBits
  <2>4. v \div Size(T) = 0
    <3>1. v = v + 0 * Size(T) /\ 0 \in Int
      BY <1>2, <2>2
    <3>2. QED  BY <1>2, <2>2, <3>1, QuotientIs
  <2>5. s[D] \in Int
    BY <1>1, <2>1 DEF Adds
  <2>6. QED  BY <1>2, <2>1, <2>3, <2>4, <2>5
<1>5. QED  BY <1>3, <1>4

-----------------------------------------------------------------------------
(* The instructions.                                                       *)

Types == IntTypes \cup FloatTypes

\* What an operand of type T may denote, and the outcomes of an instruction.
Numbers(T) ==
    IF T \in IntTypes THEN ValuesOf(T) ELSE Int \cup NotWhole
Denoted == {r \in [type : Types, value : UNION {Numbers(T) : T \in Types}] :
                r.value \in Numbers(r.type)}
Outcomes == Denoted \cup {Error}

Operand(r) == ValueToOperand(r.type, r.value)

\* The operands that a value may be packed in. A double that was loaded may have
\* another one than a double that was computed.
Encodings(r) ==
    {Operand(r)} \cup
    {op \in {FromF64(r.value)} : r.type = "Float64" /\ op # Invalid}

\* The inductive invariant: every operand is an encoding of the value kept for it,
\* and this value is one of its type.
NInv ==
    /\ values \in Seq(Denoted) /\ Len(values) <= 2
    /\ stack = [i \in 1 .. Len(values) |-> stack[i]]
    /\ \A i \in 1 .. Len(values) : stack[i] \in Encodings(values[i])

LEMMA TypedDenoted ==
    ASSUME NEW T \in Types, NEW v \in Numbers(T)
    PROVE  Typed(T, v) \in Denoted /\ Typed(T, v) \in Outcomes
  BY DEF Typed, Denoted, Outcomes

LEMMA DenotedTyped ==
    ASSUME NEW r \in Denoted
    PROVE  /\ r.type \in Types /\ r.value \in Numbers(r.type)
           /\ r = Typed(r.type, r.value) /\ r # Error
  BY DEF Denoted, Typed, Error, Types, IntTypes, FloatTypes, SignedTypes, UnsignedTypes

\* A double with a tag of its own is rotated and rotated back.
LEMMA RoundTripF64 ==
    ASSUME NEW v \in Int \cup NotWhole, HighExponent(v) \in kDoubleWordSelfTags
    PROVE  /\ GetType(EncodeF64(v)) = "Float64"
           /\ OperandToValue(EncodeF64(v)) = v
<1>1. v \in Int
  <2>1. v \in NotWhole => HighExponent(v) \in {7, 0, 2, 5}
    BY DEF NotWhole, HighExponent
  <2>2. QED  BY <2>1 DEF kDoubleWordSelfTags
<1> DEFINE op == Self(HighExponent(v), SignBit(v, 1), Abs(v))
<1>2. op.overlay = "Self" /\ op.tag = HighExponent(v) /\ op.sign = SignBit(v, 1) /\ op.rest = Abs(v)
  BY DEF Self
<1>3. EncodeF64(v) = op
  BY DEF EncodeF64
<1> HIDE DEF op
<1>4. GetType(op) = "Float64"
  BY <1>2 DEF GetType
<1>5. OperandToValue(op) = IF op.sign = 1 THEN -op.rest ELSE op.rest
  BY <1>2, <1>4 DEF OperandToValue
<1>6. QED  BY <1>1, <1>2, <1>3, <1>4, <1>5 DEF SignBit, Abs

\* Every double is read from what value_to_operand makes of it, and from what
\* fromF64 does if it makes anything.
LEMMA DoubleKept ==
    ASSUME NEW v \in Int \cup NotWhole,
           NEW op \in {ValueToOperand("Float64", v), FromF64(v)}, op # Invalid
    PROVE  GetType(op) = "Float64" /\ OperandToValue(op) = v
<1>1. CASE op \in {Heap("Float64", v), Enum(v)}
  BY <1>1 DEF Heap, Enum, GetType, OperandToValue
<1>2. CASE HighExponent(v) \in kDoubleWordSelfTags /\ op = EncodeF64(v)
  BY <1>2, RoundTripF64
<1>3. QED  BY <1>1, <1>2 DEF ValueToOperand, FromF64

\* No operand that value_to_operand makes is refused.
LEMMA OperandIsValid ==
    ASSUME NEW v
    PROVE  ValueToOperand("Float64", v) # Invalid
  BY DEF ValueToOperand, EncodeF64, Self, Heap, Invalid

\* Whatever an operand denotes is read from it, in each of its encodings; the
\* limits of the signed words are read as zero, which is a value of their types.
LEMMA OperandKept ==
    ASSUME NEW r \in Denoted, NEW op \in Encodings(r)
    PROVE  /\ GetType(op) = r.type
           /\ OperandToValue(op) = Kept(r.type, r.value)
           /\ Kept(r.type, r.value) \in Numbers(r.type)
<1> DEFINE T == r.type
           v == r.value
<1>1. T \in Types /\ v \in Numbers(T)
  BY DenotedTyped
<1>2. /\ T # "Float64" => op = ValueToOperand(T, v)
      /\ T = "Float64" => op \in {ValueToOperand(T, v), FromF64(v)} /\ op # Invalid
  BY OperandIsValid DEF Encodings, Operand
<1> HIDE DEF T, v
<1>3. CASE T \in IntTypes
  <2>1. 0 \in ValuesOf(T)
    BY <1>3, SizeOfType
  <2>2. T # "Float64"
    BY <1>3 DEF IntTypes, SignedTypes, UnsignedTypes
  <2>3. QED  BY <1>1, <1>2, <1>3, <2>1, <2>2, OperandKeepsInteger DEF Numbers, Kept, T, v
<1>4. CASE T = "Float32"
  BY <1>1, <1>2, <1>4 DEF IntTypes, SignedTypes, UnsignedTypes, ValueToOperand,
                          GetType, OperandToValue, Stored, Kept, T, v
<1>5. CASE T = "Float64"
  BY <1>1, <1>2, <1>5, DoubleKept DEF IntTypes, SignedTypes, UnsignedTypes, Numbers, Kept, T, v
<1>6. QED  BY <1>1, <1>3, <1>4, <1>5 DEF Types, FloatTypes

LEMMA CheckedOutcome ==
    ASSUME NEW T \in IntTypes, NEW v
    PROVE  Checked(T, v) \subseteq Outcomes
  BY TypedDenoted DEF Checked, Outcomes, Numbers, Types

\* A promoted operand is one of a type that holds it.
LEMMA PromotedHolds ==
    ASSUME NEW T \in IntTypes
    PROVE  /\ Promoted(T) \in IntTypes
           /\ T \in UnsignedTypes => ValuesOf(T) \subseteq ValuesOf(Promoted(T))
<1>1. Promoted(T) \in IntTypes
  BY DEF Promoted, IntTypes, SignedTypes
<1>2. ASSUME T \in UnsignedTypes, Size(T) < Values32
      PROVE  ValuesOf(T) \subseteq ValuesOf("Int32")
  <2>1. "UInt32" \in IntTypes /\ "Int32" \in IntTypes /\ "Int32" \in SignedTypes
        /\ Size("UInt32") = Values32 /\ Size("Int32") = Values32
    BY DEF IntTypes, SignedTypes, UnsignedTypes, Size
  <2>2. PICK k \in Nat : Values32 = k * Size(T)
    <3>1. Size(T) \in Nat /\ Values32 \in Nat
      BY SizeOfType, Sizes
    <3>2. Size("UInt32") >= Size(T)
      BY <1>2, <2>1, <3>1
    <3>3. \E k \in Nat : Size("UInt32") = k * Size(T)
      BY <2>1, <3>2, SizesDivide
    <3>4. QED  BY <2>1, <3>3
  <2>3. Size(T) \in Nat \ {0} /\ ValuesOf(T) = 0 .. Size(T) - 1
    BY <1>2, SizeOfType DEF IntTypes, SignedTypes, UnsignedTypes
  <2>4. ValuesOf("Int32") = -(Values32 \div 2) .. Values32 \div 2 - 1
    BY <2>1, SizeOfType
  <2>5. k >= 2
    <3>1. k # 0 /\ k # 1
      BY <1>2, <2>2, <2>3
    <3>2. QED  BY <3>1
  <2>6. 2 * Size(T) <= Values32
    <3>1. (k - 2) * Size(T) >= 0
      BY <2>3, <2>5
    <3>2. QED  BY <2>2, <2>3, <3>1
  <2>7. Values32 \in Nat /\ Values32 = 2 * (Values32 \div 2) /\ Values32 \div 2 \in Nat
    BY Sizes
  <2>8. QED  BY <2>3, <2>4, <2>6, <2>7
<1>3. QED  BY <1>1, <1>2 DEF Promoted

LEMMA ArithmeticOutcome ==
    ASSUME NEW op \in Arithmetic, NEW T \in IntTypes, NEW l, NEW r
    PROVE  ApplyArithmetic(op, T, l, r) \subseteq Outcomes
<1>1. {Error} \subseteq Outcomes
  BY DEF Outcomes
<1>2. QED  BY <1>1, CheckedOutcome DEF ApplyArithmetic, Arithmetic

LEMMA PromotedOutcome ==
    ASSUME NEW T \in IntTypes, NEW v \in ValuesOf(Promoted(T))
    PROVE  {Typed(Promoted(T), v)} \subseteq Outcomes
  BY PromotedHolds, TypedDenoted DEF Numbers, Types

LEMMA BitwiseOutcome ==
    ASSUME NEW op \in Bitwise2, NEW T \in IntTypes, NEW l, NEW r
    PROVE  ApplyBitwise(op, T, l, r) \subseteq Outcomes
<1>1. CASE T \notin UnsignedTypes
  BY <1>1 DEF ApplyBitwise, Outcomes
<1>2. CASE T \in UnsignedTypes
  <2> DEFINE B == CASE op = "and" -> Bits(T, l) \cap Bits(T, r)
                    [] op = "or" -> Bits(T, l) \cup Bits(T, r)
                    [] op = "xor" -> SymDiff(Bits(T, l), Bits(T, r))
  <2>1. \A v : Bits(T, v) \in SUBSET (0 .. Digits(T) - 1)
    BY DEF Bits
  <2>2. B \in SUBSET (0 .. Digits(T) - 1)
    BY <2>1 DEF Bitwise2, SymDiff
  <2>3. ApplyBitwise(op, T, l, r) = {Typed(Promoted(T), FromBits(T, B))}
    BY <1>2 DEF ApplyBitwise
  <2> HIDE DEF B
  <2>4. FromBits(T, B) \in ValuesOf(Promoted(T))
    BY <1>2, <2>2, BitsAreNumbers, PromotedHolds
  <2>5. QED  BY <2>3, <2>4, PromotedOutcome
<1>3. QED  BY <1>1, <1>2

LEMMA ShiftOutcome ==
    ASSUME NEW op \in Shifts, NEW T \in IntTypes, NEW e \in ValuesOf(T),
           NEW c \in ValuesOf("UInt8")
    PROVE  ApplyShift(op, T, e, c) \subseteq Outcomes
<1>1. CASE T \notin UnsignedTypes \/ Digits(T) <= c
  BY <1>1 DEF ApplyShift, Outcomes
<1>2. CASE T \in UnsignedTypes /\ ~(Digits(T) <= c)
  <2> DEFINE p == Pow2[c]
             v == IF op = "shl" THEN Cast(Promoted(T), e * p) ELSE e \div p
  <2>1. c \in Nat
    <3>1. "UInt8" \in IntTypes /\ "UInt8" \notin SignedTypes
      BY DEF IntTypes, SignedTypes, UnsignedTypes
    <3>2. QED  BY <3>1, SizeOfType
  <2>2. p \in Nat \ {0}
    <3>1. c \in 0 .. MaxDigits
      BY <1>2, <2>1, DigitsOf DEF MaxDigits
    <3>2. QED  BY <3>1, Powers
  <2>3. ApplyShift(op, T, e, c) = {Typed(Promoted(T), v)}
    BY <1>2 DEF ApplyShift
  <2> HIDE DEF p
  <2>4. ValuesOf(T) = 0 .. Size(T) - 1 /\ Size(T) \in Nat
    BY <1>2, SizeOfType DEF IntTypes, SignedTypes, UnsignedTypes
  <2>5. e \in Nat /\ e * p \in Int
    BY <2>2, <2>4
  <2>6. e \div p \in 0 .. e
    BY <2>2, <2>5
  <2>7. e \div p \in ValuesOf(T)
    BY <2>4, <2>5, <2>6
  <2>8. Cast(Promoted(T), e * p) \in ValuesOf(Promoted(T))
    BY <2>5, PromotedHolds, CastValue
  <2>9. v \in ValuesOf(Promoted(T))
    BY <1>2, <2>7, <2>8, PromotedHolds
  <2> HIDE DEF v
  <2>10. QED  BY <2>3, <2>9, PromotedOutcome
<1>3. QED  BY <1>1, <1>2

LEMMA CompareOutcome ==
    ASSUME NEW l, NEW r
    PROVE  ApplyCompare(l, r) \subseteq Outcomes
<1>1. "Int64" \in IntTypes /\ "Int64" \in SignedTypes /\ Size("Int64") = Values64
  BY DEF IntTypes, SignedTypes, Size
<1>2. Values64 \div 2 \in Nat /\ Values64 \div 2 >= 2
  BY Sizes
<1>3. {-1, 0, 1} \subseteq ValuesOf("Int64")
  BY <1>1, <1>2, SizeOfType
<1>4. \A v \in {-1, 0, 1} : Typed("Int64", v) \in Outcomes
  BY <1>1, <1>3, TypedDenoted DEF Numbers, Types
<1>5. PICK v \in {-1, 0, 1} : ApplyCompare(l, r) = {Typed("Int64", v)}
  BY DEF ApplyCompare
<1>6. QED  BY <1>4, <1>5

LEMMA UnaryOutcome ==
    ASSUME NEW T \in IntTypes, NEW e \in ValuesOf(T)
    PROVE  ApplyNeg(T, e) \subseteq Outcomes /\ ApplyNot(T, e) \subseteq Outcomes
<1>1. -e \in Int /\ -e - 1 \in Int
  BY SizeOfType
<1>2. /\ Cast(Promoted(T), -e) \in ValuesOf(Promoted(T))
      /\ Cast(Promoted(T), -e - 1) \in ValuesOf(Promoted(T))
  BY <1>1, PromotedHolds, CastValue
<1>3. {Error} \subseteq Outcomes
  BY DEF Outcomes
<1>4. QED  BY <1>2, <1>3, PromotedOutcome DEF ApplyNeg, ApplyNot

\* A conversion yields a value of the type that it converts to, or an error.
LEMMA ConvertOutcome ==
    ASSUME NEW S \in Types, NEW D \in Types, NEW v \in Numbers(S)
    PROVE  Convert(S, D, v) \subseteq Outcomes
<1>1. {Error} \subseteq Outcomes
  BY DEF Outcomes
<1>2. CASE D \in IntTypes
  <2>1. 0 \in ValuesOf(D) /\ Highest(D) \in ValuesOf(D) /\ Lowest(D) \in ValuesOf(D)
        /\ Highest(D) \in Int /\ Lowest(D) \in Int /\ ValuesOf(D) = Lowest(D) .. Highest(D)
    <3>1. Size(D) \in Nat \ {0} /\ Size(D) % 2 = 0
      BY <1>2, SizeOfType
    <3>2. QED  BY <3>1 DEF ValuesOf, Highest, Lowest
  <2>2. \A w \in ValuesOf(D) : {Typed(D, w)} \subseteq Outcomes
    BY <1>2, TypedDenoted DEF Numbers
  <2>3. CASE S \in IntTypes
    <3>1. v \in ValuesOf(S)
      BY <2>3 DEF Numbers
    <3>2. v \in Int
      BY <2>3, <3>1, SizeOfType
    <3>3. Convert(S, D, v) = {Typed(D, Cast(D, v))}
      BY <1>2, <2>3, <3>1, ConvertIsCast
    <3>4. Cast(D, v) \in ValuesOf(D)
      BY <1>2, <3>2, CastValue
    <3>5. QED  BY <2>2, <3>3, <3>4
  <2>4. CASE S \notin IntTypes
    <3>1. Convert(S, D, v) = ConvertFloatToInt(D, v)
      BY <1>2, <2>4 DEF Convert, Types, IntTypes, FloatTypes, SignedTypes, UnsignedTypes
    <3>2. v \in NotWhole \/ v \in Int
      BY <2>4 DEF Numbers
    <3>3. CASE v \in NotWhole
      BY <1>1, <2>1, <2>2, <3>1, <3>3 DEF ConvertFloatToInt, NotWhole
    <3>4. CASE v \notin NotWhole
      <4> DEFINE w == IF v >= Highest(D) THEN Highest(D)
                      ELSE IF v <= Lowest(D) THEN Lowest(D) ELSE v
      <4>1. w \in ValuesOf(D)
        BY <2>1, <3>2, <3>4
      <4>2. ConvertFloatToInt(D, v) = {Typed(D, w)}
        BY <3>4 DEF ConvertFloatToInt, NotWhole
      <4> HIDE DEF w
      <4>3. QED  BY <2>2, <3>1, <4>1, <4>2
    <3>5. QED  BY <3>3, <3>4
  <2>5. QED  BY <2>3, <2>4
<1>3. CASE D \in FloatTypes /\ S \in IntTypes
  <2>1. Convert(S, D, v) = ConvertIntToFloat(v)
    BY <1>3 DEF Convert, IntTypes, FloatTypes, SignedTypes, UnsignedTypes
  <2>2. v \in Int
    BY <1>3, SizeOfType DEF Numbers
  <2>3. \A f \in {NegInf, Inf, v} : Typed("Float64", f) \in Outcomes
    BY <2>2, TypedDenoted DEF Numbers, NotWhole, Types, IntTypes, FloatTypes, SignedTypes, UnsignedTypes
  <2>4. QED  BY <2>1, <2>3 DEF ConvertIntToFloat
<1>4. CASE D \in FloatTypes /\ S \in FloatTypes
  <2>1. \A f \in Int \cup NotWhole : {Typed(D, f)} \subseteq Outcomes
    BY <1>4, TypedDenoted DEF Numbers, IntTypes, FloatTypes, SignedTypes, UnsignedTypes
  <2>2. v \in Int \cup NotWhole
    BY <1>4 DEF Numbers, IntTypes, FloatTypes, SignedTypes, UnsignedTypes
  <2>3. CASE S = "Float64" /\ D = "Float32"
    <3>1. Convert(S, D, v) = ConvertDoubleToFloat(v)
      BY <2>3 DEF Convert, IntTypes, FloatTypes, SignedTypes, UnsignedTypes
    <3> DEFINE w == CASE v \in {NaN, Inf, NegInf, NegZero} -> v
                      [] v = Huge -> Inf
                      [] v \in {Subnormal, Tiny} -> 0
                      [] OTHER -> IF v < 0 THEN NegInf ELSE v
    <3>2. w \in Int \cup NotWhole
      BY <2>2 DEF NotWhole
    <3>3. ConvertDoubleToFloat(v) = {Typed(D, w)}
      BY <2>3 DEF ConvertDoubleToFloat
    <3> HIDE DEF w
    <3>4. QED  BY <2>1, <3>1, <3>2, <3>3
  <2>4. CASE ~(S = "Float64" /\ D = "Float32")
    <3>1. Convert(S, D, v) = {Typed(D, v)}
      BY <1>4, <2>4 DEF Convert, IntTypes, FloatTypes, SignedTypes, UnsignedTypes
    <3>2. QED  BY <2>1, <2>2, <3>1
  <2>5. QED  BY <2>3, <2>4
<1>5. QED  BY <1>2, <1>3, <1>4 DEF Types

\* What NInv says of the operands: they are read as values of their types.
LEMMA OperandsRead ==
    ASSUME NInv
    PROVE  /\ Len(stack) = Len(values) /\ DOMAIN stack = 1 .. Len(values)
           /\ Len(values) \in 0 .. 2
           /\ \A i \in 1 .. Len(values) :
                 /\ values[i] \in Denoted
                 /\ values[i].type \in Types /\ values[i].value \in Numbers(values[i].type)
                 /\ stack[i] \in Encodings(values[i])
                 /\ GetType(stack[i]) = values[i].type
                 /\ Loaded(i) = Kept(values[i].type, values[i].value)
                 /\ Loaded(i) \in Numbers(GetType(stack[i]))
<1>1. /\ Len(values) \in Nat /\ Len(values) <= 2
      /\ stack = [i \in 1 .. Len(values) |-> stack[i]]
      /\ \A i \in 1 .. Len(values) : values[i] \in Denoted /\ stack[i] \in Encodings(values[i])
  BY DEF NInv
<1>2. DOMAIN stack = 1 .. Len(values) /\ Len(stack) = Len(values)
  BY <1>1
<1>3. ASSUME NEW i \in 1 .. Len(values)
      PROVE  /\ values[i] \in Denoted
             /\ values[i].type \in Types /\ values[i].value \in Numbers(values[i].type)
             /\ stack[i] \in Encodings(values[i])
             /\ GetType(stack[i]) = values[i].type
             /\ Loaded(i) = Kept(values[i].type, values[i].value)
             /\ Loaded(i) \in Numbers(GetType(stack[i]))
  <2>1. values[i] \in Denoted /\ stack[i] \in Encodings(values[i])
    BY <1>1
  <2>2. values[i].type \in Types /\ values[i].value \in Numbers(values[i].type)
    BY <2>1, DenotedTyped
  <2>3. QED  BY <2>1, <2>2, OperandKept DEF Loaded
<1>4. QED  BY <1>1, <1>2, <1>3

\* A stack of one encoded value.
LEMMA OneOperand ==
    ASSUME NEW r \in Denoted, NEW op \in Encodings(r), values' = <<r>>, stack' = <<op>>
    PROVE  NInv'
<1>1. values' \in Seq(Denoted) /\ Len(values') = 1 /\ values'[1] = r
  OBVIOUS
<1>2. stack' = [i \in 1 .. 1 |-> stack'[i]] /\ stack'[1] = op
  OBVIOUS
<1>3. \A i \in 1 .. 1 : stack'[i] \in Encodings(values'[i])
  BY <1>1, <1>2
<1>4. QED  BY <1>1, <1>2, <1>3 DEF NInv, Encodings, Operand

LEMMA YieldKeeps ==
    ASSUME NInv, NEW results \in SUBSET Outcomes, Yield(results)
    PROVE  NInv'
<1>1. PICK result \in results :
        IF result = Error THEN UNCHANGED <<stack, values>>
        ELSE stack' = <<Operand(result)>> /\ values' = <<result>>
  BY DEF Yield, Operand
<1>2. CASE result = Error
  BY <1>1, <1>2 DEF NInv
<1>3. CASE result # Error
  <2>1. result \in Denoted
    BY <1>3 DEF Outcomes
  <2>2. values' = <<result>> /\ stack' = <<Operand(result)>>
    BY <1>1, <1>3
  <2>3. Operand(result) \in Encodings(result)
    BY DEF Encodings
  <2>4. QED  BY <2>1, <2>2, <2>3, OneOperand
<1>4. QED  BY <1>2, <1>3

LEMMA PushKeeps ==
    ASSUME NInv, NEW T \in DOMAIN Literals, NEW v \in Literals[T], Push(T, v)
    PROVE  NInv'
<1> DEFINE op == CASE T = "Int64" -> FromI64(v)
                   [] T = "UInt64" -> FromU64(v)
                   [] T = "Float64" -> FromF64(v)
                   [] OTHER -> ValueToOperand(T, v)
<1>1. T \in Types /\ v \in Numbers(T)
  BY LiteralsAssumption DEF Types, Numbers, IntTypes, FloatTypes, SignedTypes, UnsignedTypes
<1>2. CASE op = Invalid
  <2>1. UNCHANGED <<stack, values>>
    BY <1>2 DEF Push
  <2>2. QED  BY <2>1 DEF NInv
<1>3. CASE op # Invalid
  <2>1. op = ValueToOperand(T, v) \/ (T = "Float64" /\ op = FromF64(v))
    <3>1. CASE T = "Int64"
      BY <1>3, <3>1 DEF ValueToOperand, FromI64
    <3>2. CASE T = "UInt64"
      BY <1>3, <3>2 DEF ValueToOperand, FromU64
    <3>3. CASE T \notin {"Int64", "UInt64"}
      BY <3>3
    <3>4. QED  BY <3>1, <3>2, <3>3
  <2>2. Len(stack) < 2 /\ stack' = Append(stack, op) /\ values' = Append(values, Typed(T, v))
    BY <1>3 DEF Push
  <2>3. op \in Encodings(Typed(T, v)) /\ Typed(T, v) \in Denoted
    BY <1>1, <1>3, <2>1, TypedDenoted DEF Encodings, Operand, Typed
  <2> HIDE DEF op
  <2> DEFINE n == Len(values)
             r == Typed(T, v)
             O == {stack[i] : i \in 1 .. n}
  <2>4. n \in 0 .. 1 /\ Len(stack) = n /\ values \in Seq(Denoted)
        /\ stack = [i \in 1 .. n |-> stack[i]]
    BY <2>2, OperandsRead DEF NInv
  <2> HIDE DEF r
  <2>5. values' \in Seq(Denoted) /\ Len(values') = n + 1
        /\ \A i \in 1 .. n + 1 : values'[i] = IF i = n + 1 THEN r ELSE values[i]
    BY <2>2, <2>3, <2>4 DEF r
  <2>6. stack \in Seq(O)
    BY <2>4
  <2> HIDE DEF O
  <2>7. stack' = [i \in 1 .. n + 1 |-> stack'[i]]
        /\ \A i \in 1 .. n + 1 : stack'[i] = IF i = n + 1 THEN op ELSE stack[i]
    <3>1. stack \in Seq(O \cup {op}) /\ op \in O \cup {op}
      BY <2>6
    <3>2. stack' \in Seq(O \cup {op}) /\ Len(stack') = n + 1
          /\ \A i \in 1 .. n + 1 : stack'[i] = IF i = n + 1 THEN op ELSE stack[i]
      BY <2>2, <2>4, <3>1
    <3>3. QED  BY <3>2
  <2>8. \A i \in 1 .. n + 1 : i # n + 1 => stack[i] \in Encodings(values[i])
    BY <2>4, OperandsRead
  <2> HIDE DEF n
  <2>9. \A i \in 1 .. n + 1 : stack'[i] \in Encodings(values'[i])
    BY <2>3, <2>5, <2>7, <2>8 DEF r
  <2>10. n + 1 <= 2
    BY <2>4
  <2>11. QED  BY <2>5, <2>7, <2>9, <2>10 DEF NInv, Encodings, Operand
<1>4. QED  BY <1>2, <1>3

LEMMA BinaryKeeps ==
    ASSUME NInv, NEW op \in Arithmetic \cup Bitwise2 \cup Shifts \cup {"compare"}, Binary(op)
    PROVE  NInv'
<1> DEFINE T == GetType(stack[1])
           refused == \/ Len(stack) < 2
                      \/ GetType(stack[2]) # (IF op \in Shifts THEN "UInt8" ELSE T)
           results == IF refused THEN {Error}
                      ELSE CASE op \in Arithmetic -> ApplyArithmetic(op, T, Loaded(1), Loaded(2))
                             [] op \in Bitwise2 -> ApplyBitwise(op, T, Loaded(1), Loaded(2))
                             [] op \in Shifts -> ApplyShift(op, T, Loaded(1), Loaded(2))
                             [] op = "compare" -> ApplyCompare(Loaded(1), Loaded(2))
<1>1. Yield(results) /\ (Len(stack) = 2 => T \in IntTypes)
  BY DEF Binary
<1>2. results \in SUBSET Outcomes
  <2>1. CASE refused
    BY <2>1 DEF Outcomes
  <2>2. CASE ~refused
    <3>1. Len(stack) = 2 /\ 1 \in 1 .. Len(values) /\ 2 \in 1 .. Len(values)
      BY <2>2, OperandsRead
    <3>2. T \in IntTypes
      BY <1>1, <3>1
    <3>3. Loaded(1) \in ValuesOf(T)
      BY <3>1, <3>2, OperandsRead DEF Numbers
    <3>4. op \in Shifts => Loaded(2) \in ValuesOf("UInt8")
      BY <2>2, <3>1, OperandsRead DEF Numbers, IntTypes, UnsignedTypes
    <3> HIDE DEF T
    <3>5. CASE op \in Arithmetic
      BY <2>2, <3>2, <3>5, ArithmeticOutcome DEF Arithmetic, Bitwise2, Shifts
    <3>6. CASE op \in Bitwise2
      BY <2>2, <3>2, <3>6, BitwiseOutcome DEF Arithmetic, Bitwise2, Shifts
    <3>7. CASE op \in Shifts
      BY <2>2, <3>2, <3>3, <3>4, <3>7, ShiftOutcome DEF Arithmetic, Bitwise2, Shifts
    <3>8. CASE op = "compare"
      BY <2>2, <3>8, CompareOutcome DEF Arithmetic, Bitwise2, Shifts
    <3>9. QED  BY <3>5, <3>6, <3>7, <3>8
  <2>3. QED  BY <2>1, <2>2
<1> HIDE DEF results
<1>3. QED  BY <1>1, <1>2, YieldKeeps

LEMMA UnaryKeeps ==
    ASSUME NInv, NEW op \in {"neg", "not"}, Unary(op)
    PROVE  NInv'
<1> DEFINE T == GetType(stack[1])
           results == IF stack = << >> THEN {Error}
                      ELSE IF op = "neg" THEN ApplyNeg(T, Loaded(1))
                      ELSE ApplyNot(T, Loaded(1))
<1>1. Yield(results) /\ Len(stack) < 2 /\ (Len(stack) = 1 => T \in IntTypes)
  BY DEF Unary
<1>2. results \in SUBSET Outcomes
  <2>1. CASE stack = << >>
    BY <2>1 DEF Outcomes
  <2>2. CASE stack # << >>
    <3>1. Len(stack) = 1 /\ 1 \in 1 .. Len(values)
      <4>1. Len(values) # 0
        BY <2>2 DEF NInv
      <4>2. QED  BY <1>1, <4>1, OperandsRead
    <3>2. T \in IntTypes
      BY <1>1, <3>1
    <3>3. Loaded(1) \in ValuesOf(T)
      BY <3>1, <3>2, OperandsRead DEF Numbers
    <3> HIDE DEF T
    <3>4. QED  BY <2>2, <3>2, <3>3, UnaryOutcome
  <2>3. QED  BY <2>1, <2>2
<1> HIDE DEF results
<1>3. QED  BY <1>1, <1>2, YieldKeeps

\* Results with the operands that hold them.
Holdings ==
    UNION {{[result |-> r, operand |-> op] : op \in Encodings(r)} : r \in Outcomes}

LEMMA HoldingsAre ==
    ASSUME NEW held \in Holdings
    PROVE  held.result \in Outcomes /\ held.operand \in Encodings(held.result)
<1>1. PICK r \in Outcomes : \E op \in Encodings(r) : held = [result |-> r, operand |-> op]
  BY DEF Holdings
<1>2. QED  BY <1>1

LEMMA HeldIsHolding ==
    ASSUME NEW r \in Outcomes
    PROVE  Held(r) \in Holdings
<1>1. Operand(r) \in Encodings(r)
  BY DEF Encodings
<1>2. Held(r) = [result |-> r, operand |-> Operand(r)]
  BY DEF Held, Operand
<1>3. QED  BY <1>1, <1>2 DEF Holdings

LEMMA ReconvertedOutcome ==
    ASSUME NEW held \in Holdings, NEW D \in Types
    PROVE  Reconverted(held, D) \subseteq Holdings
<1> DEFINE r == held.result
           op == held.operand
<1>1. r \in Outcomes /\ op \in Encodings(r)
  BY HoldingsAre
<1>2. CASE r = Error \/ GetType(op) = D
  BY <1>2 DEF Reconverted
<1>3. CASE ~(r = Error \/ GetType(op) = D)
  <2>1. Reconverted(held, D) = {Held(x) : x \in Convert(GetType(op), D, OperandToValue(op))}
    BY <1>3 DEF Reconverted
  <2>2. r \in Denoted
    BY <1>1, <1>3 DEF Outcomes
  <2> HIDE DEF r, op
  <2>3. GetType(op) \in Types /\ OperandToValue(op) \in Numbers(GetType(op))
    BY <1>1, <2>2, DenotedTyped, OperandKept
  <2>4. Convert(GetType(op), D, OperandToValue(op)) \subseteq Outcomes
    BY <2>3, ConvertOutcome
  <2>5. QED  BY <2>1, <2>4, HeldIsHolding
<1>4. QED  BY <1>2, <1>3

\* All the conversions that one falls through to yield outcomes.
LEMMA ConvertToKeeps ==
    ASSUME NInv, NEW first \in DOMAIN Conversions, ConvertTo(first)
    PROVE  NInv'
<1> DEFINE a == first - 1
           N == Len(Conversions)
           start == [result |-> values[1], operand |-> stack[1]]
           step(n, X) == UNION {Reconverted(held, Conversions[n]) : held \in X}
           F == [n \in a + 1 .. N |-> [X \in SUBSET Holdings |-> step(n, X)]]
           after == CHOOSE f : f = [n \in a .. N |-> IF n = a THEN {start} ELSE step(n, f[n - 1])]
<1>1. /\ N = 10 /\ a \in 0 .. 9 /\ a \in Int /\ N \in Int /\ a <= N
      /\ \A n \in a + 1 .. N : Conversions[n] \in Types
  BY DEF Conversions, Types, IntTypes, FloatTypes, SignedTypes, UnsignedTypes
<1>2. CASE stack = << >>
  <2>1. UNCHANGED <<stack, values>>
    BY <1>2 DEF ConvertTo
  <2>2. QED  BY <2>1 DEF NInv
<1>3. CASE stack # << >>
  <2>1. PICK held \in after[N] :
          IF held.result = Error THEN stack' = << >> /\ values' = << >>
          ELSE stack' = <<held.operand>> /\ values' = <<held.result>>
    BY <1>3 DEF ConvertTo
  <2>2. start \in Holdings
    <3>1. Len(values) # 0
      BY <1>3 DEF NInv
    <3>2. 1 \in 1 .. Len(values)
      BY <3>1, OperandsRead
    <3>3. values[1] \in Outcomes /\ stack[1] \in Encodings(values[1])
      BY <3>2, OperandsRead DEF Outcomes
    <3>4. QED  BY <3>3 DEF Holdings
  <2>3. \A n \in a + 1 .. N : \A X \in SUBSET Holdings : step(n, X) \in SUBSET Holdings
    BY <1>1, ReconvertedOutcome
  <2> HIDE DEF a, N, step, start
  <2>4. F \in [a + 1 .. N -> [SUBSET Holdings -> SUBSET Holdings]]
    BY <2>3
  <2>5. PICK f \in [a .. N -> SUBSET Holdings] : Runs(f, a, N, {start}, F)
    <3> HIDE DEF F
    <3>1. {start} \in SUBSET Holdings
      BY <2>2
    <3>2. QED  BY <1>1, <2>4, <3>1, RecursionExists
  <2>6. \A n \in a .. N : n # a => F[n][f[n - 1]] = step(n, f[n - 1])
    <3>1. \A n \in a .. N : n # a => n \in a + 1 .. N /\ n - 1 \in a .. N
      BY <1>1
    <3>2. QED  BY <3>1
  <2>7. f = [n \in a .. N |-> IF n = a THEN {start} ELSE step(n, f[n - 1])]
    <3>1. f = [n \in a .. N |-> IF n = a THEN {start} ELSE F[n][f[n - 1]]]
      BY <2>5 DEF Runs
    <3> HIDE DEF F
    <3>2. QED  BY <2>6, <3>1
  <2>8. after = [n \in a .. N |-> IF n = a THEN {start} ELSE step(n, after[n - 1])]
    BY <2>7
  <2> HIDE DEF after
  <2>9. \A n \in a .. N : after[n] \in SUBSET Holdings
    <3> DEFINE P == {n \in a .. N : after[n] \in SUBSET Holdings}
    <3>1. a \in P
      BY <1>1, <2>2, <2>8
    <3>2. \A n \in a + 1 .. N : n - 1 \in P => n \in P
      <4>1. \A n \in a + 1 .. N : n \in a .. N /\ n # a
        BY <1>1
      <4>2. \A n \in a + 1 .. N : after[n] = step(n, after[n - 1])
        BY <2>8, <4>1
      <4>3. QED  BY <2>3, <4>1, <4>2
    <3>3. a .. N \subseteq P
      <4> HIDE DEF P
      <4>1. QED  BY <1>1, <3>1, <3>2, IntervalInduction
    <3>4. QED  BY <3>3
  <2>10. held.result \in Outcomes /\ held.operand \in Encodings(held.result)
    <3>1. N \in a .. N
      BY <1>1
    <3>2. held \in Holdings
      BY <2>1, <2>9, <3>1
    <3>3. QED  BY <3>2, HoldingsAre
  <2>11. CASE held.result = Error
    BY <2>1, <2>11 DEF NInv
  <2>12. CASE held.result # Error
    <3>1. held.result \in Denoted
      BY <2>10, <2>12 DEF Outcomes
    <3>2. QED  BY <2>1, <2>10, <2>12, <3>1, OneOperand
  <2>13. QED  BY <2>11, <2>12
<1>4. QED  BY <1>2, <1>3

LEMMA NumbersInvariant ==
    Spec => []NInv
<1>1. Init => NInv
  BY DEF Init, NInv
<1>2. NInv /\ [Next]_vars => NInv'
  <2> SUFFICES ASSUME NInv, [Next]_vars
               PROVE  NInv'
    OBVIOUS
  <2>1. ASSUME NEW T \in DOMAIN Literals, NEW v \in Literals[T], Push(T, v)
        PROVE  NInv'
    BY <2>1, PushKeeps
  <2>2. ASSUME NEW op \in Arithmetic \cup Bitwise2 \cup Shifts \cup {"compare"}, Binary(op)
        PROVE  NInv'
    BY <2>2, BinaryKeeps
  <2>3. ASSUME NEW op \in {"neg", "not"}, Unary(op)
        PROVE  NInv'
    BY <2>3, UnaryKeeps
  <2>4. ASSUME NEW first \in DOMAIN Conversions, ConvertTo(first)
        PROVE  NInv'
    BY <2>4, ConvertToKeeps
  <2>5. CASE UNCHANGED vars
    BY <2>5 DEF vars, NInv
  <2>6. QED  BY <2>1, <2>2, <2>3, <2>4, <2>5 DEF Next
<1>3. QED  BY <1>1, <1>2, PTL DEF Spec

\* Whatever program of numeric instructions is run, for types of any width: what
\* was computed is a value of its type, and the operand has the type and the value
\* that were packed into it, the two limits of the signed words aside.
THEOREM OperandsHoldTheirValues ==
    Spec => []RoundTrip
<1>1. NInv => RoundTrip
  <2> SUFFICES ASSUME NInv, NEW i \in DOMAIN stack
               PROVE  /\ values[i].type \in IntTypes => values[i].value \in ValuesOf(values[i].type)
                      /\ GetType(stack[i]) = values[i].type
                      /\ OperandToValue(stack[i]) = Kept(values[i].type, values[i].value)
    BY DEF RoundTrip
  <2>1. QED  BY OperandsRead DEF Loaded, Numbers
<1>2. QED  BY <1>1, NumbersInvariant, PTL

\* In every reachable state, for types of any width, converting an integer on the
\* stack to a type that is no narrower and back gives it again.
THEOREM WideningLosesNothing ==
    Spec => []WideningIsLossless
  BY OperandsHoldTheirValues, WideningKeepsInteger, PTL
=============================================================================
