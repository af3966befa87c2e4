----------------------------- MODULE NumericOps -----------------------------
(***************************************************************************)
(* The numeric instructions of the interpreter on its data stack:          *)
(* numeric_ops.cpp, bitwise_ops.cpp, compare_ops.cpp and convert_ops.cpp,  *)
(* over the packed operands of module Operands.                            *)
(*                                                                         *)
(* An instruction reads its operands with the getter of the type of the    *)
(* first one, computes in C++, and packs the result by the overload of     *)
(* value_to_operand that C++ selects: an integer narrower than int has been *)
(* promoted to int by then, unless the instruction casts it back.          *)
(*                                                                         *)
(* Floating point numbers are the values NotWhole and the whole numbers    *)
(* that every width can hold; arithmetic on them is left out, conversion   *)
(* from and to them is not.                                                *)
(***************************************************************************)
EXTENDS Operands, Sequences, FiniteSetsExt

CONSTANT Literals    \* type -> the values a program may load

ASSUME LiteralsAssumption ==
    /\ DOMAIN Literals = IntTypes \cup FloatTypes
    /\ \A T \in IntTypes : Literals[T] \subseteq ValuesOf(T)
    /\ \A T \in FloatTypes : Literals[T] \subseteq Int \cup NotWhole

\* The digits of the widest type.
MaxDigits == 64

VARIABLES
    stack,     \* the operands, the last is the top
    values,    \* what was given to value_to_operand for each: type and value
    failed     \* an instruction returned an error: the interpreter has stopped

vars == <<stack, values, failed>>

Typed(T, v) == [type |-> T, value |-> v]

\* Mutant: the highest value is taken for a negative one.
CastBelowHighest(T, v) ==
    LET m == v % Size(T)
    IN IF m >= Highest(T) THEN m - Size(T) ELSE m

\* static_cast<T> of an integer: modulo the width of T.
Cast(T, v) ==
    LET m == v % Size(T)
    IN IF m > Highest(T) THEN m - Size(T) ELSE m

\* The integral promotions: what an operator of C++ yields on operands of T.
Promoted(T) == IF Size(T) < Values32 THEN "Int32" ELSE T

\* Division as in C++: towards zero.
Quotient(l, r) ==
    IF (l < 0) = (r < 0) THEN Abs(l) \div Abs(r) ELSE -(Abs(l) \div Abs(r))

\* 1 << n, written as a recursion that can be reasoned about.
Pow2[n \in 0 .. MaxDigits] == IF n = 0 THEN 1 ELSE 2 * Pow2[n - 1]

ASSUME DigitsAssumption ==
    \A T \in UnsignedTypes : \E n \in 0 .. MaxDigits : Pow2[n] = Size(T)

\* numeric_limits<T>::digits of an unsigned type.
Digits(T) == CHOOSE n \in 0 .. MaxDigits : Pow2[n] = Size(T)

\* The bits that are set in a number of an unsigned type, and the number of bits.
Bits(T, v) == {i \in 0 .. Digits(T) - 1 : (v \div Pow2[i]) % 2 = 1}
FromBits(T, B) ==
    LET sum[n \in 0 .. Digits(T)] ==
            IF n = 0 THEN 0
            ELSE sum[n - 1] + (IF n - 1 \in B THEN Pow2[n - 1] ELSE 0)
    IN sum[Digits(T)]

-----------------------------------------------------------------------------
(* The outcome of an instruction: the set of the results it may have, each  *)
(* a typed value, or an error. Undefined behaviour has more than one.       *)

Error == Typed("Error", 0)

\* boost::safe_numerics::checked: the exact result, or an exception.
Checked(T, v) == IF v \in ValuesOf(T) THEN {Typed(T, v)} ELSE {Error}

Arithmetic == {"add", "sub", "mul", "div"}
Bitwise2 == {"and", "or", "xor"}
Shifts == {"shl", "shr"}

\* apply_add, apply_sub, apply_mul, apply_div.
ApplyArithmetic(op, T, l, r) ==
    CASE op = "add" -> Checked(T, l + r)
      [] op = "sub" -> Checked(T, l - r)
      [] op = "mul" -> Checked(T, l * r)
      [] op = "div" -> IF r = 0 THEN {Error} ELSE Checked(T, Quotient(l, r))

\* apply_bitwise_and, _or and _xor, of unsigned operands only.
ApplyBitwise(op, T, l, r) ==
    IF T \notin UnsignedTypes THEN {Error}
    ELSE {Typed(Promoted(T),
            FromBits(T, CASE op = "and" -> Bits(T, l) \cap Bits(T, r)
                       [] op = "or" -> Bits(T, l) \cup Bits(T, r)
                       [] op = "xor" -> SymDiff(Bits(T, l), Bits(T, r))))}

\* apply_bitwise_shl and _shr: the count is a UInt8 below the digits of T. A
\* promoted operand is shifted as an int and keeps what leaves its own width.
ApplyShift(op, T, e, c) ==
    IF T \notin UnsignedTypes \/ Digits(T) <= c THEN {Error}
    ELSE {Typed(Promoted(T),
            IF op = "shl" THEN Cast(Promoted(T), e * Pow2[c]) ELSE e \div Pow2[c])}

\* compare: an Int64 of -1, 0 or 1.
ApplyCompare(l, r) ==
    {Typed("Int64", IF l <= r THEN IF l = r THEN 0 ELSE -1 ELSE 1)}

\* apply_neg: on the promoted operand, and unchecked. The negation of the
\* lowest int or int64 is undefined; it wraps.
ApplyNeg(T, e) == {Typed(Promoted(T), Cast(Promoted(T), -e))}

\* apply_bitwise_not: of an unsigned operand.
ApplyNot(T, e) ==
    IF T \notin UnsignedTypes THEN {Error}
    ELSE {Typed(Promoted(T), Cast(Promoted(T), -e - 1))}

\* convert_floating_to_integral: it saturates, and a NaN, a zero or what is next
\* to zero becomes zero; a number that is not normal is refused.
ConvertFloatToInt(D, r) ==
    CASE r \in {NaN, NegZero, Tiny} -> {Typed(D, 0)}
      [] r \in {Inf, Huge} -> {Typed(D, Highest(D))}
      [] r = NegInf -> {Typed(D, Lowest(D))}
      [] r = Subnormal -> {Error}
      [] OTHER -> {Typed(D, IF r >= Highest(D) THEN Highest(D)
                            ELSE IF r <= Lowest(D) THEN Lowest(D) ELSE r)}

\* convert_integral_to_floating, to double also when a float is asked for. The
\* greatest double does not fit in the 64-bit integer it is cast to, so what a
\* positive number is compared with is undefined; the least positive one is 0
\* as an integer, and every negative number is below it.
ConvertIntToFloat(v) ==
    {Typed("Float64", f) : f \in IF v < 0 THEN {NegInf} ELSE IF v = 0 THEN {v} ELSE {v, Inf}}

\* convert_double_to_float has the same comparison with the least positive one.
\* Huge is above the greatest float; what is too small for one becomes zero.
ConvertDoubleToFloat(r) ==
    {Typed("Float32",
        CASE r \in {NaN, Inf, NegInf, NegZero} -> r
          [] r = Huge -> Inf
          [] r \in {Subnormal, Tiny} -> 0
          [] OTHER -> IF r < 0 THEN NegInf ELSE r)}

\* convert_to_I8 and the rest: the conversion from S to D.
Convert(S, D, v) ==
    CASE S = D -> {Typed(D, v)}
      [] S \in IntTypes /\ D \in IntTypes -> {Typed(D, Cast(D, v))}
      [] S \in FloatTypes /\ D \in IntTypes -> ConvertFloatToInt(D, v)
      [] S \in IntTypes /\ D \in FloatTypes -> ConvertIntToFloat(v)
      [] S = "Float64" /\ D = "Float32" -> ConvertDoubleToFloat(v)
      [] S = "Float32" /\ D = "Float64" -> {Typed(D, v)}

-----------------------------------------------------------------------------
Init ==
    /\ stack = << >>
    /\ values = << >>
    /\ failed = FALSE

\* The result of an instruction takes the place of its operands, or an error
\* stops the interpreter.
Yield(results) ==
    /\ \E result \in results :
          IF result = Error
          THEN /\ failed' = TRUE
               /\ UNCHANGED <<stack, values>>
          ELSE /\ stack' = <<ValueToOperand(result.type, result.value)>>
               /\ values' = <<result>>
               /\ UNCHANGED failed

\* OP_I8 to OP_F64. The 64-bit immediates are packed with fromI64, fromU64 and
\* fromF64 themselves, with nothing to allocate one that they do not pack; the
\* operand stack takes no invalid operand, and the instruction ignores that it was
\* refused.
Push(T, v) ==
    LET operand == CASE T = "Int64" -> FromI64(v)
                     [] T = "UInt64" -> FromU64(v)
                     [] T = "Float64" -> FromF64(v)
                     [] OTHER -> ValueToOperand(T, v)
    IN /\ ~failed
       /\ Len(stack) < 2
       /\ IF operand = Invalid
          THEN UNCHANGED <<stack, values>>
          ELSE /\ stack' = Append(stack, operand)
               /\ values' = Append(values, Typed(T, v))
       /\ UNCHANGED failed

Loaded(i) == OperandToValue(stack[i])

\* The instructions with two operands: both are read as the type of the first,
\* and one of another type is an error. The count of a shift is a UInt8.
Binary(op) ==
    /\ ~failed
    /\ Len(stack) = 2 => GetType(stack[1]) \in IntTypes
    /\ Yield(
         LET T == GetType(stack[1])
         IN IF \/ Len(stack) < 2
               \/ GetType(stack[2]) # (IF op \in Shifts THEN "UInt8" ELSE T)
            THEN {Error}
            ELSE CASE op \in Arithmetic -> ApplyArithmetic(op, T, Loaded(1), Loaded(2))
                   [] op \in Bitwise2 -> ApplyBitwise(op, T, Loaded(1), Loaded(2))
                   [] op \in Shifts -> ApplyShift(op, T, Loaded(1), Loaded(2))
                   [] op = "compare" -> ApplyCompare(Loaded(1), Loaded(2)))

\* The instructions with one operand.
Unary(op) ==
    /\ ~failed
    /\ Len(stack) < 2
    /\ Len(stack) = 1 => GetType(stack[1]) \in IntTypes
    /\ Yield(IF stack = << >> THEN {Error}
                 ELSE IF op = "neg" THEN ApplyNeg(GetType(stack[1]), Loaded(1))
                 ELSE ApplyNot(GetType(stack[1]), Loaded(1)))

\* The conversions in the order of their instructions.
Conversions == <<"Int8", "Int16", "Int32", "Int64", "UInt8", "UInt16", "UInt32", "UInt64",
                 "Float32", "Float64">>

\* A result with the operand that holds it.
Held(result) ==
    [result |-> result, operand |-> ValueToOperand(result.type, result.value)]

\* What an operand becomes when it is converted to D. One that is of type D is
\* copied as it is; after an error nothing is converted any more.
Reconverted(held, D) ==
    IF held.result = Error \/ GetType(held.operand) = D THEN {held}
    ELSE {Held(result) :
             result \in Convert(GetType(held.operand), D, OperandToValue(held.operand))}

\* OP_TO_I8 to OP_TO_F64: no case ends in a break. Each conversion goes on with
\* the conversions written after it, and the last of them with OP_IMPORT, which
\* is an error: what the stack of the stopped interpreter holds is their result.
ConvertTo(first) ==
    LET after[n \in (first - 1) .. Len(Conversions)] ==
            IF n = first - 1 THEN {[result |-> values[1], operand |-> stack[1]]}
            ELSE UNION {Reconverted(held, Conversions[n]) : held \in after[n - 1]}
    IN /\ ~failed
       /\ Len(stack) < 2
       /\ failed' = TRUE
       /\ IF stack = << >>
          THEN UNCHANGED <<stack, values>>
          ELSE \E held \in after[Len(Conversions)] :
                  IF held.result = Error
                  THEN stack' = << >> /\ values' = << >>
                  ELSE stack' = <<held.operand>> /\ values' = <<held.result>>

Next ==
    \/ \E T \in DOMAIN Literals : \E v \in Literals[T] : Push(T, v)
    \/ \E op \in Arithmetic \cup Bitwise2 \cup Shifts \cup {"compare"} : Binary(op)
    \/ \E op \in {"neg", "not"} : Unary(op)
    \/ \E first \in DOMAIN Conversions : ConvertTo(first)

Spec == Init /\ [][Next]_vars

-----------------------------------------------------------------------------
(* Properties.                                                             *)

\* Whatever was computed is a value of its type, so that nothing has wrapped on
\* the way to value_to_operand; and whichever of the encodings it got, the
\* operand has the type and the value that were packed into it. The two limits
\* of the signed words are left out: they read as zero.
RoundTrip ==
    \A i \in DOMAIN stack :
        /\ values[i].type \in IntTypes => values[i].value \in ValuesOf(values[i].type)
        /\ GetType(stack[i]) = values[i].type
        /\ OperandToValue(stack[i]) = Kept(values[i].type, values[i].value)

\* The value that is left of an operand after a conversion to D and back.
ThereAndBack(op, D) ==
    LET S == GetType(op)
    IN {OperandToValue(ValueToOperand(S, back.value)) :
           back \in UNION {Convert(D, S, OperandToValue(ValueToOperand(D, there.value))) :
                               there \in Convert(S, D, OperandToValue(op))}}

\* A conversion to an integer type that is no narrower, signed or not, loses
\* nothing: converting back, through both encodings, gives the operand again. A
\* value that passes through the limit of the 64-bit word is lost.
WideningIsLossless ==
    \A i \in DOMAIN stack : \A D \in IntTypes :
        LET S == GetType(stack[i])
            v == OperandToValue(stack[i])
        IN (S \in IntTypes /\ Size(D) >= Size(S) /\ ~AtLimit(D, Cast(D, v))) =>
              ThereAndBack(stack[i], D) = {v}
=============================================================================
