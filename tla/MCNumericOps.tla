---------------------------- MODULE MCNumericOps ----------------------------
(* Types of 2, 3, 5 and 6 bits: every integer of every type is loaded.       *)
EXTENDS NumericOps, TLC

Doubles == {-100, -3, -1, 0, 1, 3, 100} \cup NotWhole

MCLiterals ==
    [T \in IntTypes |-> ValuesOf(T)] @@ "Float64" :> Doubles
        @@ "Float32" :> (Doubles \ {Subnormal, Tiny, Huge})
=============================================================================
