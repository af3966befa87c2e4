--------------------------- MODULE MCArtifactCache ---------------------------
(* Three tasks: one parses a source file, one compiles what was parsed, and  *)
(* one links the result under the same path.                                 *)
EXTENDS ArtifactCache, TLC

CONSTANTS b1, b2, b3, parse, compile, group, ir, obj

MCIdOf == [t \in Tasks |-> t]
MCDeps == parse :> {} @@ compile :> {parse} @@ group :> {compile}
MCOutputs == parse :> {ir} @@ compile :> {obj} @@ group :> {obj}
=============================================================================
