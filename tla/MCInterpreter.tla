---------------------------- MODULE MCInterpreter ----------------------------
(* A main program, a function, a static with an initializer that catches, an  *)
(* instance, and of another segment a function and a variable.                *)
EXTENDS Interpreter, TLC

CONSTANTS f, far, init, preset, ctor, static, instance, variable, here, there, exc

MCInitializer == static :> init @@ variable :> preset @@ instance :> ctor
MCSize == Main :> 4 @@ f :> 2 @@ far :> 2 @@ init :> 3 @@ preset :> 2 @@ ctor :> 2
MCSegmentOf == [p \in Procs |-> IF p \in {far, preset} THEN there ELSE here]

Check(from, to, catch) == [from |-> from, to |-> to, catch |-> catch, catches |-> {exc}]

MCChecks == [p \in Procs |->
    CASE p = Main -> <<Check(1, 3, 4)>>
      [] p = init -> <<Check(1, 2, 3)>>
      [] OTHER -> << >>]
=============================================================================
