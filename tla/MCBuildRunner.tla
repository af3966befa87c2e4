--------------------------- MODULE MCBuildRunner ---------------------------
(***************************************************************************)
(* Instances of BuildRunner for TLC.  Three tasks in the shape the build   *)
(* tasks of lib/lyric_build have: a (compile_object) first requests b      *)
(* (symbolize_linkage) and, having read what b produced, requests c as     *)
(* well; b requests c (parse_archetype); c requests nothing.               *)
(***************************************************************************)
EXTENDS BuildRunner

CONSTANTS a, b, c

MCTasks == {a, b, c}

MCRequests ==
    [t \in MCTasks |-> [D \in SUBSET MCTasks |->
        CASE t = a -> IF b \in D THEN {b, c} ELSE {b}
          [] t = b -> {c}
          [] t = c -> {}]]
=============================================================================
