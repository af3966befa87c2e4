--------------------------- MODULE MCLyricBuilder ---------------------------
(***************************************************************************)
(* An instance of LyricBuilder for TLC: a requests b and, once it has      *)
(* received b, c; b and c request nothing; the domain of x is not          *)
(* registered.                                                             *)
(***************************************************************************)
EXTENDS LyricBuilder

CONSTANTS a, b, c, x

MCTasks == {a, b, c, x}

MCRequests ==
    [t \in MCTasks |-> [D \in SUBSET MCTasks |->
        CASE t = a -> IF b \in D THEN {b, c} ELSE {b}
          [] OTHER -> {}]]

\* Any registered targets, or an unregistered one alone.
CleanCalls == (SUBSET {a, b, c} \ {{}}) \cup {{x}}

\* A call can fail with some of its targets enqueued.
MixedCalls == {{a, x}, {b}}
=============================================================================
