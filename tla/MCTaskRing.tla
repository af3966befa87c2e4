----------------------------- MODULE MCTaskRing -----------------------------
(* Four tasks: rings of none, one, two and more, and a task that leaves from
   the head, the middle and the end of a ring of four. *)
EXTENDS TaskRing, TLC

CONSTANTS main, t1, t2, t3
MCTasks == {main, t1, t2, t3}
=============================================================================
