---------------------------- MODULE MC_XompTasks ----------------------------
(* Instances of XompTasks for TLC.                                         *)
EXTENDS XompTasks

CONSTANTS w1, w2

(* One worker that forks three tasks.                                     *)
MCWorkersOne == {w1}
MCNTOne == [w \in {w1} |-> 3]

(* "single" pattern: w1 forks two tasks while w2 goes to the barrier.     *)
MCWorkersTwo == {w1, w2}
MCNTSingle == [w \in {w1, w2} |-> IF w = w1 THEN 2 ELSE 0]

(* One worker, one task, which forks a child.                              *)
MCNTNested == [w \in {w1} |-> 1]

=============================================================================
