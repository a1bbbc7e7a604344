------------------------------ MODULE WorkShare -----------------------------
(***************************************************************************)
(* What the work-sharing loops of one parallel region promise (spec       *)
(* sections 4.2, 4.3 and 5), without descriptors, chunks or barriers.      *)
(*                                                                         *)
(* The workers of a region meet the loops 1..NLoops in order.  While some  *)
(* worker is in loop l, a step may run any non-empty set of the            *)
(* iterations of l that have not run yet; in an ordered loop a step runs   *)
(* the ordered body of the first iteration that has not run.  A worker     *)
(* leaves loop l only when every iteration of l has run and every worker   *)
(* has reached l: the end of a loop is a barrier.                          *)
(***************************************************************************)
EXTENDS Integers, FiniteSets, FiniteSetsExt

CONSTANTS
  Workers,
  NLoops,      \* the loops of the region, 1..NLoops
  Space,       \* the iteration space of every loop
  OrderedLoop  \* OrderedLoop[l]: loop l has an ordered clause

VARIABLES
  cur,   \* cur[w]: the loop worker w is in; NLoops + 1 once it is past all
  ran    \* ran[l][i]: iteration i of loop l has run (1) or not (0)

avars == <<cur, ran>>

Init ==
  /\ cur = [w \in Workers |-> 1]
  /\ ran = [l \in 1..NLoops |-> [i \in Space |-> 0]]

Remaining(l) == {i \in Space : ran[l][i] = 0}

(* The sets of iterations one step of loop l may run.                      *)
Chunks(l) ==
  IF OrderedLoop[l] THEN {{Min(Remaining(l))}}
  ELSE (SUBSET Remaining(l)) \ {{}}

Run(l) ==
  /\ \E w \in Workers : cur[w] = l
  /\ Remaining(l) # {}
  /\ \E S \in Chunks(l) :
       ran' = [ran EXCEPT ![l] = [i \in Space |-> IF i \in S THEN 1 ELSE @[i]]]
  /\ UNCHANGED cur

Leave(w) ==
  /\ cur[w] <= NLoops
  /\ Remaining(cur[w]) = {}
  /\ \A v \in Workers : cur[v] >= cur[w]
  /\ cur' = [cur EXCEPT ![w] = @ + 1]
  /\ UNCHANGED ran

Next ==
  \/ \E l \in 1..NLoops : Run(l)
  \/ \E w \in Workers : Leave(w)

(* Every iteration is eventually run and every worker eventually leaves    *)
(* each loop.                                                              *)
Spec ==
  /\ Init /\ [][Next]_avars
  /\ WF_avars(\E l \in 1..NLoops : Run(l))
  /\ \A w \in Workers : WF_avars(Leave(w))

=============================================================================
