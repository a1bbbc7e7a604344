---------------------------- MODULE MC_XompLoop ----------------------------
(* Instances of XompLoop for TLC: the loop sequences the runs use.        *)
EXTENDS XompLoop

(* An ordered runtime-scheduled loop, then a static and a guided one: the *)
(* region's one ordered loop and both chunk paths, with the descriptor    *)
(* recycled twice.                                                         *)
MCLoopsMixed ==
  <<[kind |-> "runtime", ordered |-> TRUE], [kind |-> "static", ordered |-> FALSE],
    [kind |-> "guided", ordered |-> FALSE]>>

(* A single ordered guided loop.                                           *)
MCLoopsOrderedGuided == <<[kind |-> "guided", ordered |-> TRUE]>>

(* Two ordered static loops in one region.                                 *)
MCLoopsTwoOrdered ==
  <<[kind |-> "static", ordered |-> TRUE], [kind |-> "static", ordered |-> TRUE]>>

(* A single guided loop.                                                   *)
MCLoopsGuided == <<[kind |-> "guided", ordered |-> FALSE]>>

=============================================================================
