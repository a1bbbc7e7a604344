----------------------------- MODULE MC_XompSync ----------------------------
(* Instances of XompSync for TLC.                                          *)
EXTENDS XompSync

CONSTANTS w1, w2, w3

MCWorkers == {w1, w2, w3}

(* Each worker enters all three constructs, in different orders, one of  *)
(* them a critical section inside an atomic region.                        *)
MCProgMixed ==
  [w \in MCWorkers |->
     CASE w = w1 -> <<"cs", "ce", "ls", "lu", "as", "ae">>
       [] w = w2 -> <<"ls", "lu", "as", "cs", "ce", "ae">>
       [] w = w3 -> <<"as", "ae", "cs", "ce", "ls", "lu">>]

(* A critical section named A containing one named B, which OpenMP allows. *)
MCProgNestedCritical ==
  [w \in MCWorkers |->
     IF w = w1 THEN <<"cs", "cs", "ce", "ce">> ELSE <<>>]

=============================================================================
