--------------------------- MODULE MC_XompThreads ---------------------------
(* Instances of XompThreads for TLC.                                       *)
EXTENDS XompThreads

(* Every worker of a region may call omp_set_num_threads inside it.        *)
MCCallersAll == HW
(* Only serial code calls it, on the master.                               *)
MCCallersNone == {}
(* Requests up to the pool size; 0 is allowed by the int parameter.        *)
MCRequestsAll == 0..H
MCRequestsPositive == 1..H
(* Requests of at least two threads.                                      *)
MCRequestsTwoUp == 2..H

=============================================================================
