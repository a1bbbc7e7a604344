---------------------------- MODULE WavefrontSpec ---------------------------
(***************************************************************************)
(* What qt_wavefront promises, without queues, strips or workers: the      *)
(* units of an NC by NR lattice are computed one at a time, each exactly   *)
(* once and only after the unit to its left and the unit below it (the     *)
(* units whose right strut and above slat it reads), and the call returns  *)
(* only once every unit has been computed.  Every unit is eventually       *)
(* computed and the call eventually returns.                              *)
(***************************************************************************)
EXTENDS Naturals

CONSTANTS NC, NR

VARIABLES
  computed,  \* computed[u]: unit u has been computed (1) or not (0)
  returned   \* qt_wavefront has returned

avars == <<computed, returned>>

Lattice == (0..NC-1) \X (0..NR-1)

Init ==
  /\ computed = [u \in Lattice |-> 0]
  /\ returned = FALSE

(* The inputs of unit u exist: it is on the left edge or its left          *)
(* neighbour is computed, and on the bottom edge or its lower neighbour    *)
(* is computed.                                                            *)
Ready(u) ==
  /\ u[1] = 0 \/ computed[<<u[1] - 1, u[2]>>] = 1
  /\ u[2] = 0 \/ computed[<<u[1], u[2] - 1>>] = 1

ComputeUnit(u) ==
  /\ ~returned
  /\ computed[u] = 0
  /\ Ready(u)
  /\ computed' = [computed EXCEPT ![u] = 1]
  /\ UNCHANGED returned

Return ==
  /\ ~returned
  /\ \A u \in Lattice : computed[u] = 1
  /\ returned' = TRUE
  /\ UNCHANGED computed

Next == (\E u \in Lattice : ComputeUnit(u)) \/ Return

Spec == Init /\ [][Next]_avars /\ WF_avars(Next)

=============================================================================
