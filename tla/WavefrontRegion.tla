--------------------------- MODULE WavefrontRegion --------------------------
(***************************************************************************)
(* The computation of one work unit, qt_wavefront_regionworker             *)
(* (src/src/wavefront.c lines 27-56), and the sequential reference        *)
(* qt_basic_wavefront (lines 356-363), as pure operators.                  *)
(*                                                                         *)
(* A cell is computed by func(left, belowleft, below, output).  The value *)
(* type is left open: Func is a fixed combination of the three inputs      *)
(* that tells their positions apart, and UNDEF is the value of a cell not *)
(* yet written; a cell computed from an UNDEF input is UNDEF.              *)
(*                                                                         *)
(* A unit has V rows (left->count) and CC computed columns                *)
(* (below->count - 1).  left is indexed 0..V-1, below 0..CC (index 0 is    *)
(* the belowleft corner), and R[<<col, row>>] is element row of the       *)
(* column R[col].                                                          *)
(***************************************************************************)
EXTENDS Integers, SequencesExt

UNDEF == -1

Func(l, bl, b) ==
  IF l = UNDEF \/ bl = UNDEF \/ b = UNDEF THEN UNDEF ELSE 7 * l + 3 * bl + b

(* The loops of qt_wavefront_regionworker visit the cells column by        *)
(* column, bottom to top.                                                  *)
CodeOrder(CC, V) == [i \in 1..CC * V |-> <<(i - 1) \div V, (i - 1) % V>>]

(* Mutant of RegionStep: the first column passes left[row] as belowleft.  *)
RegionStepSameRow(R, p, left, below) ==
  LET c == p[1]
      r == p[2]
      args == CASE c = 0 /\ r = 0 -> <<left[0], below[0], below[1]>>
                [] c = 0          -> <<left[r], left[r], R[<<0, r - 1>>]>>
                [] r = 0          -> <<R[<<c - 1, 0>>], below[c], below[c + 1]>>
                [] OTHER          -> <<R[<<c - 1, r>>], R[<<c - 1, r - 1>>], R[<<c, r - 1>>]>>
  IN  [R EXCEPT ![p] = Func(args[1], args[2], args[3])]

(* One call of func, with the arguments each of the four code paths        *)
(* passes: the first cell, the rest of the first column, the bottom cell *)
(* of a later column, and the rest of a later column.                     *)
RegionStep(R, p, left, below) ==
  LET c == p[1]
      r == p[2]
      args == CASE c = 0 /\ r = 0 -> <<left[0], below[0], below[1]>>
                [] c = 0          -> <<left[r], left[r - 1], R[<<0, r - 1>>]>>
                [] r = 0          -> <<R[<<c - 1, 0>>], below[c], below[c + 1]>>
                [] OTHER          -> <<R[<<c - 1, r>>], R[<<c - 1, r - 1>>], R[<<c, r - 1>>]>>
  IN  [R EXCEPT ![p] = Func(args[1], args[2], args[3])]

RegionWorker(left, below, V, CC) ==
  FoldLeft(LAMBDA R, p : RegionStep(R, p, left, below),
           [p \in (0..CC - 1) \X (0..V - 1) |-> UNDEF],
           CodeOrder(CC, V))

(* Lines 136-139: the above slat is the top of left followed by the top    *)
(* row of R.                                                               *)
Above(left, R, V, CC) ==
  [c \in 0..CC |-> IF c = 0 THEN left[V - 1] ELSE R[<<c - 1, V - 1>>]]

(* qt_basic_wavefront on a grid G of cols columns and rows rows: every     *)
(* cell off column 0 and row 0, column by column.                          *)
BasicWavefront(G, cols, rows) ==
  FoldLeft(LAMBDA g, p :
             [g EXCEPT ![p] = Func(g[<<p[1] - 1, p[2]>>], g[<<p[1] - 1, p[2] - 1>>],
                                   g[<<p[1], p[2] - 1>>])],
           G,
           [i \in 1..(cols - 1) * (rows - 1) |->
              <<1 + ((i - 1) \div (rows - 1)), 1 + ((i - 1) % (rows - 1))>>])

-----------------------------------------------------------------------------
(* A unit of V rows and CC columns computes what the sequential wavefront  *)
(* computes on the grid whose column 0 is belowleft and left and whose     *)
(* row 0 is below: every cell of R, and so the right strut (R[CC-1]), and *)
(* the above slat.                                                         *)
UnitMatchesBasic(V, CC) ==
  LET left  == [r \in 0..V - 1 |-> 1 + r]
      below == [c \in 0..CC |-> 50 + c]
      R     == RegionWorker(left, below, V, CC)
      G0    == [p \in (0..CC) \X (0..V) |->
                  CASE p[2] = 0 -> below[p[1]]
                    [] p[1] = 0 -> left[p[2] - 1]
                    [] OTHER    -> UNDEF]
      G     == BasicWavefront(G0, CC + 1, V + 1)
  IN  /\ \A p \in DOMAIN R : R[p] = G[<<p[1] + 1, p[2] + 1>>]
      /\ Above(left, R, V, CC) = [c \in 0..CC |-> G[<<c, V>>]]

=============================================================================
