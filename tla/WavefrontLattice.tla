-------------------------- MODULE WavefrontLattice --------------------------
(***************************************************************************)
(* The lattice geometry of qt_wavefront, src/src/wavefront.c lines        *)
(* 209-259, as pure operators.                                             *)
(*                                                                         *)
(* The left edge (vertical, vc elements in qarray segments of vs) is cut  *)
(* into struts.segs strut segments: one per row of work units.  The       *)
(* bottom edge (horizontal, hc elements in segments of hs) holds the      *)
(* corner at index 0 and then one element per column; it is cut into      *)
(* slats.segs slat segments, one per column of work units, and each       *)
(* segment starts with the last element of the one before it (its         *)
(* "belowleft"), so segment i starts at i*(hs-1).                          *)
(*                                                                         *)
(* Lengths are size_t: a difference that goes below zero wraps.            *)
(***************************************************************************)
EXTENDS Integers

CONSTANT SizeBits   \* width of size_t

(* Conversion to size_t.                                                   *)
Sz(x) == x % (2 ^ SizeBits)

(* ceil((double)a / (double)b) for the positive values the code divides.   *)
CeilDiv(a, b) == (a + b - 1) \div b

(* Lines 209-214: L->slats.num.                                            *)
SlatsNum(vc, vs) == IF vc > vs THEN CeilDiv(vc, vs) + 1 ELSE 2

(* Lines 215-220: L->struts.num.                                           *)
StrutsNum(hc, hs) == IF hc > hs THEN 2 + CeilDiv(hc - hs, hs - 1) ELSE 2

(* Lines 223-224: rows (struts.segs) and columns (slats.segs) of units.    *)
StrutsSegs(vc, vs) == SlatsNum(vc, vs) - 1
SlatsSegs(hc, hs)  == StrutsNum(hc, hs) - 1

(* Lines 236-246: strut segment i copies StrutLen elements of vertical     *)
(* from index i*vs.                                                         *)
StrutOffset(vs, i) == i * vs
StrutLen(vc, vs, i) == IF Sz(vc - i * vs) > vs THEN vs ELSE Sz(vc - i * vs)

(* Lines 248-258: slat segment i copies SlatLen elements of horizontal     *)
(* from index i*(hs-1).                                                     *)
SlatOffset(hs, i) == i * (hs - 1)
SlatLen(hc, hs, i) ==
  IF Sz(hc - i * hs) > hs THEN hs ELSE Sz(Sz(hc - i * hs) + 1)

-----------------------------------------------------------------------------
(* The horizontal edge is covered exactly: every slat segment has a        *)
(* belowleft and at least one column, lies inside horizontal, starts at    *)
(* the last element of the one before it, and the last one ends at the     *)
(* last element of horizontal.                                              *)
SlatsCover(hc, hs) ==
  LET n == SlatsSegs(hc, hs)
      End(i) == SlatOffset(hs, i) + SlatLen(hc, hs, i)
  IN  /\ \A i \in 0..n-1 : SlatLen(hc, hs, i) >= 2 /\ End(i) <= hc
      /\ \A i \in 0..n-2 : End(i) - 1 = SlatOffset(hs, i + 1)
      /\ End(n - 1) = hc

=============================================================================
