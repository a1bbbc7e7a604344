------------------------ MODULE MC_WavefrontLattice -------------------------
(***************************************************************************)
(* The lattice geometry checked over every input size of a bounded range:  *)
(* the size is chosen in the initial state and never changes.              *)
(***************************************************************************)
EXTENDS WavefrontLattice

VARIABLE hin   \* <<horizontal->count, horizontal->segment_size>>

(* A bottom edge holds the corner and at least one column; a horizontal    *)
(* segment holds at least a belowleft and one column.                      *)
HorizontalSizes == (2..10) \X (2..12)

Init == hin \in HorizontalSizes
Next == UNCHANGED hin
Spec == Init /\ [][Next]_hin

(* qt_wavefront cuts the bottom edge into slat segments that cover it      *)
(* exactly, reading no element past its end.                               *)
SlatsCoverInput == SlatsCover(hin[1], hin[2])

=============================================================================
