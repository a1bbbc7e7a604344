--------------------------- MODULE MC_Performance ---------------------------
EXTENDS Performance

(* Groups of two states, as a program with a small state set creates.     *)
MCGroupSizes == {2}

=============================================================================
