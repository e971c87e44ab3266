--------------------------- MODULE MCBoundedRender ---------------------------
(***************************************************************************)
(* A small instance of BoundedRender with the code's own limits: lines     *)
(* that fit the floored budget of 200 exactly, by one too few, twice, or   *)
(* not at all, an empty line, and markers longer than their cap.           *)
(***************************************************************************)
EXTENDS BoundedRender

MCLineLengths == {0, 98, 99, 199, 200}
MCMarkerLengths == {60, 201}
MCBudgets == {-1, 200, 400}
=============================================================================
