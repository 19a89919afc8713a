--------------------------- MODULE MCConveyorBelt ---------------------------
(* The conveyor belt between one reading thread and two or three           *)
(* processing threads.                                                     *)
EXTENDS ConveyorBelt

CONSTANTS p1, p2, p3

TwoProcs   == {p1, p2}
ThreeProcs == {p1, p2, p3}
=============================================================================
