------------------------------ MODULE MCCapture ------------------------------
(* TLC instances of Capture. *)
EXTENDS Capture, TLC

CONSTANTS i1, d1, d2, d3

OneInstance == {i1}
TwoDevices == {d1, d2}
ThreeDevices == {d1, d2, d3}
=============================================================================
