-------------------------- MODULE MCBrakeAlgorithm --------------------------
(***************************************************************************)
(* BrakeAlgorithm for TLC, with the code's threshold and rides that change *)
(* between coasting, accelerating and three decelerations.                  *)
(***************************************************************************)
EXTENDS BrakeAlgorithm

\* The code's -0.15 g, and the deceleration that is to be detected.
ThresholdOf == -150
HardOf == -250
LevelsOf == {0, 300, -100, -250, -2000}

\* The ends of the accelerometer's range.
BadReadsOf == {-1999, 1999}
=============================================================================
