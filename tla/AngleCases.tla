------------------------------ MODULE AngleCases ------------------------------
(***************************************************************************)
(* The instances of AngleSteeringLimits that the runs are made with, over  *)
(* two speeds, and the angles the host may ask for.                        *)
(***************************************************************************)
EXTENDS Integers

MCSpeeds == 0..1
BySpeed(slow, fast) == [v \in MCSpeeds |-> IF v = 0 THEN slow ELSE fast]

Follows ==
  [max_angle |-> 3, max_angle_error |-> 0, angle_error_min_speed |-> 0,
   enforce_angle_error |-> TRUE, inactive_angle_is_zero |-> FALSE,
   up |-> BySpeed(2, 2), down |-> BySpeed(3, 2),
   upRelaxed |-> BySpeed(1, 1), downRelaxed |-> BySpeed(2, 1)]
Byd ==
  [max_angle |-> 3, max_angle_error |-> 0, angle_error_min_speed |-> 0,
   enforce_angle_error |-> FALSE, inactive_angle_is_zero |-> TRUE,
   up |-> BySpeed(2, 1), down |-> BySpeed(2, 1),
   upRelaxed |-> BySpeed(1, 1), downRelaxed |-> BySpeed(1, 1)]
BothLimits == {Follows, Byd}
BydLimits  == {Byd}
MCAngles   == -4..4
=============================================================================
