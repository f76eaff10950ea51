------------------------------ MODULE AngleLimits ------------------------------
(***************************************************************************)
(* steer_angle_cmd_checks of lateral.h: whether an angle command of the    *)
(* host may go out to the EPS.                                             *)
(*                                                                         *)
(*   last      desired_angle_last                                          *)
(*   meas      angle_meas, the measured angle of the wheel                 *)
(*   speed     vehicle_speed                                               *)
(*   sent      the last command that went out: what the car follows        *)
(*                                                                         *)
(* lim is the mode's AngleSteeringLimits with its floating-point lookups   *)
(* tabulated: up and down are the rate limits in CAN units at the fudged   *)
(* minimum speed, upRelaxed and downRelaxed those at the maximum speed.    *)
(* The limits on curvature and those of the vehicle model, which no mode   *)
(* of this fork's cars uses, are left out.                                 *)
(***************************************************************************)
EXTENDS Samples

CONSTANTS Limits, Angles, Measured, Speeds

VARIABLES lim, last, meas, speed, controls, sent
vars == <<lim, last, meas, speed, controls, sent>>

LimitsType ==
  [max_angle : Nat, max_angle_error : Nat, angle_error_min_speed : Int,
   enforce_angle_error : BOOLEAN, inactive_angle_is_zero : BOOLEAN,
   up : [Speeds -> Nat], down : [Speeds -> Nat],
   upRelaxed : [Speeds -> Nat], downRelaxed : [Speeds -> Nat]]

AngleConstants ==
  /\ Limits \subseteq LimitsType
  /\ Angles \subseteq Int /\ Measured \subseteq Int
  /\ Speeds \subseteq Int /\ 0 \in Speeds

---------------------------------------------------------------------------
(* The range of angles a command may have                                  *)
Up   == lim.up[Smallest(speed)]
Down == lim.down[Smallest(speed)]
Highest == last + (IF last > 0 THEN Up ELSE Down)
Lowest  == last - (IF last >= 0 THEN Down ELSE Up)

EnforcesError == lim.enforce_angle_error /\ speed[1] > lim.angle_error_min_speed

HighestError == Largest(meas) + lim.max_angle_error + 1
LowestError  == Smallest(meas) - lim.max_angle_error - 1
UpRelaxed   == lim.upRelaxed[Largest(speed)]
DownRelaxed == lim.downRelaxed[Largest(speed)]

\* Outside the allowed error the command must return towards the wheel.
HighestWithin ==
  IF last > HighestError
  THEN Max2(last - (IF last >= 0 THEN DownRelaxed ELSE UpRelaxed), HighestError)
  ELSE IF last < LowestError THEN Highest ELSE Min2(Highest, HighestError)
LowestWithin ==
  IF last > HighestError THEN Lowest
  ELSE IF last < LowestError
  THEN Min2(last + (IF last <= 0 THEN DownRelaxed ELSE UpRelaxed), LowestError)
  ELSE Max2(Lowest, LowestError)

ToMax(x) == Clamp(x, -lim.max_angle, lim.max_angle)
NoErrorRange == Lowest..Highest
AngleRange == IF EnforcesError THEN ToMax(LowestWithin)..ToMax(HighestWithin)
              ELSE Lowest..Highest

InactiveRange == IF lim.inactive_angle_is_zero THEN {0}
                 ELSE (ToMax(Smallest(meas)) - 1)..(ToMax(Largest(meas)) + 1)

Violation(val, enabled) ==
  \/ controls /\ enabled /\ val \notin AngleRange
  \/ ~enabled /\ val \notin InactiveRange
  \/ ~controls /\ enabled

\* "reset to current angle", or to zero
ResetToRefused(val) == val
NoReset(val) == last
ResetAngle(val) == IF lim.inactive_angle_is_zero THEN 0 ELSE ToMax(meas[1])

Command(val, enabled) ==
  /\ last' = IF Violation(val, enabled) \/ ~controls THEN ResetAngle(val) ELSE val
  /\ sent' = IF Violation(val, enabled) THEN sent ELSE [angle |-> val, active |-> enabled]
  /\ UNCHANGED <<lim, meas, speed, controls>>

---------------------------------------------------------------------------
Start(l) ==
  /\ lim' = l /\ last' = 0 /\ controls' = FALSE
  /\ meas' = SampleOf(0) /\ speed' = SampleOf(0)

Init ==
  /\ lim \in Limits /\ last = 0 /\ controls = FALSE
  /\ meas = SampleOf(0) /\ speed = SampleOf(0)
  /\ sent = [angle |-> 0, active |-> FALSE]

SetMode(l) == Start(l) /\ UNCHANGED sent

MeasureAngle(v) == meas' = update_sample(meas, v) /\ UNCHANGED <<lim, last, speed, controls, sent>>
MeasureSpeed(v) == speed' = update_sample(speed, v) /\ UNCHANGED <<lim, last, meas, controls, sent>>
ControlsChange  == controls' = ~controls /\ UNCHANGED <<lim, last, meas, speed, sent>>

Next == \/ \E val \in Angles, enabled \in BOOLEAN : Command(val, enabled)
        \/ \E v \in Measured : MeasureAngle(v)
        \/ \E v \in Speeds : MeasureSpeed(v)
        \/ \E l \in Limits : SetMode(l)
        \/ ControlsChange

Spec == Init /\ [][Next]_vars
=============================================================================
