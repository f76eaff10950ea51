------------------------------ MODULE MCSteering ------------------------------
(***************************************************************************)
(* The two limiters of lateral.h. A car is steered by torque or by angle,  *)
(* so that a behaviour is that of one of them, while the other rests.      *)
(***************************************************************************)
EXTENDS MCTorqueLimits

CONSTANTS AngleModes, Angles, Speeds, FAR

VARIABLES byAngle,
          aLim, last, meas, speed, aControls, aSent, at, refused, steady

A == INSTANCE MCAngleLimits WITH
       Limits <- AngleModes, lim <- aLim, controls <- aControls, sent <- aSent

Cases == INSTANCE AngleCases

ASSUME AngleConstantsFit == A!AngleConstants /\ A!FarConstant
MCAngleModes == Cases!BothLimits
MCAngles     == Cases!MCAngles
MCSpeeds     == Cases!MCSpeeds

avars == <<aLim, last, meas, speed, aControls, aSent, at, refused, steady>>
steering == <<byAngle, mcvars, avars>>
SteeringInit ==
  /\ byAngle \in BOOLEAN /\ MCInit /\ A!MCInit
  /\ IF byAngle THEN lim = Motor /\ t = NoCommandYet(0, 0) ELSE aLim = Cases!Byd
SteeringNext ==
  /\ \/ ~byAngle /\ MCNext /\ UNCHANGED avars
     \/ byAngle /\ A!MCNext /\ UNCHANGED mcvars
  /\ UNCHANGED byAngle
SteeringSpec == SteeringInit /\ [][SteeringNext]_steering

\* MCAngleLimits' AngleFollowsWheel: with the error enforced the command is brought to
\* the wheel, one step or more per command that is sent.
AngleFollowsWheel == A!AngleFollowsWheel

\* MCAngleLimits' SteersFromWhereItIs: with limits that start over at the measured
\* angle the wheel is never steered away from where it is by more than a rate limit.
SteersFromWhereItIs == A!SteersFromWhereItIs

\* MCAngleLimits' RefusalDoesNotStick: with limits that start over at zero a command
\* near zero that was refused is not refused again.
RefusalDoesNotStick == A!RefusalDoesNotStick
=============================================================================
