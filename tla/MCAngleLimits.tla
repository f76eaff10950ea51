------------------------------ MODULE MCAngleLimits ------------------------------
(***************************************************************************)
(* AngleLimits with a mode that starts over at the measured angle and      *)
(* enforces the error (the default of lateral.h), and with BYD's, which    *)
(* starts over at zero and does not. Recorded:                             *)
(*   at       the wheel's angle when the last command was judged           *)
(*   refused  the last command, if it was refused with controls (a set)    *)
(*   steady   commands sent since the measured angle last changed, with    *)
(*            the error enforced                                           *)
(***************************************************************************)
EXTENDS AngleLimits, AngleCases

MCMeasured == {-2, 0, 5}

---------------------------------------------------------------------------
VARIABLES at, refused, steady
mcvars == <<vars, at, refused, steady>>

Distance(x, y) == Max2(x - y, y - x)

CONSTANT FAR     \* bound: the largest distance of a command, or a wheel, from the wheel

Commanded == Angles \cup {0} \cup {Clamp(v, -l.max_angle, l.max_angle) : v \in Measured, l \in Limits}
FarConstant ==
  /\ FAR \in Nat /\ 0 \in Measured
  /\ \A x \in Commanded, v \in Measured, l \in Limits :
       Distance(x, Clamp(v, -l.max_angle, l.max_angle)) <= FAR

MCInit == Init /\ at = 0 /\ refused = {} /\ steady = 0
MCNext ==
  \/ \E val \in Angles, enabled \in BOOLEAN :
       /\ Command(val, enabled)
       /\ at' = ToMax(meas[1])
       /\ refused' = IF controls /\ enabled /\ Violation(val, enabled) THEN {val} ELSE {}
       /\ steady' = IF ~EnforcesError \/ ~enabled \/ lim.inactive_angle_is_zero THEN 0
                    ELSE IF Violation(val, enabled) THEN steady ELSE Min2(steady + 1, FAR)
  \/ \E v \in Measured :
       /\ MeasureAngle(v)
       /\ steady' = IF v = meas[1] /\ v = Smallest(meas) /\ v = Largest(meas) THEN steady ELSE 0
       /\ UNCHANGED <<at, refused>>
  \/ \E v \in Speeds :
       /\ MeasureSpeed(v)
       /\ steady' = IF v <= lim.angle_error_min_speed THEN 0 ELSE steady
       /\ UNCHANGED <<at, refused>>
  \/ \E l \in Limits : SetMode(l) /\ at' = 0 /\ refused' = {} /\ steady' = 0
  \/ ControlsChange /\ UNCHANGED <<at, refused, steady>>
MCSpec == MCInit /\ [][MCNext]_mcvars

\* A command that steers is within the rate limit of the last one that went out, or of
\* where the wheel was when the last one was judged; or of that angle cut to the maximum.
RateLimit == Max2(Up, Down)
Near(x, y) == Distance(x, y) <= RateLimit \/ Distance(x, ToMax(y)) <= RateLimit
NearWheel == sent' # sent /\ sent'.active =>
               Near(sent'.angle, sent.angle) \/ Near(sent'.angle, at)

\* With limits that start over at the measured angle the wheel is never steered away
\* from where it is by more than the rate limit, although commands were refused,
\* controls withdrawn or the mode changed in between.
SteersFromWhereItIs == [][ ~lim'.inactive_angle_is_zero => NearWheel ]_mcvars

\* lateral.h:269: "reset to current angle if either controls is not allowed or
\* there's a violation"; so that after a refused command the next one starts at
\* the current angle, for BYD's limits as well.
RefusalKeepsAngle == [][ refused # {} => NearWheel ]_mcvars

\* With limits that start over at zero, and the error not enforced, a command the host
\* insists on is refused a second time only if it is further from zero than the rate
\* limit: byd.h:127 chooses its limits so that one refusal does not become a burst.
RefusalDoesNotStick ==
  [][ \A val \in refused :
        (/\ lim.inactive_angle_is_zero /\ ~EnforcesError /\ controls
         /\ Distance(val, 0) <= Down
         /\ Command(val, TRUE))
        => sent' = [angle |-> val, active |-> TRUE] ]_mcvars

\* Limits under which the command returns: at every speed it must come closer, and a
\* step towards the wheel does not pass it by more than the allowed error.
Returns(l) ==
  \A v \in Speeds : /\ l.upRelaxed[v] > 0 /\ l.downRelaxed[v] > 0
                    /\ l.up[v] <= 2 * l.max_angle_error + 3
                    /\ l.down[v] <= 2 * l.max_angle_error + 3

\* With the error enforced the command is brought to within the allowed error of a
\* wheel that stays where it is, one step or more per command that is sent.
AngleFollowsWheel ==
  EnforcesError /\ Returns(lim) /\ Smallest(meas) = Largest(meas) /\ controls =>
    Distance(last, ToMax(meas[1])) <= Max2(lim.max_angle_error + 1, FAR - steady)
=============================================================================
