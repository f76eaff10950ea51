------------------------------ MODULE TorqueLimits ------------------------------
(***************************************************************************)
(* steer_torque_cmd_checks of lateral.h: whether a torque command of the   *)
(* host may go out to the electric power steering (EPS), judged by the     *)
(* commands before it, the measured torques and the time.                  *)
(*                                                                         *)
(* The limiter's globals are the record t:                                 *)
(*   last, rtLast        desired_torque_last, rt_torque_last               *)
(*   rtAge, cutAge       time since ts_torque_check_last and since         *)
(*                       ts_steer_req_mismatch_last, in ticks              *)
(*   validReq, invalidReq  valid_steer_req_count, invalid_steer_req_count  *)
(*   sample              torque_meas or torque_driver, whichever lim.type  *)
(*                       is limited by                                     *)
(* lim is the mode's TorqueSteeringLimits, controls is controls_allowed,   *)
(* and sent is the last command that went out: what the car follows.       *)
(*                                                                         *)
(* The code compares with the minimum and maximum of the six samples; here *)
(* each comparison is made with all of them. dynamic_max_torque, which no  *)
(* mode of this fork's cars uses, is left out.                             *)
(***************************************************************************)
EXTENDS Samples

CONSTANTS Limits,           \* the limits of the modes that may be selected
          Torques,          \* the torques the host may ask for
          Measured,         \* the torques that may be measured
          MAX_RT_INTERVAL   \* in ticks

VARIABLES lim, t, controls, sent
vars == <<lim, t, controls, sent>>

LimitsType ==
  [max_torque : Nat, max_rate_up : Nat, max_rate_down : Nat, max_rt_delta : Nat,
   type : {"motor", "driver"}, driver_torque_allowance : Nat,
   driver_torque_multiplier : Nat, max_torque_error : Nat,
   has_steer_req_tolerance : BOOLEAN, min_valid_request_frames : Nat,
   max_invalid_request_frames : Nat, min_valid_request_rt_interval : Nat]

ASSUME TorqueConstants ==
  /\ Limits \subseteq LimitsType
  /\ Torques \subseteq Int
  /\ Measured \subseteq Int
  /\ MAX_RT_INTERVAL \in Nat

---------------------------------------------------------------------------
(* The checks, each true for a violation *)
RateLimit(val, last) ==
  \/ val > Max2(last, 0) + lim.max_rate_up
  \/ val < Min2(last, 0) - lim.max_rate_up

HoldsOverError(val, last, s) ==
  \/ val > last /\ val > lim.max_torque_error
       /\ \A i \in DOMAIN s : val > s[i] + lim.max_torque_error
  \/ val < last /\ val < -lim.max_torque_error
       /\ \A i \in DOMAIN s : val < s[i] - lim.max_torque_error

\* Beyond the measured torque and its error, the command must move towards 0.
dist_to_meas_check(val, last, s) ==
  \/ val > last - lim.max_rate_down /\ val > lim.max_torque_error
       /\ \A i \in DOMAIN s : val > s[i] + lim.max_torque_error
  \/ val < last + lim.max_rate_down /\ val < -lim.max_torque_error
       /\ \A i \in DOMAIN s : val < s[i] - lim.max_torque_error

\* Beyond what the driver's own torque leaves, the command must move towards 0.
DriverLimit(x) ==
  lim.max_torque + (lim.driver_torque_allowance + x) * lim.driver_torque_multiplier
driver_limit_check(val, last, s) ==
  \/ val > last - lim.max_rate_down /\ val > 0 /\ \A i \in DOMAIN s : val > DriverLimit(s[i])
  \/ val < last + lim.max_rate_down /\ val < 0 /\ \A i \in DOMAIN s : val < -DriverLimit(-s[i])

rt_torque_rate_limit_check(val, rtLast) ==
  \/ val > Max2(rtLast, 0) + lim.max_rt_delta
  \/ val < Min2(rtLast, 0) - lim.max_rt_delta

TorqueViolation(val) ==
  \/ val > lim.max_torque \/ val < -lim.max_torque
  \/ RateLimit(val, t.last)
  \/ lim.type = "motor"  /\ dist_to_meas_check(val, t.last, t.sample)
  \/ lim.type = "driver" /\ driver_limit_check(val, t.last, t.sample)
  \/ rt_torque_rate_limit_check(val, t.rtLast)

\* The steer request bit may be cut for a few frames, if that is tolerated at all.
CutViolation ==
  \/ ~lim.has_steer_req_tolerance
  \/ t.invalidReq = 0 /\ t.validReq < lim.min_valid_request_frames
  \/ t.invalidReq = 0 /\ t.cutAge < lim.min_valid_request_rt_interval
  \/ t.invalidReq # 0 /\ t.invalidReq >= lim.max_invalid_request_frames

\* torque # 0 without the request bit
Cut(val, req) == ~req /\ val # 0

Violation(val, req) ==
  \/ controls /\ TorqueViolation(val)
  \/ ~controls /\ val # 0
  \/ Cut(val, req) /\ CutViolation

---------------------------------------------------------------------------
(* What a command leaves behind *)
RtUpdateUnstamped(s, val) ==
  IF s.rtAge > MAX_RT_INTERVAL THEN [s EXCEPT !.rtLast = val] ELSE s

RtUpdate(s, val) ==
  IF s.rtAge > MAX_RT_INTERVAL THEN [s EXCEPT !.rtLast = val, !.rtAge = 0] ELSE s

CountKeepsValid(s, cut) ==
  IF ~lim.has_steer_req_tolerance THEN s
  ELSE IF cut
  THEN [s EXCEPT !.cutAge = 0,
                 !.invalidReq = Min2(@ + 1, lim.max_invalid_request_frames)]
  ELSE [s EXCEPT !.invalidReq = 0,
                 !.validReq = Min2(@ + 1, lim.min_valid_request_frames)]

CountRequests(s, cut) ==
  IF ~lim.has_steer_req_tolerance THEN s
  ELSE IF cut
  THEN [s EXCEPT !.validReq = 0, !.cutAge = 0,
                 !.invalidReq = Min2(@ + 1, lim.max_invalid_request_frames)]
  ELSE [s EXCEPT !.invalidReq = 0,
                 !.validReq = Min2(@ + 1, lim.min_valid_request_frames)]

StartOverKeepsLast(s) ==
  [s EXCEPT !.validReq = 0, !.invalidReq = 0, !.rtLast = 0, !.rtAge = 0, !.cutAge = 0]

StartOver(s) ==
  [s EXCEPT !.validReq = 0, !.invalidReq = 0, !.last = 0, !.rtLast = 0,
            !.rtAge = 0, !.cutAge = 0]

steer_torque_cmd_checks(val, req) ==
  LET s1 == IF controls THEN RtUpdate([t EXCEPT !.last = val], val) ELSE t
      s2 == CountRequests(s1, Cut(val, req))
  IN  IF Violation(val, req) \/ ~controls THEN StartOver(s2) ELSE s2

---------------------------------------------------------------------------
RT_AGE_CAP == MAX_RT_INTERVAL + 1   \* bound: an older check counts the same

NoCommandYet(rtAge, cutAge) ==
  [last |-> 0, rtLast |-> 0, rtAge |-> rtAge, cutAge |-> cutAge,
   validReq |-> 0, invalidReq |-> 0, sample |-> SampleOf(0)]

\* set_safety_hooks: the time stamps become 0, which may be any time ago.
SetMode(l) ==
  \E rtAge \in 0..RT_AGE_CAP, cutAge \in 0..l.min_valid_request_rt_interval :
    /\ lim' = l
    /\ t' = NoCommandYet(rtAge, cutAge)
    /\ controls' = FALSE
    /\ UNCHANGED sent

Init ==
  /\ lim \in Limits
  /\ \E rtAge \in 0..RT_AGE_CAP, cutAge \in 0..lim.min_valid_request_rt_interval :
       t = NoCommandYet(rtAge, cutAge)
  /\ controls = FALSE
  /\ sent = 0

Command(val, req) ==
  /\ t' = steer_torque_cmd_checks(val, req)
  /\ sent' = IF Violation(val, req) THEN sent ELSE val
  /\ UNCHANGED <<lim, controls>>

Measure(v) ==
  /\ t' = [t EXCEPT !.sample = update_sample(@, v)]
  /\ UNCHANGED <<lim, controls, sent>>

\* The rest of the safety code grants and withdraws controls.
ControlsChange == controls' = ~controls /\ UNCHANGED <<lim, t, sent>>

Tick ==
  /\ t' = [t EXCEPT !.rtAge = Min2(@ + 1, RT_AGE_CAP),
                    !.cutAge = Min2(@ + 1, lim.min_valid_request_rt_interval)]
  /\ UNCHANGED <<lim, controls, sent>>

Next == \/ \E val \in Torques, req \in BOOLEAN : Command(val, req)
        \/ \E v \in Measured : Measure(v)
        \/ \E l \in Limits : SetMode(l)
        \/ ControlsChange \/ Tick

Spec == Init /\ [][Next]_vars

---------------------------------------------------------------------------
(* Properties *)

\* The globals keep their types, the two counters stay below the limits they
\* are compared with, and the torque the next command is judged by is within the
\* mode's maximum: nothing that was refused is remembered.
TypeOK ==
  /\ lim \in Limits
  /\ t \in [last : -lim.max_torque..lim.max_torque,
            rtLast : -lim.max_torque..lim.max_torque,
            rtAge : 0..RT_AGE_CAP, cutAge : 0..lim.min_valid_request_rt_interval,
            validReq : 0..lim.min_valid_request_frames,
            invalidReq : 0..lim.max_invalid_request_frames, sample : Sample]
  /\ controls \in BOOLEAN
  /\ sent \in Int

\* The torque that goes out never moves away from zero by more than the rate
\* limit in one command, whatever was refused, withdrawn or cut in between.
RiseLimited ==
  [][ lim' = lim =>
        /\ sent' <= Max2(sent, 0) + lim.max_rate_up
        /\ sent' >= Min2(sent, 0) - lim.max_rate_up ]_vars
=============================================================================
