------------------------------ MODULE MCTorqueLimits ------------------------------
(***************************************************************************)
(* TorqueLimits with one mode limited by the motor's torque, as BYD's MPC  *)
(* LKA, and one limited by the driver's that tolerates cuts of the request *)
(* bit. Many commands may come in one tick, so that the real-time limit    *)
(* matters. What was sent is recorded over time:                           *)
(*   since    ticks since the limiter started over; the interval that a    *)
(*            mode is selected in may be over already                      *)
(*   freed    commands sent while no sample was above zero                 *)
(*   cuts     commands without the request bit sent in a row               *)
(*   matched  commands with it, or of zero torque, sent since; more than   *)
(*            are asked for count the same                                 *)
(***************************************************************************)
EXTENDS TorqueLimits

CONSTANTS SINCE_CAP,   \* bound of since, beyond which it is not counted
          FREED_CAP    \* bound of freed, beyond which no further descent is claimed

\* A mode that tolerates cuts tolerates one.
ASSUME WatchConstants ==
  /\ SINCE_CAP \in Nat /\ FREED_CAP \in Nat
  /\ \A l \in Limits : l.has_steer_req_tolerance => l.max_invalid_request_frames > 0

Motor ==
  [max_torque |-> 6, max_rate_up |-> 1, max_rate_down |-> 1, max_rt_delta |-> 2,
   type |-> "motor", driver_torque_allowance |-> 0, driver_torque_multiplier |-> 0,
   max_torque_error |-> 1, has_steer_req_tolerance |-> FALSE,
   min_valid_request_frames |-> 0, max_invalid_request_frames |-> 0,
   min_valid_request_rt_interval |-> 0]
Driver ==
  [max_torque |-> 2, max_rate_up |-> 1, max_rate_down |-> 1, max_rt_delta |-> 2,
   type |-> "driver", driver_torque_allowance |-> 0, driver_torque_multiplier |-> 1,
   max_torque_error |-> 0, has_steer_req_tolerance |-> TRUE,
   min_valid_request_frames |-> 2, max_invalid_request_frames |-> 2,
   min_valid_request_rt_interval |-> 1]
BothLimits == {Motor, Driver}
MCTorques == -1..7
MCMeasured == {-2, 0, 5}

---------------------------------------------------------------------------
VARIABLES since, freed, cuts, matched
mcvars == <<vars, since, freed, cuts, matched>>

INTERVAL == MAX_RT_INTERVAL + 1

AllAtMostZero(s) == \A i \in DOMAIN s : s[i] <= 0

AfterCommand(val, req) ==
  LET bad == Violation(val, req)
      cut == Cut(val, req)
  IN  /\ since' = IF bad \/ ~controls THEN 0 ELSE since
      /\ freed' = IF bad THEN freed
                  ELSE IF AllAtMostZero(t.sample) THEN Min2(freed + 1, FREED_CAP) ELSE 0
      /\ cuts' = IF bad \/ ~cut THEN 0 ELSE cuts + 1
      /\ matched' = IF bad \/ cut THEN 0 ELSE Min2(matched + 1, lim.min_valid_request_frames)

MCInit == Init /\ since = INTERVAL /\ freed = 0 /\ cuts = 0 /\ matched = 0
MCNext ==
  \/ \E val \in Torques, req \in BOOLEAN : Command(val, req) /\ AfterCommand(val, req)
  \/ \E v \in Measured :
       /\ Measure(v)
       /\ freed' = IF v > 0 THEN 0 ELSE freed
       /\ UNCHANGED <<since, cuts, matched>>
  \/ \E l \in Limits :
       SetMode(l) /\ since' = INTERVAL /\ freed' = 0 /\ cuts' = 0 /\ matched' = 0
  \/ ControlsChange /\ UNCHANGED <<since, freed, cuts, matched>>
  \/ Tick /\ since' = Min2(since + 1, SINCE_CAP) /\ UNCHANGED <<freed, cuts, matched>>
MCSpec == MCInit /\ [][MCNext]_mcvars

\* The real-time limit holds over time and not only from one check to the next:
\* a torque of n times max_rt_delta needs n - 1 whole intervals, however many
\* commands come in between. (Nothing is said of intervals that are not counted.)
RampTakesTime ==
  LET most == lim.max_rt_delta * (1 + since \div INTERVAL)
  IN  since < SINCE_CAP => t.last <= most /\ t.last >= -most

\* With a motor's limits, a motor that delivers nothing in the direction of a positive
\* command brings it down to the allowed error, one rate step per command that is
\* sent. (Nothing is said of the driver's torque, or of negative commands.)
FightIsGivenUp ==
  lim.type = "motor" =>
    t.last <= Max2(lim.max_torque_error, lim.max_torque - freed * lim.max_rate_down)

\* The request bit is cut for at most max_invalid_request_frames commands in a
\* row, and a new run of cuts needs min_valid_request_frames matching commands
\* before it: what the EPS tolerates without a fault.
CutsAreRare ==
  [][ /\ cuts' <= lim'.max_invalid_request_frames
      /\ cuts' = 1 /\ cuts = 0 => matched >= lim.min_valid_request_frames ]_mcvars
=============================================================================
