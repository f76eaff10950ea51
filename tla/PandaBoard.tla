------------------------------ MODULE PandaBoard ------------------------------
(***************************************************************************)
(* The panda's main.c and main_comms.h around SafetyHooks: the safety mode *)
(* switch with the relay and the CAN transceivers, the requests of the     *)
(* host, and the 8 Hz tick handler that watches the host's heartbeat.      *)
(*                                                                         *)
(* The board's globals are one record b:                                   *)
(*   hbCounter, hbLost, hbDisabled, hbEngaged   heartbeat_counter, ...     *)
(*   siren, countdown    siren_countdown, controls_allowed_countdown       *)
(*   canSilent           can_silent                                        *)
(*   harness, driven     harness.status, harness.relay_driven              *)
(*   relay               the pin that drives the intercept relay           *)
(* Two are not the panda's: byHost says that request 0xc5 set the relay    *)
(* since the mode was last set up, hostUp that the host still runs. What   *)
(* power saving switches off, setting up a mode switches on again, so that *)
(* it is left out: frames may arrive on every bus.                         *)
(***************************************************************************)
EXTENDS SafetyHooks

CONSTANT HarnessStates   \* "NC" and the orientations the plug may have

VARIABLES b, hostUp

vars == <<g, b, hostUp>>

HEARTBEAT_IGNITION_CNT_ON  == 5
HEARTBEAT_IGNITION_CNT_OFF == 2
HB_CAP == HEARTBEAT_IGNITION_CNT_ON   \* bound: compared with these two only
CONTROLS_COUNTDOWN == 5
SIREN_SECONDS == 3

is_car_safety_mode(m) == m \notin NonCarModes

ASSUME HarnessConstants == "NC" \in HarnessStates /\ HarnessStates \subseteq STRING

---------------------------------------------------------------------------
(* set_safety_mode. A board is a pair [g, b]: functions map boards to boards. *)
DrivesRelay(m) == m \notin {"SILENT", "NOOUTPUT", "ELM327"}

\* set_intercept_relay: without a harness there is no relay to drive. The ignition
\* relay, for tests, only keeps the orientation from being measured.
SetRelay(c, intercept, ignition) ==
  LET on == intercept /\ c.harness # "NC"
  IN  [c EXCEPT !.relay = on, !.driven = on \/ ignition]

set_safety_mode(s, m, p) ==
  LET c == [SetRelay(s.b, DrivesRelay(m), FALSE) EXCEPT !.canSilent = (m = "SILENT"),
                                                        !.byHost = FALSE]
  IN  [g |-> set_safety_hooks(s.g, m, p),
       b |-> IF m \in {"SILENT", "NOOUTPUT"} THEN c
             ELSE [c EXCEPT !.hbCounter = 0, !.hbLost = FALSE]]

Board == [g |-> g, b |-> b]
Becomes(s) == g' = s.g /\ b' = s.b

---------------------------------------------------------------------------
(* The tick handler *)

\* When the plug is inserted, taken out or turned, everything that depends on it
\* is set up again. With the relay driven the orientation cannot be measured.
NoHarnessTick(s, h) == [s EXCEPT !.b.harness = IF s.b.driven THEN @ ELSE h]

HarnessTick(s, h) ==
  IF s.b.driven \/ h = s.b.harness THEN s
  ELSE set_safety_mode([s EXCEPT !.b.harness = h], s.g.mode, s.g.param)

HeartbeatGone(c, started) ==
  /\ ~c.hbDisabled
  /\ c.hbCounter >= IF started THEN HEARTBEAT_IGNITION_CNT_ON ELSE HEARTBEAT_IGNITION_CNT_OFF

KeepsDisabled(s)  == s.b.hbDisabled
StillDisabled(s) == s.b.hbDisabled /\ ~is_car_safety_mode(s.g.mode)

\* What is counted at 1 Hz before the heartbeat is judged.
CountHeartbeat(s) ==
  [s EXCEPT
     !.b.hbCounter  = IF @ < HB_CAP THEN @ + 1 ELSE @,
     !.b.hbDisabled = StillDisabled(s),
     !.b.siren      = Down(@),
     !.b.countdown  = IF s.g.controls \/ s.b.hbEngaged THEN CONTROLS_COUNTDOWN ELSE Down(@)]

\* Controls that openpilot does not use for three seconds are taken away.
NoExpiry(s) == s
ExpireControls(s) ==
  IF s.g.controls /\ ~s.b.hbEngaged
  THEN [s EXCEPT !.g.mism     = IF @ < MISM_LIMIT THEN @ + 1 ELSE @,
                 !.g.controls = s.g.mism + 1 < MISM_LIMIT]
  ELSE [s EXCEPT !.g.mism = 0]

QuietAlarm(s) == [s EXCEPT !.b.countdown = 0]
Alarm(s) == [s EXCEPT !.b.siren = IF s.b.countdown > 0 THEN SIREN_SECONDS ELSE @,
                      !.b.countdown = 0]

LoseKeepsEngaged(s) ==
  set_safety_mode(Alarm(s), "SILENT", {})
LoseHeartbeat(s) ==
  LET t == [Alarm(s) EXCEPT !.b.hbLost    = @ \/ is_car_safety_mode(s.g.mode),
                            !.b.hbEngaged = FALSE]
  IN  IF t.g.mode = "SILENT" THEN t ELSE set_safety_mode(t, "SILENT", {})

\* line: the ignition line of the harness is high; canIgn: ignition_can.
Started(s, line, canIgn) == (line /\ ~(s.g.ignLine \/ s.g.ignSticky)) \/ canIgn

OneHertz(s, line, canIgn, late) ==
  LET s1 == ExpireControls(CountHeartbeat(s))
      s2 == IF HeartbeatGone(s1.b, Started(s, line, canIgn)) THEN LoseHeartbeat(s1) ELSE s1
  IN  [s2 EXCEPT !.g = safety_tick(CountSecond(s2.g), late)]

\* An 8 Hz tick that is not the one in eight: only the harness matters.
Tick8Hz == \E h \in HarnessStates :
             /\ h # b.harness
             /\ Becomes(HarnessTick(Board, h))
             /\ UNCHANGED hostUp

Tick1Hz == \E h \in HarnessStates, line, canIgn \in BOOLEAN :
           \E late \in SUBSET {c \in DOMAIN g.rx : HalfSecondLag(c)} :
             /\ (line => h # "NC")
             /\ Becomes(OneHertz(HarnessTick(Board, h), line, canIgn, late))
             /\ UNCHANGED hostUp

---------------------------------------------------------------------------
(* comms_control_handler: the host's requests that reach the safety code   *)
FromHost == hostUp /\ UNCHANGED hostUp

\* 0xdc. Configs holds the registered modes; any other falls back to SILENT.
RequestMode(c)   == FromHost /\ Becomes(set_safety_mode(Board, c.mode, c.param))
RequestUnknown   == FromHost /\ Becomes(set_safety_mode(Board, "SILENT", {}))

\* 0xf3
Heartbeat(engaged) ==
  /\ FromHost
  /\ b' = [b EXCEPT !.hbCounter = 0, !.hbLost = FALSE, !.hbDisabled = FALSE,
                    !.hbEngaged = engaged]
  /\ UNCHANGED g

\* 0xf8: not allowed in a car's safety mode
DisableHeartbeat ==
  /\ FromHost
  /\ ~is_car_safety_mode(g.mode)
  /\ b' = [b EXCEPT !.hbDisabled = TRUE]
  /\ UNCHANGED g

\* 0xc5, for debugging, in every build and mode: the host drives the relay itself.
DriveRelay(intercept, ignition) ==
  /\ FromHost
  /\ b' = [SetRelay(b, intercept, ignition) EXCEPT !.byHost = TRUE]
  /\ UNCHANGED g

\* A frame the host asks to send, and the reset of the panda (0xd8, a fault).
HostSend(f) == FromHost /\ CanTx(f) /\ UNCHANGED b

BootBoard ==
  [hbCounter |-> 0, hbLost |-> FALSE, hbDisabled |-> FALSE, hbEngaged |-> FALSE,
   siren |-> 0, countdown |-> 0, canSilent |-> TRUE,
   harness |-> "NC", driven |-> FALSE, relay |-> FALSE, byHost |-> FALSE]
Reset == g' = BootGlobals /\ b' = BootBoard /\ UNCHANGED hostUp

BusRx(f) == CanRx(f) /\ UNCHANGED <<b, hostUp>>

HostStops == hostUp /\ hostUp' = FALSE /\ UNCHANGED <<g, b>>

---------------------------------------------------------------------------
BInit == Init /\ b = BootBoard /\ hostUp = TRUE

BNext ==
  \/ Tick8Hz \/ Tick1Hz \/ Reset \/ HostStops \/ RequestUnknown \/ DisableHeartbeat
  \/ \E c \in Configs : RequestMode(c)
  \/ \E e \in BOOLEAN : Heartbeat(e)
  \/ \E i, r \in BOOLEAN : DriveRelay(i, r)
  \/ \E f \in Commands : HostSend(f)
  \/ \E f \in Traffic : BusRx(f)

BSpec == BInit /\ [][BNext]_vars

\* The tick timer is hardware: it fires whatever the host and the car do.
FairBSpec == BSpec /\ WF_vars(Tick1Hz)

---------------------------------------------------------------------------
(* Properties *)
BoardType ==
  [hbCounter : 0..HB_CAP, hbLost : BOOLEAN, hbDisabled : BOOLEAN, hbEngaged : BOOLEAN,
   siren : 0..SIREN_SECONDS, countdown : 0..CONTROLS_COUNTDOWN, canSilent : BOOLEAN,
   harness : HarnessStates, driven : BOOLEAN, relay : BOOLEAN, byHost : BOOLEAN]

\* The board's globals, and those of the safety code under it, keep their types.
BTypeOK == TypeOK /\ b \in BoardType /\ hostUp \in BOOLEAN

\* The relay that takes the car's bus over is driven exactly while a mode that
\* drives it is selected and a harness is plugged in, also when the plug comes
\* after the mode, unless the host set it by 0xc5 since the mode was last set up;
\* never without a harness, and never while the plug could be found moved. The
\* transceivers are silent exactly in SILENT.
RelayFollowsMode ==
  /\ ~b.byHost => b.relay = (DrivesRelay(g.mode) /\ b.harness # "NC") /\ b.driven = b.relay
  /\ b.relay => b.driven /\ b.harness # "NC"
  /\ b.canSilent = (g.mode = "SILENT")

\* A host that stops for good leaves no car under control: from some point on the
\* panda is never again in a car's mode, whatever the car sends, however the plug
\* is moved, and although the host may have disabled the heartbeat check earlier.
DeadHostReleasesCar == <>[]~hostUp => <>[]~is_car_safety_mode(g.mode)

\* The board keeps the panda's promises, whichever car's mode is selected and however
\* ticks, frames, requests and the plug interleave.
Promised ==
  [model |-> IF is_car_safety_mode(g.mode) THEN "CAR" ELSE g.mode,
   controls |-> g.controls, used |-> b.hbEngaged, idle |-> g.mism,
   quiet |-> b.hbCounter, watch |-> ~b.hbDisabled]
Promise == INSTANCE PandaPromise WITH
             p <- Promised, EXPIRE <- MISM_LIMIT,
             LOSE_FROM <- HEARTBEAT_IGNITION_CNT_OFF, LOSE_BY <- HEARTBEAT_IGNITION_CNT_ON
KeepsPromise == Promise!Spec
=============================================================================
