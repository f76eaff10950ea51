------------------------------ MODULE Selfdrived ------------------------------
(***************************************************************************)
(* selfdrived.py: what the car, the panda and the system report is turned  *)
(* into events, and these into the decision whether openpilot is engaged,  *)
(* for a car whose ACC engages it (CP.pcmCruise).                          *)
(*                                                                         *)
(*   sd     selfdrived: state and timer of its StateMachine,               *)
(*          mismatch_counter, initialized, sm.frame, and the frames since  *)
(*          pandaStates last came                                          *)
(*   ps     the pandaStates message published last; model "NONE" before    *)
(*          the first                                                      *)
(*   fresh  selfdrived has not received ps yet                             *)
(*                                                                         *)
(* Where the events of a frame come from is left open here; CarEvents adds *)
(* the car and card, Engagement pandad and the panda. What only matters in *)
(* the frame it is looked at is a parameter: the car stands still, gas or  *)
(* wheel override, CAN is valid; and `other` stands for the events of all  *)
(* the other conditions of update_events.                                  *)
(***************************************************************************)
EXTENDS StateMachine

CONSTANTS MISMATCH_LIMIT,   \* 200 frames
          SETTLE_FRAMES,    \* 10 s: pandad's time to set the safety mode
          STALE_FRAMES      \* 10 periods of pandaStates: 1 s

VARIABLES sd, ps, fresh

ASSUME SelfdrivedConstants ==
  {MISMATCH_LIMIT, SETTLE_FRAMES, STALE_FRAMES} \subseteq Nat \ {0}

CarState == [cruise : BOOLEAN, brake : BOOLEAN]
IGNORED_SAFETY_MODES == {"SILENT", "NOOUTPUT"}
PandaModels == {"CAR", "ELM327"} \cup IGNORED_SAFETY_MODES
PandaState(m, c) == [model |-> m, controls |-> c]
NoPandaState == PandaState("NONE", FALSE)

UpTo(n, cap) == IF n < cap THEN n + 1 ELSE n

---------------------------------------------------------------------------
(* data_sample                                                             *)
Engaged(d) == d.state \in ENABLED_STATES
Active(d)  == d.state \in ACTIVE_STATES

StaleNow == IF fresh THEN 0 ELSE UpTo(sd.stale, STALE_FRAMES)
FrameNow == UpTo(sd.frame, SETTLE_FRAMES + 1)

Disagrees == ps.model \notin IGNORED_SAFETY_MODES \cup {"NONE"} /\ ~ps.controls

MismatchOfActive ==
  IF ~Active(sd) THEN 0
  ELSE IF Disagrees THEN sd.mismatch + 1 ELSE sd.mismatch
MismatchNow ==
  IF ~Engaged(sd) THEN 0
  ELSE IF Disagrees THEN sd.mismatch + 1 ELSE sd.mismatch

---------------------------------------------------------------------------
(* update_events: the types of the events                                  *)

\* create_common_events and the pedals, for CarState now and before.
LevelEvents(now, before, still, override) ==
  (IF now.cruise THEN {"ENABLE"} ELSE {"USER_DISABLE"})
  \cup (IF now.brake /\ still THEN {"PRE_ENABLE"} ELSE {})
  \cup (IF now.brake /\ (~before.brake \/ ~still) THEN {"USER_DISABLE", "NO_ENTRY"} ELSE {})
  \cup (IF override THEN {"OVERRIDE"} ELSE {})
CarEvents(now, before, still, override) ==
  (IF now.cruise /\ ~before.cruise THEN {"ENABLE"} ELSE {})
  \cup (IF ~now.cruise THEN {"USER_DISABLE"} ELSE {})
  \cup (IF now.brake /\ still THEN {"PRE_ENABLE"} ELSE {})
  \cup (IF now.brake /\ (~before.brake \/ ~still) THEN {"USER_DISABLE", "NO_ENTRY"} ELSE {})
  \cup (IF override THEN {"OVERRIDE"} ELSE {})

\* What the other conditions may add, cancel and faults among them.
Others == {{}, {"NO_ENTRY"}, {"SOFT_DISABLE", "NO_ENTRY"}, {"IMMEDIATE_DISABLE", "NO_ENTRY"},
           {"USER_DISABLE", "NO_ENTRY"}}

\* The events of the car and of the other conditions; canError if CAN is not valid.
SilentCanError(now, before) ==
  {other \cup IF canValid THEN CarEvents(now, before, still, override) ELSE {"NO_ENTRY"} :
     still \in BOOLEAN, override \in BOOLEAN, canValid \in BOOLEAN, other \in Others}
Raised(now, before) ==
  {other \cup IF canValid THEN CarEvents(now, before, still, override)
              ELSE {"IMMEDIATE_DISABLE", "NO_ENTRY"} :
     still \in BOOLEAN, override \in BOOLEAN, canValid \in BOOLEAN, other \in Others}

\* controlsMismatch
MismatchCountOnly == MismatchNow >= MISMATCH_LIMIT /\ ps.model # "NONE"
Mismatch ==
  \/ ps.model \notin {"CAR", "NONE"} /\ FrameNow > SETTLE_FRAMES
  \/ MismatchNow >= MISMATCH_LIMIT /\ ps.model # "NONE"

Dead == StaleNow >= STALE_FRAMES     \* commIssue: pandaStates is not alive

EventsOf(raised) ==
  raised
  \cup (IF Mismatch THEN {"IMMEDIATE_DISABLE", "NO_ENTRY"} ELSE {})
  \cup (IF Dead THEN {"SOFT_DISABLE", "NO_ENTRY"} ELSE {})

---------------------------------------------------------------------------
Decision(raised) == update(Machine(sd.state, sd.timer), EventsOf(raised))

\* step, with the decision m. Before initialized only selfdriveInitializing is raised,
\* and the state machine is not run; the first frame cannot have seen all messages.
Step(m, ready) ==
  LET init == sd.initialized \/ (ready /\ sd.frame > 0)
  IN  /\ sd' = [state |-> IF init THEN m.state ELSE sd.state,
                timer |-> IF init THEN m.timer ELSE sd.timer,
                mismatch |-> MismatchNow, initialized |-> init,
                frame |-> FrameNow, stale |-> StaleNow]
      /\ fresh' = FALSE
      /\ UNCHANGED ps

\* pandad publishes; SubMaster keeps the last message only.
PandaStates(s) == ps' = s /\ fresh' = TRUE /\ UNCHANGED sd

SdInit ==
  /\ ps = NoPandaState /\ fresh = FALSE
  /\ sd = [state |-> "disabled", timer |-> 0, mismatch |-> 0, initialized |-> FALSE,
           frame |-> 0, stale |-> STALE_FRAMES]

Selfdrive ==
  [state : OpenpilotState, timer : 0..SOFT_DISABLE_FRAMES, mismatch : 0..MISMATCH_LIMIT,
   initialized : BOOLEAN, frame : 0..SETTLE_FRAMES + 1, stale : 0..STALE_FRAMES]

\* The variables keep their types; in particular the mismatch counter never gets
\* past its limit: openpilot is disengaged, and the counter cleared, when it is reached.
SdTypeOK ==
  /\ sd \in Selfdrive
  /\ ps \in [model : PandaModels, controls : BOOLEAN] \cup {NoPandaState}
  /\ fresh \in BOOLEAN
=============================================================================
