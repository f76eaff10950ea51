---------------------------- MODULE CarEvents_proofs ----------------------------
(***************************************************************************)
(* Theorems of CarEvents, for every value of its constants: the types,     *)
(* which bound the mismatch counter; that the brake wins in its frame;     *)
(* that a soft disable and a mismatch with the panda end in time; and that *)
(* openpilot implements DriverConsent.                                     *)
(***************************************************************************)
EXTENDS MCCarEvents, FiniteSetTheorems, WellFoundedInduction, TLAPS

\* The state machine stays in its states.
LEMMA UpdateType ==
  ASSUME NEW s \in OpenpilotState, NEW n \in 0..SOFT_DISABLE_FRAMES, NEW E
  PROVE  /\ update(Machine(s, n), E).state \in OpenpilotState
         /\ update(Machine(s, n), E).timer \in 0..SOFT_DISABLE_FRAMES
<1> DEFINE t == CountDown(n)
<1>0. SOFT_DISABLE_FRAMES \in Nat
  BY SoftDisableConstant
<1>1. t \in 0..SOFT_DISABLE_FRAMES
  BY <1>0 DEF CountDown
<1> HIDE DEF t
<1>2. CASE s = "disabled"
  <2>1. update(Machine(s, n), E) = Machine(FromDisabled(E), t)
    BY <1>2 DEF update, Machine, t
  <2> QED
    BY <2>1, <1>1 DEF Machine, FromDisabled, EnabledOrOverriding, OpenpilotState,
                      ENABLED_STATES, ACTIVE_STATES
<1>3. CASE s # "disabled" /\ Disables(E)
  <2>1. update(Machine(s, n), E) = Machine("disabled", t)
    BY <1>3 DEF update, Machine, t, OpenpilotState, ENABLED_STATES, ACTIVE_STATES
  <2> QED
    BY <2>1, <1>1 DEF Machine, OpenpilotState
<1>4. CASE s \in {"enabled", "overriding"} /\ ~Disables(E)
  <2>1. update(Machine(s, n), E) = WhileEnabled(E, t)
    BY <1>4 DEF update, Machine, t
  <2> QED
    BY <2>1, <1>0, <1>1 DEF WhileEnabled, Machine, EnabledOrOverriding, OpenpilotState,
                            ENABLED_STATES, ACTIVE_STATES
<1>5. CASE s = "softDisabling" /\ ~Disables(E)
  <2>1. update(Machine(s, n), E) =
          Machine(IF "SOFT_DISABLE" \notin E THEN "enabled"
                  ELSE IF t > 0 THEN "softDisabling" ELSE "disabled", t)
    BY <1>5 DEF update, Machine, t
  <2> QED
    BY <2>1, <1>1 DEF Machine, OpenpilotState, ENABLED_STATES, ACTIVE_STATES
<1>6. CASE s = "preEnabled" /\ ~Disables(E)
  <2>1. update(Machine(s, n), E) =
          Machine(IF "PRE_ENABLE" \in E THEN "preEnabled" ELSE "enabled", t)
    BY <1>6 DEF update, Machine, t
  <2> QED
    BY <2>1, <1>1 DEF Machine, OpenpilotState, ENABLED_STATES, ACTIVE_STATES
<1> QED
  BY <1>2, <1>3, <1>4, <1>5, <1>6 DEF OpenpilotState, ENABLED_STATES, ACTIVE_STATES

\* An event that disables leaves it disabled if it is engaged, and so does one that
\* forbids to engage if it is not.
LEMMA DisabledByEvents ==
  ASSUME NEW s \in OpenpilotState, NEW n, NEW E,
         s # "disabled" => Disables(E),
         s = "disabled" => "NO_ENTRY" \in E
  PROVE  update(Machine(s, n), E).state = "disabled"
<1>1. CASE s = "disabled"
  BY <1>1 DEF update, Machine, FromDisabled
<1>2. CASE s # "disabled"
  <2>1. update(Machine(s, n), E) = Machine("disabled", CountDown(n))
    BY <1>2 DEF update, Machine, OpenpilotState, ENABLED_STATES, ACTIVE_STATES
  <2> QED
    BY <2>1 DEF Machine
<1> QED
  BY <1>1, <1>2

---------------------------------------------------------------------------
(* One frame of selfdrived *)

\* The counter stays below its limit while openpilot is engaged, and openpilot is not
\* engaged before it is initialized.
SdInv == /\ SdTypeOK
         /\ Engaged(sd) => sd.mismatch < MISMATCH_LIMIT
         /\ ~sd.initialized => sd.state = "disabled"

\* mismatch_counter reaches its limit, if at all, in a frame that raises controlsMismatch.
LEMMA MismatchType ==
  ASSUME SdInv
  PROVE  /\ MismatchNow \in 0..MISMATCH_LIMIT
         /\ MismatchNow = MISMATCH_LIMIT => Engaged(sd) /\ Mismatch
<1>0. MISMATCH_LIMIT \in Nat \ {0} /\ sd.mismatch \in 0..MISMATCH_LIMIT
  BY SelfdrivedConstants DEF SdInv, SdTypeOK, Selfdrive
<1>1. CASE ~Engaged(sd)
  BY <1>0, <1>1 DEF MismatchNow
<1>2. CASE Engaged(sd) /\ Disagrees
  <2>1. MismatchNow = sd.mismatch + 1 /\ sd.mismatch < MISMATCH_LIMIT
    BY <1>2 DEF MismatchNow, SdInv
  <2>2. ps.model # "NONE"
    BY <1>2 DEF Disagrees
  <2> QED
    BY <1>0, <1>2, <2>1, <2>2 DEF Mismatch
<1>3. CASE Engaged(sd) /\ ~Disagrees
  <2>1. MismatchNow = sd.mismatch /\ sd.mismatch < MISMATCH_LIMIT
    BY <1>3 DEF MismatchNow, SdInv
  <2> QED
    BY <1>0, <2>1
<1> QED
  BY <1>1, <1>2, <1>3

\* A frame of selfdrived keeps its invariant, whatever the frame raises.
LEMMA StepKeeps ==
  ASSUME SdInv, NEW raised, NEW ready \in BOOLEAN, Step(Decision(raised), ready)
  PROVE  SdInv'
<1> DEFINE m == Decision(raised)
           init == sd.initialized \/ (ready /\ sd.frame > 0)
<1>t. /\ sd \in Selfdrive /\ fresh \in BOOLEAN
      /\ ps \in [model : PandaModels, controls : BOOLEAN] \cup {NoPandaState}
  BY DEF SdInv, SdTypeOK
<1>c. {MISMATCH_LIMIT, SETTLE_FRAMES, STALE_FRAMES} \subseteq Nat \ {0}
  BY SelfdrivedConstants
<1>1. m.state \in OpenpilotState /\ m.timer \in 0..SOFT_DISABLE_FRAMES
  BY <1>t, UpdateType DEF Decision, Selfdrive
<1>2. StaleNow \in 0..STALE_FRAMES /\ FrameNow \in 0..SETTLE_FRAMES + 1
  BY <1>t, <1>c DEF StaleNow, FrameNow, UpTo, Selfdrive
<1>3. MismatchNow \in 0..MISMATCH_LIMIT
  BY MismatchType
<1>4. init \in BOOLEAN
  BY <1>t, Zenon DEF Selfdrive
<1>5. sd' = [state |-> IF init THEN m.state ELSE sd.state,
             timer |-> IF init THEN m.timer ELSE sd.timer,
             mismatch |-> MismatchNow, initialized |-> init,
             frame |-> FrameNow, stale |-> StaleNow]
  BY DEF Step
<1>6. fresh' = FALSE /\ ps' = ps
  BY DEF Step
<1>7. MismatchNow = MISMATCH_LIMIT => m.state = "disabled"
  <2> SUFFICES ASSUME MismatchNow = MISMATCH_LIMIT
               PROVE  m.state = "disabled"
    OBVIOUS
  <2>1. Engaged(sd) /\ Mismatch
    BY MismatchType
  <2>2. sd.state \in OpenpilotState /\ sd.state # "disabled"
    BY <1>t, <2>1 DEF Engaged, Selfdrive, ENABLED_STATES, ACTIVE_STATES
  <2>3. Disables(EventsOf(raised))
    BY <2>1 DEF Disables, EventsOf
  <2> QED
    BY <2>2, <2>3, DisabledByEvents DEF Decision
<1> HIDE DEF m, init
<1>8. sd' \in Selfdrive
  <2>1. sd.state \in OpenpilotState /\ sd.timer \in 0..SOFT_DISABLE_FRAMES
    BY <1>t DEF Selfdrive
  <2> QED
    BY <1>1, <1>2, <1>3, <1>4, <1>5, <2>1 DEF Selfdrive
<1>9. Engaged(sd)' => sd'.mismatch < MISMATCH_LIMIT
  <2>1. sd'.mismatch = MismatchNow
    BY <1>5
  <2>2. CASE MismatchNow = MISMATCH_LIMIT
    <3>1. Engaged(sd)
      BY <2>2, MismatchType
    <3>2. init
      BY <3>1 DEF SdInv, init, Engaged, ENABLED_STATES, ACTIVE_STATES
    <3>3. sd'.state = "disabled"
      BY <1>5, <1>7, <2>2, <3>2
    <3> QED
      BY <3>3 DEF Engaged, ENABLED_STATES, ACTIVE_STATES
  <2>3. CASE MismatchNow # MISMATCH_LIMIT
    BY <1>3, <1>c, <2>1, <2>3
  <2> QED
    BY <2>2, <2>3
<1>10. ~sd'.initialized => sd'.state = "disabled"
  <2> SUFFICES ASSUME ~init PROVE sd'.state = "disabled"
    BY <1>5
  <2>1. ~sd.initialized
    BY DEF init
  <2> QED
    BY <1>5, <2>1 DEF SdInv
<1> QED
  BY <1>t, <1>6, <1>8, <1>9, <1>10 DEF SdInv, SdTypeOK

---------------------------------------------------------------------------
(* Everything *)
\* The inductive invariant.
IInv == TypeOK /\ SdInv

\* The processes start in the invariant.
LEMMA InitHolds == Init => IInv
<1> SUFFICES ASSUME Init PROVE IInv
  OBVIOUS
<1>0. /\ SOFT_DISABLE_FRAMES \in Nat \ {0} /\ QUEUE \in Nat \ {0}
      /\ {MISMATCH_LIMIT, SETTLE_FRAMES, STALE_FRAMES} \subseteq Nat \ {0}
  BY SoftDisableConstant, SelfdrivedConstants, CarEventsConstants
<1>1. sd \in Selfdrive
  BY <1>0 DEF Init, SdInit, Selfdrive, OpenpilotState
<1>2. ps = NoPandaState /\ fresh \in BOOLEAN
  BY DEF Init, SdInit
<1>3. ~Engaged(sd) /\ sd.state = "disabled"
  BY DEF Init, SdInit, Engaged, ENABLED_STATES, ACTIVE_STATES
<1>4. OffCS \in CarState /\ <<>> \in Seq(CarState) /\ Len(<<>>) <= QUEUE
  BY <1>0 DEF OffCS, CarState
<1> QED
  BY <1>1, <1>2, <1>3, <1>4 DEF IInv, TypeOK, SdInv, SdTypeOK, Init

\* card keeps what it has not seen anew.
LEMMA SampleType ==
  ASSUME NEW old \in CarState, NEW now \in CarState, NEW seen
  PROVE  [k \in DOMAIN old |-> IF k \in seen THEN now[k] ELSE old[k]] \in CarState
<1>1. DOMAIN old = {"cruise", "brake"}
  BY DEF CarState
<1>2. \A k \in {"cruise", "brake"} : old[k] \in BOOLEAN /\ now[k] \in BOOLEAN
  BY DEF CarState
<1> DEFINE v(k) == IF k \in seen THEN now[k] ELSE old[k]
<1>3. \A k \in {"cruise", "brake"} : v(k) \in BOOLEAN
  BY <1>2, Zenon
<1> HIDE DEF v
<1>4. [k \in {"cruise", "brake"} |-> v(k)] \in CarState
  BY <1>3 DEF CarState
<1> QED
  BY <1>1, <1>4 DEF v

\* The driver, card, pandad and selfdrived all keep the invariant.
LEMMA StepHolds == IInv /\ [Next]_vars => IInv'
<1> SUFFICES ASSUME IInv, [Next]_vars PROVE IInv'
  OBVIOUS
<1>t. /\ car \in CarState /\ cs \in CarState /\ prev \in CarState
      /\ queue \in Seq(CarState) /\ Len(queue) <= QUEUE /\ SdInv
  BY DEF IInv, TypeOK
<1>q. QUEUE \in Nat \ {0}
  BY CarEventsConstants
<1>s. SdInv' => SdTypeOK'
  BY DEF SdInv
<1>k. UNCHANGED <<sd, ps, fresh>> => SdInv'
  BY <1>t DEF SdInv, SdTypeOK, Engaged
<1>1. CASE Cruise
  <2>1. car' \in CarState
    BY <1>t, <1>1 DEF Cruise, CarState
  <2> QED
    BY <1>t, <1>s, <1>k, <1>1, <2>1 DEF Cruise, IInv, TypeOK
<1>2. CASE Brake
  <2>1. car' \in CarState
    BY <1>t, <1>2 DEF Brake, CarState
  <2> QED
    BY <1>t, <1>s, <1>k, <1>2, <2>1 DEF Brake, IInv, TypeOK
<1>3. CASE SelfdriveStep
  <2>1. PICK raised \in Raised(CS, prev), ready \in BOOLEAN : Frame(raised, ready)
    BY <1>3 DEF SelfdriveStep
  <2>2. SdInv'
    BY <1>t, <2>1, StepKeeps DEF Frame
  <2>3. prev' \in CarState
    BY <1>t, <2>1 DEF Frame, CS
  <2>4. queue' \in Seq(CarState) /\ Len(queue') <= QUEUE
    BY <1>t, <1>q, <2>1 DEF Frame
  <2> QED
    BY <1>t, <1>s, <2>1, <2>2, <2>3, <2>4 DEF Frame, IInv, TypeOK
<1>4. CASE \E seen \in SUBSET {"cruise", "brake"} : Card(seen)
  <2>1. PICK seen : Card(seen)
    BY <1>4
  <2>2. cs' \in CarState
    BY <1>t, <2>1, SampleType DEF Card
  <2>3. queue' \in Seq(CarState) /\ Len(queue') <= QUEUE
    BY <1>t, <1>q, <2>1, <2>2 DEF Card
  <2> QED
    BY <1>t, <1>s, <1>k, <2>1, <2>2, <2>3 DEF Card, IInv, TypeOK
<1>5. CASE \E m \in PandaModels, c \in BOOLEAN : PandaSays(PandaState(m, c))
  <2>1. PICK m \in PandaModels, c \in BOOLEAN : PandaSays(PandaState(m, c))
    BY <1>5
  <2>2. ps' \in [model : PandaModels, controls : BOOLEAN] /\ fresh' \in BOOLEAN /\ sd' = sd
    BY <2>1 DEF PandaSays, PandaStates, PandaState
  <2>3. SdInv'
    BY <1>t, <2>2 DEF SdInv, SdTypeOK, Engaged
  <2> QED
    BY <1>t, <1>s, <2>1, <2>3 DEF PandaSays, inputs, IInv, TypeOK
<1>6. CASE UNCHANGED vars
  BY <1>t, <1>s, <1>k, <1>6 DEF vars, inputs, IInv, TypeOK
<1> QED
  BY <1>1, <1>2, <1>3, <1>4, <1>5, <1>6 DEF Next

\* The strengthening of TypeOK that is inductive: without SdInv a frame could raise the
\* mismatch counter past its limit.
THEOREM InvHolds == Spec => []IInv
  BY InitHolds, StepHolds, PTL DEF Spec

\* For any limits: the variables keep their types. The mismatch counter, which nothing
\* in the code bounds, never passes its limit, as openpilot disengages in the frame that
\* reaches it and the counter is cleared in the next.
THEOREM TypeCorrect == Spec => []TypeOK
<1>1. IInv => TypeOK
  BY DEF IInv
<1> QED
  BY <1>1, InvHolds, PTL

---------------------------------------------------------------------------
(* The brake *)

\* A brake pressed anew disables, by its own event or by that of invalid CAN.
LEMMA PressDisables ==
  ASSUME NEW now \in CarState, NEW before \in CarState, NEW raised \in Raised(now, before),
         now.brake, ~before.brake
  PROVE  Disables(EventsOf(raised)) /\ "NO_ENTRY" \in EventsOf(raised)
<1>1. PICK still \in BOOLEAN, override \in BOOLEAN, canValid \in BOOLEAN, other \in Others :
        raised = other \cup IF canValid THEN CarEvents(now, before, still, override)
                            ELSE {"IMMEDIATE_DISABLE", "NO_ENTRY"}
  BY DEF Raised
<1>2. {"USER_DISABLE", "NO_ENTRY"} \subseteq CarEvents(now, before, still, override)
  BY DEF CarEvents
<1>3. raised \subseteq EventsOf(raised)
  BY DEF EventsOf
<1>4. \/ {"USER_DISABLE", "NO_ENTRY"} \subseteq raised
      \/ {"IMMEDIATE_DISABLE", "NO_ENTRY"} \subseteq raised
  BY <1>1, <1>2
<1> QED
  BY <1>3, <1>4 DEF Disables

\* A brake that is held keeps openpilot out, or lets it into the pre-enabled state.
LEMMA HeldPreEnables ==
  ASSUME NEW now \in CarState, NEW before \in CarState, NEW raised \in Raised(now, before),
         now.brake
  PROVE  "NO_ENTRY" \in EventsOf(raised) \/ "PRE_ENABLE" \in EventsOf(raised)
<1>1. PICK still \in BOOLEAN, override \in BOOLEAN, canValid \in BOOLEAN, other \in Others :
        raised = other \cup IF canValid THEN CarEvents(now, before, still, override)
                            ELSE {"IMMEDIATE_DISABLE", "NO_ENTRY"}
  BY DEF Raised
<1>2. \/ "PRE_ENABLE" \in CarEvents(now, before, still, override)
      \/ "NO_ENTRY" \in CarEvents(now, before, still, override)
  BY DEF CarEvents
<1>3. raised \subseteq EventsOf(raised)
  BY DEF EventsOf
<1> QED
  BY <1>1, <1>2, <1>3

\* For any limits, and whatever else a frame raises: the brake pressed anew leaves
\* openpilot disengaged in that frame, and a held one lets it pre-enable at most.
THEOREM BrakeWinsItsFrame == Spec => BrakeDisengages
<1>1. ASSUME IInv, [Next]_vars, sd'.initialized, prev'.brake
      PROVE  /\ ~prev.brake => ~Engaged(sd')
             /\ ~Engaged(sd) => sd'.state \in {"disabled", "preEnabled"}
  <2>t. sd \in Selfdrive /\ prev \in CarState /\ queue \in Seq(CarState) /\ SdInv
    BY <1>1 DEF IInv, TypeOK, SdTypeOK
  <2>o. sd.state \in OpenpilotState
    BY <2>t DEF Selfdrive
  <2>e. Engaged(sd) <=> sd.state # "disabled"
    BY <2>o DEF Engaged, OpenpilotState, ENABLED_STATES, ACTIVE_STATES
  <2>1. CASE SelfdriveStep
    <3>1. PICK raised \in Raised(CS, prev), ready \in BOOLEAN : Frame(raised, ready)
      BY <2>1 DEF SelfdriveStep
    <3> DEFINE E == EventsOf(raised)
    <3>2. CS \in CarState /\ prev' = CS
      BY <2>t, <3>1 DEF CS, Frame
    <3>3. sd'.state = update(Machine(sd.state, sd.timer), E).state
      BY <1>1, <3>1 DEF Frame, Step, Decision
    <3>4. ASSUME ~prev.brake PROVE ~Engaged(sd')
      <4>1. Disables(E) /\ "NO_ENTRY" \in E
        BY <1>1, <2>t, <3>1, <3>2, <3>4, PressDisables
      <4>2. sd'.state = "disabled"
        BY <2>o, <3>3, <4>1, DisabledByEvents
      <4> QED
        BY <4>2 DEF Engaged, ENABLED_STATES, ACTIVE_STATES
    <3>5. ASSUME ~Engaged(sd) PROVE sd'.state \in {"disabled", "preEnabled"}
      <4>1. "NO_ENTRY" \in E \/ "PRE_ENABLE" \in E
        BY <1>1, <2>t, <3>1, <3>2, HeldPreEnables
      <4>2. sd'.state = FromDisabled(E)
        BY <2>e, <3>3, <3>5 DEF update, Machine
      <4> QED
        BY <4>1, <4>2 DEF FromDisabled
    <3> QED
      BY <3>4, <3>5
  <2>2. CASE UNCHANGED <<sd, prev>>
    BY <1>1, <2>e, <2>2
  <2> QED
    BY <1>1, <2>1, <2>2 DEF Next, Cruise, Brake, Card, PandaSays, PandaStates, inputs, vars
<1> QED
  BY <1>1, InvHolds, PTL DEF Spec, BrakeDisengages

---------------------------------------------------------------------------
(* What lasts ends: the counters of MCCarEvents *)

\* A step of MCCarEvents is one of CarEvents, so that its invariant holds there too.
LEMMA MCStep == ASSUME MCNext PROVE Next
BY DEF MCNext, Next, SelfdriveStep

\* The inductive invariant of CarEvents is one of MCCarEvents.
LEMMA MCInvHolds == MCSpec => []IInv
<1>1. MCInit => IInv
  BY InitHolds DEF MCInit
<1>2. IInv /\ [MCNext]_mcvars => IInv'
  BY MCStep, StepHolds DEF mcvars
<1> QED
  BY <1>1, <1>2, PTL DEF MCSpec

\* How long a soft disable can have lasted, by state and timer: it begins from enabled or
\* overriding with the full time, and preEnabled leaves it at most one frame before that.
SoftBound(s, n, k) ==
  /\ k \in Nat
  /\ s \notin ACTIVE_STATES => k = 0
  /\ s \in {"enabled", "overriding"} => k <= 1
  /\ s = "softDisabling" => n >= 1 /\ k + n <= SOFT_DISABLE_FRAMES + 2

\* The state machine keeps that bound.
LEMMA SoftStep ==
  ASSUME NEW s \in OpenpilotState, NEW n \in 0..SOFT_DISABLE_FRAMES, NEW E, NEW k,
         SoftBound(s, n, k)
  PROVE  LET m == update(Machine(s, n), E)
         IN  SoftBound(m.state, m.timer,
                       IF m.state \in ACTIVE_STATES /\ "SOFT_DISABLE" \in E THEN k + 1 ELSE 0)
<1> DEFINE t == CountDown(n)
           m == update(Machine(s, n), E)
           j == IF m.state \in ACTIVE_STATES /\ "SOFT_DISABLE" \in E THEN k + 1 ELSE 0
<1>0. SOFT_DISABLE_FRAMES \in Nat \ {0} /\ k \in Nat
  BY SoftDisableConstant DEF SoftBound
<1>1. t \in 0..SOFT_DISABLE_FRAMES /\ (n >= 1 => t = n - 1)
  BY <1>0 DEF CountDown
<1>2. ASSUME "SOFT_DISABLE" \notin E, m.state # "softDisabling"
      PROVE  SoftBound(m.state, m.timer, j)
  BY <1>2 DEF SoftBound
<1>3. ASSUME m.state \notin ACTIVE_STATES
      PROVE  SoftBound(m.state, m.timer, j)
  BY <1>3 DEF SoftBound, ACTIVE_STATES
<1> HIDE DEF t
<1>4. CASE s = "disabled"
  <2>1. m = Machine(FromDisabled(E), t)
    BY <1>4 DEF update, Machine, t
  <2>2. m.state \in {"disabled", "preEnabled", "enabled", "overriding"}
    BY <2>1 DEF Machine, FromDisabled, EnabledOrOverriding
  <2>3. k = 0
    BY <1>4 DEF SoftBound, ACTIVE_STATES
  <2> QED
    BY <2>2, <2>3 DEF SoftBound, ACTIVE_STATES
<1>5. CASE s # "disabled" /\ Disables(E)
  <2>1. m = Machine("disabled", t)
    BY <1>5 DEF update, Machine, t, OpenpilotState, ENABLED_STATES, ACTIVE_STATES
  <2> QED
    BY <1>3, <2>1 DEF Machine, ACTIVE_STATES
<1>6. CASE s \in {"enabled", "overriding"} /\ ~Disables(E)
  <2>1. m = WhileEnabled(E, t)
    BY <1>6 DEF update, Machine, t
  <2>2. CASE "SOFT_DISABLE" \in E
    <3>1. m.state = "softDisabling" /\ m.timer = SOFT_DISABLE_FRAMES
      BY <2>1, <2>2 DEF WhileEnabled, Machine
    <3>2. k <= 1
      BY <1>6 DEF SoftBound
    <3> QED
      BY <1>0, <3>1, <3>2 DEF SoftBound, ACTIVE_STATES
  <2>3. CASE "SOFT_DISABLE" \notin E
    <3>1. m.state # "softDisabling"
      BY <2>1, <2>3 DEF WhileEnabled, Machine, EnabledOrOverriding
    <3> QED
      BY <1>2, <2>3, <3>1
  <2> QED
    BY <2>2, <2>3
<1>7. CASE s = "softDisabling" /\ ~Disables(E)
  <2>1. m = Machine(IF "SOFT_DISABLE" \notin E THEN "enabled"
                    ELSE IF t > 0 THEN "softDisabling" ELSE "disabled", t)
    BY <1>7 DEF update, Machine, t
  <2>2. CASE "SOFT_DISABLE" \notin E
    BY <1>2, <2>1, <2>2 DEF Machine
  <2>3. CASE "SOFT_DISABLE" \in E /\ t > 0
    <3>1. m.state = "softDisabling" /\ m.timer = t
      BY <2>1, <2>3 DEF Machine
    <3>2. n >= 1 /\ k + n <= SOFT_DISABLE_FRAMES + 2
      BY <1>7 DEF SoftBound
    <3> QED
      BY <1>0, <1>1, <2>3, <3>1, <3>2 DEF SoftBound, ACTIVE_STATES
  <2>4. CASE "SOFT_DISABLE" \in E /\ ~(t > 0)
    BY <1>3, <2>1, <2>4 DEF Machine, ACTIVE_STATES
  <2> QED
    BY <2>2, <2>3, <2>4
<1>8. CASE s = "preEnabled" /\ ~Disables(E)
  <2>1. m.state \in {"preEnabled", "enabled"}
    BY <1>8 DEF update, Machine
  <2>2. k = 0
    BY <1>8 DEF SoftBound, ACTIVE_STATES
  <2> QED
    BY <2>1, <2>2 DEF SoftBound, ACTIVE_STATES
<1> QED
  BY <1>4, <1>5, <1>6, <1>7, <1>8 DEF OpenpilotState, ENABLED_STATES, ACTIVE_STATES

\* The counters of MCCarEvents are bounded by what selfdrived keeps: soft by its timer,
\* against by its mismatch counter, which may have missed the frame that engaged.
CountInv ==
  /\ SoftBound(sd.state, sd.timer, soft)
  /\ against \in Nat
  /\ Engaged(sd) => against <= sd.mismatch + 1
  /\ ~Engaged(sd) => against = 0

\* A frame keeps the bound on soft.
LEMMA FrameKeepsSoft ==
  ASSUME SdInv, SoftBound(sd.state, sd.timer, soft),
         NEW raised, NEW ready \in BOOLEAN, Frame(raised, ready), Watch(raised)
  PROVE  SoftBound(sd.state, sd.timer, soft)'
<1> DEFINE E == EventsOf(raised)
           m == Decision(raised)
           init == sd.initialized \/ (ready /\ sd.frame > 0)
<1>t. sd.state \in OpenpilotState /\ sd.timer \in 0..SOFT_DISABLE_FRAMES
  BY DEF SdInv, SdTypeOK, Selfdrive
<1>1. /\ sd'.state = IF init THEN m.state ELSE sd.state
      /\ sd'.timer = IF init THEN m.timer ELSE sd.timer
      /\ soft' = IF sd'.state \in ACTIVE_STATES /\ "SOFT_DISABLE" \in E THEN soft + 1 ELSE 0
  BY DEF Frame, Step, Watch, Active
<1>2. SoftBound(m.state, m.timer,
                IF m.state \in ACTIVE_STATES /\ "SOFT_DISABLE" \in E THEN soft + 1 ELSE 0)
  BY <1>t, SoftStep DEF Decision
<1>3. ~init => sd.state = "disabled"
  BY DEF SdInv
<1> HIDE DEF m, init, E
<1> SUFFICES SoftBound(sd'.state, sd'.timer, soft')
  BY DEF SoftBound
<1>4. CASE init
  BY <1>1, <1>2, <1>4
<1>5. CASE ~init
  BY <1>1, <1>3, <1>5 DEF SoftBound, ACTIVE_STATES
<1> QED
  BY <1>4, <1>5

\* A frame keeps the bound on against.
LEMMA FrameKeepsAgainst ==
  ASSUME SdInv, CountInv, NEW raised, NEW ready \in BOOLEAN,
         Frame(raised, ready), Watch(raised)
  PROVE  /\ against' \in Nat
         /\ Engaged(sd') => against' <= sd'.mismatch + 1
         /\ ~Engaged(sd') => against' = 0
<1>1. sd.mismatch \in Nat /\ against \in Nat
  BY SelfdrivedConstants DEF SdInv, SdTypeOK, Selfdrive, CountInv
<1>2. sd'.mismatch = MismatchNow
  BY DEF Frame, Step
<1>3. against' = IF Engaged(sd') /\ Disagrees THEN against + 1 ELSE 0
  BY DEF Watch
<1>4. Disagrees => against <= MismatchNow /\ MismatchNow \in Nat
  BY <1>1 DEF MismatchNow, CountInv
<1>5. MismatchNow \in Nat
  BY <1>1 DEF MismatchNow
<1> QED
  BY <1>1, <1>2, <1>3, <1>4, <1>5

\* What is not a frame of selfdrived leaves both counters and what bounds them alone.
LEMMA CountStep == IInv /\ CountInv /\ [MCNext]_mcvars => CountInv'
<1> SUFFICES ASSUME IInv, CountInv, [MCNext]_mcvars PROVE CountInv'
  OBVIOUS
<1>1. CASE \E raised \in Raised(CS, prev), ready \in BOOLEAN :
              Frame(raised, ready) /\ Watch(raised)
  <2>1. PICK raised \in Raised(CS, prev), ready \in BOOLEAN :
               Frame(raised, ready) /\ Watch(raised)
    BY <1>1
  <2>2. SoftBound(sd.state, sd.timer, soft)'
    BY <2>1, FrameKeepsSoft DEF IInv, CountInv
  <2>3. /\ against' \in Nat
        /\ Engaged(sd') => against' <= sd'.mismatch + 1
        /\ ~Engaged(sd') => against' = 0
    BY <2>1, FrameKeepsAgainst DEF IInv
  <2> QED
    BY <2>2, <2>3 DEF CountInv, Engaged
<1>2. CASE UNCHANGED <<sd, soft, against>>
  BY <1>2 DEF CountInv, SoftBound, Engaged
<1> QED
  BY <1>1, <1>2 DEF MCNext, mcvars, vars, Cruise, Brake, Card, PandaSays, PandaStates

\* The counters' bounds are an invariant on top of IInv.
LEMMA CountInvHolds == MCSpec => []CountInv
<1>1. MCInit => CountInv
  BY DEF MCInit, Init, SdInit, CountInv, SoftBound, Engaged, ENABLED_STATES, ACTIVE_STATES
<1> QED
  BY <1>1, CountStep, MCInvHolds, PTL DEF MCSpec

\* For any soft disable time: a soft disable that lasts has disengaged openpilot one frame
\* after that time at the latest, whatever the driver does meanwhile.
THEOREM SoftDisableIsBounded == MCSpec => []SoftDisableEnds
<1>1. IInv /\ CountInv => SoftDisableEnds
  BY SoftDisableConstant
     DEF IInv, SdInv, SdTypeOK, Selfdrive, CountInv, SoftBound, SoftDisableEnds,
         OpenpilotState, ENABLED_STATES, ACTIVE_STATES
<1> QED
  BY <1>1, MCInvHolds, CountInvHolds, PTL

\* For any limit: openpilot is not engaged against the panda for more frames in a row than
\* the limit, the frame that engages it included.
THEOREM MismatchIsBounded == MCSpec => []MismatchGivesUp
<1>1. IInv /\ CountInv => MismatchGivesUp
  BY SelfdrivedConstants
     DEF IInv, SdInv, SdTypeOK, Selfdrive, CountInv, MismatchGivesUp
<1> QED
  BY <1>1, MCInvHolds, CountInvHolds, PTL

---------------------------------------------------------------------------
(* Every engagement uses up an act of the driver: CarEvents implements     *)
(* DriverConsent. The lemmas are about the chain of samples between the    *)
(* car and selfdrived, one for each way in which it changes.               *)
ChainOf(p, q, c, d) == <<p>> \o q \o <<c, d>>
RisesOf(ch) == {i \in 1..Len(ch) - 1 : ~ch[i].cruise /\ ch[i + 1].cruise}

\* What is where in the chain.
LEMMA InChain ==
  ASSUME NEW p \in CarState, NEW q \in Seq(CarState), NEW c \in CarState, NEW d \in CarState
  PROVE  LET ch == ChainOf(p, q, c, d)
         IN  /\ Len(q) \in Nat /\ Len(ch) = Len(q) + 3
             /\ ch[1] = p /\ ch[Len(q) + 2] = c /\ ch[Len(q) + 3] = d
             /\ \A i \in 2..Len(q) + 1 : ch[i] = q[i - 1]
             /\ \A i \in 1..Len(q) + 3 : ch[i].cruise \in BOOLEAN
<1> DEFINE ch == ChainOf(p, q, c, d)
           a == <<p>> \o q
<1>1. Len(q) \in Nat
  OBVIOUS
<1>2. a \in Seq(CarState) /\ Len(a) = Len(q) + 1
  OBVIOUS
<1>3. a[1] = p /\ \A i \in 2..Len(q) + 1 : a[i] = q[i - 1]
  BY <1>1
<1> HIDE DEF a
<1>4. ch = a \o <<c, d>>
  BY DEF ChainOf, a
<1>5. Len(ch) = Len(q) + 3 /\ ch[Len(q) + 2] = c /\ ch[Len(q) + 3] = d
  BY <1>1, <1>2, <1>4
<1>6. \A i \in 1..Len(q) + 1 : ch[i] = a[i]
  BY <1>1, <1>2, <1>4
<1> HIDE DEF ch
<1>7. ch[1] = p /\ \A i \in 2..Len(q) + 1 : ch[i] = q[i - 1]
  BY <1>1, <1>3, <1>6
<1>8. \A i \in 1..Len(q) + 3 : ch[i] \in CarState
  <2>1. \A i \in 2..Len(q) + 1 : q[i - 1] \in CarState
    BY <1>1
  <2> QED
    BY <1>1, <1>5, <1>7, <2>1
<1>9. \A i \in 1..Len(q) + 3 : ch[i].cruise \in BOOLEAN
  BY <1>8 DEF CarState
<1> QED
  BY <1>1, <1>5, <1>7, <1>9 DEF ch

\* A chain has finitely many rises.
LEMMA RisesFinite ==
  ASSUME NEW ch, Len(ch) \in Nat
  PROVE  IsFiniteSet(RisesOf(ch)) /\ Cardinality(RisesOf(ch)) \in Nat
<1>1. IsFiniteSet(1..Len(ch) - 1)
  BY FS_Interval
<1>2. RisesOf(ch) \in SUBSET (1..Len(ch) - 1)
  BY DEF RisesOf
<1>3. IsFiniteSet(RisesOf(ch))
  BY <1>1, <1>2, FS_Subset
<1> QED
  BY <1>3, FS_CardinalityType

\* One element more makes a set larger by one at most.
LEMMA OneMore ==
  ASSUME NEW R, NEW x, IsFiniteSet(R)
  PROVE  /\ IsFiniteSet(R \cup {x}) /\ Cardinality(R \cup {x}) \in Nat
         /\ Cardinality(R \cup {x}) <= Cardinality(R) + 1
<1>1. IsFiniteSet(R \cup {x})
  BY FS_AddElement
<1>2. Cardinality(R \cup {x}) = IF x \in R THEN Cardinality(R) ELSE Cardinality(R) + 1
  BY FS_AddElement, Zenon
<1>3. Cardinality(R) \in Nat /\ Cardinality(R \cup {x}) \in Nat
  BY <1>1, FS_CardinalityType
<1> QED
  BY <1>1, <1>2, <1>3

\* The driver's own end of the chain: only a turning on adds a rise, and but one.
LEMMA CarMoves ==
  ASSUME NEW p \in CarState, NEW q \in Seq(CarState), NEW c \in CarState,
         NEW d \in CarState, NEW e \in CarState
  PROVE  LET R == RisesOf(ChainOf(p, q, c, d))
             S == RisesOf(ChainOf(p, q, c, e))
         IN  /\ Cardinality(S) <= Cardinality(R) + 1
             /\ ~e.cruise \/ e.cruise = d.cruise => Cardinality(S) <= Cardinality(R)
<1> DEFINE ch == ChainOf(p, q, c, d)
           dh == ChainOf(p, q, c, e)
           R == RisesOf(ch)
           S == RisesOf(dh)
           n == Len(q)
<1>1. /\ n \in Nat /\ Len(ch) = n + 3 /\ Len(dh) = n + 3
      /\ ch[n + 3] = d /\ dh[n + 3] = e
      /\ \A i \in 1..n + 2 : ch[i] = dh[i]
      /\ \A i \in 1..n + 3 : ch[i].cruise \in BOOLEAN /\ dh[i].cruise \in BOOLEAN
  <2>1. /\ n \in Nat /\ Len(ch) = n + 3
        /\ ch[1] = p /\ ch[n + 2] = c /\ ch[n + 3] = d
        /\ \A i \in 2..n + 1 : ch[i] = q[i - 1]
        /\ \A i \in 1..n + 3 : ch[i].cruise \in BOOLEAN
    BY InChain
  <2>2. /\ Len(dh) = n + 3
        /\ dh[1] = p /\ dh[n + 2] = c /\ dh[n + 3] = e
        /\ \A i \in 2..n + 1 : dh[i] = q[i - 1]
        /\ \A i \in 1..n + 3 : dh[i].cruise \in BOOLEAN
    BY InChain
  <2> HIDE DEF ch, dh, n
  <2> QED
    BY <2>1, <2>2
<1> HIDE DEF ch, dh, n
<1>2. IsFiniteSet(R) /\ Cardinality(R) \in Nat /\ IsFiniteSet(S) /\ Cardinality(S) \in Nat
  BY <1>1, RisesFinite
<1>3. S \subseteq R \cup {n + 2}
  BY <1>1 DEF RisesOf
<1>4. ~e.cruise \/ e.cruise = d.cruise => S \subseteq R
  BY <1>1 DEF RisesOf
<1> HIDE DEF R, S
<1>5. IsFiniteSet(R \cup {n + 2}) /\ Cardinality(R \cup {n + 2}) <= Cardinality(R) + 1
  BY <1>2, OneMore
<1>6. Cardinality(S) <= Cardinality(R \cup {n + 2}) /\ Cardinality(R \cup {n + 2}) \in Nat
  BY <1>3, <1>5, FS_Subset, FS_CardinalityType
<1>7. ~e.cruise \/ e.cruise = d.cruise => Cardinality(S) <= Cardinality(R)
  BY <1>2, <1>4, FS_Subset
<1>8. Cardinality(S) <= Cardinality(R) + 1
  BY <1>2, <1>5, <1>6
<1> QED
  BY <1>7, <1>8 DEF R, S, ch, dh

\* card adds a sample: the car's of now or the one it had. It may repeat an edge's two
\* sides, but never the edge.
LEMMA CardAppends ==
  ASSUME NEW p \in CarState, NEW q \in Seq(CarState), NEW c \in CarState,
         NEW d \in CarState, NEW e \in CarState, e.cruise \in {c.cruise, d.cruise}
  PROVE  Cardinality(RisesOf(ChainOf(p, Append(q, e), e, d)))
           <= Cardinality(RisesOf(ChainOf(p, q, c, d)))
<1> DEFINE ch == ChainOf(p, q, c, d)
           r == Append(q, e)
           dh == ChainOf(p, r, e, d)
           R == RisesOf(ch)
           S == RisesOf(dh)
           n == Len(q)
           A == R \ {n + 1, n + 2}
<1>1. r \in Seq(CarState) /\ Len(r) = n + 1 /\ r[n + 1] = e
      /\ \A i \in 1..n : r[i] = q[i]
  OBVIOUS
<1>2. /\ n \in Nat /\ Len(ch) = n + 3 /\ Len(dh) = n + 4
      /\ ch[n + 2] = c /\ ch[n + 3] = d
      /\ dh[n + 2] = e /\ dh[n + 3] = e /\ dh[n + 4] = d
      /\ \A i \in 1..n + 1 : ch[i] = dh[i]
      /\ \A i \in 1..n + 3 : ch[i].cruise \in BOOLEAN
      /\ \A i \in 1..n + 4 : dh[i].cruise \in BOOLEAN
  <2>1. /\ n \in Nat /\ Len(ch) = n + 3
        /\ ch[1] = p /\ ch[n + 2] = c /\ ch[n + 3] = d
        /\ \A i \in 2..n + 1 : ch[i] = q[i - 1]
        /\ \A i \in 1..n + 3 : ch[i].cruise \in BOOLEAN
    BY InChain
  <2> HIDE DEF r
  <2>2. /\ Len(dh) = Len(r) + 3
        /\ dh[1] = p /\ dh[Len(r) + 2] = e /\ dh[Len(r) + 3] = d
        /\ \A i \in 2..Len(r) + 1 : dh[i] = r[i - 1]
        /\ \A i \in 1..Len(r) + 3 : dh[i].cruise \in BOOLEAN
    <3>1. r \in Seq(CarState)
      BY <1>1
    <3> QED
      BY <3>1, InChain
  <2> HIDE DEF ch, dh, n
  <2>3. dh[n + 2] = r[n + 1]
    BY <1>1, <2>1, <2>2
  <2>4. \A i \in 2..n + 1 : dh[i] = q[i - 1]
    BY <1>1, <2>1, <2>2
  <2> QED
    BY <1>1, <2>1, <2>2, <2>3, <2>4
<1> HIDE DEF ch, dh, r, n
<1>3. IsFiniteSet(R) /\ Cardinality(R) \in Nat /\ IsFiniteSet(A) /\ Cardinality(A) \in Nat
  BY <1>2, RisesFinite, FS_Subset, FS_CardinalityType
<1>4. A \subseteq S /\ S \subseteq A \cup {n + 1, n + 3}
  BY <1>2 DEF RisesOf
<1>5. n + 1 \notin S \/ n + 3 \notin S
  BY <1>2 DEF RisesOf
<1>6. n + 1 \in S \/ n + 3 \in S => n + 1 \in R \/ n + 2 \in R
  BY <1>2 DEF RisesOf
<1> HIDE DEF R, S
<1>7. CASE n + 1 \notin S /\ n + 3 \notin S
  <2>1. S \subseteq R
    BY <1>4, <1>7
  <2> QED
    BY <1>3, <2>1, FS_Subset DEF R, S, ch, dh, r
<1>8. CASE n + 1 \in S \/ n + 3 \in S
  <2>1. PICK x \in {n + 1, n + 3} : S \subseteq A \cup {x}
    <3>1. S \subseteq A \cup {n + 1} \/ S \subseteq A \cup {n + 3}
      BY <1>4, <1>5
    <3> QED
      BY <3>1
  <2>2. PICK y \in {n + 1, n + 2} : y \in R
    BY <1>6, <1>8
  <2>3. y \notin A /\ A \cup {y} \subseteq R
    BY <2>2
  <2> HIDE DEF A
  <2>4. IsFiniteSet(A \cup {x}) /\ Cardinality(A \cup {x}) <= Cardinality(A) + 1
    BY <1>3, OneMore
  <2>5. Cardinality(A \cup {y}) = Cardinality(A) + 1
    BY <1>3, <2>3, FS_AddElement
  <2>6. Cardinality(S) <= Cardinality(A \cup {x})
    BY <2>1, <2>4, FS_Subset
  <2>7. Cardinality(A \cup {y}) <= Cardinality(R)
    BY <1>3, <2>3, FS_Subset
  <2>8. Cardinality(S) \in Int /\ Cardinality(A \cup {x}) \in Int
    BY <2>1, <2>4, FS_Subset, FS_CardinalityType
  <2> QED
    BY <1>3, <2>4, <2>5, <2>6, <2>7, <2>8 DEF R, S, ch, dh, r
<1> QED
  BY <1>7, <1>8

\* A chain that is off at one place and on at a later one rises between them.
LEMMA RiseBetween ==
  ASSUME NEW ch, Len(ch) \in Nat, NEW k \in 2..Len(ch),
         ~ch[1].cruise, ch[k].cruise
  PROVE  RisesOf(ch) # {}
<1> DEFINE T == {i \in 1..Len(ch) : ch[i].cruise}
<1>1. T \subseteq Nat /\ T # {}
  OBVIOUS
<1>2. PICK x \in T : \A y \in T : ~(<<y, x>> \in OpToRel(<, Nat))
  BY <1>1, NatLessThanWellFounded, WFMin
<1>3. \A y \in T : ~(y < x)
  BY <1>1, <1>2 DEF OpToRel
<1>4. x \in 1..Len(ch) /\ ch[x].cruise
  OBVIOUS
<1>5. x # 1
  BY <1>4
<1> DEFINE w == x - 1
<1>6. w \in 1..Len(ch) - 1 /\ w + 1 = x /\ w < x
  BY <1>4, <1>5
<1>7. ~ch[w].cruise
  <2>1. w \notin T
    BY <1>3, <1>6
  <2>2. w \in 1..Len(ch)
    BY <1>6
  <2> QED
    BY <2>1, <2>2
<1> HIDE DEF w
<1>8. w \in RisesOf(ch)
  BY <1>4, <1>6, <1>7 DEF RisesOf
<1> QED
  BY <1>8

\* A queue that is reset takes its samples with it and leaves one rise at most, and none
\* where there was none.
LEMMA CardResets ==
  ASSUME NEW p \in CarState, NEW q \in Seq(CarState), NEW c \in CarState,
         NEW d \in CarState, NEW e \in CarState, e.cruise \in {c.cruise, d.cruise}
  PROVE  Cardinality(RisesOf(ChainOf(p, <<>>, e, d)))
           <= Cardinality(RisesOf(ChainOf(p, q, c, d)))
<1> DEFINE ch == ChainOf(p, q, c, d)
           dh == ChainOf(p, <<>>, e, d)
           R == RisesOf(ch)
           S == RisesOf(dh)
           n == Len(q)
<1>1. /\ n \in Nat /\ Len(ch) = n + 3
      /\ ch[1] = p /\ ch[n + 2] = c /\ ch[n + 3] = d
      /\ \A i \in 1..n + 3 : ch[i].cruise \in BOOLEAN
  BY InChain
<1>2. /\ Len(dh) = 3 /\ dh[1] = p /\ dh[2] = e /\ dh[3] = d
      /\ \A i \in 1..3 : dh[i].cruise \in BOOLEAN
  <2> DEFINE r == <<>>
  <2>1. r \in Seq(CarState) /\ Len(r) = 0
    OBVIOUS
  <2> HIDE DEF r
  <2>0. dh = ChainOf(p, r, e, d)
    BY DEF r
  <2>2. /\ Len(dh) = Len(r) + 3 /\ dh[1] = p
        /\ dh[Len(r) + 2] = e /\ dh[Len(r) + 3] = d
        /\ \A i \in 1..Len(r) + 3 : dh[i].cruise \in BOOLEAN
    <3> HIDE DEF dh
    <3>1. LET c0 == ChainOf(p, r, e, d)
          IN  /\ Len(c0) = Len(r) + 3 /\ c0[1] = p
              /\ c0[Len(r) + 2] = e /\ c0[Len(r) + 3] = d
              /\ \A i \in 1..Len(r) + 3 : c0[i].cruise \in BOOLEAN
      <4>1. r \in Seq(CarState)
        BY <2>1
      <4> QED
        BY <4>1, InChain
    <3> QED
      BY <2>0, <3>1
  <2> HIDE DEF dh
  <2> QED
    BY <2>1, <2>2
<1> HIDE DEF ch, dh, n
<1>3. IsFiniteSet(R) /\ Cardinality(R) \in Nat
  BY <1>1, RisesFinite
<1>4. PICK x : S \subseteq {x}
  <2>1. S \subseteq {1, 2} /\ ~(1 \in S /\ 2 \in S)
    BY <1>2 DEF RisesOf
  <2>2. S \subseteq {1} \/ S \subseteq {2}
    BY <2>1
  <2> QED
    BY <2>2
<1>5. S # {} => R # {}
  <2> SUFFICES ASSUME S # {} PROVE R # {}
    OBVIOUS
  <2>1. CASE ~p.cruise /\ e.cruise
    <3>1. ch[n + 2].cruise \/ ch[n + 3].cruise
      BY <1>1, <2>1
    <3>2. PICK k \in 2..Len(ch) : ch[k].cruise
      BY <1>1, <3>1
    <3>3. ~ch[1].cruise /\ Len(ch) \in Nat
      BY <1>1, <2>1
    <3> QED
      BY <3>2, <3>3, RiseBetween
  <2>2. CASE ~e.cruise /\ d.cruise
    <3>0. ~c.cruise
      BY <2>2 DEF CarState
    <3>1. n + 2 \in R
      BY <1>1, <2>2, <3>0 DEF RisesOf
    <3> QED
      BY <3>1
  <2>3. 1 \in S \/ 2 \in S
    BY <1>2 DEF RisesOf
  <2> QED
    BY <1>2, <2>1, <2>2, <2>3 DEF RisesOf
<1> HIDE DEF R, S
<1>6. Cardinality(S) <= Cardinality(R)
  <2>1. CASE S = {}
    BY <1>3, <2>1, FS_EmptySet
  <2>2. CASE S # {}
    <3>0. S = {x}
      BY <1>4, <2>2
    <3>1. Cardinality(S) = 1
      BY <3>0, FS_Singleton
    <3>2. Cardinality(R) # 0
      BY <1>3, <1>5, <2>2, FS_EmptySet
    <3> QED
      BY <1>3, <3>1, <3>2
  <2> QED
    BY <2>1, <2>2
<1> QED
  BY <1>6 DEF R, S, ch, dh

\* selfdrived takes the first sample: the rises after it stay, one place earlier, and one
\* to it is used up.
LEMMA FrameTakes ==
  ASSUME NEW p \in CarState, NEW q \in Seq(CarState), NEW c \in CarState, NEW d \in CarState,
         q # <<>>
  PROVE  LET R == RisesOf(ChainOf(p, q, c, d))
             S == RisesOf(ChainOf(Head(q), Tail(q), c, d))
         IN  /\ Cardinality(S) <= Cardinality(R)
             /\ ~p.cruise /\ Head(q).cruise => Cardinality(S) < Cardinality(R)
<1> DEFINE ch == ChainOf(p, q, c, d)
           h == Head(q)
           t == Tail(q)
           dh == ChainOf(h, t, c, d)
           R == RisesOf(ch)
           S == RisesOf(dh)
           n == Len(q)
           f == [i \in S |-> i + 1]
<1>1. /\ n \in Nat \ {0} /\ h = q[1] /\ h \in CarState /\ t \in Seq(CarState)
      /\ Len(t) = n - 1 /\ \A i \in 1..n - 1 : t[i] = q[i + 1]
  OBVIOUS
<1>2. /\ Len(ch) = n + 3 /\ Len(dh) = n + 2
      /\ ch[1] = p /\ ch[2] = h
      /\ \A i \in 1..n + 2 : dh[i] = ch[i + 1]
  <2>1. /\ Len(ch) = n + 3
        /\ ch[1] = p /\ ch[n + 2] = c /\ ch[n + 3] = d
        /\ \A i \in 2..n + 1 : ch[i] = q[i - 1]
    BY InChain
  <2> HIDE DEF h, t
  <2>2. /\ Len(dh) = Len(t) + 3
        /\ dh[1] = h /\ dh[Len(t) + 2] = c /\ dh[Len(t) + 3] = d
        /\ \A i \in 2..Len(t) + 1 : dh[i] = t[i - 1]
    <3>1. h \in CarState /\ t \in Seq(CarState)
      BY <1>1
    <3> QED
      BY <3>1, InChain
  <2> HIDE DEF ch, dh, n
  <2>3. dh[n + 1] = c /\ dh[n + 2] = d
    BY <1>1, <2>2
  <2>4. \A i \in 2..n : dh[i] = q[i]
    BY <1>1, <2>2
  <2>5. ch[2] = h
    BY <1>1, <2>1
  <2>6. \A i \in 1..n : ch[i + 1] = q[i]
    BY <1>1, <2>1
  <2> QED
    BY <1>1, <2>1, <2>2, <2>3, <2>4, <2>5, <2>6
<1> HIDE DEF ch, dh, h, t, n
<1>3. IsFiniteSet(R) /\ Cardinality(R) \in Nat
  BY <1>1, <1>2, RisesFinite
<1>4. \A i \in S : i \in Nat \ {0} /\ i + 1 \in R
  BY <1>1, <1>2 DEF RisesOf
<1>5. ~p.cruise /\ h.cruise => 1 \in R
  BY <1>1, <1>2 DEF RisesOf
<1> HIDE DEF R, S
<1>6. f \in Injection(S, R \ {1})
  <2>1. f \in [S -> R \ {1}]
    BY <1>4
  <2>2. \A i, j \in S : f[i] = f[j] => i = j
    BY <1>4
  <2> QED
    BY <2>1, <2>2 DEF Injection, IsInjective
<1> HIDE DEF f
<1>7. /\ IsFiniteSet(R \ {1})
      /\ Cardinality(R \ {1}) = IF 1 \in R THEN Cardinality(R) - 1 ELSE Cardinality(R)
  BY <1>3, FS_RemoveElement
<1>8. Cardinality(S) <= Cardinality(R \ {1}) /\ Cardinality(S) \in Int
  BY <1>6, <1>7, FS_Injection, FS_CardinalityType
<1> QED
  BY <1>3, <1>5, <1>7, <1>8 DEF R, S, ch, dh, h, t

\* ENABLE is raised by nothing but a rise from one carState to the next.
LEMMA EnableIsRise ==
  ASSUME NEW now \in CarState, NEW before \in CarState, NEW raised \in Raised(now, before),
         "ENABLE" \in EventsOf(raised)
  PROVE  now.cruise /\ ~before.cruise
<1>1. "ENABLE" \in raised
  BY DEF EventsOf
<1>2. PICK still \in BOOLEAN, override \in BOOLEAN, canValid \in BOOLEAN, other \in Others :
        raised = other \cup IF canValid THEN CarEvents(now, before, still, override)
                            ELSE {"IMMEDIATE_DISABLE", "NO_ENTRY"}
  BY DEF Raised
<1>3. "ENABLE" \notin other
  BY DEF Others
<1>4. "ENABLE" \in CarEvents(now, before, still, override)
  BY <1>1, <1>2, <1>3
<1> QED
  BY <1>4 DEF CarEvents

\* A frame that engages openpilot takes a sample that rises from the one before.
LEMMA EngagesOnRise ==
  ASSUME IInv, NEW raised \in Raised(CS, prev), NEW ready \in BOOLEAN,
         Frame(raised, ready), ~Engaged(sd), Engaged(sd')
  PROVE  queue # <<>> /\ ~prev.cruise /\ Head(queue).cruise
<1> DEFINE E == EventsOf(raised)
<1>t. sd \in Selfdrive /\ prev \in CarState /\ queue \in Seq(CarState)
  BY DEF IInv, TypeOK, SdTypeOK
<1>1. sd.state = "disabled"
  BY <1>t DEF Engaged, Selfdrive, OpenpilotState
<1>2. sd'.state # "disabled"
  BY DEF Engaged, ENABLED_STATES, ACTIVE_STATES
<1>3. sd'.state = FromDisabled(E)
  BY <1>1, <1>2 DEF Frame, Step, Decision, update, Machine
<1>4. "ENABLE" \in E
  BY <1>2, <1>3 DEF FromDisabled
<1>5. CS \in CarState
  BY <1>t DEF CS
<1>6. CS.cruise /\ ~prev.cruise
  BY <1>t, <1>4, <1>5, EnableIsRise
<1> QED
  BY <1>6 DEF CS

\* The rises of the chain of the variables, now and after a step.
LEMMA ChainRises ==
  ASSUME IInv, IInv'
  PROVE  /\ Rises = RisesOf(ChainOf(prev, queue, cs, car)) /\ Cardinality(Rises) \in Nat
         /\ Rises' = RisesOf(ChainOf(prev', queue', cs', car')) /\ Cardinality(Rises') \in Nat
<1>1. /\ prev \in CarState /\ queue \in Seq(CarState) /\ cs \in CarState /\ car \in CarState
      /\ prev' \in CarState /\ queue' \in Seq(CarState) /\ cs' \in CarState /\ car' \in CarState
  BY DEF IInv, TypeOK
<1>2. /\ Rises = RisesOf(ChainOf(prev, queue, cs, car))
      /\ Rises' = RisesOf(ChainOf(prev', queue', cs', car'))
  BY DEF Rises, Chain, RisesOf, ChainOf
<1>3. /\ Len(ChainOf(prev, queue, cs, car)) \in Nat
      /\ Len(ChainOf(prev', queue', cs', car')) \in Nat
  BY <1>1 DEF ChainOf
<1> QED
  BY <1>2, <1>3, RisesFinite

\* The steps of openpilot that do not engage it lose acts at most.
LEMMA LosesOnly ==
  ASSUME IInv, IInv', car'.cruise = car.cruise, Cardinality(Rises') <= Cardinality(Rises),
         Engaged(sd') => Engaged(sd)
  PROVE  Consent!Lose
<1>1. Cardinality(Rises) \in Nat /\ Cardinality(Rises') \in Nat
  BY ChainRises
<1>2. Cardinality(Rises') \in 0..Cardinality(Rises)
  BY <1>1
<1>3. Engaged(sd') \in BOOLEAN
  BY DEF Engaged
<1> QED
  BY <1>2, <1>3 DEF Consent!Lose, Engaged

\* Every step of CarEvents is one that DriverConsent allows.
LEMMA StepRefines ==
  IInv /\ IInv' /\ [Next]_vars => [Consent!Next]_<<car.cruise, Cardinality(Rises), Engaged(sd)>>
<1> SUFFICES ASSUME IInv, IInv', [Next]_vars
             PROVE  Consent!Next \/ UNCHANGED <<car.cruise, Cardinality(Rises), Engaged(sd)>>
  OBVIOUS
<1>t. /\ car \in CarState /\ cs \in CarState /\ prev \in CarState /\ queue \in Seq(CarState)
      /\ car' \in CarState /\ cs' \in CarState
  BY DEF IInv, TypeOK
<1>r. /\ Rises = RisesOf(ChainOf(prev, queue, cs, car)) /\ Cardinality(Rises) \in Nat
      /\ Rises' = RisesOf(ChainOf(prev', queue', cs', car')) /\ Cardinality(Rises') \in Nat
  BY ChainRises
<1>l. Consent!Lose => Consent!Next
  BY DEF Consent!Next
<1>1. CASE Cruise
  <2>1. car' = [car EXCEPT !.cruise = ~@] /\ UNCHANGED <<cs, queue, prev, sd>>
    BY <1>1 DEF Cruise
  <2>2. car'.cruise = ~car.cruise /\ car.cruise \in BOOLEAN
    BY <1>t, <2>1 DEF CarState
  <2>3. /\ Cardinality(Rises') <= Cardinality(Rises) + 1
        /\ ~car'.cruise => Cardinality(Rises') <= Cardinality(Rises)
    BY <1>t, <1>r, <2>1, CarMoves
  <2>4. CASE car.cruise
    <3>0. ~car'.cruise
      BY <2>2, <2>4, Zenon
    <3>1. Cardinality(Rises') \in 0..Cardinality(Rises)
      BY <1>r, <2>3, <3>0
    <3>2. Consent!TurnOff
      BY <2>1, <2>2, <2>4, <3>1 DEF Consent!TurnOff, Engaged
    <3> QED
      BY <3>2 DEF Consent!Next
  <2>5. CASE ~car.cruise
    <3>1. Cardinality(Rises') \in 0..Cardinality(Rises) + 1
      BY <1>r, <2>3
    <3>2. Consent!TurnOn
      BY <2>1, <2>2, <2>5, <3>1 DEF Consent!TurnOn, Engaged
    <3> QED
      BY <3>2 DEF Consent!Next
  <2> QED
    BY <2>4, <2>5
<1>2. CASE Brake
  <2>1. car' = [car EXCEPT !.brake = ~@] /\ UNCHANGED <<cs, queue, prev, sd>>
    BY <1>2 DEF Brake
  <2>2. car'.cruise = car.cruise
    BY <1>t, <2>1 DEF CarState
  <2>3. Cardinality(Rises') <= Cardinality(Rises)
    BY <1>t, <1>r, <2>1, <2>2, CarMoves
  <2> QED
    BY <1>l, <2>1, <2>2, <2>3, LosesOnly
<1>3. CASE SelfdriveStep
  <2>1. PICK raised \in Raised(CS, prev), ready \in BOOLEAN : Frame(raised, ready)
    BY <1>3 DEF SelfdriveStep
  <2>2. UNCHANGED <<car, cs>> /\ prev' = CS
        /\ queue' = IF queue = <<>> THEN queue ELSE Tail(queue)
    BY <2>1 DEF Frame
  <2>3. /\ Cardinality(Rises') <= Cardinality(Rises)
        /\ queue # <<>> /\ ~prev.cruise /\ Head(queue).cruise
             => Cardinality(Rises') < Cardinality(Rises)
    <3>1. CASE queue = <<>>
      <4>1. prev' = prev /\ queue' = queue
        BY <2>2, <3>1 DEF CS
      <4> QED
        BY <1>r, <2>2, <3>1, <4>1
    <3>2. CASE queue # <<>>
      <4>1. prev' = Head(queue) /\ queue' = Tail(queue)
        BY <2>2, <3>2 DEF CS
      <4> QED
        BY <1>t, <1>r, <2>2, <3>2, <4>1, FrameTakes
    <3> QED
      BY <3>1, <3>2
  <2>4. CASE ~Engaged(sd) /\ Engaged(sd')
    <3>1. Cardinality(Rises') < Cardinality(Rises)
      BY <2>1, <2>3, <2>4, EngagesOnRise
    <3>2. Consent!Engage
      BY <1>r, <2>2, <2>4, <3>1 DEF Consent!Engage, Engaged
    <3> QED
      BY <3>2 DEF Consent!Next
  <2>5. CASE Engaged(sd') => Engaged(sd)
    BY <1>l, <2>2, <2>3, <2>5, LosesOnly
  <2> QED
    BY <2>4, <2>5
<1>4. CASE \E seen \in SUBSET {"cruise", "brake"} : Card(seen)
  <2>1. PICK seen : Card(seen)
    BY <1>4
  <2>2. /\ queue' = IF Len(queue) < QUEUE THEN Append(queue, cs') ELSE <<>>
        /\ UNCHANGED <<car, prev, sd>>
    BY <2>1 DEF Card
  <2>3. cs'.cruise \in {cs.cruise, car.cruise}
    BY <1>t, <2>1 DEF Card, CarState
  <2>4. Cardinality(Rises') <= Cardinality(Rises)
    <3>1. CASE queue' = Append(queue, cs')
      BY <1>t, <1>r, <2>2, <2>3, <3>1, CardAppends
    <3>2. CASE queue' = <<>>
      BY <1>t, <1>r, <2>2, <2>3, <3>2, CardResets
    <3> QED
      BY <2>2, <3>1, <3>2
  <2> QED
    BY <1>l, <2>2, <2>4, LosesOnly
<1>5. CASE \E m \in PandaModels, c \in BOOLEAN : PandaSays(PandaState(m, c))
  <2>1. UNCHANGED <<car, cs, queue, prev, sd>>
    BY <1>5 DEF PandaSays, PandaStates, inputs
  <2> QED
    BY <1>r, <1>l, <2>1, LosesOnly
<1>6. CASE UNCHANGED vars
  <2>1. UNCHANGED <<car, cs, queue, prev, sd>>
    BY <1>6 DEF vars, inputs
  <2> QED
    BY <1>r, <1>l, <2>1, LosesOnly
<1> QED
  BY <1>1, <1>2, <1>3, <1>4, <1>5, <1>6 DEF Next

\* An ACC that is on at the start counts as turned on once.
LEMMA InitRefines == Init => Consent!Init
<1> SUFFICES ASSUME Init PROVE Consent!Init
  OBVIOUS
<1>1. /\ car \in CarState /\ cs = OffCS /\ queue = <<>> /\ prev = OffCS
      /\ ~OffCS.cruise /\ car.cruise \in BOOLEAN
  BY DEF Init, OffCS, CarState
<1> DEFINE q == <<>>
<1>2. OffCS \in CarState /\ q \in Seq(CarState) /\ Len(q) = 0
  BY DEF OffCS, CarState
<1>3. Chain = ChainOf(OffCS, q, OffCS, car)
  BY <1>1 DEF Chain, ChainOf
<1> HIDE DEF q
<1>4. Len(Chain) = 3 /\ Chain[1] = OffCS /\ Chain[2] = OffCS /\ Chain[3] = car
  <2>1. LET ch == ChainOf(OffCS, q, OffCS, car)
        IN  /\ Len(ch) = Len(q) + 3
            /\ ch[1] = OffCS /\ ch[Len(q) + 2] = OffCS /\ ch[Len(q) + 3] = car
    <3>1. OffCS \in CarState /\ q \in Seq(CarState) /\ car \in CarState
      BY <1>1, <1>2
    <3> QED
      BY <3>1, InChain
  <2> QED
    BY <1>2, <1>3, <2>1
<1> HIDE DEF Chain
<1>5. Rises = IF car.cruise THEN {2} ELSE {}
  BY <1>1, <1>4 DEF Rises
<1>6. Cardinality(Rises) = IF car.cruise THEN 1 ELSE 0
  BY <1>5, FS_EmptySet, FS_Singleton
<1>7. Engaged(sd) = FALSE
  BY DEF Init, SdInit, Engaged, ENABLED_STATES, ACTIVE_STATES
<1> QED
  BY <1>1, <1>6, <1>7 DEF Consent!Init

\* For any length of the queue: openpilot engages only by an act of the driver. Each
\* engagement uses up a turning on of the ACC that no engagement used before, however card
\* repeats its samples and msgq drops them.
THEOREM ConsentIsGiven == Spec => ConsentGiven
  BY InvHolds, InitRefines, StepHolds, StepRefines, PTL DEF Spec, ConsentGiven, Consent!Spec

=============================================================================
