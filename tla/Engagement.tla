------------------------------ MODULE Engagement ------------------------------
(***************************************************************************)
(* One drive: the panda, pandad (pandad.cc, panda_safety.cc) and           *)
(* selfdrived with card, as processes that interleave, crash and lag. The  *)
(* panda decides whether openpilot may control the car, selfdrived decides *)
(* whether it does; pandad carries each one's decision to the other.       *)
(*                                                                         *)
(* The panda is PandaPromise, which PandaBoard implements. Added here:     *)
(*   pd     pandad: up; pc, where its 10 Hz pass is; configured and elm    *)
(*          (safety_configured_, initialized_); engaged; missed: its last  *)
(*          pass found no new selfdriveState                               *)
(*   news   selfdrived has published since pandad last looked              *)
(*   ready  the parameter ControlsReady, set by card                       *)
(*   sdUp   selfdrived runs                                                *)
(*   exits  how often pandad has ended                                     *)
(*                                                                         *)
(* What the car reports is any CarState after any other. The car is onroad *)
(* throughout: is_onroad holds. Nothing restarts selfdrived in a drive;    *)
(* pandad.py starts pandad again.                                          *)
(***************************************************************************)
EXTENDS Selfdrived

CONSTANTS EXPIRE, LOSE_FROM, LOSE_BY,
          MAX_EXITS      \* bound: times pandad ends

ASSUME PromiseConstants ==
  {EXPIRE, LOSE_FROM, LOSE_BY} \subseteq Nat \ {0} /\ LOSE_FROM <= LOSE_BY

VARIABLES p, pd, news, ready, sdUp, exits
Panda == INSTANCE PandaPromise

sdvars == <<sd, ps, fresh>>
vars == <<sdvars, p, pd, news, ready, sdUp, exits>>

NewPandad == [up |-> TRUE, pc |-> "read", configured |-> FALSE, elm |-> FALSE, engaged |-> FALSE,
              missed |-> TRUE]

---------------------------------------------------------------------------
(* pandad: the part of its loop that runs at 10 Hz                         *)
At(l) == pd.up /\ pd.pc = l

\* selfdriveState is alive if it came within the last 100 ms, which is about one
\* pass; what it says is what selfdrived decided last.
AliveChoices == IF news THEN {TRUE} ELSE IF pd.missed THEN {FALSE} ELSE BOOLEAN
StaleEngaged(alive) == Engaged(sd)
EngagedNow(alive) == alive /\ Engaged(sd)

\* send_panda_states: SILENT is replaced by NOOUTPUT, so is any other mode when the
\* ignition, which can be misread, is off. What is published was read before.
Replaced(ignition) ==
  IF p.model # "NOOUTPUT" /\ (p.model = "SILENT" \/ ~ignition)
  THEN Panda!Selections(p, "NOOUTPUT") ELSE {p}

ReadPanda ==
  \E alive \in AliveChoices, ignition \in BOOLEAN :
    /\ At("read")
    /\ p' \in Replaced(ignition)
    /\ PandaStates(PandaState(p.model, p.controls))
    /\ pd' = [pd EXCEPT !.pc = "beat", !.engaged = EngagedNow(alive), !.missed = ~news]
    /\ news' = FALSE
    /\ UNCHANGED <<ready, sdUp, exits>>

\* get_state fails: nothing is published and no heartbeat sent in this pass.
ReadFails ==
  \E alive \in AliveChoices :
    /\ At("read")
    /\ pd' = [pd EXCEPT !.pc = "configure", !.engaged = EngagedNow(alive), !.missed = ~news]
    /\ news' = FALSE
    /\ UNCHANGED <<sdvars, p, ready, sdUp, exits>>

Beat ==
  /\ At("beat")
  /\ p' = [p EXCEPT !.quiet = 0, !.watch = TRUE, !.used = pd.engaged]
  /\ pd' = [pd EXCEPT !.pc = "configure"]
  /\ UNCHANGED <<sdvars, news, ready, sdUp, exits>>

\* configureSafetyMode: ELM327 for the fingerprinting, the car's mode once card is
\* ready, and then nothing more in this process.
ConfiguresAlways == TRUE
Configures == ~pd.configured
Configure ==
  /\ At("configure")
  /\ p' \in IF ~Configures THEN {p}
            ELSE IF ready THEN Panda!Selections(p, "CAR")
            ELSE IF pd.elm THEN {p} ELSE Panda!Selections(p, "ELM327")
  /\ pd' = [pd EXCEPT !.pc = "read", !.elm = TRUE, !.configured = @ \/ ready]
  /\ UNCHANGED <<sdvars, news, ready, sdUp, exits>>

PandadStep == ReadPanda \/ ReadFails \/ Beat \/ Configure

Ends == pd.up /\ exits < MAX_EXITS /\ pd' = [NewPandad EXCEPT !.up = FALSE] /\ exits' = exits + 1

\* It crashes; it loses a panda that restarts; it is told to exit, and then closes the
\* relay if openpilot is not engaged.
PandadCrash == Ends /\ UNCHANGED <<sdvars, p, news, ready, sdUp>>
PandaRestart == Ends /\ p' = Panda!Boot /\ UNCHANGED <<sdvars, news, ready, sdUp>>
PandadExit ==
  /\ At("read") /\ Ends
  /\ p' \in IF pd.engaged THEN {p} ELSE Panda!Selections(p, "NOOUTPUT")
  /\ UNCHANGED <<sdvars, news, ready, sdUp>>

PandadStart == ~pd.up /\ pd' = NewPandad /\ UNCHANGED <<sdvars, p, news, ready, sdUp, exits>>

---------------------------------------------------------------------------
(* selfdrived and card                                                     *)
\* Whatever a frame raises, the decision is that of one of these sets of events.
AnyRaised == (SUBSET {"ENABLE", "PRE_ENABLE", "OVERRIDE"})
              \cup {{"USER_DISABLE"}, {"SOFT_DISABLE", "NO_ENTRY"},
                    {"PRE_ENABLE", "SOFT_DISABLE", "NO_ENTRY"}}
Forced == SUBSET {"IMMEDIATE_DISABLE", "SOFT_DISABLE", "NO_ENTRY"}
Alike(E, F) == \A s \in OpenpilotState, n \in 0..SOFT_DISABLE_FRAMES, forced \in Forced :
                 update(Machine(s, n), E \cup forced) = update(Machine(s, n), F \cup forced)
ASSUME AnyRaisedIsAny ==
  \A now \in CarState, before \in CarState :
    \A raised \in Raised(now, before) : \E few \in AnyRaised : Alike(raised, few)

SdStep ==
  /\ sdUp
  /\ \E m \in {Decision(raised) : raised \in AnyRaised}, r \in {FALSE, ~sd.initialized} : Step(m, r)
  /\ news' = TRUE
  /\ UNCHANGED <<p, pd, ready, sdUp, exits>>

SdCrash == sdUp /\ sdUp' = FALSE /\ UNCHANGED <<sdvars, p, pd, news, ready, exits>>

\* card tells pandad that it is ready when selfdrived has initialized.
CardReady == sd.initialized /\ ready' = TRUE /\ UNCHANGED <<sdvars, p, pd, news, sdUp, exits>>

---------------------------------------------------------------------------
(* The panda by itself                                                     *)
PandaTick  == p' \in Panda!Ticked(p) /\ UNCHANGED <<sdvars, pd, news, ready, sdUp, exits>>
PandaFrame == (Panda!Revoke \/ Panda!Grant) /\ UNCHANGED <<sdvars, pd, news, ready, sdUp, exits>>

Init == SdInit /\ p = Panda!Boot /\ pd = NewPandad /\ news = FALSE /\ ready = FALSE
            /\ sdUp = TRUE /\ exits = 0

Next == PandadStep \/ PandadCrash \/ PandaRestart \/ PandadExit \/ PandadStart
         \/ SdStep \/ SdCrash \/ CardReady \/ PandaTick \/ PandaFrame

\* The loops keep running while their processes are up, and the panda's timer always.
Fairness == WF_vars(PandadStep) /\ WF_vars(SdStep) /\ WF_vars(PandaTick)
Spec == Init /\ [][Next]_vars /\ Fairness

---------------------------------------------------------------------------
(* Properties *)

\* openpilot does not go on without the panda: if the panda allows no controls any
\* more, because the driver braked in a moment that card did not see, because a
\* message lags or the panda is gone, openpilot stops being active again and again.
NotAllowedEndsIt == <>[](sdUp /\ ~p.controls) => []<>~Active(sd)

\* The panda does not go on without openpilot: when selfdrived has crashed, in whatever
\* state, or is not engaged any more, what the car grants is withdrawn again and again.
UnusedControlsEnd == <>[](~sdUp \/ ~Engaged(sd)) => []<>~p.controls

\* The panda that gave up the car, because its host was silent or the ignition was
\* misread, is not configured again by the same pandad: openpilot stays out of it.
GivenUp == pd.configured /\ p.model # "CAR"
GivenUpIsFinal == <>(GivenUp /\ [](sdUp /\ pd.up)) => <>[]~Active(sd)
=============================================================================
