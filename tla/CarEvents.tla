------------------------------- MODULE CarEvents -------------------------------
(***************************************************************************)
(* card.py, which turns CAN into carState, in front of Selfdrived, which   *)
(* compares each carState with the one before.                             *)
(*                                                                         *)
(*   car    what the driver has set: the ACC is on, the brake is pressed   *)
(*   cs     card's CarState, as far as its changes matter to selfdrived    *)
(*   queue  the carState messages that selfdrived has not received         *)
(*   prev   selfdrived's CS_prev                                           *)
(*                                                                         *)
(* pandaStates may say anything at any time.                               *)
(***************************************************************************)
EXTENDS Selfdrived, Sequences, FiniteSets

CONSTANT QUEUE      \* bound: carState messages that msgq holds

VARIABLES car, cs, queue, prev
inputs == <<car, cs, queue, prev>>
vars == <<inputs, sd, ps, fresh>>

ASSUME CarEventsConstants == QUEUE \in Nat \ {0}

---------------------------------------------------------------------------
Cruise == car' = [car EXCEPT !.cruise = ~@] /\ UNCHANGED <<cs, queue, prev, sd, ps, fresh>>
Brake  == car' = [car EXCEPT !.brake = ~@]  /\ UNCHANGED <<cs, queue, prev, sd, ps, fresh>>

\* The messages of `seen` came since the last step; the rest keeps its value. The
\* queue is msgq's: a reader a whole queue behind is reset and loses it all.
Card(seen) ==
  /\ cs' = [k \in DOMAIN cs |-> IF k \in seen THEN car[k] ELSE cs[k]]
  /\ queue' = IF Len(queue) < QUEUE THEN Append(queue, cs') ELSE <<>>
  /\ UNCHANGED <<car, prev, sd, ps, fresh>>

\* recv_one waits for 20 ms and then makes do with the CarState it has.
CS == IF queue = <<>> THEN prev ELSE Head(queue)

Frame(raised, ready) ==
  /\ Step(Decision(raised), ready)
  /\ prev' = CS
  /\ queue' = IF queue = <<>> THEN queue ELSE Tail(queue)
  /\ UNCHANGED <<car, cs>>

SelfdriveStep == \E raised \in Raised(CS, prev), ready \in BOOLEAN : Frame(raised, ready)

PandaSays(s) == PandaStates(s) /\ UNCHANGED inputs

---------------------------------------------------------------------------
OffCS == [cruise |-> FALSE, brake |-> FALSE]

Init == SdInit /\ car \in CarState /\ cs = OffCS /\ queue = <<>> /\ prev = OffCS

Next == \/ Cruise \/ Brake \/ SelfdriveStep
        \/ \E seen \in SUBSET {"cruise", "brake"} : Card(seen)
        \/ \E m \in PandaModels, c \in BOOLEAN : PandaSays(PandaState(m, c))

Spec == Init /\ [][Next]_vars

---------------------------------------------------------------------------
(* Properties *)

\* The variables keep their types.
TypeOK ==
  /\ SdTypeOK
  /\ car \in CarState /\ cs \in CarState /\ prev \in CarState
  /\ queue \in Seq(CarState) /\ Len(queue) <= QUEUE

\* The samples of the ACC from the one selfdrived has seen last to the car itself.
Chain == <<prev>> \o queue \o <<cs, car>>
Rises == {i \in 1..Len(Chain) - 1 : ~Chain[i].cruise /\ Chain[i + 1].cruise}

\* openpilot engages only by an act of the driver: each time the state machine leaves
\* disabled it uses up a turning on of the ACC that it has not used before, however the
\* samples of it were delayed, repeated or lost on the way.
Consent == INSTANCE DriverConsent WITH
             on <- car.cruise, permits <- Cardinality(Rises), engaged <- Engaged(sd)
ConsentGiven == Consent!Spec

\* The brake wins in the frame that sees it pressed anew, whatever else happens in that
\* frame, CAN errors included: openpilot is not engaged after it. With the brake held it
\* engages into the pre-enabled state only.
BrakeDisengages ==
  [][ sd'.initialized /\ prev'.brake =>
        /\ ~prev.brake => ~Engaged(sd')
        /\ ~Engaged(sd) => sd'.state \in {"disabled", "preEnabled"} ]_vars
=============================================================================
