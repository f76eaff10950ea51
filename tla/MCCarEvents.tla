----------------------------- MODULE MCCarEvents -----------------------------
(***************************************************************************)
(* CarEvents with the bounds of its configuration. Recorded:               *)
(*   soft     frames in a row that were active with a soft disable event   *)
(*   against  frames in a row that left openpilot engaged although the     *)
(*            panda, in a car's mode, did not allow controls               *)
(***************************************************************************)
EXTENDS CarEvents

VARIABLES soft, against
mcvars == <<vars, soft, against>>

MCInit == Init /\ soft = 0 /\ against = 0

Watch(raised) ==
  /\ soft' = IF Active(sd') /\ "SOFT_DISABLE" \in EventsOf(raised) THEN soft + 1 ELSE 0
  /\ against' = IF Engaged(sd') /\ Disagrees THEN against + 1 ELSE 0

MCNext ==
  \/ \E raised \in Raised(CS, prev), ready \in BOOLEAN : Frame(raised, ready) /\ Watch(raised)
  \/ /\ \/ Cruise \/ Brake
        \/ \E seen \in SUBSET {"cruise", "brake"} : Card(seen)
        \/ \E m \in PandaModels, c \in BOOLEAN : PandaSays(PandaState(m, c))
     /\ UNCHANGED <<soft, against>>
MCSpec == MCInit /\ [][MCNext]_mcvars

\* A soft disable that lasts ends in disengagement after its time, from whatever state
\* it began: driver overrides do not extend it, and the pre-enabled state, which takes no
\* notice of it, adds the one frame in which it becomes enabled.
SoftDisableEnds == soft <= SOFT_DISABLE_FRAMES + 1

\* openpilot does not stay engaged against the panda: mismatches in a row end it at the
\* limit, and an engagement that begins with one is ended no later.
MismatchGivesUp == against <= MISMATCH_LIMIT
=============================================================================
