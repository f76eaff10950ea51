----------------------------- MODULE DriverConsent -----------------------------
(***************************************************************************)
(* What a driver may expect of a car whose ACC main state engages          *)
(* openpilot: each time it engages it uses up an act of the driver's own,  *)
(* a turning on of the ACC that it has not used before. An act may also be *)
(* lost. How the acts reach openpilot is left to the implementation.       *)
(***************************************************************************)
EXTENDS Naturals

VARIABLES on,        \* the ACC is on
          permits,   \* acts that openpilot has not seen yet
          engaged

Init == on \in BOOLEAN /\ permits = (IF on THEN 1 ELSE 0) /\ engaged = FALSE

TurnOn  == ~on /\ on' /\ permits' \in 0..permits + 1 /\ UNCHANGED engaged
TurnOff == on /\ ~on' /\ permits' \in 0..permits /\ UNCHANGED engaged
Engage  == ~engaged /\ engaged' /\ permits' < permits /\ permits' \in Nat /\ UNCHANGED on
Lose    == permits' \in 0..permits /\ (engaged' => engaged) /\ engaged' \in BOOLEAN
           /\ UNCHANGED on

Next == TurnOn \/ TurnOff \/ Engage \/ Lose
Spec == Init /\ [][Next]_<<on, permits, engaged>>
=============================================================================
