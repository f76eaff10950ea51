----------------------------- MODULE PandaPromise -----------------------------
(***************************************************************************)
(* What the panda promises the host and the driver, whatever car it is in: *)
(* controls are allowed in a car's mode only, they are taken away when     *)
(* openpilot does not use them, and a host that is silent loses the car.   *)
(* When exactly the car's messages grant controls is left open.            *)
(*                                                                         *)
(* The panda is one record p:                                              *)
(*   model     the safety mode; all the cars' modes are "CAR"              *)
(*   controls  controls_allowed                                            *)
(*   used      heartbeat_engaged: the host said it is engaged              *)
(*   idle      heartbeat_engaged_mismatches                                *)
(*   quiet     heartbeat_counter: ticks since the last heartbeat           *)
(*   watch     the heartbeat is watched                                    *)
(***************************************************************************)
EXTENDS Naturals

CONSTANTS EXPIRE,      \* ticks that controls may go unused: 3
          LOSE_FROM,   \* ticks of silence: 2 when the car is off,
          LOSE_BY      \* 5 when it is on

VARIABLE p

Ungranting == {"SILENT", "NOOUTPUT", "ELM327"}
SafetyModel == Ungranting \cup {"CAR", "ALLOUTPUT"}
Boot == [model |-> "SILENT", controls |-> FALSE, used |-> FALSE, idle |-> 0, quiet |-> 0,
         watch |-> TRUE]

\* A mode starts without controls, or, if that is its nature, with them.
Selections(q, m) ==
  {[q EXCEPT !.model = m, !.controls = c,
             !.quiet = IF m \in {"SILENT", "NOOUTPUT"} THEN @ ELSE 0] :
     c \in IF m \in Ungranting THEN {FALSE} ELSE BOOLEAN}

CountTick(q) == [q EXCEPT !.quiet = IF @ < LOSE_BY THEN @ + 1 ELSE @,
                          !.watch = @ \/ q.model = "CAR"]
Expired(q) ==
  IF q.controls /\ ~q.used
  THEN [q EXCEPT !.idle = IF @ < EXPIRE THEN @ + 1 ELSE @, !.controls = q.idle + 1 < EXPIRE]
  ELSE [q EXCEPT !.idle = 0]

Lost(q) == [q EXCEPT !.model = "SILENT", !.controls = FALSE, !.used = FALSE]
MayLose(q)  == q.watch /\ q.quiet >= LOSE_FROM
MustLose(q) == q.watch /\ q.quiet >= LOSE_BY

\* The 1 Hz tick. It may also take controls away, for a message that lags.
Ticked(q) ==
  LET r == Expired(CountTick(q))
      kept == IF MustLose(r) THEN {} ELSE {r}
      lost == IF MayLose(r) THEN {Lost(r)} ELSE {}
  IN  kept \cup lost \cup {[s EXCEPT !.controls = FALSE] : s \in kept}

---------------------------------------------------------------------------
Select(m) == p' \in Selections(p, m)

\* When the plug has moved, the mode is set up again before the tick.
Tick == \E q \in {p} \cup Selections(p, p.model) : p' \in Ticked(q)

\* A frame of the car takes controls away or, in a car's mode, grants them.
Revoke == p' = [p EXCEPT !.controls = FALSE]
Grant == /\ p.model = "CAR" /\ ~p.controls
         /\ p' = [p EXCEPT !.controls = TRUE, !.idle = 0]

Heartbeat(engaged) == p' = [p EXCEPT !.quiet = 0, !.watch = TRUE, !.used = engaged]
DisableWatch == p.model # "CAR" /\ p' = [p EXCEPT !.watch = FALSE]
Restart == p' = Boot

Init == p = Boot
Next == \/ Tick \/ Revoke \/ Grant \/ DisableWatch \/ Restart
        \/ \E m \in SafetyModel : Select(m)
        \/ \E e \in BOOLEAN : Heartbeat(e)
Spec == Init /\ [][Next]_p
=============================================================================
