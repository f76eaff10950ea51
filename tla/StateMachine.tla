----------------------------- MODULE StateMachine -----------------------------
(***************************************************************************)
(* selfdrived's state.py: the next engagement state as a function of the   *)
(* state, the soft disable timer and the types E of the current events.    *)
(* The two override types are always tested together and are one here.     *)
(***************************************************************************)
EXTENDS Integers

CONSTANT SOFT_DISABLE_FRAMES    \* int(SOFT_DISABLE_TIME / DT_CTRL)

ASSUME SoftDisableConstant == SOFT_DISABLE_FRAMES \in Nat \ {0}

ACTIVE_STATES  == {"enabled", "softDisabling", "overriding"}
ENABLED_STATES == ACTIVE_STATES \cup {"preEnabled"}
OpenpilotState == ENABLED_STATES \cup {"disabled"}

EventTypes == {"ENABLE", "PRE_ENABLE", "OVERRIDE", "NO_ENTRY", "USER_DISABLE",
               "IMMEDIATE_DISABLE", "SOFT_DISABLE"}

Machine(s, n) == [state |-> s, timer |-> n]
Disables(E) == E \cap {"USER_DISABLE", "IMMEDIATE_DISABLE"} # {}
EnabledOrOverriding(E) == IF "OVERRIDE" \in E THEN "overriding" ELSE "enabled"

FromDisabled(E) ==
  IF "ENABLE" \notin E \/ "NO_ENTRY" \in E THEN "disabled"
  ELSE IF "PRE_ENABLE" \in E THEN "preEnabled" ELSE EnabledOrOverriding(E)

OverrideFirst(E, timer) ==
  IF "OVERRIDE" \in E THEN Machine("overriding", timer)
  ELSE IF "SOFT_DISABLE" \in E THEN Machine("softDisabling", SOFT_DISABLE_FRAMES)
  ELSE Machine("enabled", timer)
WhileEnabled(E, timer) ==
  IF "SOFT_DISABLE" \in E THEN Machine("softDisabling", SOFT_DISABLE_FRAMES)
  ELSE Machine(EnabledOrOverriding(E), timer)

\* The timer counts down at every step; it is set when soft disabling begins.
CountDown(timer) == IF timer > 0 THEN timer - 1 ELSE 0

update(m, E) ==
  LET timer == CountDown(m.timer)
  IN  IF m.state = "disabled" THEN Machine(FromDisabled(E), timer)
      ELSE IF Disables(E) THEN Machine("disabled", timer)
      ELSE IF m.state \in {"enabled", "overriding"} THEN WhileEnabled(E, timer)
      ELSE IF m.state = "softDisabling"
      THEN Machine(IF "SOFT_DISABLE" \notin E THEN "enabled"
                   ELSE IF timer > 0 THEN "softDisabling" ELSE "disabled", timer)
      ELSE Machine(IF "PRE_ENABLE" \in E THEN "preEnabled" ELSE "enabled", timer)
=============================================================================
