------------------------------ MODULE MCPandaBoard ------------------------------
(***************************************************************************)
(* PandaBoard with a Chery as the car, whose mode needs two messages only. *)
(* Three variables record what the driver could have observed at the ticks:*)
(*   idle     consecutive 1 Hz ticks that controls stayed allowed without  *)
(*            an engaged heartbeat                                         *)
(*   sinceOn  ticks since one that found controls allowed or engaged       *)
(*   beat     changes at every 1 Hz tick                                   *)
(***************************************************************************)
EXTENDS PandaBoard

Fr(a, bus, w) == [addr |-> a, bus |-> bus, what |-> w, crc |-> TRUE, seq |-> TRUE]
CarTraffic ==
  {Fr("C_HUD", 2, "engaged"), Fr("C_HUD", 2, "idle"), Fr("C_WHEEL", 0, "stopped")}
HostCommands == {Fr("C_LKAS_INFO", 0, "-")}

Mode(m, p) == [mode |-> m, param |-> p]
HostConfigs == {Mode("CHERY", {}), Mode("NOOUTPUT", {}), Mode("ELM327", {}),
                Mode("ALLOUTPUT", {})}

---------------------------------------------------------------------------
VARIABLES idle, sinceOn, beat
mcvars == <<vars, idle, sinceOn, beat>>

OffTicks == CONTROLS_COUNTDOWN   \* bound: more ticks than the countdown lasts

\* A plug that moves sets the mode up again, without controls, before the tick
\* looks at them. A tick in SILENT that finds no host has used the alarm up.
Found == b.hbEngaged \/ (g.controls /\ b'.harness = b.harness)
Spent == g'.mode = "SILENT" /\ b'.hbCounter >= HEARTBEAT_IGNITION_CNT_OFF

Watch(tick) ==
  /\ beat' = IF tick THEN ~beat ELSE beat
  /\ idle' = IF ~g'.controls \/ ~g.controls \/ b'.hbEngaged THEN 0
             ELSE IF tick /\ ~b.hbEngaged THEN idle + 1 ELSE idle
  /\ sinceOn' = IF ~tick THEN sinceOn
                ELSE IF Spent THEN OffTicks
                ELSE IF Found THEN 0
                ELSE IF sinceOn < OffTicks THEN sinceOn + 1 ELSE sinceOn

MCInit == BInit /\ idle = 0 /\ sinceOn = OffTicks /\ beat = FALSE
MCNext == \/ Tick1Hz /\ Watch(TRUE)
          \/ Reset /\ idle' = 0 /\ sinceOn' = OffTicks /\ UNCHANGED beat
          \/ /\ \/ Tick8Hz \/ HostStops \/ RequestUnknown \/ DisableHeartbeat
                \/ \E c \in Configs : RequestMode(c)
                \/ \E e \in BOOLEAN : Heartbeat(e)
                \/ \E i, r \in BOOLEAN : DriveRelay(i, r)
                \/ \E f \in Commands : HostSend(f)
                \/ \E f \in Traffic : BusRx(f)
             /\ Watch(FALSE)

\* FairBSpec's fairness: Tick1Hz is always enabled, so that weak fairness says it
\* happens again and again; and it is the only action that changes beat.
MCSpec == MCInit /\ [][MCNext]_mcvars /\ []<><<beat' # beat>>_mcvars

\* "exit controls allowed if unused by openpilot for a few seconds": controls do
\* not outlive the third consecutive tick without an engaged heartbeat.
UnusedControlsExpire == idle < MISM_LIMIT

\* The driver is warned: when the heartbeat is lost and the car's mode left, the
\* siren starts if controls were allowed, or openpilot engaged, at this tick or at
\* one of the four before it.
LossSoundsSiren ==
  [][ b'.hbLost /\ ~b.hbLost /\ (Found \/ sinceOn < CONTROLS_COUNTDOWN - 1) =>
        b'.siren = SIREN_SECONDS ]_mcvars
=============================================================================
