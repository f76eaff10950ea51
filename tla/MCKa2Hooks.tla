------------------------------ MODULE MCKa2Hooks ------------------------------
(***************************************************************************)
(* SafetyHooks on BYD, DNGA, Proton and Chery cars, between whose modes    *)
(* the host may switch: the buses carry every message BYD's hooks and      *)
(* rx_checks know, DNGA's wheel and brake messages, Proton's, the only     *)
(* ones here whose checksum and counter are checked, also damaged or out   *)
(* of sequence, and Chery's; the host asks to send every command. Two      *)
(* variables record, independently of the code's counters, what Proton's   *)
(* bus said: acc of the debounced stock ACC, since of the camera's frames. *)
(***************************************************************************)
EXTENDS SafetyHooks

Fr(a, b, w) == [addr |-> a, bus |-> b, what |-> w, crc |-> TRUE, seq |-> TRUE]
BadCrc(f) == [f EXCEPT !.crc = FALSE]
BadSeq(f) == [f EXCEPT !.seq = FALSE]

\* B_LKAS and B_ACC_CMD on bus 0 are a stock ECU heard on the car's side.
BydTraffic ==
  {Fr("B_MEAS", 0, "-"), Fr("B_WHEEL", 0, "moving"), Fr("B_WHEEL", 0, "stopped"),
   Fr("B_813", 0, "engaged"), Fr("B_813", 0, "idle"),
   Fr("B_ACC_CMD", 2, "engaged"), Fr("B_ACC_CMD", 2, "idle"), Fr("B_LKAS", 0, "active")}
  \cup {Fr("B_PEDALS", 0, w) : w \in {"none", "gas", "brake"}}
  \cup {Fr("B_BUTTONS", 0, w) : w \in {"none", "grant", "cancel"}}

DngaTraffic ==
  {Fr("D_WHEEL", 0, "moving"), Fr("D_WHEEL", 0, "stopped"),
   Fr("D_BRAKE", 0, "brake"), Fr("D_BRAKE", 0, "none")}

BydDngaTraffic == BydTraffic \cup DngaTraffic

BydCommands ==
  {Fr(a, 0, w) : a \in {"B_LKAS", "B_MPC", "B_ACC_CMD"}, w \in {"neutral", "active"}}
  \cup {Fr(a, 0, "active") : a \in {"D_LKAS", "D_ACC_BRAKE", "D_ACC_CMD"}}

\* Of the messages that only have to be alive, one (P_LKAS) is on the bus.
ProtonTraffic ==
  {Fr("P_BUTTONS", 0, "grant"), Fr("P_BUTTONS", 0, "cancel"),
   Fr("P_ACC_CMD", 2, "engaged"), Fr("P_ACC_CMD", 2, "idle"), Fr("P_LKAS", 2, "active"),
   BadSeq(Fr("P_ACC_CMD", 2, "engaged")), BadSeq(Fr("P_ACC_CMD", 2, "idle")),
   BadCrc(Fr("P_BUTTONS", 0, "grant"))}
ProtonCommands == {Fr("P_LKAS", 0, "active"), Fr("P_ACC_CMD", 0, "active")}

CheryTraffic ==
  {Fr("C_HUD", 2, "engaged"), Fr("C_HUD", 2, "idle"),
   Fr("C_WHEEL", 0, "moving"), Fr("C_WHEEL", 0, "stopped"),
   Fr("C_METER", 0, "on"), Fr("C_METER", 0, "off"),
   Fr("C_LKA_STATUS", 0, "engaged"), Fr("C_LKA_STATUS", 0, "idle")}
CheryCommands == {Fr(a, 0, "active") : a \in {"C_LANE_KEEP", "C_TIGGO_LK", "C_STEER_STATUS"}}

Mode(m, p) == [mode |-> m, param |-> p]
BydConfigs == {Mode("SILENT", {}), Mode("DNGA", {})}
              \cup {Mode("BYD", p) : p \in {{}, {"1"}, {"2"}, {"3"}, {"4"}, {"5"}}}
BydRelaxed == {Mode("SILENT", {}), Mode("BYD", {"2"})}
ProtonConfigs == {Mode("PROTON", {"ignore_ignition"}), Mode("SILENT", {})}
CheryConfigs == {Mode("CHERY", {}), Mode("CHERY", {"tiggo22"}), Mode("SILENT", {})}

Ka2Configs  == BydConfigs \cup ProtonConfigs \cup CheryConfigs
Ka2Traffic  == BydDngaTraffic \cup ProtonTraffic \cup CheryTraffic
Ka2Commands == BydCommands \cup ProtonCommands \cup CheryCommands

---------------------------------------------------------------------------
VARIABLES
  car,         \* the car the panda is built into
  since,       \* camera frames of each Proton command since the host last sent its own
  acc          \* off: valid idle ACC_CMD frames in a row since an engaged one;
               \* button: a button was pressed since the last valid ACC_CMD frame

vars == <<g, car, since, acc>>
OfCar(byd, proton, chery) ==
  CASE car = "PROTON" -> proton [] car = "CHERY" -> chery [] OTHER -> byd
NoAcc == [seen |-> FALSE, off |-> 0, button |-> FALSE]

Accepted(f) == Valid(g'.rx[<<f.addr, f.bus>>])
Refused(f) == Listed(g, f) /\ Listed(g', f) /\ ~Accepted(f) /\ CanRx(f)

Heard(f) ==
  IF g.mode # "PROTON" THEN acc
  ELSE IF f.addr = "P_ACC_CMD" /\ Accepted(f)
  THEN [seen   |-> acc.seen \/ f.what = "engaged",
        off    |-> IF f.what = "engaged" THEN 0
                   ELSE IF acc.off < PROTON_PCM_DISENGAGE_FRAMES THEN acc.off + 1 ELSE acc.off,
        button |-> FALSE]
  ELSE [acc EXCEPT !.button = @ \/ f.addr = "P_BUTTONS"]

\* Counted up to the length of the window; that many mean "none, or long ago".
Shared == {"P_LKAS", "P_ACC_CMD"}
LongAgo == [a \in Shared |-> PROTON_ACC_TX_BLOCK_MAX]

FromCamera(f) ==
  [a \in Shared |->
     IF g.mode = "PROTON" /\ f.addr = a /\ f.bus = 2 /\ since[a] < PROTON_ACC_TX_BLOCK_MAX
     THEN since[a] + 1 ELSE since[a]]

FromHost(f) ==
  [a \in Shared |->
     IF g.mode = "PROTON" /\ f.addr = a /\ TxAllowed(g, f) THEN 0 ELSE since[a]]

MCInit == Init /\ acc = NoAcc /\ since = LongAgo /\ car \in {"BYD", "PROTON", "CHERY"}
MCNext ==
  /\ \/ \E f \in Traffic \cap OfCar(BydDngaTraffic, ProtonTraffic, CheryTraffic) :
          CanRx(f) /\ acc' = Heard(f) /\ since' = FromCamera(f)
     \/ \E f \in Commands \cap OfCar(BydCommands, ProtonCommands, CheryCommands) :
          CanTx(f) /\ since' = FromHost(f) /\ UNCHANGED acc
     \/ SafetyTick /\ UNCHANGED <<acc, since>>
     \/ \E c \in Configs \cap OfCar(BydConfigs, ProtonConfigs, CheryConfigs) :
          SetSafetyHooks(c) /\ acc' = NoAcc /\ since' = LongAgo
  /\ UNCHANGED car
MCSpec == MCInit /\ [][MCNext]_vars

\* The tick timer always fires, as in FairSpec.
MCFairSpec == MCSpec /\ WF_vars(UNCHANGED <<car, since, acc>> /\ SafetyTick)

\* Host and camera never command the car together. Exclusive commands have one
\* source in every state. Proton's have two: what its mode promises instead is that
\* after a command of the host the next three of the camera's with that address are
\* held back (proton.h:121 "block camera LKA for one short step (stops both sources
\* clashing)"), whatever else is sent, refused, damaged or heard in between.
OneSource ==
  /\ NeverShared
  /\ g.mode = "PROTON" => \A a \in Shared :
       since[a] < PROTON_ACC_TX_BLOCK_MAX => ~Forwards(g, Fr(a, 2, "active"))

\* Proton's stock ACC is believed disengaged exactly when five valid frames in a
\* row said so: a shorter run of idle frames is a glitch that leaves the ACC
\* engaged, a longer one withdraws controls unless the driver pressed a button
\* after the last frame.
ProtonDebounce ==
  g.mode = "PROTON" /\ acc.seen =>
    /\ acc.off < PROTON_PCM_DISENGAGE_FRAMES => g.cruisePrev
    /\ acc.off = PROTON_PCM_DISENGAGE_FRAMES /\ ~acc.button => ~g.controls

Taught(h) == <<h.cruisePrev, h.gas, h.pSaw, h.pOff>>

\* A frame whose checksum is wrong, or that comes when the counter score of its
\* message is exhausted, withdraws controls and teaches the hooks nothing.
InvalidFramesTeachNothing ==
  [][ g'.controls \/ Taught(g') # Taught(g) => \A f \in Traffic : ~Refused(f) ]_vars
=============================================================================
