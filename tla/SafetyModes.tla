------------------------------ MODULE SafetyModes ------------------------------
(***************************************************************************)
(* The safety modes of the KA2 cars (BYD, DNGA, Proton, Chery, Perodua    *)
(* QVE) and the built-in ones, as tables and pure functions: what          *)
(* <mode>_init returns, and what the rx, tx and fwd hooks of the mode do   *)
(* to the globals of safety.h.                                             *)
(*                                                                         *)
(* The globals are one record g (see SafetyHooks for its fields). A CAN    *)
(* frame is a record f: its address and bus, `what` its payload means to   *)
(* the hook that reads it, whether its checksum is right (crc) and whether *)
(* its counter is the one expected next (seq).                             *)
(*                                                                         *)
(* Addresses are named after the message. "B_MEAS" stands for every BYD    *)
(* message that is required to be alive but grants nothing (287 angle,     *)
(* 508 torque, 790 and 792): the liveness of the class is the liveness of  *)
(* its worst member. "Q_BEAT" does the same for the QVE status messages.   *)
(***************************************************************************)
EXTENDS Naturals

\* A parameter is the set of flags the number or bit mask stands for; BYD's
\* parameters, which are plain numbers, are {"1"} to {"5"} ({} is 0).
Bool(f, w) == f.what = w

---------------------------------------------------------------------------
(* pcm_cruise_check: the stock ACC grants on its rising edge only, and     *)
(* takes away whenever it is off.                                          *)
PcmNoEdge(g, engaged) ==
  [g EXCEPT !.controls = engaged, !.cruisePrev = engaged]

pcm_cruise_check(g, engaged) ==
  [g EXCEPT !.controls   = engaged /\ (@ \/ ~g.cruisePrev),
            !.cruisePrev = engaged]

\* Driver buttons: set, resume (and BYD's ICC) grant, cancel takes away; a
\* frame with both bits set ends cancelled, as the code tests cancel last.
Buttons(g, f) ==
  [g EXCEPT !.controls = (@ \/ Bool(f, "grant")) /\ ~Bool(f, "cancel")]

---------------------------------------------------------------------------
(* byd.h *)
BydMpc(p)   == p = {"4"}
BydAlt(p)   == p \in {{"2"}, {"3"}, {"5"}}
BydSpoof(p) == p \in {{"1"}, {"2"}, {"3"}, {"5"}}
BydRelax(p) == p \in {{"2"}, {"4"}}
BydStockLong(p) == p = {"5"}

\* The ACC message the hook reads, and the one the mode lists in rx_checks.
BydAccRead(p) == IF BydMpc(p) \/ BydAlt(p) THEN "B_813" ELSE "B_ACC_CMD"

BydRxChecks(p) ==
  {<<"B_MEAS", 0>>, <<"B_WHEEL", 0>>, <<"B_PEDALS", 0>>, <<"B_BUTTONS", 0>>,
   IF p \in {{"2"}, {"4"}} THEN <<"B_813", 0>> ELSE <<"B_ACC_CMD", 2>>}

BydRxNoRelax(g, f) ==
  CASE f.bus = 0 /\ f.addr = "B_PEDALS" ->
         [g EXCEPT !.gas   = f.what \in {"gas", "gas_brake"},
                   !.brake = f.what \in {"brake", "gas_brake"}]
    [] f.bus = 0 /\ f.addr = "B_WHEEL"   -> [g EXCEPT !.moving = Bool(f, "moving")]
    [] f.bus = 0 /\ f.addr = "B_BUTTONS" -> Buttons(g, f)
    [] f.addr = BydAccRead(g.param)      -> pcm_cruise_check(g, Bool(f, "engaged"))
    [] OTHER -> g

byd_rx_hook(g, f) ==
  LET h == BydRxNoRelax(g, f)
  IN  IF BydRelax(g.param) THEN [h EXCEPT !.controls = TRUE] ELSE h

\* What the car's lateral and longitudinal commands ("active") need; the rate
\* limits themselves are the subject of TorqueLimits and AngleLimits.
byd_tx_hook(g, f) ==
  CASE f.addr \in {"B_LKAS", "B_MPC"} /\ f.bus = 0 ->
         \/ Bool(f, "active") => g.controls
         \/ f.addr = "B_MPC" /\ ~BydMpc(g.param)
    [] f.addr = "B_ACC_CMD" ->
         /\ ~BydStockLong(g.param)
         /\ Bool(f, "active") => (g.controls /\ ~g.gasPrev)
    [] OTHER -> TRUE

byd_fwd_hook(p, bus, addr) ==
  IF BydMpc(p)
  THEN \/ bus = 0 /\ addr = "B_EPS"
       \/ bus = 2 /\ addr \in {"B_MPC", "B_ACC_CMD"}
  ELSE \/ bus = 0 /\ addr = "B_TORQUE" /\ BydSpoof(p)
       \/ bus = 2 /\ addr \in {"B_LKAS", "B_MPC"}
       \/ bus = 2 /\ addr = "B_ACC_CMD" /\ ~BydStockLong(p)

Tx(a, b, relay, static) == [addr |-> a, bus |-> b, relay |-> relay, static |-> static]

BydTxMsgs(p) ==
  IF BydMpc(p)
  THEN {Tx("B_MPC", 0, TRUE, TRUE), Tx("B_EPS", 2, FALSE, FALSE)}
  ELSE {Tx("B_LKAS", 0, TRUE, TRUE), Tx("B_MPC", 0, TRUE, TRUE),
        Tx("B_BUTTONS", 0, FALSE, FALSE), Tx("B_BUTTONS", 2, FALSE, FALSE),
        Tx("B_TORQUE", 2, FALSE, FALSE)}
       \cup (IF BydStockLong(p) THEN {} ELSE {Tx("B_ACC_CMD", 0, FALSE, FALSE)})

---------------------------------------------------------------------------
(* dnga.h: every accepted frame grants; generic_rx_checks runs after it.   *)
DngaRxChecks == {<<"D_WHEEL", 0>>, <<"D_GAS", 0>>, <<"D_BRAKE", 0>>,
                 <<"D_ACC_BRAKE", 2>>, <<"D_ACC_CMD", 2>>}

dnga_rx_hook(g, f) ==
  [g EXCEPT !.controls = TRUE,
            !.moving = IF f.addr = "D_WHEEL" THEN Bool(f, "moving") ELSE @,
            !.gas    = IF f.addr = "D_GAS"   THEN Bool(f, "gas")    ELSE @,
            !.brake  = IF f.addr = "D_BRAKE" THEN Bool(f, "brake")  ELSE @]

\* The tx hook checks that a payload agrees with itself, never controls_allowed.
dnga_tx_hook(f) == ~Bool(f, "malformed")

DngaTxMsgs == {Tx(a, 0, TRUE, TRUE) : a \in {"D_LKAS", "D_HUD", "D_ACC_BRAKE", "D_ACC_CMD"}}
              \cup {Tx(a, 0, FALSE, FALSE) : a \in {"D_BUTTONS", "D_DTC_CLEAR"}}

---------------------------------------------------------------------------
(* proton.h *)
PROTON_ACC_TX_BLOCK_MAX == 3
PROTON_PCM_DISENGAGE_FRAMES == 5

ProtonRxChecks == {<<"P_ACC_CMD", 2>>, <<"P_LKAS", 2>>, <<"P_BUTTONS", 0>>,
                   <<"P_PCM_BUTTONS", 2>>, <<"P_GAS", 0>>, <<"P_PARK", 0>>, <<"P_WHEEL", 0>>}
ProtonCrc     == {"P_ACC_CMD", "P_LKAS", "P_BUTTONS", "P_PCM_BUTTONS"}
ProtonCounter == {"P_ACC_CMD", "P_LKAS", "P_PCM_BUTTONS"}

\* proton_pcm_stock_off_count is compared with 5 only, so it is cut off there.
ProtonOffNeverReset(g, engaged) ==
  IF ~engaged /\ g.pSaw /\ g.pOff < PROTON_PCM_DISENGAGE_FRAMES THEN g.pOff + 1 ELSE g.pOff

ProtonOff(g, engaged) ==
  IF engaged THEN 0
  ELSE IF g.pSaw /\ g.pOff < PROTON_PCM_DISENGAGE_FRAMES THEN g.pOff + 1 ELSE g.pOff

ProtonAcc(g, engaged) ==
  LET saw == g.pSaw \/ engaged
      off == ProtonOff(g, engaged)
  IN  pcm_cruise_check([g EXCEPT !.pSaw = saw, !.pOff = off],
                       engaged \/ (saw /\ off < PROTON_PCM_DISENGAGE_FRAMES))

proton_rx_hook(g, f) ==
  LET h == [g EXCEPT !.moving = TRUE,
                     !.gas = IF f.addr = "P_GAS" /\ f.bus = 0 THEN Bool(f, "gas") ELSE @]
  IN  CASE f.addr = "P_BUTTONS" /\ f.bus = 0 -> Buttons(h, f)
        [] f.addr = "P_ACC_CMD" /\ f.bus = 2 -> ProtonAcc(h, Bool(f, "engaged"))
        [] OTHER -> h

\* Sending a command starts the window in which the camera's own is blocked.
proton_tx_hook(f) == ~Bool(f, "malformed")
ProtonTxEffect(g, f) ==
  [g EXCEPT !.pLkaBlk = IF f.addr = "P_LKAS"    THEN PROTON_ACC_TX_BLOCK_MAX ELSE @,
            !.pAccBlk = IF f.addr = "P_ACC_CMD" THEN PROTON_ACC_TX_BLOCK_MAX ELSE @]

proton_fwd_hook(g, bus, addr) ==
  /\ bus = 2
  /\ \/ addr = "P_LKAS" /\ g.pLkaBlk > 0
     \/ addr = "P_ACC_CMD" /\ g.pAccBlk > 0
Down(n) == IF n > 0 THEN n - 1 ELSE 0
ProtonFwdUsesBoth(g, bus, addr) ==
  IF bus # 2 \/ addr \notin {"P_LKAS", "P_ACC_CMD"} THEN g
  ELSE [g EXCEPT !.pLkaBlk = Down(@), !.pAccBlk = Down(@)]
ProtonFwdEffect(g, bus, addr) ==
  IF bus # 2 THEN g
  ELSE [g EXCEPT !.pLkaBlk = IF addr = "P_LKAS"    THEN Down(@) ELSE @,
                 !.pAccBlk = IF addr = "P_ACC_CMD" THEN Down(@) ELSE @]

ProtonTxMsgs == {Tx("P_LKAS", 0, TRUE, FALSE), Tx("P_ACC_CMD", 0, TRUE, FALSE),
                 Tx("P_BUTTONS", 2, FALSE, FALSE)}

---------------------------------------------------------------------------
(* chery.h *)
CheryHudBus(p) == IF "omoda" \in p THEN 0 ELSE 2
CheryWheel(p)  == IF "icaur" \in p THEN "C_WHEEL_ICAUR" ELSE "C_WHEEL"

\* The flags are tested in this order: omoda, icaur, tiggo22.
CheryRxChecks(p) ==
  IF "tiggo22" \in p /\ "omoda" \notin p /\ "icaur" \notin p
  THEN {<<"C_LKA_STATUS", 0>>, <<"C_METER", 0>>, <<"C_WHEEL", 0>>}
  ELSE {<<"C_HUD", CheryHudBus(p)>>,
        <<IF "omoda" \in p THEN "C_WHEEL" ELSE CheryWheel(p), 0>>}

\* cMeterOff: the meter shows DISTANCE_BAR 3 or SET_SPEED 0. The latch bridges
\* the flicker of the enable bit while the car stands.
CheryMeter(g, f) ==
  IF Bool(f, "off")
  THEN pcm_cruise_check([g EXCEPT !.cMeterOff = TRUE, !.cLatched = FALSE], FALSE)
  ELSE [g EXCEPT !.cMeterOff = FALSE]

CheryLkaStatus(g, f) ==
  LET acc == \/ Bool(f, "engaged")
             \/ ~g.cMeterOff /\ g.cStopped /\ g.cLatched
  IN  pcm_cruise_check([g EXCEPT !.cLatched = acc], acc)

chery_rx_hook(g, f) ==
  CASE "tiggo22" \in g.param /\ f.addr = "C_METER" /\ f.bus = 0 -> CheryMeter(g, f)
    [] "tiggo22" \in g.param /\ f.addr = "C_LKA_STATUS" /\ f.bus = 0 -> CheryLkaStatus(g, f)
    [] /\ "tiggo22" \notin g.param /\ f.addr = "C_HUD"
       /\ f.bus = 2 \/ (f.bus = 0 /\ "omoda" \in g.param) ->
         pcm_cruise_check(g, Bool(f, "engaged"))
    [] f.addr = CheryWheel(g.param) /\ f.bus = 0 ->
         [g EXCEPT !.cStopped = Bool(f, "stopped")]
    [] OTHER -> g

CheryCamSpoof(g) == g.controls \/ g.cStopped

chery_fwd_hook(g, bus, addr) ==
  LET keepTorque == "no_torque_spoof" \in g.param
      tiggo == "tiggo22" \in g.param
  IN  \/ /\ bus = 2
         /\ \/ tiggo /\ addr \in {"C_TIGGO_LK", "C_STEER_STATUS"} /\ g.controls
            \/ addr = "C_LANE_KEEP"
            \/ addr = "C_HUD" /\ g.param \cap {"omoda", "icaur", "native_hud"} = {}
            \/ addr = "C_LKAS_INFO" /\ ~keepTorque
      \/ /\ bus = 0
         /\ \/ tiggo /\ addr = "C_GAS"
            \/ addr = "C_EPS" /\ CheryCamSpoof(g) /\ ~keepTorque
            \/ addr = "C_LKAS_INFO" /\ g.controls /\ ~keepTorque

CheryTxMsgs ==
  {Tx(a, 0, FALSE, FALSE) : a \in {"C_LANE_KEEP", "C_TIGGO_LK", "C_LKAS_INFO", "C_HUD",
                                   "C_STEER_STATUS", "C_BUTTONS", "C_GAS"}}
  \cup {Tx(a, 2, FALSE, FALSE) : a \in {"C_LKAS_INFO", "C_EPS", "C_BUTTONS", "C_GAS"}}

---------------------------------------------------------------------------
(* perodua_qve.h: ACC_HUD is read by the rx hook but not in rx_checks.     *)
QveRxChecks == {<<"Q_IMU", 1>>, <<"Q_GAS", 1>>, <<"Q_BRAKE", 1>>, <<"Q_BEAT", 1>>}

perodua_qve_rx_hook(g, f) ==
  CASE f.addr = "Q_GAS"   -> [g EXCEPT !.gas = Bool(f, "gas")]
    [] f.addr = "Q_BRAKE" -> [g EXCEPT !.brake = Bool(f, "brake")]
    [] f.addr = "Q_IMU"   -> [g EXCEPT !.moving = @ \/ Bool(f, "moving")]
    [] f.addr = "Q_ACC_HUD" -> pcm_cruise_check(g, Bool(f, "engaged"))
    [] OTHER -> g

perodua_qve_tx_hook(f) == f.bus = 2 /\ f.addr = "Q_LANE"
perodua_qve_fwd_hook(bus, addr) == bus = 2 /\ addr # "Q_CAM_TO_RADAR"
QveTxMsgs == {Tx("Q_LANE", 2, FALSE, FALSE)}
=============================================================================
