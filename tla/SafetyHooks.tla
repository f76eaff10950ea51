------------------------------ MODULE SafetyHooks ------------------------------
(***************************************************************************)
(* opendbc's safety.h: the code in the panda that decides, frame by frame, *)
(* whether the host may control the car (controls_allowed), which of its   *)
(* frames go out and which of the car's are forwarded between the buses.   *)
(*                                                                         *)
(* The globals of safety.h and the statics of the modes are the record g:  *)
(*   mode, param          current_safety_mode, current_safety_param        *)
(*   controls, relayMal   controls_allowed, relay_malfunction              *)
(*   gas, gasPrev, brake, brakePrev, moving, cruisePrev                    *)
(*   mism                 heartbeat_engaged_mismatches                     *)
(*   cnt                  safety_mode_cnt, cut off at CNT_CAP              *)
(*   rxInvalid            safety_rx_checks_invalid                         *)
(*   ignLine, ignSticky   ignore_ignition_line, ignore_ignition_line_sticky*)
(*   rx                   rx_checks[].status, by <<address, bus>>          *)
(*   p..., c...           the statics of proton.h and chery.h              *)
(* regen and steering_disengage are never set by the modes modelled here.  *)
(*                                                                         *)
(* Each C function is an operator from g to g; the interrupt handlers that *)
(* call them run at one priority, so that each handler is one action.      *)
(***************************************************************************)
EXTENDS SafetyModes

CONSTANTS Configs,   \* the [mode, param] pairs the host may select
          Traffic,   \* the frames the car's buses carry
          Commands   \* the frames the host asks to send

VARIABLE g

NonCarModes == {"SILENT", "NOOUTPUT", "ALLOUTPUT", "ELM327"}
CarModes    == {"BYD", "DNGA", "PROTON", "CHERY", "PERODUA_QVE"}
MAX_WRONG_COUNTERS == 5
CNT_CAP == 2           \* bound: safety_mode_cnt is compared with 1 only
MISM_LIMIT == 3        \* the mismatch counter acts, and stops rising, here

Flags == {"1", "2", "3", "4", "5", "ignore_ignition", "omoda", "icaur", "tiggo22",
          "no_torque_spoof", "native_hud", "passthrough"}
Config == [mode : NonCarModes \cup CarModes, param : SUBSET Flags]
Frame  == [addr : STRING, bus : 0..2, what : STRING, crc : BOOLEAN, seq : BOOLEAN]

ASSUME SafetyConstants ==
  /\ Configs \subseteq Config
  /\ Traffic \subseteq Frame
  /\ Commands \subseteq Frame

---------------------------------------------------------------------------
(* The configuration a mode installs *)
RxChecks(m, p) ==
  CASE m = "BYD" -> BydRxChecks(p)
    [] m = "DNGA" -> DngaRxChecks
    [] m = "PROTON" -> ProtonRxChecks
    [] m = "CHERY" -> CheryRxChecks(p)
    [] m = "PERODUA_QVE" -> QveRxChecks
    [] OTHER -> {}

TxMsgs(m, p) ==
  CASE m = "BYD" -> BydTxMsgs(p)
    [] m = "DNGA" -> DngaTxMsgs
    [] m = "PROTON" -> ProtonTxMsgs
    [] m = "CHERY" -> CheryTxMsgs
    [] m = "PERODUA_QVE" -> QveTxMsgs
    [] OTHER -> {}

DisableForwarding(m, p) ==
  m \in NonCarModes /\ ~(m = "ALLOUTPUT" /\ "passthrough" \in p)

\* A message lags when it is older than max(1 s, 10 periods). Its age counts
\* the 1 Hz ticks since it came: at a tick the true age is in (age, age + 1).
LagSeconds(c) ==
  CASE c[1] \in {"D_WHEEL", "D_GAS", "D_BRAKE", "D_ACC_BRAKE", "D_ACC_CMD"} -> 10
    [] c[1] \in {"P_BUTTONS", "P_PCM_BUTTONS"} -> 3
    [] OTHER -> 1
\* 2.5 s for Proton's two 4 Hz messages: at age 2 the tick may go either way.
HalfSecondLag(c) == c[1] \in {"P_BUTTONS", "P_PCM_BUTTONS"}

Unseen(c) == [age |-> LagSeconds(c), crc |-> FALSE, wrong |-> 0]

---------------------------------------------------------------------------
(* Receiving: rx_msg_safety_check, the mode's hook, generic_rx_checks,     *)
(* stock_ecu_check                                                         *)
Listed(h, f) == <<f.addr, f.bus>> \in DOMAIN h.rx

Valid(st) == st.crc /\ st.wrong < MAX_WRONG_COUNTERS

WrongAfter(n, seq) ==
  IF seq THEN Down(n) ELSE IF n < MAX_WRONG_COUNTERS THEN n + 1 ELSE n

StatusAfter(h, f) ==
  LET proton == h.mode = "PROTON"
  IN  [age   |-> 0,
       crc   |-> (proton /\ f.addr \in ProtonCrc) => f.crc,
       wrong |-> IF proton /\ f.addr \in ProtonCounter
                 THEN WrongAfter(h.rx[<<f.addr, f.bus>>].wrong, f.seq) ELSE 0]

RxMsgUnchecked(h, f) ==
  IF Listed(h, f) THEN [h EXCEPT !.rx[<<f.addr, f.bus>>] = StatusAfter(h, f)] ELSE h

rx_msg_safety_check(h, f) ==
  IF Listed(h, f)
  THEN [h EXCEPT !.rx[<<f.addr, f.bus>>] = StatusAfter(h, f),
                 !.controls = @ /\ Valid(StatusAfter(h, f))]
  ELSE h

ModeRx(h, f) ==
  CASE h.mode = "BYD" -> byd_rx_hook(h, f)
    [] h.mode = "DNGA" -> dnga_rx_hook(h, f)
    [] h.mode = "PROTON" -> proton_rx_hook(h, f)
    [] h.mode = "CHERY" -> chery_rx_hook(h, f)
    [] h.mode = "PERODUA_QVE" -> perodua_qve_rx_hook(h, f)
    [] OTHER -> h

GenericOnEdgeOnly(h) ==
  [h EXCEPT !.gasPrev   = h.gas,
            !.brakePrev = h.brake,
            !.controls  = @ /\ ~(h.brake /\ ~h.brakePrev)]

generic_rx_checks(h) ==
  [h EXCEPT !.gasPrev   = h.gas,
            !.brakePrev = h.brake,
            !.controls  = @ /\ ~(h.brake /\ (~h.brakePrev \/ h.moving))]

StockOwned(h, f) ==
  \E t \in TxMsgs(h.mode, h.param) : t.relay /\ t.addr = f.addr /\ t.bus = f.bus

stock_ecu_check(h, f) ==
  [h EXCEPT !.relayMal = @ \/ (h.cnt > 1 /\ StockOwned(h, f))]

\* A frame that is listed and valid reaches the mode's hook.
CheckedModeRx(h, f) ==
  LET h1 == rx_msg_safety_check(h, f)
  IN  IF Listed(h1, f) /\ Valid(h1.rx[<<f.addr, f.bus>>]) THEN ModeRx(h1, f) ELSE h1

safety_rx_hook(h, f) ==
  LET h1 == stock_ecu_check(generic_rx_checks(CheckedModeRx(h, f)), f)
  IN  [h1 EXCEPT !.mism = IF h1.controls /\ ~h.controls THEN 0 ELSE @]

---------------------------------------------------------------------------
(* Forwarding: bus 0 (car) <-> bus 2 (camera)                              *)
get_fwd_bus(bus) == CASE bus = 0 -> 2 [] bus = 2 -> 0 [] OTHER -> 1

StaticBlock(h, f) ==
  \E t \in TxMsgs(h.mode, h.param) :
    t.relay /\ t.static /\ t.addr = f.addr /\ t.bus = get_fwd_bus(f.bus)

FwdReached(h, f) == ~(h.relayMal \/ DisableForwarding(h.mode, h.param) \/ StaticBlock(h, f))

ModeFwdBlocks(h, f) ==
  CASE h.mode = "BYD" -> byd_fwd_hook(h.param, f.bus, f.addr)
    [] h.mode = "PROTON" -> proton_fwd_hook(h, f.bus, f.addr)
    [] h.mode = "CHERY" -> chery_fwd_hook(h, f.bus, f.addr)
    [] h.mode = "PERODUA_QVE" -> perodua_qve_fwd_hook(f.bus, f.addr)
    [] OTHER -> FALSE

Forwards(h, f) == f.bus \in {0, 2} /\ FwdReached(h, f) /\ ~ModeFwdBlocks(h, f)

\* Only proton's hook changes state: each blocked frame shortens its window.
safety_fwd_hook(h, f) ==
  IF h.mode = "PROTON" /\ FwdReached(h, f) THEN ProtonFwdEffect(h, f.bus, f.addr) ELSE h

---------------------------------------------------------------------------
(* Sending *)
TxListed(h, f) ==
  \/ h.mode \in {"ALLOUTPUT", "ELM327"}
  \/ \E t \in TxMsgs(h.mode, h.param) : t.addr = f.addr /\ t.bus = f.bus

ModeTx(h, f) ==
  CASE h.mode = "BYD" -> byd_tx_hook(h, f)
    [] h.mode = "DNGA" -> dnga_tx_hook(f)
    [] h.mode = "PROTON" -> proton_tx_hook(f)
    [] h.mode = "CHERY" -> TRUE
    [] h.mode = "PERODUA_QVE" -> perodua_qve_tx_hook(f)
    [] h.mode = "ALLOUTPUT" -> TRUE
    [] h.mode = "ELM327" -> f.addr = "DIAG"
    [] OTHER -> FALSE

TxAllowed(h, f) == ~h.relayMal /\ TxListed(h, f) /\ ModeTx(h, f)

safety_tx_hook(h, f) ==
  IF h.mode = "PROTON" /\ TxListed(h, f) THEN ProtonTxEffect(h, f) ELSE h

---------------------------------------------------------------------------
(* safety_tick, at 1 Hz, after the tick handler counted the second. `late` *)
(* resolves the checks whose deadline falls inside the current second.     *)
Lagging(c, st, late) == st.age >= LagSeconds(c) \/ (c \in late /\ HalfSecondLag(c) /\ st.age = 2)

OneSecondOlder(h) ==
  [h EXCEPT !.rx = [c \in DOMAIN h.rx |->
                      [h.rx[c] EXCEPT !.age = IF @ < LagSeconds(c) THEN @ + 1 ELSE @]]]

Bad(h, late) == {c \in DOMAIN h.rx : Lagging(c, h.rx[c], late) \/ ~Valid(h.rx[c])}

TickOnlyReports(h, late) == [OneSecondOlder(h) EXCEPT !.rxInvalid = Bad(h, late) # {}]

safety_tick(h, late) ==
  [OneSecondOlder(h) EXCEPT !.controls  = @ /\ Bad(h, late) = {},
                            !.rxInvalid = Bad(h, late) # {}]

CountSecond(h) == [h EXCEPT !.cnt = IF @ < CNT_CAP THEN @ + 1 ELSE @]

---------------------------------------------------------------------------
(* set_safety_hooks for a registered mode *)
KeepsSticky(m) == m \in NonCarModes \cup {"PROTON"}
IgnoresLine(m, p) == m \in {"PROTON", "PERODUA_QVE"} /\ "ignore_ignition" \in p

\* What every mode starts from, and the statics that a mode's init sets.
ForgetCar(h) ==
  [h EXCEPT !.gas = FALSE, !.gasPrev = FALSE, !.brake = FALSE, !.brakePrev = FALSE,
            !.moving = FALSE, !.cruisePrev = FALSE, !.relayMal = FALSE, !.rxInvalid = FALSE]

InitStatics(h, m) ==
  CASE m = "PROTON" -> [h EXCEPT !.pAccBlk = 0, !.pLkaBlk = 0, !.pOff = 0, !.pSaw = FALSE]
    [] m = "CHERY" -> [h EXCEPT !.cLatched = FALSE, !.cMeterOff = TRUE]
    [] OTHER -> h

InstallMode(h, m, p) ==
  [InitStatics(ForgetCar(h), m) EXCEPT
     !.mode = m, !.param = p, !.cnt = 0,
     !.controls  = m \in {"ALLOUTPUT", "DNGA"},
     !.ignLine   = IgnoresLine(m, p),
     !.ignSticky = IF m \in {"PROTON", "PERODUA_QVE"} THEN IgnoresLine(m, p)
                   ELSE KeepsSticky(m) /\ @]

set_safety_hooks(h, m, p) ==
  [InstallMode(h, m, p) EXCEPT !.rx = [c \in RxChecks(m, p) |-> Unseen(c)]]

---------------------------------------------------------------------------
BootGlobals ==
  [mode |-> "SILENT", param |-> {}, controls |-> FALSE, relayMal |-> FALSE,
   gas |-> FALSE, gasPrev |-> FALSE, brake |-> FALSE, brakePrev |-> FALSE,
   moving |-> FALSE, cruisePrev |-> FALSE, mism |-> 0, cnt |-> 0, rxInvalid |-> FALSE,
   ignLine |-> FALSE, ignSticky |-> FALSE, rx |-> [c \in {} |-> Unseen(c)],
   pAccBlk |-> 0, pLkaBlk |-> 0, pOff |-> 0, pSaw |-> FALSE,
   cStopped |-> TRUE, cLatched |-> FALSE, cMeterOff |-> TRUE]

Init == g = BootGlobals

CanRx(f) == g' = safety_rx_hook(safety_fwd_hook(g, f), f)
CanTx(f) == g' = safety_tx_hook(g, f)
SafetyTick == \E late \in SUBSET {c \in DOMAIN g.rx : HalfSecondLag(c)} :
                g' = safety_tick(CountSecond(g), late)
SetSafetyHooks(c) == g' = set_safety_hooks(g, c.mode, c.param)

Next == \/ \E f \in Traffic : CanRx(f)
        \/ \E f \in Commands : CanTx(f)
        \/ SafetyTick
        \/ \E c \in Configs : SetSafetyHooks(c)

Spec == Init /\ [][Next]_g

\* The tick timer always fires: the host and the buses may stop, it does not.
FairSpec == Spec /\ WF_g(SafetyTick)

---------------------------------------------------------------------------
(* Properties *)

RxStatus == [age : 0..10, crc : BOOLEAN, wrong : 0..MAX_WRONG_COUNTERS]

\* The globals as they may be while mode m is selected with parameter p.
Globals(m, p) ==
  [mode : {m}, param : {p},
   controls : BOOLEAN, relayMal : BOOLEAN, gas : BOOLEAN, gasPrev : BOOLEAN,
   brake : BOOLEAN, brakePrev : BOOLEAN, moving : BOOLEAN, cruisePrev : BOOLEAN,
   mism : 0..MISM_LIMIT, cnt : 0..CNT_CAP, rxInvalid : BOOLEAN,
   ignLine : BOOLEAN, ignSticky : BOOLEAN,
   rx : [RxChecks(m, p) -> RxStatus],
   pAccBlk : 0..PROTON_ACC_TX_BLOCK_MAX, pLkaBlk : 0..PROTON_ACC_TX_BLOCK_MAX,
   pOff : 0..PROTON_PCM_DISENGAGE_FRAMES, pSaw : BOOLEAN,
   cStopped : BOOLEAN, cLatched : BOOLEAN, cMeterOff : BOOLEAN]

\* The globals keep their types; in particular the wrong-counter score stays in
\* 0..5 and the status table always has the rows of the mode that is selected.
TypeOK ==
  /\ [mode |-> g.mode, param |-> g.param] \in Config
  /\ g \in Globals(g.mode, g.param)

\* While the car moves with the brake pressed, controls are never allowed: not
\* even when a mode's own hook has just granted them (BYD's relaxed parameters
\* and DNGA grant on every frame), because generic_rx_checks has the last word.
BrakeStopsMoving == ~(g.brake /\ g.moving /\ g.controls)

\* The commands of the mode that its tx list and its forward hook give to one of
\* host and camera only. Chery Tiggo's two are the camera's until controls are
\* allowed; Proton's are never among them (disable_static_blocking): its host only
\* makes the camera wait. QVE's host sends towards the camera.
Exclusive(h) ==
  CASE h.mode = "BYD" -> {"B_LKAS", "B_MPC", "B_ACC_CMD"}
    [] h.mode = "DNGA" -> {"D_LKAS", "D_ACC_BRAKE", "D_ACC_CMD"}
    [] h.mode = "CHERY" ->
         {"C_LANE_KEEP"} \cup {a \in {"C_TIGGO_LK", "C_STEER_STATUS"} :
                                 "tiggo22" \in h.param /\ h.controls}
    [] OTHER -> {}

\* An exclusive command never has two sources: in no state is the camera's frame
\* forwarded to the car while the host's frame with the same address is accepted,
\* whichever parameter divides the two between the static blocks of the tx list
\* and the mode's own forward hook.
NeverShared ==
  \A f \in Commands : f.addr \in Exclusive(g) /\ f.bus = 0 =>
    ~(TxAllowed(g, f) /\ Forwards(g, [f EXCEPT !.bus = 2]))

Granted == ~g.controls /\ g'.controls

\* Except where the mode grants by itself, controls come back only by an act of
\* the driver: a button, or the stock ACC going from off to on. Having been taken
\* away (by the brake, or by a lagging message at a tick), they are not given
\* back because the ACC merely stays on.
GrantNeedsDriver ==
  [][ Granted /\ g'.mode = "BYD" /\ ~BydRelax(g'.param) =>
        \E f \in Traffic :
          /\ CanRx(f)
          /\ \/ f.what = "grant"
             \/ f.what = "engaged" /\ ~g.cruisePrev ]_g

\* When a required message has stopped for good, controls keep being withdrawn:
\* the other messages may grant them again, but never past the next 1 Hz tick.
MessageGone == \E c \in DOMAIN g.rx : g.rx[c].age >= LagSeconds(c)
LagKeepsInterrupting == <>[]MessageGone => []<>~g.controls

\* docs/SAFETY.md:24: the driver can "immediately retake manual control", among
\* others "by pressing the cancel button": the frame that carries the cancel
\* button leaves controls not allowed.
CancelRetakesControl ==
  [][ \A f \in Traffic : f.what = "cancel" /\ CanRx(f) => ~g'.controls ]_g
=============================================================================
