-------------------------- MODULE SafetyHooks_proofs --------------------------
(***************************************************************************)
(* What SafetyHooks promises for every set of modes, frames and commands,  *)
(* and the facts of its hooks that PandaBoard_proofs and Ka2Hooks_proofs   *)
(* build on.                                                               *)
(***************************************************************************)
EXTENDS SafetyHooks, TLAPS

---------------------------------------------------------------------------
(* The modes' receive hooks keep the globals well typed. A Boolean that an *)
(* EXCEPT assigns is named, shown to be one, and hidden: the SMT encoding  *)
(* of records takes variables well and formulas badly.                     *)

LEMMA PcmType ==
  ASSUME NEW m, NEW p, NEW h \in Globals(m, p), NEW e \in BOOLEAN
  PROVE  pcm_cruise_check(h, e) \in Globals(m, p)
  BY DEF pcm_cruise_check, Globals

LEMMA ButtonsType ==
  ASSUME NEW m, NEW p, NEW h \in Globals(m, p), NEW f
  PROVE  Buttons(h, f) \in Globals(m, p)
  BY DEF Buttons, Bool, Globals

LEMMA SetControls ==
  ASSUME NEW m, NEW p, NEW h \in Globals(m, p), NEW e \in BOOLEAN
  PROVE  [h EXCEPT !.controls = e] \in Globals(m, p)
  BY DEF Globals

LEMMA SetPedals ==
  ASSUME NEW m, NEW p, NEW h \in Globals(m, p), NEW gas \in BOOLEAN, NEW brake \in BOOLEAN
  PROVE  [h EXCEPT !.gas = gas, !.brake = brake] \in Globals(m, p)
  BY DEF Globals

LEMMA BydNoRelaxType ==
  ASSUME NEW m, NEW p, NEW h \in Globals(m, p), NEW f
  PROVE  BydRxNoRelax(h, f) \in Globals(m, p)
<1> DEFINE gas   == f.what \in {"gas", "gas_brake"}
           brake == f.what \in {"brake", "gas_brake"}
<1>1. gas \in BOOLEAN /\ brake \in BOOLEAN
  OBVIOUS
<1> HIDE DEF gas, brake
<1>2. [h EXCEPT !.gas = gas, !.brake = brake] \in Globals(m, p)
  BY <1>1, SetPedals
<1>3. Buttons(h, f) \in Globals(m, p)
  BY ButtonsType
<1>4. pcm_cruise_check(h, Bool(f, "engaged")) \in Globals(m, p)
  BY PcmType DEF Bool
<1>5. [h EXCEPT !.moving = Bool(f, "moving")] \in Globals(m, p)
  BY DEF Globals, Bool
<1> QED
  BY <1>2, <1>3, <1>4, <1>5, Zenon DEF BydRxNoRelax, gas, brake

LEMMA BydType ==
  ASSUME NEW m, NEW p, NEW h \in Globals(m, p), NEW f
  PROVE  byd_rx_hook(h, f) \in Globals(m, p)
  BY BydNoRelaxType, SetControls DEF byd_rx_hook

LEMMA DngaType ==
  ASSUME NEW m, NEW p, NEW h \in Globals(m, p), NEW f
  PROVE  dnga_rx_hook(h, f) \in Globals(m, p)
<1> DEFINE moving == IF f.addr = "D_WHEEL" THEN Bool(f, "moving") ELSE h.moving
           gas    == IF f.addr = "D_GAS"   THEN Bool(f, "gas")    ELSE h.gas
           brake  == IF f.addr = "D_BRAKE" THEN Bool(f, "brake")  ELSE h.brake
<1>1. moving \in BOOLEAN /\ gas \in BOOLEAN /\ brake \in BOOLEAN
  <2>1. h.moving \in BOOLEAN /\ h.gas \in BOOLEAN /\ h.brake \in BOOLEAN
    BY DEF Globals
  <2> QED
    BY <2>1, Zenon DEF Bool
<1> HIDE DEF moving, gas, brake
<1>2. [h EXCEPT !.controls = TRUE, !.moving = moving, !.gas = gas, !.brake = brake]
        \in Globals(m, p)
  BY <1>1 DEF Globals
<1> QED
  BY <1>2, Zenon DEF moving, gas, brake, dnga_rx_hook

LEMMA ProtonAccType ==
  ASSUME NEW m, NEW p, NEW h \in Globals(m, p), NEW e \in BOOLEAN
  PROVE  ProtonAcc(h, e) \in Globals(m, p)
<1> DEFINE h1  == [h EXCEPT !.pSaw = h.pSaw \/ e, !.pOff = ProtonOff(h, e)]
           eff == e \/ ((h.pSaw \/ e) /\ ProtonOff(h, e) < PROTON_PCM_DISENGAGE_FRAMES)
<1>1. ProtonOff(h, e) \in 0..PROTON_PCM_DISENGAGE_FRAMES
  BY DEF ProtonOff, Globals, PROTON_PCM_DISENGAGE_FRAMES
<1>2. h1 \in Globals(m, p)
  BY <1>1 DEF Globals
<1>3. eff \in BOOLEAN
  BY Zenon
<1> HIDE DEF h1, eff
<1>4. pcm_cruise_check(h1, eff) \in Globals(m, p)
  BY <1>2, <1>3, PcmType
<1> QED
  BY <1>4, Zenon DEF ProtonAcc, h1, eff

LEMMA ProtonType ==
  ASSUME NEW m, NEW p, NEW h \in Globals(m, p), NEW f
  PROVE  proton_rx_hook(h, f) \in Globals(m, p)
<1> DEFINE gas == IF f.addr = "P_GAS" /\ f.bus = 0 THEN Bool(f, "gas") ELSE h.gas
           h1  == [h EXCEPT !.moving = TRUE, !.gas = gas]
<1>1. gas \in BOOLEAN
  <2>1. h.gas \in BOOLEAN
    BY DEF Globals
  <2> QED
    BY <2>1, Zenon DEF Bool
<1> HIDE DEF gas
<1>2. h1 \in Globals(m, p)
  BY <1>1 DEF Globals
<1> HIDE DEF h1
<1>3. Buttons(h1, f) \in Globals(m, p)
  BY <1>2, ButtonsType
<1>4. ProtonAcc(h1, Bool(f, "engaged")) \in Globals(m, p)
  BY <1>2, ProtonAccType DEF Bool
<1> QED
  BY <1>2, <1>3, <1>4, Zenon DEF proton_rx_hook, h1, gas

LEMMA CheryType ==
  ASSUME NEW m, NEW p, NEW h \in Globals(m, p), NEW f
  PROVE  chery_rx_hook(h, f) \in Globals(m, p)
<1>1. CheryMeter(h, f) \in Globals(m, p)
  <2>1. [h EXCEPT !.cMeterOff = TRUE, !.cLatched = FALSE] \in Globals(m, p)
    BY DEF Globals
  <2>2. [h EXCEPT !.cMeterOff = FALSE] \in Globals(m, p)
    BY DEF Globals
  <2> QED
    BY <2>1, <2>2, PcmType DEF CheryMeter
<1>2. CheryLkaStatus(h, f) \in Globals(m, p)
  <2> DEFINE acc == Bool(f, "engaged") \/ (~h.cMeterOff /\ h.cStopped /\ h.cLatched)
             h1  == [h EXCEPT !.cLatched = acc]
  <2>1. acc \in BOOLEAN
    BY Zenon DEF Bool
  <2> HIDE DEF acc
  <2>2. h1 \in Globals(m, p)
    BY <2>1 DEF Globals
  <2> HIDE DEF h1
  <2>3. pcm_cruise_check(h1, acc) \in Globals(m, p)
    BY <2>1, <2>2, PcmType
  <2> QED
    BY <2>3, Zenon DEF acc, h1, CheryLkaStatus
<1>3. pcm_cruise_check(h, Bool(f, "engaged")) \in Globals(m, p)
  BY PcmType DEF Bool
<1>4. [h EXCEPT !.cStopped = Bool(f, "stopped")] \in Globals(m, p)
  BY DEF Globals, Bool
<1> QED
  BY <1>1, <1>2, <1>3, <1>4, Zenon DEF chery_rx_hook

LEMMA QveType ==
  ASSUME NEW m, NEW p, NEW h \in Globals(m, p), NEW f
  PROVE  perodua_qve_rx_hook(h, f) \in Globals(m, p)
<1>1. pcm_cruise_check(h, Bool(f, "engaged")) \in Globals(m, p)
  BY PcmType DEF Bool
<1>2. [h EXCEPT !.gas = Bool(f, "gas")] \in Globals(m, p)
  BY DEF Globals, Bool
<1>3. [h EXCEPT !.brake = Bool(f, "brake")] \in Globals(m, p)
  BY DEF Globals, Bool
<1>4. [h EXCEPT !.moving = h.moving \/ Bool(f, "moving")] \in Globals(m, p)
  BY DEF Globals, Bool
<1> QED
  BY <1>1, <1>2, <1>3, <1>4, Zenon DEF perodua_qve_rx_hook

LEMMA ModeRxType ==
  ASSUME NEW m, NEW p, NEW h \in Globals(m, p), NEW f
  PROVE  ModeRx(h, f) \in Globals(m, p)
  BY BydType, DngaType, ProtonType, CheryType, QveType, Zenon DEF ModeRx

---------------------------------------------------------------------------
(* The steps around them                                                   *)

LEMMA Fields ==
  ASSUME NEW m, NEW p, NEW h \in Globals(m, p)
  PROVE  /\ h.mode = m /\ h.param = p
         /\ h.rx \in [RxChecks(m, p) -> RxStatus]
  BY DEF Globals

LEMMA SetRx ==
  ASSUME NEW m, NEW p, NEW h \in Globals(m, p),
         NEW rx \in [RxChecks(m, p) -> RxStatus], NEW e \in BOOLEAN
  PROVE  [h EXCEPT !.rx = rx, !.controls = e] \in Globals(m, p)
  BY DEF Globals

LEMMA StatusType ==
  ASSUME NEW m, NEW p, NEW h \in Globals(m, p), NEW f \in Frame, Listed(h, f)
  PROVE  StatusAfter(h, f) \in RxStatus
<1> DEFINE crc   == (h.mode = "PROTON" /\ f.addr \in ProtonCrc) => f.crc
           wrong == IF h.mode = "PROTON" /\ f.addr \in ProtonCounter
                    THEN WrongAfter(h.rx[<<f.addr, f.bus>>].wrong, f.seq) ELSE 0
<1>1. crc \in BOOLEAN
  BY Zenon
<1>2. wrong \in 0..MAX_WRONG_COUNTERS
  <2>1. h.rx[<<f.addr, f.bus>>] \in RxStatus
    BY Fields DEF Listed
  <2>2. h.rx[<<f.addr, f.bus>>].wrong \in 0..MAX_WRONG_COUNTERS
    BY <2>1 DEF RxStatus
  <2> QED
    BY <2>2 DEF WrongAfter, Down, MAX_WRONG_COUNTERS
<1> HIDE DEF crc, wrong
<1>3. [age |-> 0, crc |-> crc, wrong |-> wrong] \in RxStatus
  BY <1>1, <1>2 DEF RxStatus
<1> QED
  BY <1>3, Zenon DEF StatusAfter, crc, wrong

LEMMA RxMsgType ==
  ASSUME NEW m, NEW p, NEW h \in Globals(m, p), NEW f \in Frame
  PROVE  rx_msg_safety_check(h, f) \in Globals(m, p)
<1>1. CASE Listed(h, f)
  <2> DEFINE rx == [h.rx EXCEPT ![<<f.addr, f.bus>>] = StatusAfter(h, f)]
             e  == h.controls /\ Valid(StatusAfter(h, f))
  <2>1. rx \in [RxChecks(m, p) -> RxStatus]
    BY <1>1, Fields, StatusType
  <2>2. e \in BOOLEAN
    BY Zenon
  <2> HIDE DEF e
  <2>3. [h EXCEPT !.rx = rx, !.controls = e] \in Globals(m, p)
    BY <2>1, <2>2, SetRx
  <2> QED
    BY <1>1, <2>3, Zenon DEF rx_msg_safety_check, rx, e
<1>2. CASE ~Listed(h, f)
  BY <1>2 DEF rx_msg_safety_check
<1> QED
  BY <1>1, <1>2

LEMMA GenericType ==
  ASSUME NEW m, NEW p, NEW h \in Globals(m, p)
  PROVE  generic_rx_checks(h) \in Globals(m, p)
<1> DEFINE e == h.controls /\ ~(h.brake /\ (~h.brakePrev \/ h.moving))
<1>1. e \in BOOLEAN
  BY Zenon
<1> HIDE DEF e
<1>2. [h EXCEPT !.gasPrev = h.gas, !.brakePrev = h.brake, !.controls = e] \in Globals(m, p)
  BY <1>1 DEF Globals
<1> QED
  BY <1>2, Zenon DEF generic_rx_checks, e

LEMMA StockType ==
  ASSUME NEW m, NEW p, NEW h \in Globals(m, p), NEW f
  PROVE  stock_ecu_check(h, f) \in Globals(m, p)
<1> DEFINE e == h.relayMal \/ (h.cnt > 1 /\ StockOwned(h, f))
<1>1. e \in BOOLEAN
  BY Zenon
<1> HIDE DEF e
<1>2. [h EXCEPT !.relayMal = e] \in Globals(m, p)
  BY <1>1 DEF Globals
<1> QED
  BY <1>2, Zenon DEF stock_ecu_check, e

LEMMA CheckedType ==
  ASSUME NEW m, NEW p, NEW h \in Globals(m, p), NEW f \in Frame
  PROVE  CheckedModeRx(h, f) \in Globals(m, p)
  BY RxMsgType, ModeRxType, Zenon DEF CheckedModeRx

LEMMA SetMism ==
  ASSUME NEW m, NEW p, NEW h \in Globals(m, p), NEW n \in 0..MISM_LIMIT
  PROVE  /\ [h EXCEPT !.mism = n] \in Globals(m, p)
         /\ [h EXCEPT !.mism = n].controls = h.controls
         /\ [h EXCEPT !.mism = n].brake = h.brake
         /\ [h EXCEPT !.mism = n].moving = h.moving
  BY DEF Globals

\* The hook ends in the generic checks; resetting the mismatches changes nothing else.
LEMMA RxShape ==
  ASSUME NEW m, NEW p, NEW h \in Globals(m, p), NEW f \in Frame
  PROVE  \E n \in 0..MISM_LIMIT :
           safety_rx_hook(h, f) =
             [stock_ecu_check(generic_rx_checks(CheckedModeRx(h, f)), f) EXCEPT !.mism = n]
<1> DEFINE s == stock_ecu_check(generic_rx_checks(CheckedModeRx(h, f)), f)
           n == IF s.controls /\ ~h.controls THEN 0 ELSE s.mism
<1>1. s \in Globals(m, p)
  BY CheckedType, GenericType, StockType
<1> HIDE DEF s
<1>2. n \in 0..MISM_LIMIT
  BY <1>1 DEF Globals, MISM_LIMIT
<1>3. safety_rx_hook(h, f) = [s EXCEPT !.mism = n]
  BY Zenon DEF safety_rx_hook, s
<1> QED
  BY <1>2, <1>3, Zenon DEF s

LEMMA RxType ==
  ASSUME NEW m, NEW p, NEW h \in Globals(m, p), NEW f \in Frame
  PROVE  safety_rx_hook(h, f) \in Globals(m, p)
  BY RxShape, SetMism, CheckedType, GenericType, StockType

LEMMA SetWindows ==
  ASSUME NEW m, NEW p, NEW h \in Globals(m, p),
         NEW lka \in 0..PROTON_ACC_TX_BLOCK_MAX, NEW acc \in 0..PROTON_ACC_TX_BLOCK_MAX
  PROVE  [h EXCEPT !.pLkaBlk = lka, !.pAccBlk = acc] \in Globals(m, p)
  BY DEF Globals

LEMMA WindowType ==
  ASSUME NEW m, NEW p, NEW h \in Globals(m, p), NEW f
  PROVE  /\ safety_tx_hook(h, f) \in Globals(m, p)
         /\ safety_fwd_hook(h, f) \in Globals(m, p)
<1> DEFINE Window == 0..PROTON_ACC_TX_BLOCK_MAX
<1>1. h.pLkaBlk \in Window /\ h.pAccBlk \in Window
  BY DEF Globals
<1>2. ASSUME NEW n \in Window PROVE Down(n) \in Window
  BY DEF Down, PROTON_ACC_TX_BLOCK_MAX
<1>3. PROTON_ACC_TX_BLOCK_MAX \in Window
  BY DEF PROTON_ACC_TX_BLOCK_MAX
<1>4. ProtonTxEffect(h, f) \in Globals(m, p)
  BY <1>1, <1>3, SetWindows DEF ProtonTxEffect
<1>5. ProtonFwdEffect(h, f.bus, f.addr) \in Globals(m, p)
  BY <1>1, <1>2, SetWindows DEF ProtonFwdEffect
<1> QED
  BY <1>4, <1>5 DEF safety_tx_hook, safety_fwd_hook

LEMMA TickType ==
  ASSUME NEW m, NEW p, NEW h \in Globals(m, p), NEW late
  PROVE  safety_tick(CountSecond(h), late) \in Globals(m, p)
<1> DEFINE h1 == CountSecond(h)
<1>1. h1 \in Globals(m, p)
  BY DEF CountSecond, Globals, CNT_CAP
<1> HIDE DEF h1
<1> DEFINE h2  == OneSecondOlder(h1)
           on  == h2.controls /\ Bad(h1, late) = {}
           inv == Bad(h1, late) # {}
<1>2. h2 \in Globals(m, p)
  <2>1. h1.rx \in [RxChecks(m, p) -> RxStatus]
    BY <1>1, Fields
  <2>2. ASSUME NEW c, NEW st \in RxStatus
        PROVE  [st EXCEPT !.age = IF st.age < LagSeconds(c) THEN st.age + 1 ELSE st.age]
                 \in RxStatus
    BY DEF RxStatus, LagSeconds
  <2> DEFINE rx == [c \in DOMAIN h1.rx |->
                      [h1.rx[c] EXCEPT !.age = IF h1.rx[c].age < LagSeconds(c)
                                               THEN h1.rx[c].age + 1 ELSE h1.rx[c].age]]
  <2>3. rx \in [RxChecks(m, p) -> RxStatus]
    BY <2>1, <2>2
  <2> HIDE DEF rx
  <2>4. [h1 EXCEPT !.rx = rx] \in Globals(m, p)
    BY <1>1, <2>3 DEF Globals
  <2> QED
    BY <2>4, Zenon DEF OneSecondOlder, rx
<1>3. on \in BOOLEAN /\ inv \in BOOLEAN
  BY Zenon
<1> HIDE DEF h2, on, inv
<1>4. [h2 EXCEPT !.controls = on, !.rxInvalid = inv] \in Globals(m, p)
  BY <1>2, <1>3 DEF Globals
<1> QED
  BY <1>4, Zenon DEF safety_tick, h1, h2, on, inv

LEMMA Zeros ==
  /\ 0 \in 0..CNT_CAP /\ 0 \in 0..MISM_LIMIT
  /\ 0 \in 0..PROTON_ACC_TX_BLOCK_MAX /\ 0 \in 0..PROTON_PCM_DISENGAGE_FRAMES
  BY DEF CNT_CAP, MISM_LIMIT, PROTON_ACC_TX_BLOCK_MAX, PROTON_PCM_DISENGAGE_FRAMES

LEMMA InitStaticsType ==
  ASSUME NEW k, NEW q, NEW h \in Globals(k, q), NEW m
  PROVE  InitStatics(ForgetCar(h), m) \in Globals(k, q)
<1>1. ForgetCar(h) \in Globals(k, q)
  BY DEF ForgetCar, Globals
<1>2. ASSUME NEW x \in Globals(k, q)
      PROVE  [x EXCEPT !.pAccBlk = 0, !.pLkaBlk = 0, !.pOff = 0, !.pSaw = FALSE]
               \in Globals(k, q)
  BY Zeros DEF Globals
<1>3. ASSUME NEW x \in Globals(k, q)
      PROVE  [x EXCEPT !.cLatched = FALSE, !.cMeterOff = TRUE] \in Globals(k, q)
  BY DEF Globals
<1> QED
  BY <1>1, <1>2, <1>3 DEF InitStatics

LEMMA SetHooksType ==
  ASSUME NEW k, NEW q, NEW h \in Globals(k, q), NEW m, NEW p
  PROVE  set_safety_hooks(h, m, p) \in Globals(m, p)
<1> DEFINE h1     == InitStatics(ForgetCar(h), m)
           rx     == [c \in RxChecks(m, p) |-> Unseen(c)]
           on     == m \in {"ALLOUTPUT", "DNGA"}
           line   == IgnoresLine(m, p)
           sticky == IF m \in {"PROTON", "PERODUA_QVE"} THEN IgnoresLine(m, p)
                     ELSE KeepsSticky(m) /\ h1.ignSticky
<1>1. h1 \in Globals(k, q)
  BY InitStaticsType
<1> HIDE DEF h1
<1>2. rx \in [RxChecks(m, p) -> RxStatus]
  BY DEF Unseen, RxStatus, LagSeconds, MAX_WRONG_COUNTERS
<1>3. on \in BOOLEAN /\ line \in BOOLEAN /\ sticky \in BOOLEAN
  <2>1. line \in BOOLEAN
    BY Zenon DEF IgnoresLine
  <2>2. on \in BOOLEAN
    OBVIOUS
  <2>3. (KeepsSticky(m) /\ h1.ignSticky) \in BOOLEAN
    BY Zenon
  <2> QED
    BY <2>1, <2>2, <2>3, Zenon
<1> HIDE DEF rx, on, line, sticky
<1>4. [h1 EXCEPT !.mode = m, !.param = p, !.cnt = 0, !.controls = on,
                 !.ignLine = line, !.ignSticky = sticky, !.rx = rx] \in Globals(m, p)
  BY <1>1, <1>2, <1>3, Zeros DEF Globals
<1> QED
  BY <1>4, Zenon DEF set_safety_hooks, InstallMode, h1, rx, on, line, sticky

---------------------------------------------------------------------------
(* Type correctness                                                        *)

LEMMA BootType ==
  /\ BootGlobals \in Globals("SILENT", {})
  /\ [mode |-> "SILENT", param |-> {}] \in Config
<1>1. BootGlobals.rx \in [RxChecks("SILENT", {}) -> RxStatus]
  <2>1. RxChecks("SILENT", {}) = {}
    BY DEF RxChecks
  <2> QED
    BY <2>1 DEF BootGlobals
<1>2. BootGlobals \in Globals("SILENT", {})
  BY <1>1 DEF BootGlobals, Globals, MISM_LIMIT, CNT_CAP, PROTON_ACC_TX_BLOCK_MAX,
              PROTON_PCM_DISENGAGE_FRAMES
<1> QED
  BY <1>2 DEF Config, NonCarModes

LEMMA InitType == Init => TypeOK
  BY BootType, Fields DEF Init, TypeOK

\* Frames and ticks leave the mode alone; only the host's request changes it.
LEMMA NextType == TypeOK /\ [Next]_g => TypeOK'
<1> SUFFICES ASSUME TypeOK, [Next]_g PROVE TypeOK'
  OBVIOUS
<1> USE SafetyConstants
<1>1. ASSUME g' \in Globals(g.mode, g.param) PROVE TypeOK'
  <2>1. g'.mode = g.mode /\ g'.param = g.param
    BY <1>1, Fields
  <2> QED
    BY <1>1, <2>1 DEF TypeOK
<1>2. ASSUME NEW f \in Traffic, CanRx(f) PROVE TypeOK'
  <2>1. safety_fwd_hook(g, f) \in Globals(g.mode, g.param)
    BY WindowType DEF TypeOK
  <2>2. g' \in Globals(g.mode, g.param)
    BY <1>2, <2>1, RxType DEF CanRx
  <2> QED
    BY <1>1, <2>2
<1>3. ASSUME NEW f \in Commands, CanTx(f) PROVE TypeOK'
  BY <1>1, <1>3, WindowType DEF CanTx, TypeOK
<1>4. CASE SafetyTick
  BY <1>1, <1>4, TickType DEF SafetyTick, TypeOK
<1>5. ASSUME NEW c \in Configs, SetSafetyHooks(c) PROVE TypeOK'
  <2>1. c \in Config
    OBVIOUS
  <2>2. g' \in Globals(c.mode, c.param)
    BY <1>5, SetHooksType DEF SetSafetyHooks, TypeOK
  <2>3. g'.mode = c.mode /\ g'.param = c.param
    BY <2>2, Fields
  <2>4. [mode |-> c.mode, param |-> c.param] \in Config
    BY <2>1 DEF Config
  <2> QED
    BY <2>2, <2>3, <2>4 DEF TypeOK
<1>6. CASE UNCHANGED g
  BY <1>6 DEF TypeOK
<1> QED
  BY <1>2, <1>3, <1>4, <1>5, <1>6 DEF Next

\* The globals of the safety code keep their types, whatever frames and requests
\* come: no hook of any mode writes outside its fields' ranges.
THEOREM TypeCorrect == Spec => []TypeOK
  BY InitType, NextType, PTL DEF Spec

---------------------------------------------------------------------------
(* Braking                                                                 *)

LEMMA RxBrake ==
  ASSUME NEW m, NEW p, NEW h \in Globals(m, p), NEW f \in Frame
  PROVE  LET s == safety_rx_hook(h, f) IN ~(s.brake /\ s.moving /\ s.controls)
<1> DEFINE x == CheckedModeRx(h, f)
           y == generic_rx_checks(x)
           z == stock_ecu_check(y, f)
<1>1. x \in Globals(m, p) /\ y \in Globals(m, p) /\ z \in Globals(m, p)
  BY CheckedType, GenericType, StockType
<1>2. PICK n \in 0..MISM_LIMIT : safety_rx_hook(h, f) = [z EXCEPT !.mism = n]
  BY RxShape
<1> HIDE DEF x
<1>3. ~(y.brake /\ y.moving /\ y.controls)
  BY <1>1 DEF generic_rx_checks, Globals
<1> HIDE DEF y
<1>4. z.brake = y.brake /\ z.moving = y.moving /\ z.controls = y.controls
  BY <1>1 DEF stock_ecu_check, Globals
<1> HIDE DEF z
<1> QED
  BY <1>1, <1>2, <1>3, <1>4, SetMism

LEMMA WindowFrame ==
  ASSUME NEW m, NEW p, NEW h \in Globals(m, p), NEW f
  PROVE  /\ safety_tx_hook(h, f).brake = h.brake
         /\ safety_tx_hook(h, f).moving = h.moving
         /\ safety_tx_hook(h, f).controls = h.controls
  BY DEF safety_tx_hook, ProtonTxEffect, Globals

LEMMA TickFrame ==
  ASSUME NEW m, NEW p, NEW h \in Globals(m, p), NEW late
  PROVE  LET s == safety_tick(CountSecond(h), late)
         IN  s.brake = h.brake /\ s.moving = h.moving /\ (s.controls => h.controls)
<1> DEFINE h1 == CountSecond(h)
<1>1. h1.brake = h.brake /\ h1.moving = h.moving /\ h1.controls = h.controls
  BY DEF CountSecond, Globals
<1>2. h1 \in Globals(m, p)
  BY DEF CountSecond, Globals, CNT_CAP
<1> HIDE DEF h1
<1> QED
  BY <1>1, <1>2 DEF safety_tick, OneSecondOlder, Globals, h1

\* BrakeStopsMoving is inductive together with the types alone: whatever the
\* mode's hook grants, generic_rx_checks takes back before the frame is done.
THEOREM BrakeWins == Spec => []BrakeStopsMoving
<1>1. Init => BrakeStopsMoving
  BY DEF Init, BootGlobals, BrakeStopsMoving
<1>2. TypeOK /\ BrakeStopsMoving /\ [Next]_g => BrakeStopsMoving'
  <2> SUFFICES ASSUME TypeOK, BrakeStopsMoving, [Next]_g PROVE BrakeStopsMoving'
    OBVIOUS
  <2> USE SafetyConstants
  <2>1. g \in Globals(g.mode, g.param)
    BY DEF TypeOK
  <2>2. ASSUME NEW f \in Traffic, CanRx(f) PROVE BrakeStopsMoving'
    <3>1. safety_fwd_hook(g, f) \in Globals(g.mode, g.param)
      BY <2>1, WindowType
    <3> QED
      BY <2>2, <3>1, RxBrake DEF CanRx, BrakeStopsMoving
  <2>3. ASSUME NEW f \in Commands, CanTx(f) PROVE BrakeStopsMoving'
    BY <2>1, <2>3, WindowFrame DEF CanTx, BrakeStopsMoving
  <2>4. CASE SafetyTick
    BY <2>1, <2>4, TickFrame DEF SafetyTick, BrakeStopsMoving
  <2>5. ASSUME NEW c \in Configs, SetSafetyHooks(c) PROVE BrakeStopsMoving'
    <3>1. ~set_safety_hooks(g, c.mode, c.param).brake
      BY <2>1 DEF set_safety_hooks, InstallMode, InitStatics, ForgetCar, Globals
    <3> QED
      BY <2>5, <3>1 DEF SetSafetyHooks, BrakeStopsMoving
  <2>6. CASE UNCHANGED g
    BY <2>6 DEF BrakeStopsMoving
  <2> QED
    BY <2>2, <2>3, <2>4, <2>5, <2>6 DEF Next
<1> QED
  BY <1>1, <1>2, TypeCorrect, PTL DEF Spec

---------------------------------------------------------------------------
(* One source per command                                                  *)

LEMMA BydOneSource ==
  ASSUME NEW h, h.mode = "BYD", NEW f \in Frame, f.addr \in Exclusive(h), f.bus = 0,
         TxListed(h, f)
  PROVE  ~Forwards(h, [f EXCEPT !.bus = 2])
<1> DEFINE c == [f EXCEPT !.bus = 2]
<1>1. c.addr = f.addr /\ c.bus = 2
  BY DEF Frame
<1>2. TxMsgs(h.mode, h.param) = BydTxMsgs(h.param)
  BY DEF TxMsgs
<1>3. PICK t \in BydTxMsgs(h.param) : t.addr = f.addr /\ t.bus = f.bus
  BY <1>2 DEF TxListed
<1> HIDE DEF c
<1>4. CASE t.relay /\ t.static
  <2>1. StaticBlock(h, c)
    BY <1>1, <1>2, <1>3, <1>4 DEF StaticBlock, get_fwd_bus
  <2> QED
    BY <2>1 DEF Forwards, FwdReached, c
<1>5. CASE ~(t.relay /\ t.static)
  <2>1. f.addr = "B_ACC_CMD" /\ ~BydMpc(h.param) /\ ~BydStockLong(h.param)
    BY <1>3, <1>5 DEF BydTxMsgs, Tx, Exclusive
  <2>2. byd_fwd_hook(h.param, c.bus, c.addr)
    BY <1>1, <2>1 DEF byd_fwd_hook
  <2>3. ModeFwdBlocks(h, c)
    BY <2>2 DEF ModeFwdBlocks
  <2> QED
    BY <2>3 DEF Forwards, c
<1> QED
  BY <1>4, <1>5
LEMMA DngaOneSource ==
  ASSUME NEW h, h.mode = "DNGA", NEW f \in Frame, f.addr \in Exclusive(h), f.bus = 0,
         TxListed(h, f)
  PROVE  ~Forwards(h, [f EXCEPT !.bus = 2])
<1> DEFINE c == [f EXCEPT !.bus = 2]
<1>1. c.addr = f.addr /\ c.bus = 2
  BY DEF Frame
<1>2. TxMsgs(h.mode, h.param) = DngaTxMsgs
  BY DEF TxMsgs
<1>3. PICK t \in DngaTxMsgs : t.addr = f.addr /\ t.bus = f.bus
  BY <1>2 DEF TxListed
<1> HIDE DEF c
<1>4. t.relay /\ t.static
  BY <1>3 DEF DngaTxMsgs, Tx, Exclusive
<1>5. StaticBlock(h, c)
  BY <1>1, <1>2, <1>3, <1>4 DEF StaticBlock, get_fwd_bus
<1> QED
  BY <1>5 DEF Forwards, FwdReached, c

LEMMA CheryOneSource ==
  ASSUME NEW h, h.mode = "CHERY", NEW f \in Frame, f.addr \in Exclusive(h)
  PROVE  ~Forwards(h, [f EXCEPT !.bus = 2])
<1> DEFINE c == [f EXCEPT !.bus = 2]
<1>1. c.addr = f.addr /\ c.bus = 2
  BY DEF Frame
<1> HIDE DEF c
<1>2. /\ f.addr \in {"C_LANE_KEEP", "C_TIGGO_LK", "C_STEER_STATUS"}
      /\ f.addr # "C_LANE_KEEP" => "tiggo22" \in h.param /\ h.controls
  BY DEF Exclusive
<1>3. chery_fwd_hook(h, c.bus, c.addr)
  BY <1>1, <1>2 DEF chery_fwd_hook
<1>4. ModeFwdBlocks(h, c)
  BY <1>3 DEF ModeFwdBlocks
<1> QED
  BY <1>4 DEF Forwards, c

\* NeverShared needs no induction: in every state the tx list, the static blocks and
\* the forward hook between them leave one source to an exclusive command.
LEMMA ExclusivesKept == NeverShared
<1>1. ASSUME NEW f \in Commands, f.addr \in Exclusive(g), f.bus = 0, TxListed(g, f)
      PROVE  ~Forwards(g, [f EXCEPT !.bus = 2])
  <2>1. f \in Frame /\ g.mode \in {"BYD", "DNGA", "CHERY"}
    BY <1>1, SafetyConstants DEF Exclusive
  <2> QED
    BY <1>1, <2>1, BydOneSource, DngaOneSource, CheryOneSource
<1> QED
  BY <1>1 DEF NeverShared, TxAllowed

---------------------------------------------------------------------------
(* Granting                                                                *)

\* In BYD's hook without relaxation, a grant comes from a button or an ACC edge.
LEMMA BydGrant ==
  ASSUME NEW m, NEW p, NEW h \in Globals(m, p), NEW f, ~BydRelax(h.param),
         ~h.controls, byd_rx_hook(h, f).controls
  PROVE  f.what = "grant" \/ (f.what = "engaged" /\ ~h.cruisePrev)
<1>1. BydRxNoRelax(h, f).controls
  BY DEF byd_rx_hook
<1>2. ASSUME NEW gas, NEW brake, NEW moving
      PROVE  /\ [h EXCEPT !.gas = gas, !.brake = brake].controls = h.controls
             /\ [h EXCEPT !.moving = moving].controls = h.controls
  BY DEF Globals
<1>3. CASE f.bus = 0 /\ f.addr = "B_PEDALS"
  <2> DEFINE gas   == f.what \in {"gas", "gas_brake"}
             brake == f.what \in {"brake", "gas_brake"}
  <2>1. BydRxNoRelax(h, f) = [h EXCEPT !.gas = gas, !.brake = brake]
    <3>1. f.addr # BydAccRead(h.param) /\ f.addr \notin {"B_WHEEL", "B_BUTTONS"}
      BY <1>3 DEF BydAccRead
    <3> QED
      BY <1>3, <3>1, Zenon DEF BydRxNoRelax
  <2> HIDE DEF gas, brake
  <2> QED
    BY <1>1, <1>2, <2>1
<1>4. CASE f.bus = 0 /\ f.addr = "B_WHEEL"
  <2>1. BydRxNoRelax(h, f) = [h EXCEPT !.moving = Bool(f, "moving")]
    BY <1>4 DEF BydRxNoRelax, BydAccRead
  <2> QED
    BY <1>1, <1>2, <2>1
<1>5. CASE f.bus = 0 /\ f.addr = "B_BUTTONS"
  <2>1. BydRxNoRelax(h, f) = Buttons(h, f)
    BY <1>5 DEF BydRxNoRelax, BydAccRead
  <2> QED
    BY <1>1, <2>1 DEF Buttons, Bool, Globals
<1>6. CASE f.addr = BydAccRead(h.param)
  <2>1. BydRxNoRelax(h, f) = pcm_cruise_check(h, Bool(f, "engaged"))
    BY <1>6 DEF BydRxNoRelax, BydAccRead
  <2> QED
    BY <1>1, <2>1 DEF pcm_cruise_check, Bool, Globals
<1>7. CASE /\ ~(f.bus = 0 /\ f.addr \in {"B_PEDALS", "B_WHEEL", "B_BUTTONS"})
           /\ f.addr # BydAccRead(h.param)
  BY <1>1, <1>7, Zenon DEF BydRxNoRelax
<1> QED
  BY <1>3, <1>4, <1>5, <1>6, <1>7

\* Controls that a frame leaves allowed were allowed before the generic checks.
LEMMA RxControls ==
  ASSUME NEW m, NEW p, NEW h \in Globals(m, p), NEW f \in Frame,
         safety_rx_hook(h, f).controls
  PROVE  CheckedModeRx(h, f).controls
<1> DEFINE x == CheckedModeRx(h, f)
           y == generic_rx_checks(x)
           z == stock_ecu_check(y, f)
<1>1. x \in Globals(m, p) /\ y \in Globals(m, p) /\ z \in Globals(m, p)
  BY CheckedType, GenericType, StockType
<1>2. PICK n \in 0..MISM_LIMIT : safety_rx_hook(h, f) = [z EXCEPT !.mism = n]
  BY RxShape
<1> HIDE DEF x
<1>3. y.controls => x.controls
  BY <1>1 DEF generic_rx_checks, Globals
<1> HIDE DEF y
<1>4. z.controls = y.controls
  BY <1>1 DEF stock_ecu_check, Globals
<1> HIDE DEF z
<1> QED
  BY <1>1, <1>2, <1>3, <1>4, SetMism DEF x

LEMMA RxMsgFrame ==
  ASSUME NEW m, NEW p, NEW h \in Globals(m, p), NEW f
  PROVE  LET s == rx_msg_safety_check(h, f)
         IN  (s.controls => h.controls) /\ s.cruisePrev = h.cruisePrev
  BY DEF rx_msg_safety_check, Globals

\* For every set of frames and requests: on a BYD whose parameter does not relax
\* the checks, a step that grants controls is a button or the stock ACC's edge.
THEOREM GrantIsTheDrivers == Spec => GrantNeedsDriver
<1>1. ASSUME TypeOK, [Next]_g, Granted, g'.mode = "BYD", ~BydRelax(g'.param)
      PROVE  \E f \in Traffic :
               /\ CanRx(f)
               /\ \/ f.what = "grant"
                  \/ f.what = "engaged" /\ ~g.cruisePrev
  <2> USE SafetyConstants, <1>1
  <2>1. g \in Globals(g.mode, g.param)
    BY DEF TypeOK
  <2>2. ASSUME NEW f \in Traffic, CanRx(f)
        PROVE  f.what = "grant" \/ (f.what = "engaged" /\ ~g.cruisePrev)
    <3> DEFINE h  == safety_fwd_hook(g, f)
               h1 == rx_msg_safety_check(h, f)
    <3>1. h \in Globals(g.mode, g.param)
      BY <2>1, WindowType
    <3>2. g' \in Globals(g.mode, g.param)
      BY <2>2, <3>1, RxType DEF CanRx
    <3>3. g.mode = "BYD" /\ ~BydRelax(g.param)
      BY <3>2, Fields
    <3>4. h = g
      BY <3>3 DEF safety_fwd_hook
    <3> HIDE DEF h
    <3>5. CheckedModeRx(h, f).controls
      BY <2>2, <3>1, RxControls DEF CanRx, h, Granted
    <3>6. ~h1.controls /\ h1.cruisePrev = g.cruisePrev
      BY <3>1, <3>4, RxMsgFrame DEF Granted
    <3>7. h1 \in Globals(g.mode, g.param)
      BY <3>1, RxMsgType
    <3>8. h1.mode = "BYD" /\ ~BydRelax(h1.param)
      BY <3>3, <3>7, Fields
    <3>9. byd_rx_hook(h1, f).controls
      BY <3>5, <3>6, <3>8 DEF CheckedModeRx, ModeRx
    <3> QED
      BY <3>6, <3>7, <3>8, <3>9, BydGrant
  <2>3. ASSUME NEW f \in Commands, CanTx(f) PROVE FALSE
    BY <2>1, <2>3, WindowFrame DEF CanTx, Granted
  <2>4. ASSUME SafetyTick PROVE FALSE
    BY <2>1, <2>4, TickFrame DEF SafetyTick, Granted
  <2>5. ASSUME NEW c \in Configs, SetSafetyHooks(c) PROVE FALSE
    <3>1. InitStatics(ForgetCar(g), c.mode) \in Globals(g.mode, g.param)
      BY <2>1, InitStaticsType
    <3>2. /\ set_safety_hooks(g, c.mode, c.param).mode = c.mode
          /\ set_safety_hooks(g, c.mode, c.param).controls = (c.mode \in {"ALLOUTPUT", "DNGA"})
      BY <3>1 DEF set_safety_hooks, InstallMode, Globals
    <3> QED
      BY <2>5, <3>2 DEF SetSafetyHooks, Granted
  <2>6. ~UNCHANGED g
    BY DEF Granted
  <2> QED
    BY <2>2, <2>3, <2>4, <2>5, <2>6 DEF Next
<1>2. TypeOK /\ [Next]_g =>
        [Granted /\ g'.mode = "BYD" /\ ~BydRelax(g'.param) =>
           \E f \in Traffic :
             /\ CanRx(f)
             /\ \/ f.what = "grant"
                \/ f.what = "engaged" /\ ~g.cruisePrev]_g
  BY <1>1
<1> QED
  BY <1>2, TypeCorrect, PTL DEF Spec, GrantNeedsDriver

---------------------------------------------------------------------------
(* What the steps leave alone: the facts PandaBoard_proofs builds on       *)

\* No mode's hook touches the heartbeat's mismatches or the status table.
Keeps(h, s) == s.mism = h.mism /\ s.rx = h.rx

LEMMA HookKeeps ==
  ASSUME NEW m, NEW p, NEW h \in Globals(m, p), NEW f
  PROVE  Keeps(h, ModeRx(h, f))
<1>1. ASSUME NEW x \in Globals(m, p), NEW e
      PROVE  Keeps(x, pcm_cruise_check(x, e))
  BY DEF Keeps, pcm_cruise_check, Globals
<1>2. ASSUME NEW x \in Globals(m, p) PROVE Keeps(x, Buttons(x, f))
  BY DEF Keeps, Buttons, Globals
<1>0. Keeps(h, h)
  BY DEF Keeps
<1>3. Keeps(h, byd_rx_hook(h, f))
  <2>1. Keeps(h, BydRxNoRelax(h, f))
    BY <1>1, <1>2, Zenon DEF Keeps, BydRxNoRelax, Globals
  <2>2. BydRxNoRelax(h, f) \in Globals(m, p)
    BY BydNoRelaxType
  <2> QED
    BY <2>1, <2>2 DEF Keeps, byd_rx_hook, Globals
<1>4. Keeps(h, dnga_rx_hook(h, f))
  BY DEF Keeps, dnga_rx_hook, Globals
<1>5. Keeps(h, proton_rx_hook(h, f))
  <2> DEFINE gas == IF f.addr = "P_GAS" /\ f.bus = 0 THEN Bool(f, "gas") ELSE h.gas
             x   == [h EXCEPT !.moving = TRUE, !.gas = gas]
             e   == Bool(f, "engaged")
             y   == [x EXCEPT !.pSaw = x.pSaw \/ e, !.pOff = ProtonOff(x, e)]
  <2>1. Keeps(h, x) /\ x \in Globals(m, p)
    <3>1. gas \in BOOLEAN
      BY DEF Keeps, Globals, Bool
    <3> HIDE DEF gas
    <3> QED
      BY <3>1 DEF Keeps, Globals
  <2> HIDE DEF x
  <2>2. Keeps(x, y) /\ y \in Globals(m, p)
    <3> DEFINE saw == x.pSaw \/ e
               off == ProtonOff(x, e)
    <3>1. saw \in BOOLEAN
      BY Zenon
    <3>2. off \in 0..PROTON_PCM_DISENGAGE_FRAMES
      BY <2>1 DEF Keeps, ProtonOff, Globals, PROTON_PCM_DISENGAGE_FRAMES
    <3> HIDE DEF saw, off
    <3>3. LET z == [x EXCEPT !.pSaw = saw, !.pOff = off]
          IN  Keeps(x, z) /\ z \in Globals(m, p)
      BY <2>1, <3>1, <3>2 DEF Keeps, Globals
    <3> QED
      BY <3>3 DEF saw, off
  <2> HIDE DEF y
  <2>3. Keeps(h, ProtonAcc(x, e))
    <3> DEFINE eff == e \/ ((x.pSaw \/ e) /\ ProtonOff(x, e) < PROTON_PCM_DISENGAGE_FRAMES)
    <3>1. ProtonAcc(x, e) = pcm_cruise_check(y, eff)
      BY Zenon DEF ProtonAcc, y
    <3> HIDE DEF eff
    <3> QED
      BY <1>1, <2>1, <2>2, <3>1 DEF Keeps
  <2>4. proton_rx_hook(h, f) \in {Buttons(x, f), ProtonAcc(x, e), x}
    BY Zenon DEF proton_rx_hook, x, gas
  <2> QED
    BY <1>2, <2>1, <2>3, <2>4 DEF Keeps
<1>6. Keeps(h, chery_rx_hook(h, f))
  <2>1. Keeps(h, CheryMeter(h, f))
    <3>1. LET x == [h EXCEPT !.cMeterOff = TRUE, !.cLatched = FALSE]
          IN  x \in Globals(m, p) /\ Keeps(h, x)
      BY DEF Keeps, Globals
    <3>2. Keeps(h, [h EXCEPT !.cMeterOff = FALSE])
      BY DEF Keeps, Globals
    <3> QED
      BY <1>1, <3>1, <3>2 DEF CheryMeter, Keeps
  <2>2. Keeps(h, CheryLkaStatus(h, f))
    <3> DEFINE acc == Bool(f, "engaged") \/ (~h.cMeterOff /\ h.cStopped /\ h.cLatched)
    <3>1. acc \in BOOLEAN
      BY Zenon DEF Bool
    <3> DEFINE x == [h EXCEPT !.cLatched = acc]
    <3>2. CheryLkaStatus(h, f) = pcm_cruise_check(x, acc)
      BY Zenon DEF CheryLkaStatus
    <3> HIDE DEF acc
    <3>3. x \in Globals(m, p) /\ Keeps(h, x)
      BY <3>1 DEF Keeps, Globals
    <3> HIDE DEF x
    <3> QED
      BY <1>1, <3>2, <3>3 DEF Keeps
  <2>3. Keeps(h, pcm_cruise_check(h, Bool(f, "engaged")))
    BY <1>1
  <2>4. Keeps(h, [h EXCEPT !.cStopped = Bool(f, "stopped")])
    BY DEF Keeps, Globals
  <2>5. chery_rx_hook(h, f) \in
          {CheryMeter(h, f), CheryLkaStatus(h, f), pcm_cruise_check(h, Bool(f, "engaged")),
           [h EXCEPT !.cStopped = Bool(f, "stopped")], h}
    BY Zenon DEF chery_rx_hook
  <2> QED
    BY <1>0, <2>1, <2>2, <2>3, <2>4, <2>5, Zenon
<1>7. Keeps(h, perodua_qve_rx_hook(h, f))
  <2>1. perodua_qve_rx_hook(h, f) \in
          {[h EXCEPT !.gas = Bool(f, "gas")], [h EXCEPT !.brake = Bool(f, "brake")],
           [h EXCEPT !.moving = @ \/ Bool(f, "moving")],
           pcm_cruise_check(h, Bool(f, "engaged")), h}
    BY Zenon DEF perodua_qve_rx_hook
  <2>2. /\ Keeps(h, [h EXCEPT !.gas = Bool(f, "gas")])
        /\ Keeps(h, [h EXCEPT !.brake = Bool(f, "brake")])
        /\ Keeps(h, [h EXCEPT !.moving = @ \/ Bool(f, "moving")])
    BY DEF Keeps, Globals
  <2> QED
    BY <1>0, <1>1, <2>1, <2>2, Zenon
<1>8. ModeRx(h, f) \in {byd_rx_hook(h, f), dnga_rx_hook(h, f), proton_rx_hook(h, f),
                        chery_rx_hook(h, f), perodua_qve_rx_hook(h, f), h}
  BY Zenon DEF ModeRx
<1> QED
  BY <1>0, <1>3, <1>4, <1>5, <1>6, <1>7, <1>8, Zenon

\* A frame grants controls in a car's mode only, and then resets the mismatches; else it
\* leaves them alone.
LEMMA RxGrants ==
  ASSUME NEW m, NEW p, [mode |-> m, param |-> p] \in Config,
         NEW h \in Globals(m, p), NEW f \in Frame
  PROVE  LET s == safety_rx_hook(h, f)
         IN  /\ s.controls /\ ~h.controls => s.mism = 0 /\ m \in CarModes
             /\ ~(s.controls /\ ~h.controls) => s.mism = h.mism
<1> DEFINE u == rx_msg_safety_check(h, f)
           x == CheckedModeRx(h, f)
           y == generic_rx_checks(x)
           z == stock_ecu_check(y, f)
           s == safety_rx_hook(h, f)
<1>1. u \in Globals(m, p) /\ x \in Globals(m, p) /\ y \in Globals(m, p) /\ z \in Globals(m, p)
  BY RxMsgType, CheckedType, GenericType, StockType
<1>2. u.mism = h.mism /\ (u.controls => h.controls)
  BY DEF rx_msg_safety_check, Globals
<1>3. x.mism = h.mism
  BY <1>1, <1>2, HookKeeps DEF CheckedModeRx, Keeps
<1>4. x.controls /\ ~h.controls => m \in CarModes
  <2> SUFFICES ASSUME x.controls, ~h.controls PROVE m \in CarModes
    OBVIOUS
  <2>1. Listed(u, f)
    BY <1>2 DEF CheckedModeRx
  <2>2. RxChecks(m, p) # {}
    BY <1>1, <2>1, Fields DEF Listed
  <2> QED
    BY <2>2 DEF RxChecks, Config, NonCarModes, CarModes
<1> HIDE DEF u, x
<1>5. y.mism = x.mism
  BY <1>1 DEF generic_rx_checks, Globals
<1> HIDE DEF y
<1>6. z.mism = y.mism
  BY <1>1 DEF stock_ecu_check, Globals
<1>7. z.controls => x.controls
  <2>1. y.controls => x.controls
    BY <1>1 DEF generic_rx_checks, Globals, y
  <2>2. z.controls = y.controls
    BY <1>1 DEF stock_ecu_check, Globals
  <2> QED
    BY <2>1, <2>2
<1> HIDE DEF z
<1>8. s = [z EXCEPT !.mism = IF z.controls /\ ~h.controls THEN 0 ELSE z.mism]
  BY Zenon DEF safety_rx_hook, x, y, z
<1> HIDE DEF s
<1>9. s.controls = z.controls
      /\ s.mism = IF z.controls /\ ~h.controls THEN 0 ELSE z.mism
  BY <1>1, <1>8 DEF Globals
<1> QED
  BY <1>3, <1>4, <1>5, <1>6, <1>7, <1>9 DEF s

\* The tx and fwd hooks change their windows only.
LEMMA WindowKeeps ==
  ASSUME NEW m, NEW p, NEW h \in Globals(m, p), NEW f
  PROVE  /\ safety_tx_hook(h, f).controls = h.controls
         /\ safety_tx_hook(h, f).mism = h.mism
         /\ safety_fwd_hook(h, f).controls = h.controls
         /\ safety_fwd_hook(h, f).mism = h.mism
  BY DEF safety_tx_hook, ProtonTxEffect, safety_fwd_hook, ProtonFwdEffect, Globals

\* A tick may take controls away; the mismatches are the tick handler's own business.
LEMMA TickKeeps ==
  ASSUME NEW m, NEW p, NEW h \in Globals(m, p), NEW late
  PROVE  LET s == safety_tick(CountSecond(h), late)
         IN  s.mism = h.mism /\ s.controls \in {h.controls, FALSE}
<1> DEFINE h1 == CountSecond(h)
<1>1. h1.mism = h.mism /\ h1.controls = h.controls /\ h1 \in Globals(m, p)
  BY DEF CountSecond, Globals, CNT_CAP
<1> HIDE DEF h1
<1>2. /\ OneSecondOlder(h1).mism = h1.mism /\ OneSecondOlder(h1).controls = h1.controls
      /\ DOMAIN OneSecondOlder(h1) = DOMAIN h1
  BY <1>1 DEF OneSecondOlder, Globals
<1> DEFINE on == h1.controls /\ Bad(h1, late) = {}
<1>3. /\ safety_tick(h1, late).mism = h1.mism
      /\ safety_tick(h1, late).controls = on
  BY <1>1, <1>2 DEF safety_tick, Globals
<1>4. on = h1.controls \/ on = FALSE
  <2>1. h1.controls \in BOOLEAN
    BY <1>1 DEF Globals
  <2> QED
    BY <2>1
<1> QED
  BY <1>1, <1>3, <1>4 DEF h1

\* A mode that is set up starts without controls, unless it needs none, and keeps the
\* mismatches of the one before.
LEMMA SetHooksKeeps ==
  ASSUME NEW k, NEW q, NEW h \in Globals(k, q), NEW m, NEW p
  PROVE  LET s == set_safety_hooks(h, m, p)
         IN  /\ s.mode = m /\ s.mism = h.mism
             /\ s.controls = (m \in {"ALLOUTPUT", "DNGA"})
<1> DEFINE h1 == InitStatics(ForgetCar(h), m)
<1>1. h1 \in Globals(k, q)
  BY InitStaticsType
<1>2. h1.mism = h.mism
  <2>1. ForgetCar(h).mism = h.mism /\ DOMAIN ForgetCar(h) = DOMAIN h
    BY DEF ForgetCar, Globals
  <2> QED
    BY <2>1 DEF InitStatics, Globals
<1> HIDE DEF h1
<1>3. set_safety_hooks(h, m, p) =
        [[h1 EXCEPT !.mode = m, !.param = p, !.cnt = 0,
                    !.controls  = m \in {"ALLOUTPUT", "DNGA"},
                    !.ignLine   = IgnoresLine(m, p),
                    !.ignSticky = IF m \in {"PROTON", "PERODUA_QVE"} THEN IgnoresLine(m, p)
                                  ELSE KeepsSticky(m) /\ @]
           EXCEPT !.rx = [c \in RxChecks(m, p) |-> Unseen(c)]]
  BY Zenon DEF set_safety_hooks, InstallMode, h1
<1> QED
  BY <1>1, <1>2, <1>3 DEF Globals
=============================================================================
