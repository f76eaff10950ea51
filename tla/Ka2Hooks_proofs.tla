---------------------------- MODULE Ka2Hooks_proofs ----------------------------
(***************************************************************************)
(* What the KA2 modes learn from the car's frames, and whose commands they *)
(* let through, for every set of configurations, frames and commands that  *)
(* the buses of the cars carry: a refused frame teaches nothing, Proton's  *)
(* stock ACC is debounced as its bus really behaves, and host and camera   *)
(* do not command the car together.                                        *)
(***************************************************************************)
EXTENDS MCKa2Hooks, SafetyHooks_proofs

\* From h to s nothing is learnt, and no controls are granted.
Leaves(h, s) == Taught(s) = Taught(h) /\ (s.controls => h.controls)

\* Forwarding, sending and ticking are of that kind.
LEMMA FwdLeaves ==
  ASSUME NEW m, NEW p, NEW h \in Globals(m, p), NEW f
  PROVE  /\ Leaves(h, safety_fwd_hook(h, f))
         /\ safety_fwd_hook(h, f).rx = h.rx
         /\ safety_fwd_hook(h, f).controls = h.controls
  BY DEF safety_fwd_hook, ProtonFwdEffect, Globals, Leaves, Taught

LEMMA TxLeaves ==
  ASSUME NEW m, NEW p, NEW h \in Globals(m, p), NEW f
  PROVE  Leaves(h, safety_tx_hook(h, f))
  BY DEF safety_tx_hook, ProtonTxEffect, Globals, Leaves, Taught

LEMMA TickLeaves ==
  ASSUME NEW m, NEW p, NEW h \in Globals(m, p), NEW late
  PROVE  Leaves(h, safety_tick(CountSecond(h), late))
<1> DEFINE h1 == CountSecond(h)
<1>1. Leaves(h, h1) /\ h1 \in Globals(m, p)
  BY DEF CountSecond, Globals, CNT_CAP, Leaves, Taught
<1> HIDE DEF h1
<1>2. Leaves(h1, safety_tick(h1, late))
  BY <1>1 DEF safety_tick, OneSecondOlder, Globals, Leaves, Taught
<1> QED
  BY <1>1, <1>2 DEF Leaves, h1

\* The check of a listed frame writes its status, and takes controls away if it is
\* not valid.
LEMMA RxMsgLeaves ==
  ASSUME NEW m, NEW p, NEW h \in Globals(m, p), NEW f \in Frame, Listed(h, f)
  PROVE  LET u == rx_msg_safety_check(h, f)
         IN  /\ Leaves(h, u) /\ u \in Globals(m, p) /\ Listed(u, f)
             /\ u.controls => Valid(u.rx[<<f.addr, f.bus>>])
<1> DEFINE st == StatusAfter(h, f)
           ok == Valid(st)
           u  == rx_msg_safety_check(h, f)
<1>1. u \in Globals(m, p)
  BY RxMsgType
<1>2. u = [h EXCEPT !.rx[<<f.addr, f.bus>>] = st, !.controls = h.controls /\ ok]
  BY Zenon DEF rx_msg_safety_check
<1> HIDE DEF st, ok
<1>3. /\ Leaves(h, u) /\ u.rx[<<f.addr, f.bus>>] = st /\ Listed(u, f)
      /\ u.controls => ok
  BY <1>2 DEF Globals, Leaves, Taught, Listed
<1> QED
  BY <1>1, <1>3, Zenon DEF ok

\* What follows the mode's hook only takes away.
LEMMA EndLeaves ==
  ASSUME NEW m, NEW p, NEW h \in Globals(m, p), NEW f \in Frame
  PROVE  /\ Leaves(CheckedModeRx(h, f), safety_rx_hook(h, f))
         /\ safety_rx_hook(h, f).rx = CheckedModeRx(h, f).rx
<1> DEFINE x == CheckedModeRx(h, f)
           y == generic_rx_checks(x)
           z == stock_ecu_check(y, f)
<1>1. x \in Globals(m, p) /\ y \in Globals(m, p) /\ z \in Globals(m, p)
  BY CheckedType, GenericType, StockType
<1>2. PICK n \in 0..MISM_LIMIT : safety_rx_hook(h, f) = [z EXCEPT !.mism = n]
  BY RxShape
<1> HIDE DEF x
<1>3. Leaves(x, y) /\ y.rx = x.rx
  BY <1>1 DEF generic_rx_checks, Globals, Leaves, Taught
<1> HIDE DEF y
<1>4. Leaves(y, z) /\ z.rx = y.rx
  BY <1>1 DEF stock_ecu_check, Globals, Leaves, Taught
<1> HIDE DEF z
<1>5. LET s == [z EXCEPT !.mism = n] IN Leaves(z, s) /\ s.rx = z.rx
  BY <1>1 DEF Globals, Leaves, Taught
<1> QED
  BY <1>2, <1>3, <1>4, <1>5 DEF Leaves, x

\* A listed frame, step by step: what the hook does if the frame is accepted; else
\* nothing is learnt and controls are not allowed.
LEMMA FrameHeard ==
  ASSUME TypeOK, NEW f \in Frame, Listed(g, f), CanRx(f)
  PROVE  \E u \in Globals(g.mode, g.param) :
           /\ Leaves(g, u)
           /\ Accepted(f) => Leaves(ModeRx(u, f), g')
           /\ ~Accepted(f) => Leaves(g, g') /\ ~g'.controls
<1> DEFINE m == g.mode
           p == g.param
           h == safety_fwd_hook(g, f)
           u == rx_msg_safety_check(h, f)
           x == CheckedModeRx(h, f)
<1>1. g \in Globals(m, p)
  BY DEF TypeOK
<1>2. h \in Globals(m, p) /\ Leaves(g, h) /\ Listed(h, f)
  BY <1>1, WindowType, FwdLeaves DEF Listed
<1>3. Leaves(x, g') /\ g'.rx = x.rx
  BY <1>2, EndLeaves DEF CanRx
<1> HIDE DEF h
<1>4. /\ Leaves(h, u) /\ u \in Globals(m, p) /\ Listed(u, f)
      /\ u.controls => Valid(u.rx[<<f.addr, f.bus>>])
  BY <1>2, RxMsgLeaves
<1>5. x = IF Valid(u.rx[<<f.addr, f.bus>>]) THEN ModeRx(u, f) ELSE u
  BY <1>4 DEF CheckedModeRx
<1> HIDE DEF u, x
<1>6. ModeRx(u, f).rx = u.rx
  BY <1>4, HookKeeps DEF Keeps
<1>7. Accepted(f) <=> Valid(u.rx[<<f.addr, f.bus>>])
  BY <1>3, <1>5, <1>6 DEF Accepted
<1>8. Leaves(g, u)
  BY <1>2, <1>4 DEF Leaves
<1>9. Accepted(f) => Leaves(ModeRx(u, f), g')
  BY <1>3, <1>5, <1>7
<1>10. ~Accepted(f) => Leaves(g, g') /\ ~g'.controls
  BY <1>3, <1>4, <1>5, <1>7, <1>8 DEF Leaves
<1> QED
  BY <1>4, <1>8, <1>9, <1>10

LEMMA MCNextIsNext == [MCNext]_vars => [Next]_g
  BY DEF MCNext, Next, vars

\* A frame whose checksum is wrong, or that comes when its counter score is exhausted,
\* withdraws controls and teaches the hooks nothing, in every mode.
THEOREM RefusedTeachesNothing == MCSpec => InvalidFramesTeachNothing
<1>1. MCInit => TypeOK
  BY InitType DEF MCInit
<1>2. TypeOK /\ [MCNext]_vars => TypeOK'
  BY MCNextIsNext, NextType
<1>3. ASSUME TypeOK, NEW f \in Traffic, Refused(f)
      PROVE  ~g'.controls /\ Taught(g') = Taught(g)
  <2>1. f \in Frame
    BY SafetyConstants
  <2> QED
    BY <1>3, <2>1, FrameHeard DEF Refused, Leaves
<1>4. TypeOK /\ [MCNext]_vars =>
        [ g'.controls \/ Taught(g') # Taught(g) => \A f \in Traffic : ~Refused(f) ]_vars
  BY <1>3
<1> QED
  BY <1>1, <1>2, <1>4, PTL DEF MCSpec, InvalidFramesTeachNothing

---------------------------------------------------------------------------
(* The debounce of Proton's stock ACC                                      *)

AccType == [seen : BOOLEAN, off : 0..PROTON_PCM_DISENGAGE_FRAMES, button : BOOLEAN]

\* Once an engaged frame was seen, the code's count is the bus's count of idle frames;
\* below five of them the ACC is believed engaged, and at five controls are not allowed
\* unless a button came since.
Debounced(h, a) ==
  /\ a.seen = h.pSaw
  /\ a.seen => /\ h.pOff = a.off
               /\ a.off < PROTON_PCM_DISENGAGE_FRAMES => h.cruisePrev
               /\ a.off = PROTON_PCM_DISENGAGE_FRAMES /\ ~a.button => ~h.controls

DebounceInv == /\ acc \in AccType /\ car \in {"BYD", "PROTON", "CHERY"}
               /\ g.mode = "PROTON" => car = "PROTON" /\ Debounced(g, acc)

\* A step that learns nothing and grants nothing keeps the count, also if a button was
\* pressed.
LEMMA LeavesDebounced ==
  ASSUME NEW h, NEW s, NEW a \in AccType, NEW c \in AccType,
         Debounced(h, a), Leaves(h, s), c.seen = a.seen, c.off = a.off, a.button => c.button
  PROVE  Debounced(s, c)
<1>1. s.pSaw = h.pSaw /\ s.pOff = h.pOff /\ s.cruisePrev = h.cruisePrev
  BY DEF Leaves, Taught
<1> QED
  BY <1>1 DEF Debounced, Leaves

\* An accepted frame of the stock ACC, as the hook counts it and as the bus meant it.
AfterAcc(a, e) ==
  [seen |-> a.seen \/ e,
   off |-> IF e THEN 0 ELSE IF a.off < PROTON_PCM_DISENGAGE_FRAMES THEN a.off + 1 ELSE a.off,
   button |-> FALSE]

LEMMA AccDebounced ==
  ASSUME NEW m, NEW p, NEW h \in Globals(m, p), NEW a \in AccType, Debounced(h, a),
         NEW e \in BOOLEAN
  PROVE  Debounced(ProtonAcc(h, e), AfterAcc(a, e)) /\ AfterAcc(a, e) \in AccType
<1> DEFINE saw == h.pSaw \/ e
           off == ProtonOff(h, e)
           y   == [h EXCEPT !.pSaw = saw, !.pOff = off]
           eff == e \/ (saw /\ off < PROTON_PCM_DISENGAGE_FRAMES)
           on  == eff /\ (y.controls \/ ~y.cruisePrev)
           c   == AfterAcc(a, e)
<1>1. ProtonAcc(h, e) = [y EXCEPT !.controls = on, !.cruisePrev = eff]
  BY Zenon DEF ProtonAcc, pcm_cruise_check
<1>2. off = IF e THEN 0
            ELSE IF h.pSaw /\ h.pOff < PROTON_PCM_DISENGAGE_FRAMES THEN h.pOff + 1 ELSE h.pOff
  BY DEF ProtonOff
<1>3. saw \in BOOLEAN /\ off \in 0..PROTON_PCM_DISENGAGE_FRAMES
  BY <1>2 DEF Globals, PROTON_PCM_DISENGAGE_FRAMES
<1>4. (on => eff) /\ (eff <=> e \/ (saw /\ off < PROTON_PCM_DISENGAGE_FRAMES))
  BY Zenon
<1>5. saw <=> h.pSaw \/ e
  BY Zenon
<1> HIDE DEF saw, off, on, eff
<1>6. [y EXCEPT !.controls = on, !.cruisePrev = eff].pSaw = saw
      /\ [y EXCEPT !.controls = on, !.cruisePrev = eff].pOff = off
      /\ [y EXCEPT !.controls = on, !.cruisePrev = eff].cruisePrev = eff
      /\ [y EXCEPT !.controls = on, !.cruisePrev = eff].controls = on
  BY DEF Globals
<1> HIDE DEF y
<1>7. /\ c.seen = (a.seen \/ e) /\ c.button = FALSE
      /\ c.off = IF e THEN 0
                 ELSE IF a.off < PROTON_PCM_DISENGAGE_FRAMES THEN a.off + 1 ELSE a.off
  BY DEF AfterAcc
<1>8. c \in AccType
  BY DEF AfterAcc, AccType, PROTON_PCM_DISENGAGE_FRAMES
<1> HIDE DEF c
<1>9. c.seen => /\ off = c.off
                /\ c.off < PROTON_PCM_DISENGAGE_FRAMES => eff
                /\ c.off = PROTON_PCM_DISENGAGE_FRAMES => ~on
  BY <1>2, <1>4, <1>5, <1>7 DEF Debounced, AccType, Globals, PROTON_PCM_DISENGAGE_FRAMES
<1>10. c.seen = saw
  BY <1>3, <1>5, <1>7 DEF Debounced, AccType, Globals
<1>11. Debounced(ProtonAcc(h, e), c)
  BY <1>1, <1>6, <1>9, <1>10 DEF Debounced
<1> QED
  BY <1>8, <1>11 DEF c

\* The hook on a frame of Proton's bus: counted, a button, or nothing learnt.
LEMMA HookDebounced ==
  ASSUME NEW p, NEW u \in Globals("PROTON", p), NEW a \in AccType, NEW f \in ProtonTraffic,
         Debounced(u, a)
  PROVE  LET c == IF f.addr = "P_ACC_CMD" THEN AfterAcc(a, f.what = "engaged")
                  ELSE [a EXCEPT !.button = @ \/ f.addr = "P_BUTTONS"]
         IN  Debounced(ModeRx(u, f), c) /\ c \in AccType
<1> DEFINE v == [u EXCEPT !.moving = TRUE,
                          !.gas = IF f.addr = "P_GAS" /\ f.bus = 0 THEN Bool(f, "gas") ELSE @]
           b == [a EXCEPT !.button = @ \/ f.addr = "P_BUTTONS"]
<1>1. /\ f.addr \in {"P_ACC_CMD", "P_BUTTONS", "P_LKAS"}
      /\ f.addr = "P_ACC_CMD" => f.bus = 2
      /\ f.addr = "P_BUTTONS" => f.bus = 0
  BY DEF ProtonTraffic, Fr, BadCrc, BadSeq
<1>2. v \in Globals("PROTON", p) /\ Taught(v) = Taught(u) /\ v.controls = u.controls
  BY <1>1 DEF Globals, Taught
<1>3. u.mode = "PROTON"
  BY Fields
<1>4. ModeRx(u, f) = proton_rx_hook(u, f)
  BY <1>3 DEF ModeRx
<1>5. proton_rx_hook(u, f)
        = IF f.addr = "P_BUTTONS" THEN Buttons(v, f)
          ELSE IF f.addr = "P_ACC_CMD" THEN ProtonAcc(v, f.what = "engaged") ELSE v
  BY <1>1, Zenon DEF proton_rx_hook, Bool
<1> HIDE DEF v
<1>6. Debounced(v, a)
  BY <1>2, LeavesDebounced DEF Leaves
<1>7. CASE f.addr = "P_ACC_CMD"
  <2> DEFINE e == f.what = "engaged"
  <2>1. e \in BOOLEAN
    OBVIOUS
  <2> HIDE DEF e
  <2>2. Debounced(ProtonAcc(v, e), AfterAcc(a, e)) /\ AfterAcc(a, e) \in AccType
    BY <1>2, <1>6, <2>1, AccDebounced
  <2> QED
    BY <1>4, <1>5, <1>7, <2>2 DEF e
<1>8. CASE f.addr = "P_BUTTONS"
  <2>1. b \in AccType /\ b.seen = a.seen /\ b.off = a.off /\ b.button = TRUE
    BY <1>8 DEF AccType
  <2>2. Taught(Buttons(v, f)) = Taught(v)
    BY <1>2 DEF Buttons, Taught, Globals
  <2> HIDE DEF b
  <2>3. Debounced(Buttons(v, f), b)
    BY <1>6, <2>1, <2>2 DEF Debounced, Taught
  <2> QED
    BY <1>4, <1>5, <1>8, <2>1, <2>3 DEF b
<1>9. CASE f.addr = "P_LKAS"
  <2>1. b \in AccType /\ b.seen = a.seen /\ b.off = a.off /\ b.button = a.button
    BY <1>9 DEF AccType
  <2> HIDE DEF b
  <2>2. Debounced(v, b)
    BY <1>6, <2>1 DEF Debounced
  <2> QED
    BY <1>4, <1>5, <1>9, <2>1, <2>2 DEF b
<1> QED
  BY <1>1, <1>7, <1>8, <1>9

\* One frame.
LEMMA RxDebounced ==
  ASSUME TypeOK, DebounceInv, NEW f \in Traffic,
         f \in OfCar(BydDngaTraffic, ProtonTraffic, CheryTraffic), CanRx(f),
         acc' = Heard(f), UNCHANGED car
  PROVE  DebounceInv'
<1>1. f \in Frame /\ g \in Globals(g.mode, g.param)
  BY SafetyConstants DEF TypeOK
<1>2. g'.mode = g.mode
  <2>1. safety_fwd_hook(g, f) \in Globals(g.mode, g.param)
    BY <1>1, WindowType
  <2>2. g' \in Globals(g.mode, g.param)
    BY <1>1, <2>1, RxType DEF CanRx
  <2> QED
    BY <1>1, <2>2, Fields
<1>3. CASE g.mode # "PROTON"
  BY <1>2, <1>3 DEF DebounceInv, Heard
<1>4. CASE g.mode = "PROTON"
  <2>1. f \in ProtonTraffic /\ car = "PROTON" /\ Debounced(g, acc) /\ acc \in AccType
    BY <1>4 DEF DebounceInv, OfCar
  <2>2. Listed(g, f)
    <3>1. DOMAIN g.rx = ProtonRxChecks
      BY <1>1, <1>4, Fields DEF RxChecks
    <3>2. <<f.addr, f.bus>> \in ProtonRxChecks
      BY <2>1 DEF ProtonTraffic, ProtonRxChecks, Fr, BadCrc, BadSeq
    <3> QED
      BY <3>1, <3>2 DEF Listed
  <2>3. PICK u \in Globals("PROTON", g.param) :
          /\ Leaves(g, u)
          /\ Accepted(f) => Leaves(ModeRx(u, f), g')
          /\ ~Accepted(f) => Leaves(g, g') /\ ~g'.controls
    BY <1>1, <1>4, <2>2, FrameHeard
  <2>4. Debounced(u, acc)
    BY <2>1, <2>3, LeavesDebounced
  <2> DEFINE c == IF f.addr = "P_ACC_CMD" THEN AfterAcc(acc, f.what = "engaged")
                  ELSE [acc EXCEPT !.button = @ \/ f.addr = "P_BUTTONS"]
             d == [acc EXCEPT !.button = @ \/ f.addr = "P_BUTTONS"]
  <2>5. Debounced(ModeRx(u, f), c) /\ c \in AccType
    BY <2>1, <2>4, HookDebounced
  <2>6. d \in AccType /\ d.seen = acc.seen /\ d.off = acc.off /\ (acc.button => d.button)
    BY <2>1 DEF AccType
  <2>7. acc' = IF f.addr = "P_ACC_CMD" /\ Accepted(f) THEN c ELSE d
    BY <1>4 DEF Heard, AfterAcc
  <2>8. Debounced(g', acc') /\ acc' \in AccType
    <3>1. CASE Accepted(f)
      <4>1. acc' = c
        BY <2>7, <3>1
      <4> HIDE DEF c
      <4> QED
        BY <2>3, <2>5, <3>1, <4>1, LeavesDebounced
    <3>2. CASE ~Accepted(f)
      <4>1. acc' = d
        BY <2>7, <3>2
      <4> HIDE DEF d
      <4> QED
        BY <2>1, <2>3, <2>6, <3>2, <4>1, LeavesDebounced
    <3> QED
      BY <3>1, <3>2
  <2> QED
    BY <1>2, <1>4, <2>1, <2>8 DEF DebounceInv
<1> QED
  BY <1>3, <1>4

LEMMA DebounceStep == TypeOK /\ DebounceInv /\ [MCNext]_vars => DebounceInv'
<1> SUFFICES ASSUME TypeOK, DebounceInv, [MCNext]_vars PROVE DebounceInv'
  OBVIOUS
<1>1. g \in Globals(g.mode, g.param)
  BY DEF TypeOK
<1>2. ASSUME g' \in Globals(g.mode, g.param), Leaves(g, g'), UNCHANGED <<acc, car>>
      PROVE  DebounceInv'
  <2>1. g'.mode = g.mode
    BY <1>1, <1>2, Fields
  <2> QED
    BY <1>2, <2>1, LeavesDebounced DEF DebounceInv
<1>3. ASSUME NEW f \in Traffic \cap OfCar(BydDngaTraffic, ProtonTraffic, CheryTraffic),
             CanRx(f), acc' = Heard(f), UNCHANGED car
      PROVE  DebounceInv'
  BY <1>3, RxDebounced
<1>4. ASSUME NEW f \in Commands, CanTx(f), UNCHANGED <<acc, car>> PROVE DebounceInv'
  BY <1>1, <1>2, <1>4, TxLeaves, WindowType DEF CanTx
<1>5. CASE SafetyTick /\ UNCHANGED <<acc, car>>
  <2>1. PICK late : g' = safety_tick(CountSecond(g), late)
    BY <1>5 DEF SafetyTick
  <2> QED
    BY <1>1, <1>2, <1>5, <2>1, TickLeaves, TickType
<1>6. ASSUME NEW c \in Configs \cap OfCar(BydConfigs, ProtonConfigs, CheryConfigs),
             SetSafetyHooks(c), acc' = NoAcc, UNCHANGED car
      PROVE  DebounceInv'
  <2>1. acc' \in AccType /\ acc'.seen = FALSE
    BY <1>6 DEF NoAcc, AccType, PROTON_PCM_DISENGAGE_FRAMES
  <2>2. g'.mode = c.mode
    BY <1>1, <1>6, SetHooksKeeps DEF SetSafetyHooks
  <2>3. c.mode = "PROTON" => car = "PROTON"
    BY DEF OfCar, BydConfigs, CheryConfigs, Mode
  <2>4. c.mode = "PROTON" => g'.pSaw = FALSE
    <3> SUFFICES ASSUME c.mode = "PROTON" PROVE g'.pSaw = FALSE
      OBVIOUS
    <3> DEFINE h == ForgetCar(g)
               i == InitStatics(h, "PROTON")
    <3>1. DOMAIN h = DOMAIN g
      BY <1>1 DEF ForgetCar, Globals
    <3>2. i = [h EXCEPT !.pAccBlk = 0, !.pLkaBlk = 0, !.pOff = 0, !.pSaw = FALSE]
      BY DEF InitStatics
    <3> HIDE DEF h
    <3>3. i.pSaw = FALSE /\ "pSaw" \in DOMAIN i
      BY <1>1, <3>1, <3>2 DEF Globals
    <3>4. i \in Globals(g.mode, g.param)
      BY <1>1, InitStaticsType DEF h
    <3> HIDE DEF i
    <3>5. InstallMode(g, "PROTON", c.param).pSaw = FALSE
      BY <3>3, <3>4 DEF InstallMode, i, h, Globals
    <3> QED
      BY <1>6, <3>5 DEF SetSafetyHooks, set_safety_hooks
  <2> QED
    BY <1>6, <2>1, <2>2, <2>3, <2>4 DEF DebounceInv, Debounced
<1>7. CASE UNCHANGED vars
  BY <1>7 DEF vars, DebounceInv
<1> QED
  BY <1>3, <1>4, <1>5, <1>6, <1>7 DEF MCNext

\* Proton's stock ACC is believed disengaged exactly when five valid frames in a row
\* said so, whatever else comes in between, damaged or out of sequence. Inductive with
\* DebounceInv, which ties the counter of the code to what the bus said.
THEOREM AccIsDebounced == MCSpec => []ProtonDebounce
<1>1. MCInit => TypeOK /\ DebounceInv
  <2>1. MCInit => TypeOK
    BY InitType DEF MCInit
  <2>2. MCInit => DebounceInv
    BY DEF MCInit, Init, BootGlobals, DebounceInv, NoAcc, AccType, PROTON_PCM_DISENGAGE_FRAMES
  <2> QED
    BY <2>1, <2>2
<1>2. TypeOK /\ DebounceInv /\ [MCNext]_vars => TypeOK' /\ DebounceInv'
  BY MCNextIsNext, NextType, DebounceStep
<1>3. DebounceInv => ProtonDebounce
  BY DEF DebounceInv, Debounced, ProtonDebounce
<1> QED
  BY <1>1, <1>2, <1>3, PTL DEF MCSpec
---------------------------------------------------------------------------
(* The windows in which Proton's camera waits                              *)

Window(h, a) == IF a = "P_LKAS" THEN h.pLkaBlk ELSE h.pAccBlk
Windows(h) == <<h.pLkaBlk, h.pAccBlk>>

\* What is left of a window covers the camera's frames that it still has to hold back.
StandsAside(h, n) ==
  h.mode = "PROTON" => \A a \in Shared : PROTON_ACC_TX_BLOCK_MAX - n[a] <= Window(h, a)

WindowInv == since \in [Shared -> 0..PROTON_ACC_TX_BLOCK_MAX] /\ StandsAside(g, since)

LEMMA PcmWindows ==
  ASSUME NEW m, NEW p, NEW h \in Globals(m, p), NEW e, NEW f
  PROVE  Windows(pcm_cruise_check(h, e)) = Windows(h) /\ Windows(Buttons(h, f)) = Windows(h)
  BY DEF pcm_cruise_check, Buttons, Windows, Globals

\* Proton's rx hook leaves the windows alone.
LEMMA HookWindows ==
  ASSUME NEW p, NEW h \in Globals("PROTON", p), NEW f
  PROVE  Windows(ModeRx(h, f)) = Windows(h)
<1> DEFINE gas == IF f.addr = "P_GAS" /\ f.bus = 0 THEN Bool(f, "gas") ELSE h.gas
           x   == [h EXCEPT !.moving = TRUE, !.gas = gas]
           e   == Bool(f, "engaged")
<1>1. gas \in BOOLEAN
  <2>1. h.gas \in BOOLEAN
    BY DEF Globals
  <2> QED
    BY <2>1, Zenon DEF Bool
<1> HIDE DEF gas
<1>2. x \in Globals("PROTON", p) /\ Windows(x) = Windows(h)
  BY <1>1 DEF Globals, Windows
<1> HIDE DEF x
<1>3. Windows(ProtonAcc(x, e)) = Windows(x)
  <2> DEFINE y   == [x EXCEPT !.pSaw = x.pSaw \/ e, !.pOff = ProtonOff(x, e)]
             eff == e \/ ((x.pSaw \/ e) /\ ProtonOff(x, e) < PROTON_PCM_DISENGAGE_FRAMES)
  <2>1. e \in BOOLEAN /\ x.pSaw \in BOOLEAN
    BY <1>2 DEF Bool, Globals
  <2>2. (x.pSaw \/ e) \in BOOLEAN /\ ProtonOff(x, e) \in 0..PROTON_PCM_DISENGAGE_FRAMES
    BY <1>2 DEF ProtonOff, Globals, PROTON_PCM_DISENGAGE_FRAMES
  <2>3. y \in Globals("PROTON", p) /\ Windows(y) = Windows(x)
    <3> DEFINE saw == x.pSaw \/ e
               off == ProtonOff(x, e)
    <3> HIDE DEF saw, off, e
    <3>1. saw \in BOOLEAN /\ off \in 0..PROTON_PCM_DISENGAGE_FRAMES
      BY <2>2 DEF saw, off
    <3>2. LET z == [x EXCEPT !.pSaw = saw, !.pOff = off]
          IN  z \in Globals("PROTON", p) /\ Windows(z) = Windows(x)
      BY <1>2, <3>1 DEF Globals, Windows
    <3> QED
      BY <3>2 DEF saw, off
  <2> HIDE DEF y, eff
  <2>4. ProtonAcc(x, e) = pcm_cruise_check(y, eff)
    BY Zenon DEF ProtonAcc, y, eff
  <2> QED
    BY <2>3, <2>4, PcmWindows
<1>4. Windows(Buttons(x, f)) = Windows(x)
  BY <1>2, PcmWindows
<1>5. ModeRx(h, f) = proton_rx_hook(h, f)
  BY Fields DEF ModeRx
<1>6. ModeRx(h, f) \in {Buttons(x, f), ProtonAcc(x, e), x}
  BY <1>5, Zenon DEF proton_rx_hook, x, gas
<1> QED
  BY <1>2, <1>3, <1>4, <1>6

\* Neither do the checks around it.
LEMMA RxWindows ==
  ASSUME NEW p, NEW h \in Globals("PROTON", p), NEW f \in Frame
  PROVE  Windows(safety_rx_hook(h, f)) = Windows(h)
<1> DEFINE u == rx_msg_safety_check(h, f)
           x == CheckedModeRx(h, f)
           y == generic_rx_checks(x)
           z == stock_ecu_check(y, f)
<1>1. /\ u \in Globals("PROTON", p) /\ x \in Globals("PROTON", p)
      /\ y \in Globals("PROTON", p) /\ z \in Globals("PROTON", p)
  BY RxMsgType, CheckedType, GenericType, StockType
<1>2. PICK n \in 0..MISM_LIMIT : safety_rx_hook(h, f) = [z EXCEPT !.mism = n]
  BY RxShape
<1>3. Windows(u) = Windows(h)
  BY DEF rx_msg_safety_check, Globals, Windows
<1>4. x \in {ModeRx(u, f), u}
  BY DEF CheckedModeRx
<1> HIDE DEF u
<1>5. Windows(x) = Windows(u)
  BY <1>1, <1>4, HookWindows
<1> HIDE DEF x
<1>6. Windows(y) = Windows(x)
  BY <1>1 DEF generic_rx_checks, Globals, Windows
<1> HIDE DEF y
<1>7. Windows(z) = Windows(y)
  BY <1>1 DEF stock_ecu_check, Globals, Windows
<1> HIDE DEF z
<1>8. Windows([z EXCEPT !.mism = n]) = Windows(z)
  BY <1>1 DEF Globals, Windows
<1> QED
  BY <1>2, <1>3, <1>5, <1>6, <1>7, <1>8

\* A frame of the camera shortens the window of its own address, by one at most.
LEMMA FwdWindow ==
  ASSUME NEW p, NEW h \in Globals("PROTON", p), NEW f, NEW a \in Shared
  PROVE  LET s == safety_fwd_hook(h, f)
         IN  /\ Window(h, a) - 1 <= Window(s, a)
             /\ ~(f.addr = a /\ f.bus = 2) => Window(s, a) = Window(h, a)
<1>1. h.pLkaBlk \in 0..PROTON_ACC_TX_BLOCK_MAX /\ h.pAccBlk \in 0..PROTON_ACC_TX_BLOCK_MAX
  BY DEF Globals
<1>2. a \in {"P_LKAS", "P_ACC_CMD"}
  BY DEF Shared
<1>3. LET s == ProtonFwdEffect(h, f.bus, f.addr)
      IN  /\ s.pLkaBlk = IF f.bus = 2 /\ f.addr = "P_LKAS" THEN Down(h.pLkaBlk) ELSE h.pLkaBlk
          /\ s.pAccBlk = IF f.bus = 2 /\ f.addr = "P_ACC_CMD" THEN Down(h.pAccBlk) ELSE h.pAccBlk
  BY DEF ProtonFwdEffect, Globals
<1>4. safety_fwd_hook(h, f) \in {ProtonFwdEffect(h, f.bus, f.addr), h}
  BY DEF safety_fwd_hook
<1>5. ASSUME NEW n \in 0..PROTON_ACC_TX_BLOCK_MAX PROVE n - 1 <= Down(n) /\ n - 1 <= n
  BY DEF Down, PROTON_ACC_TX_BLOCK_MAX
<1> QED
  BY <1>1, <1>2, <1>3, <1>4, <1>5 DEF Window

\* An accepted command opens the window of its address; no command shortens one.
LEMMA TxWindow ==
  ASSUME NEW p, NEW h \in Globals("PROTON", p), NEW f, NEW a \in Shared
  PROVE  LET s == safety_tx_hook(h, f)
         IN  /\ Window(h, a) <= Window(s, a)
             /\ f.addr = a /\ TxAllowed(h, f) => Window(s, a) = PROTON_ACC_TX_BLOCK_MAX
<1>1. h.pLkaBlk \in 0..PROTON_ACC_TX_BLOCK_MAX /\ h.pAccBlk \in 0..PROTON_ACC_TX_BLOCK_MAX
  BY DEF Globals
<1>2. a \in {"P_LKAS", "P_ACC_CMD"}
  BY DEF Shared
<1>3. LET s == ProtonTxEffect(h, f)
      IN  /\ s.pLkaBlk = IF f.addr = "P_LKAS" THEN PROTON_ACC_TX_BLOCK_MAX ELSE h.pLkaBlk
          /\ s.pAccBlk = IF f.addr = "P_ACC_CMD" THEN PROTON_ACC_TX_BLOCK_MAX ELSE h.pAccBlk
  BY DEF ProtonTxEffect, Globals
<1>4. /\ safety_tx_hook(h, f) \in {ProtonTxEffect(h, f), h}
      /\ TxAllowed(h, f) => safety_tx_hook(h, f) = ProtonTxEffect(h, f)
  BY Fields DEF safety_tx_hook, TxAllowed
<1> QED
  BY <1>1, <1>2, <1>3, <1>4 DEF Window, PROTON_ACC_TX_BLOCK_MAX

LEMMA WindowIsNat ==
  ASSUME NEW m, NEW p, NEW h \in Globals(m, p), NEW a
  PROVE  Window(h, a) \in 0..PROTON_ACC_TX_BLOCK_MAX
  BY DEF Window, Globals

LEMMA WindowStep == TypeOK /\ WindowInv /\ [MCNext]_vars => WindowInv'
<1> SUFFICES ASSUME TypeOK, WindowInv, [MCNext]_vars PROVE WindowInv'
  OBVIOUS
<1> DEFINE Max == PROTON_ACC_TX_BLOCK_MAX
<1>1. g \in Globals(g.mode, g.param) /\ g' \in Globals(g'.mode, g'.param)
  BY MCNextIsNext, NextType DEF TypeOK
<1>2. Max = 3
  BY DEF PROTON_ACC_TX_BLOCK_MAX
<1>3. ASSUME NEW a \in Shared
      PROVE  since[a] \in 0..Max /\ Window(g, a) \in 0..Max /\ Window(g', a) \in 0..Max
  BY <1>1, <1>3, WindowIsNat DEF WindowInv
<1>4. ASSUME g.mode = "PROTON", NEW a \in Shared PROVE Max - since[a] <= Window(g, a)
  BY <1>4 DEF WindowInv, StandsAside
<1>5. ASSUME NEW f \in Traffic, CanRx(f), since' = FromCamera(f) PROVE WindowInv'
  <2> DEFINE h == safety_fwd_hook(g, f)
  <2>1. f \in Frame /\ h \in Globals(g.mode, g.param)
    BY <1>1, SafetyConstants, WindowType
  <2>2. g' \in Globals(g.mode, g.param)
    BY <1>5, <2>1, RxType DEF CanRx
  <2>3. g'.mode = g.mode
    BY <1>1, <2>2, Fields
  <2>4. since' \in [Shared -> 0..Max]
    BY <1>2, <1>3, <1>5 DEF FromCamera
  <2>5. ASSUME g.mode = "PROTON", NEW a \in Shared
        PROVE  Max - since'[a] <= Window(g', a)
    <3>1. Windows(g') = Windows(h)
      BY <1>5, <2>1, <2>5, RxWindows DEF CanRx
    <3>2. Window(g', a) = Window(h, a)
      BY <3>1 DEF Windows, Window
    <3>3. /\ Window(g, a) - 1 <= Window(h, a)
          /\ ~(f.addr = a /\ f.bus = 2) => Window(h, a) = Window(g, a)
      BY <1>1, <2>5, FwdWindow
    <3> HIDE DEF h
    <3>4. since'[a] = IF f.addr = a /\ f.bus = 2 /\ since[a] < Max THEN since[a] + 1 ELSE since[a]
      BY <1>5, <2>5 DEF FromCamera
    <3> QED
      BY <1>2, <1>3, <1>4, <2>5, <3>2, <3>3, <3>4
  <2> QED
    BY <2>3, <2>4, <2>5 DEF WindowInv, StandsAside
<1>6. ASSUME NEW f, CanTx(f), since' = FromHost(f) PROVE WindowInv'
  <2>1. g' \in Globals(g.mode, g.param)
    BY <1>1, <1>6, WindowType DEF CanTx
  <2>2. g'.mode = g.mode
    BY <1>1, <2>1, Fields
  <2>3. since' \in [Shared -> 0..Max]
    BY <1>2, <1>3, <1>6 DEF FromHost
  <2>4. ASSUME g.mode = "PROTON", NEW a \in Shared
        PROVE  Max - since'[a] <= Window(g', a)
    <3>1. /\ Window(g, a) <= Window(g', a)
          /\ f.addr = a /\ TxAllowed(g, f) => Window(g', a) = Max
      BY <1>1, <1>6, <2>4, TxWindow DEF CanTx
    <3>2. since'[a] = IF f.addr = a /\ TxAllowed(g, f) THEN 0 ELSE since[a]
      BY <1>6, <2>4 DEF FromHost
    <3> QED
      BY <1>2, <1>3, <1>4, <2>4, <3>1, <3>2
  <2> QED
    BY <2>2, <2>3, <2>4 DEF WindowInv, StandsAside
<1>7. CASE SafetyTick /\ since' = since
  <2>1. PICK late : g' = safety_tick(CountSecond(g), late)
    BY <1>7 DEF SafetyTick
  <2>2. Windows(g') = Windows(g) /\ g'.mode = g.mode
    <3> DEFINE h == CountSecond(g)
    <3>1. h \in Globals(g.mode, g.param) /\ Windows(h) = Windows(g) /\ h.mode = g.mode
      BY <1>1 DEF CountSecond, Globals, CNT_CAP, Windows
    <3> HIDE DEF h
    <3>2. /\ Windows(safety_tick(h, late)) = Windows(h)
          /\ safety_tick(h, late).mode = h.mode
      BY <3>1 DEF safety_tick, OneSecondOlder, Globals, Windows
    <3> QED
      BY <2>1, <3>1, <3>2 DEF h
  <2> QED
    BY <1>7, <2>2 DEF WindowInv, StandsAside, Window, Windows
<1>8. CASE since' = LongAgo
  BY <1>2, <1>3, <1>8 DEF LongAgo, WindowInv, StandsAside
<1>9. CASE UNCHANGED vars
  BY <1>9 DEF vars, WindowInv
<1> QED
  BY <1>5, <1>6, <1>7, <1>8, <1>9 DEF MCNext

\* An exclusive command has one source in every state, and after a command of Proton's
\* host the next three frames of the camera with that address are held back, whatever
\* comes in between. Inductive with WindowInv, which ties the windows of the code to
\* the camera's frames that went by.
THEOREM NoTwoSources == MCSpec => []OneSource
<1>1. MCInit => TypeOK /\ WindowInv
  <2>1. MCInit => TypeOK
    BY InitType DEF MCInit
  <2>2. MCInit => WindowInv
    BY DEF MCInit, Init, BootGlobals, WindowInv, StandsAside, LongAgo, PROTON_ACC_TX_BLOCK_MAX
  <2> QED
    BY <2>1, <2>2
<1>2. TypeOK /\ WindowInv /\ [MCNext]_vars => TypeOK' /\ WindowInv'
  BY MCNextIsNext, NextType, WindowStep
<1>3. TypeOK /\ WindowInv => OneSource
  <2> SUFFICES ASSUME TypeOK, WindowInv PROVE OneSource
    OBVIOUS
  <2>1. ASSUME g.mode = "PROTON", NEW a \in Shared, since[a] < PROTON_ACC_TX_BLOCK_MAX
        PROVE  ~Forwards(g, Fr(a, 2, "active"))
    <3>1. Window(g, a) > 0
      <4>1. PROTON_ACC_TX_BLOCK_MAX - since[a] <= Window(g, a)
        BY <2>1 DEF WindowInv, StandsAside
      <4>2. since[a] \in Nat /\ Window(g, a) \in Nat /\ PROTON_ACC_TX_BLOCK_MAX = 3
        BY WindowIsNat DEF WindowInv, TypeOK, PROTON_ACC_TX_BLOCK_MAX
      <4> QED
        BY <2>1, <4>1, <4>2
    <3>2. proton_fwd_hook(g, 2, a)
      BY <3>1 DEF Window, Shared, proton_fwd_hook
    <3>3. Fr(a, 2, "active").addr = a /\ Fr(a, 2, "active").bus = 2
      BY DEF Fr
    <3>4. ModeFwdBlocks(g, Fr(a, 2, "active"))
      BY <2>1, <3>2, <3>3 DEF ModeFwdBlocks
    <3> QED
      BY <3>4 DEF Forwards
  <2> QED
    BY <2>1, ExclusivesKept DEF OneSource
<1> QED
  BY <1>1, <1>2, <1>3, PTL DEF MCSpec
=============================================================================
