--------------------------- MODULE PandaBoard_proofs ---------------------------
(***************************************************************************)
(* What PandaBoard promises for every set of modes, frames and harness     *)
(* states: the relay follows the mode (BInv), the board implements         *)
(* PandaPromise step by step (PromiseIsKept), controls that nobody uses    *)
(* end (IdleInv), and a lost host is heard (AlarmInv). A board s is a      *)
(* pair [g, b]; Boards(m, p) are the well typed ones in mode m with        *)
(* parameter p, and Follows says of one what RelayFollowsMode says.        *)
(***************************************************************************)
EXTENDS MCPandaBoard, SafetyHooks_proofs

Boards(m, p) == [g : Globals(m, p), b : BoardType]

Follows(s) ==
  /\ ~s.b.byHost => /\ s.b.relay = (DrivesRelay(s.g.mode) /\ s.b.harness # "NC")
                    /\ s.b.driven = s.b.relay
  /\ s.b.relay => s.b.driven /\ s.b.harness # "NC"
  /\ s.b.canSilent = (s.g.mode = "SILENT")

---------------------------------------------------------------------------
(* The mode switch establishes Follows, whatever the board was like.       *)

LEMMA SetRelayType ==
  ASSUME NEW c \in BoardType, NEW on \in BOOLEAN, NEW ign \in BOOLEAN
  PROVE  LET d == SetRelay(c, on, ign)
         IN  /\ d \in BoardType
             /\ d.relay = (on /\ c.harness # "NC") /\ d.driven = (d.relay \/ ign)
             /\ d.canSilent = c.canSilent /\ d.harness = c.harness
             /\ d.hbEngaged = c.hbEngaged /\ d.hbDisabled = c.hbDisabled
             /\ d.hbCounter = c.hbCounter /\ d.hbLost = c.hbLost
             /\ d.countdown = c.countdown /\ d.siren = c.siren
<1> DEFINE r == on /\ c.harness # "NC"
           n == r \/ ign
<1>1. r \in BOOLEAN /\ n \in BOOLEAN
  BY Zenon
<1>2. SetRelay(c, on, ign) = [c EXCEPT !.relay = r, !.driven = n]
  BY Zenon DEF SetRelay
<1>3. n = (r \/ ign)
  OBVIOUS
<1> HIDE DEF r, n
<1>4. LET d == [c EXCEPT !.relay = r, !.driven = n]
      IN  /\ d \in BoardType /\ d.relay = r /\ d.driven = n
          /\ d.canSilent = c.canSilent /\ d.harness = c.harness
          /\ d.hbEngaged = c.hbEngaged /\ d.hbDisabled = c.hbDisabled
          /\ d.hbCounter = c.hbCounter /\ d.hbLost = c.hbLost
          /\ d.countdown = c.countdown /\ d.siren = c.siren
  BY <1>1 DEF BoardType
<1> QED
  BY <1>2, <1>3, <1>4 DEF r

LEMMA SetModeFollows ==
  ASSUME NEW k, NEW q, NEW s \in Boards(k, q), NEW m, NEW p
  PROVE  set_safety_mode(s, m, p) \in Boards(m, p) /\ Follows(set_safety_mode(s, m, p))
<1> DEFINE on == DrivesRelay(m)
           silent == m = "SILENT"
           r == SetRelay(s.b, on, FALSE)
           c == [r EXCEPT !.canSilent = silent, !.byHost = FALSE]
           d == IF m \in {"SILENT", "NOOUTPUT"} THEN c
                ELSE [c EXCEPT !.hbCounter = 0, !.hbLost = FALSE]
           t == set_safety_mode(s, m, p)
<1>1. on \in BOOLEAN /\ silent \in BOOLEAN
  BY DEF DrivesRelay
<1>2. s.g \in Globals(k, q) /\ s.b \in BoardType
  BY DEF Boards
<1>3. t = [g |-> set_safety_hooks(s.g, m, p), b |-> d]
  BY Zenon DEF set_safety_mode
<1> HIDE DEF t, on, silent
<1>4. /\ c \in BoardType /\ c.canSilent = silent /\ c.byHost = FALSE
      /\ c.relay = (on /\ s.b.harness # "NC") /\ c.harness = s.b.harness
      /\ c.driven = c.relay
  <2>1. /\ r \in BoardType /\ r.relay = (on /\ s.b.harness # "NC")
        /\ r.driven = (r.relay \/ FALSE) /\ r.harness = s.b.harness
    BY <1>1, <1>2, SetRelayType
  <2> HIDE DEF r
  <2>2. r.driven = r.relay
    BY <2>1 DEF BoardType
  <2> QED
    BY <1>1, <2>1, <2>2 DEF BoardType
<1> HIDE DEF c
<1>5. /\ d \in BoardType /\ d.canSilent = c.canSilent /\ d.byHost = c.byHost
      /\ d.relay = c.relay /\ d.driven = c.driven /\ d.harness = c.harness
  <2>1. 0 \in 0..HB_CAP
    BY DEF HB_CAP, HEARTBEAT_IGNITION_CNT_ON
  <2>2. LET e == [c EXCEPT !.hbCounter = 0, !.hbLost = FALSE]
        IN  /\ e \in BoardType /\ e.canSilent = c.canSilent /\ e.byHost = c.byHost
            /\ e.relay = c.relay /\ e.driven = c.driven /\ e.harness = c.harness
    BY <1>4, <2>1 DEF BoardType
  <2> QED
    BY <1>4, <2>2
<1> HIDE DEF d
<1>6. set_safety_hooks(s.g, m, p) \in Globals(m, p)
  BY <1>2, SetHooksType
<1>7. t \in Boards(m, p) /\ t.g.mode = m
  BY <1>3, <1>5, <1>6, Fields DEF Boards
<1>8. t.b = d
  BY <1>3
<1> QED
  BY <1>4, <1>5, <1>7, <1>8 DEF Follows, t, on, silent

---------------------------------------------------------------------------
(* The parts of the tick handler. Same(s, t): t differs from s in fields   *)
(* that Follows does not mention.                                          *)

Same(s, t) == /\ t.b.relay = s.b.relay /\ t.b.driven = s.b.driven
              /\ t.b.byHost = s.b.byHost /\ t.b.canSilent = s.b.canSilent
              /\ t.b.harness = s.b.harness /\ t.g.mode = s.g.mode

LEMMA SameFollows ==
  ASSUME NEW s, NEW t, Follows(s), Same(s, t)
  PROVE  Follows(t)
  BY DEF Follows, Same

LEMMA HarnessTickFollows ==
  ASSUME NEW m, NEW p, NEW s \in Boards(m, p), Follows(s), NEW h \in HarnessStates
  PROVE  HarnessTick(s, h) \in Boards(m, p) /\ Follows(HarnessTick(s, h))
<1> DEFINE s1 == [s EXCEPT !.b.harness = h]
<1>1. s1 \in Boards(m, p)
  BY DEF Boards, BoardType
<1>2. s.g.mode = m /\ s.g.param = p
  BY Fields DEF Boards
<1> HIDE DEF s1
<1>3. /\ set_safety_mode(s1, m, p) \in Boards(m, p)
      /\ Follows(set_safety_mode(s1, m, p))
  BY <1>1, SetModeFollows
<1> QED
  BY <1>2, <1>3 DEF HarnessTick, s1

LEMMA CountFollows ==
  ASSUME NEW m, NEW p, NEW s \in Boards(m, p)
  PROVE  CountHeartbeat(s) \in Boards(m, p) /\ Same(s, CountHeartbeat(s))
<1> DEFINE n   == IF s.b.hbCounter < HB_CAP THEN s.b.hbCounter + 1 ELSE s.b.hbCounter
           dis == s.b.hbDisabled /\ ~is_car_safety_mode(s.g.mode)
           sir == Down(s.b.siren)
           cd  == IF s.g.controls \/ s.b.hbEngaged THEN CONTROLS_COUNTDOWN
                  ELSE Down(s.b.countdown)
<1>1. s.b \in BoardType
  BY DEF Boards
<1>2. n \in 0..HB_CAP
  BY <1>1 DEF BoardType, HB_CAP, HEARTBEAT_IGNITION_CNT_ON
<1>3. dis \in BOOLEAN
  BY Zenon
<1>4. sir \in 0..SIREN_SECONDS /\ cd \in 0..CONTROLS_COUNTDOWN
  BY <1>1 DEF BoardType, Down, SIREN_SECONDS, CONTROLS_COUNTDOWN
<1> HIDE DEF n, dis, sir, cd
<1>5. LET t == [s EXCEPT !.b.hbCounter = n, !.b.hbDisabled = dis,
                         !.b.siren = sir, !.b.countdown = cd]
      IN  t \in Boards(m, p) /\ Same(s, t)
  BY <1>2, <1>3, <1>4 DEF Boards, BoardType, Same
<1> QED
  BY <1>5, Zenon DEF CountHeartbeat, StillDisabled, n, dis, sir, cd

LEMMA ExpireFollows ==
  ASSUME NEW m, NEW p, NEW s \in Boards(m, p)
  PROVE  ExpireControls(s) \in Boards(m, p) /\ Same(s, ExpireControls(s))
<1> DEFINE n  == IF s.g.mism < MISM_LIMIT THEN s.g.mism + 1 ELSE s.g.mism
           on == s.g.mism + 1 < MISM_LIMIT
<1>1. s.g \in Globals(m, p)
  BY DEF Boards
<1>2. n \in 0..MISM_LIMIT /\ 0 \in 0..MISM_LIMIT
  BY <1>1 DEF Globals, MISM_LIMIT
<1>3. on \in BOOLEAN
  BY <1>1 DEF Globals, MISM_LIMIT
<1> HIDE DEF n, on
<1>4. LET t == [s EXCEPT !.g.mism = n, !.g.controls = on]
      IN  t \in Boards(m, p) /\ Same(s, t)
  <2>1. LET h == [s.g EXCEPT !.mism = n, !.controls = on]
        IN  h \in Globals(m, p) /\ h.mode = s.g.mode
    BY <1>1, <1>2, <1>3 DEF Globals
  <2> QED
    BY <2>1 DEF Boards, Same
<1>5. LET t == [s EXCEPT !.g.mism = 0]
      IN  t \in Boards(m, p) /\ Same(s, t)
  <2>1. LET h == [s.g EXCEPT !.mism = 0]
        IN  h \in Globals(m, p) /\ h.mode = s.g.mode
    BY <1>1, <1>2 DEF Globals
  <2> QED
    BY <2>1 DEF Boards, Same
<1> QED
  BY <1>4, <1>5 DEF ExpireControls, n, on

\* Losing the heartbeat ends in SILENT, and without a mode switch only if the
\* mode is SILENT already.
LEMMA LoseFollows ==
  ASSUME NEW m, NEW p, NEW s \in Boards(m, p), Follows(s)
  PROVE  /\ LoseHeartbeat(s) \in Boards(m, p) \cup Boards("SILENT", {})
         /\ Follows(LoseHeartbeat(s))
<1> DEFINE sir  == IF s.b.countdown > 0 THEN SIREN_SECONDS ELSE s.b.siren
           s1   == [s EXCEPT !.b.siren = sir, !.b.countdown = 0]
           lost == s1.b.hbLost \/ is_car_safety_mode(s.g.mode)
           t    == [s1 EXCEPT !.b.hbLost = lost, !.b.hbEngaged = FALSE]
<1>1. s.b \in BoardType
  BY DEF Boards
<1>2. sir \in 0..SIREN_SECONDS /\ 0 \in 0..CONTROLS_COUNTDOWN
  BY <1>1 DEF BoardType, SIREN_SECONDS, CONTROLS_COUNTDOWN
<1>3. lost \in BOOLEAN
  BY Zenon
<1> HIDE DEF sir, lost
<1>4. t \in Boards(m, p) /\ Same(s, t)
  <2>1. s1 \in Boards(m, p) /\ Same(s, s1)
    BY <1>2 DEF Boards, BoardType, Same
  <2> HIDE DEF s1
  <2> QED
    BY <1>3, <2>1 DEF Boards, BoardType, Same
<1> HIDE DEF t
<1>5. set_safety_mode(t, "SILENT", {}) \in Boards("SILENT", {})
      /\ Follows(set_safety_mode(t, "SILENT", {}))
  BY <1>4, SetModeFollows
<1>6. LoseHeartbeat(s) = IF t.g.mode = "SILENT" THEN t ELSE set_safety_mode(t, "SILENT", {})
  BY Zenon DEF LoseHeartbeat, Alarm, t, sir, lost
<1> QED
  BY <1>4, <1>5, <1>6, SameFollows

LEMMA OneHertzFollows ==
  ASSUME NEW m, NEW p, NEW s \in Boards(m, p), Follows(s), NEW line, NEW can, NEW late
  PROVE  /\ OneHertz(s, line, can, late) \in Boards(m, p) \cup Boards("SILENT", {})
         /\ Follows(OneHertz(s, line, can, late))
<1> DEFINE s1 == ExpireControls(CountHeartbeat(s))
           s2 == IF HeartbeatGone(s1.b, Started(s, line, can)) THEN LoseHeartbeat(s1) ELSE s1
           h  == safety_tick(CountSecond(s2.g), late)
<1>1. s1 \in Boards(m, p) /\ Follows(s1)
  BY CountFollows, ExpireFollows, SameFollows
<1> HIDE DEF s1
<1>2. s2 \in Boards(m, p) \cup Boards("SILENT", {}) /\ Follows(s2)
  BY <1>1, LoseFollows
<1> HIDE DEF s2
<1>3. PICK k, q : <<k, q>> \in {<<m, p>>, <<"SILENT", {}>>} /\ s2 \in Boards(k, q)
  BY <1>2
<1>4. h \in Globals(k, q) /\ h.mode = s2.g.mode
  BY <1>3, TickType, Fields DEF Boards
<1> HIDE DEF h
<1>5. LET t == [s2 EXCEPT !.g = h]
      IN  t \in Boards(k, q) /\ Same(s2, t)
  BY <1>3, <1>4 DEF Boards, Same
<1>6. OneHertz(s, line, can, late) = [s2 EXCEPT !.g = h]
  BY Zenon DEF OneHertz, s1, s2, h
<1> QED
  BY <1>2, <1>3, <1>5, <1>6, SameFollows

---------------------------------------------------------------------------
(* The invariant                                                           *)

BInv == BTypeOK /\ RelayFollowsMode

LEMMA BInvIsBoard ==
  ASSUME BTypeOK, RelayFollowsMode
  PROVE  Board \in Boards(g.mode, g.param) /\ Follows(Board)
  BY DEF BTypeOK, TypeOK, RelayFollowsMode, Board, Boards, Follows

\* A handler that leaves a good board leaves the invariant.
LEMMA BoardIsBInv ==
  ASSUME NEW m, NEW p, NEW s \in Boards(m, p), Follows(s),
         [mode |-> m, param |-> p] \in Config, Becomes(s), hostUp' \in BOOLEAN
  PROVE  BTypeOK' /\ RelayFollowsMode'
<1>1. g' \in Globals(m, p) /\ b' \in BoardType
  BY DEF Boards, Becomes
<1>2. g'.mode = m /\ g'.param = p
  BY <1>1, Fields
<1> QED
  BY <1>1, <1>2 DEF BTypeOK, TypeOK, RelayFollowsMode, Follows, Becomes

LEMMA BootBoardType == BootBoard \in BoardType
  BY HarnessConstants DEF BootBoard, BoardType, HB_CAP, HEARTBEAT_IGNITION_CNT_ON,
     SIREN_SECONDS, CONTROLS_COUNTDOWN

LEMMA BootFollows ==
  LET s == [g |-> BootGlobals, b |-> BootBoard]
  IN  s \in Boards("SILENT", {}) /\ Follows(s)
<1>1. BootGlobals.mode = "SILENT"
  BY DEF BootGlobals
<1> QED
  BY <1>1, BootType, BootBoardType DEF Boards, Follows, BootBoard, DrivesRelay

LEMMA BNextInv == BInv /\ [BNext]_vars => BInv'
<1> SUFFICES ASSUME BTypeOK, RelayFollowsMode, [BNext]_vars
             PROVE  BTypeOK' /\ RelayFollowsMode'
  BY DEF BInv
<1> USE SafetyConstants
<1>1. /\ Board \in Boards(g.mode, g.param) /\ Follows(Board)
      /\ [mode |-> g.mode, param |-> g.param] \in Config
      /\ g \in Globals(g.mode, g.param) /\ b \in BoardType /\ hostUp \in BOOLEAN
  BY BInvIsBoard DEF BTypeOK, TypeOK
<1>2. CASE Tick8Hz
  BY <1>1, <1>2, HarnessTickFollows, BoardIsBInv DEF Tick8Hz
<1>3. CASE Tick1Hz
  <2>1. PICK h \in HarnessStates, line \in BOOLEAN, can \in BOOLEAN,
             late \in SUBSET {c \in DOMAIN g.rx : HalfSecondLag(c)} :
          Becomes(OneHertz(HarnessTick(Board, h), line, can, late)) /\ UNCHANGED hostUp
    BY <1>3 DEF Tick1Hz
  <2> DEFINE s == OneHertz(HarnessTick(Board, h), line, can, late)
  <2>2. s \in Boards(g.mode, g.param) \cup Boards("SILENT", {}) /\ Follows(s)
    BY <1>1, HarnessTickFollows, OneHertzFollows
  <2> HIDE DEF s
  <2> QED
    BY <1>1, <2>1, <2>2, BootType, BoardIsBInv DEF s
<1>4. CASE Reset
  <2> DEFINE s == [g |-> BootGlobals, b |-> BootBoard]
  <2>1. s \in Boards("SILENT", {}) /\ Follows(s)
    BY BootFollows
  <2>2. Becomes(s) /\ UNCHANGED hostUp
    BY <1>4 DEF Reset, Becomes
  <2> HIDE DEF s
  <2> QED
    BY <1>1, <2>1, <2>2, BootType, BoardIsBInv
<1>5. CASE RequestUnknown
  <2>1. /\ set_safety_mode(Board, "SILENT", {}) \in Boards("SILENT", {})
        /\ Follows(set_safety_mode(Board, "SILENT", {}))
    BY <1>1, SetModeFollows
  <2> QED
    BY <1>1, <1>5, <2>1, BootType, BoardIsBInv DEF RequestUnknown, FromHost
<1>6. ASSUME NEW c \in Configs, RequestMode(c) PROVE BTypeOK' /\ RelayFollowsMode'
  <2>1. [mode |-> c.mode, param |-> c.param] \in Config
    BY DEF Config
  <2> QED
    BY <1>1, <1>6, <2>1, SetModeFollows, BoardIsBInv DEF RequestMode, FromHost
<1>10. ASSUME NEW i \in BOOLEAN, NEW r \in BOOLEAN, DriveRelay(i, r)
       PROVE  BTypeOK' /\ RelayFollowsMode'
  <2> DEFINE d == SetRelay(b, i, r)
  <2>1. /\ d \in BoardType /\ d.relay = (i /\ b.harness # "NC") /\ d.driven = (d.relay \/ r)
        /\ d.canSilent = b.canSilent /\ d.harness = b.harness
    <3>1. b \in BoardType
      BY <1>1
    <3>2. d \in BoardType /\ d.canSilent = b.canSilent /\ d.harness = b.harness
      BY <3>1, SetRelayType
    <3>3. d.relay = (i /\ b.harness # "NC")
      BY <3>1, SetRelayType
    <3>4. d.driven = (d.relay \/ r)
      BY <3>1, SetRelayType
    <3> QED
      BY <3>2, <3>3, <3>4, Zenon
  <2>2. b' = [d EXCEPT !.byHost = TRUE] /\ UNCHANGED g /\ hostUp' = hostUp
    BY <1>10 DEF DriveRelay, FromHost
  <2> HIDE DEF d
  <2>3. /\ b' \in BoardType /\ b'.byHost = TRUE /\ b'.relay = d.relay /\ b'.driven = d.driven
        /\ b'.canSilent = d.canSilent /\ b'.harness = d.harness
    BY <2>1, <2>2 DEF BoardType
  <2> QED
    BY <1>1, <2>1, <2>2, <2>3 DEF BTypeOK, TypeOK, RelayFollowsMode
\* The remaining steps change neither the mode nor the relay.
<1>7. ASSUME g' \in Globals(g.mode, g.param), b' \in BoardType, hostUp' \in BOOLEAN,
             b'.relay = b.relay, b'.driven = b.driven, b'.byHost = b.byHost,
             b'.canSilent = b.canSilent, b'.harness = b.harness
      PROVE  BTypeOK' /\ RelayFollowsMode'
  <2>1. g'.mode = g.mode /\ g'.param = g.param
    BY <1>7, Fields
  <2> QED
    BY <1>1, <1>7, <2>1 DEF BTypeOK, TypeOK, RelayFollowsMode
<1>8. ASSUME NEW e \in BOOLEAN, Heartbeat(e) PROVE BTypeOK' /\ RelayFollowsMode'
  <2>1. 0 \in 0..HB_CAP
    BY DEF HB_CAP, HEARTBEAT_IGNITION_CNT_ON
  <2>2. LET c == [b EXCEPT !.hbCounter = 0, !.hbLost = FALSE, !.hbDisabled = FALSE,
                           !.hbEngaged = e]
        IN  /\ c \in BoardType /\ c.relay = b.relay /\ c.driven = b.driven
            /\ c.byHost = b.byHost /\ c.canSilent = b.canSilent /\ c.harness = b.harness
    BY <1>1, <2>1 DEF BoardType
  <2> QED
    BY <1>1, <1>7, <1>8, <2>2 DEF Heartbeat, FromHost
<1>9. CASE DisableHeartbeat
  BY <1>1, <1>7, <1>9 DEF DisableHeartbeat, FromHost, BoardType
<1>11. ASSUME NEW f \in Commands, HostSend(f) PROVE BTypeOK' /\ RelayFollowsMode'
  BY <1>1, <1>7, <1>11, WindowType DEF HostSend, CanTx, FromHost
<1>12. ASSUME NEW f \in Traffic, BusRx(f) PROVE BTypeOK' /\ RelayFollowsMode'
  <2>1. safety_fwd_hook(g, f) \in Globals(g.mode, g.param)
    BY <1>1, WindowType
  <2>2. g' \in Globals(g.mode, g.param)
    BY <1>12, <2>1, RxType DEF BusRx, CanRx
  <2> QED
    BY <1>1, <1>7, <1>12, <2>2 DEF BusRx
<1>13. CASE HostStops
  BY <1>1, <1>7, <1>13 DEF HostStops
<1>14. CASE UNCHANGED vars
  BY <1>1, <1>7, <1>14 DEF vars
<1> QED
  BY <1>2, <1>3, <1>4, <1>5, <1>6, <1>8, <1>9, <1>10, <1>11, <1>12, <1>13, <1>14 DEF BNext

\* For every set of modes, frames and harness states: the board stays well typed,
\* and the relay follows the mode since it was last set up, unless request 0xc5 came
\* since; the transceivers always do. The two are inductive
\* together: that the relay follows needs the types of the records it reads.
THEOREM RelayIsTheModes == BSpec => [](BTypeOK /\ RelayFollowsMode)
<1>1. BInit => BInv
  BY BootFollows, BootType, BootBoardType, Fields
     DEF BInit, Init, BInv, BTypeOK, TypeOK, RelayFollowsMode, Follows
<1> QED
  BY <1>1, BNextInv, PTL DEF BSpec, BInv

---------------------------------------------------------------------------
(* The panda keeps its promises: PandaBoard implements PandaPromise. Shown *)
(* is what PandaPromise sees of a board.                                   *)
ModelOf(m) == IF is_car_safety_mode(m) THEN "CAR" ELSE m
Watched(s) == ~s.b.hbDisabled
Rec(a, k, c, d, e, f) ==
  [model |-> a, controls |-> k, used |-> c, idle |-> d, quiet |-> e, watch |-> f]

Shown(s) == Rec(ModelOf(s.g.mode), s.g.controls, s.b.hbEngaged, s.g.mism, s.b.hbCounter,
                Watched(s))

\* SILENT, whose mode switch LoseHeartbeat leaves out, never allows controls.
SilentOff(s) == s.g.mode = "SILENT" => ~s.g.controls

\* The changes that PandaPromise makes to such a record, and what becomes of it.
PutOn(r, x) == [r EXCEPT !.controls = x]
PutIdle(r, n) == [r EXCEPT !.idle = n]
PutWatch(r, w) == [r EXCEPT !.watch = w]
PutMode(r, m, x) == [r EXCEPT !.model = m, !.controls = x]
PutExpire(r, n, x) == [r EXCEPT !.idle = n, !.controls = x]
PutGrant(r, x, n) == [r EXCEPT !.controls = x, !.idle = n]
PutCount(r, q, w) == [r EXCEPT !.quiet = q, !.watch = w]
PutSelect(r, m, x, q) == [r EXCEPT !.model = m, !.controls = x, !.quiet = q]
PutLost(r, m, x, u) == [r EXCEPT !.model = m, !.controls = x, !.used = u]
PutBeat(r, q, w, u) == [r EXCEPT !.quiet = q, !.watch = w, !.used = u]

LEMMA RecOn ==
  ASSUME NEW a, NEW k, NEW c, NEW d, NEW e, NEW f, NEW x
  PROVE  PutOn(Rec(a, k, c, d, e, f), x) = Rec(a, x, c, d, e, f)
BY DEF Rec, PutOn

LEMMA RecIdle ==
  ASSUME NEW a, NEW k, NEW c, NEW d, NEW e, NEW f, NEW n
  PROVE  PutIdle(Rec(a, k, c, d, e, f), n) = Rec(a, k, c, n, e, f)
BY DEF Rec, PutIdle

LEMMA RecWatch ==
  ASSUME NEW a, NEW k, NEW c, NEW d, NEW e, NEW f, NEW w
  PROVE  PutWatch(Rec(a, k, c, d, e, f), w) = Rec(a, k, c, d, e, w)
BY DEF Rec, PutWatch

LEMMA RecMode ==
  ASSUME NEW a, NEW k, NEW c, NEW d, NEW e, NEW f, NEW m, NEW x
  PROVE  PutMode(Rec(a, k, c, d, e, f), m, x) = Rec(m, x, c, d, e, f)
<1> DEFINE r == Rec(a, k, c, d, e, f)
           s == [r EXCEPT !.model = m]
<1>1. s = Rec(m, k, c, d, e, f)
  BY DEF Rec
<1>2. PutMode(r, m, x) = [s EXCEPT !.controls = x]
  BY DEF PutMode
<1> HIDE DEF s
<1>3. [s EXCEPT !.controls = x] = Rec(m, x, c, d, e, f)
  BY <1>1 DEF Rec
<1> QED
  BY <1>2, <1>3, Zenon

LEMMA RecExpire ==
  ASSUME NEW a, NEW k, NEW c, NEW d, NEW e, NEW f, NEW n, NEW x
  PROVE  PutExpire(Rec(a, k, c, d, e, f), n, x) = Rec(a, x, c, n, e, f)
<1> DEFINE r == Rec(a, k, c, d, e, f)
           s == [r EXCEPT !.idle = n]
<1>1. s = Rec(a, k, c, n, e, f)
  BY DEF Rec
<1>2. PutExpire(r, n, x) = [s EXCEPT !.controls = x]
  BY DEF PutExpire
<1> HIDE DEF s
<1>3. [s EXCEPT !.controls = x] = Rec(a, x, c, n, e, f)
  BY <1>1 DEF Rec
<1> QED
  BY <1>2, <1>3, Zenon

LEMMA RecGrant ==
  ASSUME NEW a, NEW k, NEW c, NEW d, NEW e, NEW f, NEW x, NEW n
  PROVE  PutGrant(Rec(a, k, c, d, e, f), x, n) = Rec(a, x, c, n, e, f)
<1> DEFINE r == Rec(a, k, c, d, e, f)
           s == [r EXCEPT !.controls = x]
<1>1. s = Rec(a, x, c, d, e, f)
  BY DEF Rec
<1>2. PutGrant(r, x, n) = [s EXCEPT !.idle = n]
  BY DEF PutGrant
<1> HIDE DEF s
<1>3. [s EXCEPT !.idle = n] = Rec(a, x, c, n, e, f)
  BY <1>1 DEF Rec
<1> QED
  BY <1>2, <1>3, Zenon

LEMMA RecCount ==
  ASSUME NEW a, NEW k, NEW c, NEW d, NEW e, NEW f, NEW q, NEW w
  PROVE  PutCount(Rec(a, k, c, d, e, f), q, w) = Rec(a, k, c, d, q, w)
<1> DEFINE r == Rec(a, k, c, d, e, f)
           s == [r EXCEPT !.quiet = q]
<1>1. s = Rec(a, k, c, d, q, f)
  BY DEF Rec
<1>2. PutCount(r, q, w) = [s EXCEPT !.watch = w]
  BY DEF PutCount
<1> HIDE DEF s
<1>3. [s EXCEPT !.watch = w] = Rec(a, k, c, d, q, w)
  BY <1>1 DEF Rec
<1> QED
  BY <1>2, <1>3, Zenon

LEMMA RecSelect ==
  ASSUME NEW a, NEW k, NEW c, NEW d, NEW e, NEW f, NEW m, NEW x, NEW q
  PROVE  PutSelect(Rec(a, k, c, d, e, f), m, x, q) = Rec(m, x, c, d, q, f)
<1> DEFINE r == Rec(a, k, c, d, e, f)
           s == [r EXCEPT !.model = m, !.controls = x]
<1>1. s = Rec(m, x, c, d, e, f)
  <2>1. s = PutMode(Rec(a, k, c, d, e, f), m, x)
    BY Zenon DEF PutMode
  <2> QED
    BY <2>1, RecMode
<1>2. PutSelect(r, m, x, q) = [s EXCEPT !.quiet = q]
  BY DEF PutSelect
<1> HIDE DEF s
<1>3. [s EXCEPT !.quiet = q] = Rec(m, x, c, d, q, f)
  BY <1>1 DEF Rec
<1> QED
  BY <1>2, <1>3, Zenon

LEMMA RecLost ==
  ASSUME NEW a, NEW k, NEW c, NEW d, NEW e, NEW f, NEW m, NEW x, NEW u
  PROVE  PutLost(Rec(a, k, c, d, e, f), m, x, u) = Rec(m, x, u, d, e, f)
<1> DEFINE r == Rec(a, k, c, d, e, f)
           s == [r EXCEPT !.model = m, !.controls = x]
<1>1. s = Rec(m, x, c, d, e, f)
  <2>1. s = PutMode(Rec(a, k, c, d, e, f), m, x)
    BY Zenon DEF PutMode
  <2> QED
    BY <2>1, RecMode
<1>2. PutLost(r, m, x, u) = [s EXCEPT !.used = u]
  BY DEF PutLost
<1> HIDE DEF s
<1>3. [s EXCEPT !.used = u] = Rec(m, x, u, d, e, f)
  BY <1>1 DEF Rec
<1> QED
  BY <1>2, <1>3, Zenon

LEMMA RecBeat ==
  ASSUME NEW a, NEW k, NEW c, NEW d, NEW e, NEW f, NEW q, NEW w, NEW u
  PROVE  PutBeat(Rec(a, k, c, d, e, f), q, w, u) = Rec(a, k, u, d, q, w)
<1> DEFINE r == Rec(a, k, c, d, e, f)
           s == [r EXCEPT !.quiet = q, !.watch = w]
<1>1. s = Rec(a, k, c, d, q, w)
  <2>1. s = PutCount(Rec(a, k, c, d, e, f), q, w)
    BY Zenon DEF PutCount
  <2> QED
    BY <2>1, RecCount
<1>2. PutBeat(r, q, w, u) = [s EXCEPT !.used = u]
  BY DEF PutBeat
<1> HIDE DEF s
<1>3. [s EXCEPT !.used = u] = Rec(a, k, u, d, q, w)
  BY <1>1 DEF Rec
<1> QED
  BY <1>2, <1>3, Zenon

\* A mode switch is a selection, whatever the mode was before.
SelectsFrom(s, m, t) ==
  /\ Shown(t) \in Promise!Selections(Shown(s), ModelOf(m))
  /\ m = "SILENT" => Shown(t) = PutMode(Shown(s), "SILENT", FALSE) /\ t.g.mode = m
  /\ SilentOff(t)
  /\ t.b.countdown = s.b.countdown /\ t.b.siren = s.b.siren
  /\ t.b.hbEngaged = s.b.hbEngaged /\ t.g.mism = s.g.mism
  /\ t.b.harness = s.b.harness
  /\ t.b.hbLost => s.b.hbLost

LEMMA SetModeShown ==
  ASSUME NEW k, NEW q, NEW s \in Boards(k, q), NEW m, NEW p
  PROVE  SelectsFrom(s, m, set_safety_mode(s, m, p))
<1> DEFINE r == SetRelay(s.b, DrivesRelay(m), FALSE)
           c == [r EXCEPT !.canSilent = (m = "SILENT"), !.byHost = FALSE]
           d == IF m \in {"SILENT", "NOOUTPUT"} THEN c
                ELSE [c EXCEPT !.hbCounter = 0, !.hbLost = FALSE]
           h == set_safety_hooks(s.g, m, p)
           t == set_safety_mode(s, m, p)
           on == m \in {"ALLOUTPUT", "DNGA"}
           qn == IF m \in {"SILENT", "NOOUTPUT"} THEN s.b.hbCounter ELSE 0
<1>1. s.g \in Globals(k, q) /\ s.b \in BoardType
  BY DEF Boards
<1>2. t.g = h /\ t.b = d
  BY Zenon DEF set_safety_mode
<1>3. h.mode = m /\ h.mism = s.g.mism /\ h.controls = on
  BY <1>1, SetHooksKeeps
<1>4. /\ d.hbEngaged = s.b.hbEngaged /\ d.hbDisabled = s.b.hbDisabled
      /\ d.countdown = s.b.countdown /\ d.siren = s.b.siren
      /\ d.hbCounter = qn /\ d.harness = s.b.harness
      /\ d.hbLost => s.b.hbLost
  <2>1. /\ c.hbEngaged = s.b.hbEngaged /\ c.hbDisabled = s.b.hbDisabled
        /\ c.countdown = s.b.countdown /\ c.siren = s.b.siren
        /\ c.hbCounter = s.b.hbCounter /\ c.hbLost = s.b.hbLost
        /\ c.harness = s.b.harness /\ c \in BoardType
    <3>1. DrivesRelay(m) \in BOOLEAN /\ (m = "SILENT") \in BOOLEAN
      BY DEF DrivesRelay
    <3>2. /\ r \in BoardType /\ r.harness = s.b.harness
          /\ r.hbEngaged = s.b.hbEngaged /\ r.hbDisabled = s.b.hbDisabled
          /\ r.hbCounter = s.b.hbCounter /\ r.hbLost = s.b.hbLost
          /\ r.countdown = s.b.countdown /\ r.siren = s.b.siren
      BY <1>1, <3>1, SetRelayType
    <3> HIDE DEF r
    <3> QED
      BY <3>1, <3>2 DEF BoardType
  <2>2. "hbCounter" \in DOMAIN c /\ "hbLost" \in DOMAIN c
    BY <2>1 DEF BoardType
  <2> HIDE DEF c
  <2> QED
    BY <1>1, <2>1, <2>2 DEF BoardType
<1> HIDE DEF h, d, t, on, qn
<1>5. Shown(t) = Rec(ModelOf(m), on, s.b.hbEngaged, s.g.mism, qn, Watched(s))
  BY <1>2, <1>3, <1>4 DEF Shown, Watched
<1>6. on \in BOOLEAN /\ (ModelOf(m) \in {"SILENT", "NOOUTPUT", "ELM327"} => ~on)
  BY DEF on, ModelOf, is_car_safety_mode, NonCarModes
<1>7. ModelOf(m) \in {"SILENT", "NOOUTPUT"} <=> m \in {"SILENT", "NOOUTPUT"}
  BY DEF ModelOf, is_car_safety_mode, NonCarModes
<1>8. m = "SILENT" => ModelOf(m) = "SILENT" /\ ~on
  BY DEF on, ModelOf, is_car_safety_mode, NonCarModes
<1>9. Shown(t) \in Promise!Selections(Shown(s), ModelOf(m))
  <2>0. Shown(t) = PutSelect(Shown(s), ModelOf(m), on, qn)
    BY <1>5, RecSelect DEF Shown
  <2>3. qn = IF ModelOf(m) \in {"SILENT", "NOOUTPUT"} THEN Shown(s).quiet ELSE 0
    BY <1>7 DEF Shown, Rec, qn
  <2>1. Shown(t) = [Shown(s) EXCEPT !.model = ModelOf(m), !.controls = on,
                      !.quiet = IF ModelOf(m) \in {"SILENT", "NOOUTPUT"} THEN @ ELSE 0]
    BY <2>0, <2>3, Zenon DEF PutSelect
  <2>2. on \in IF ModelOf(m) \in Promise!Ungranting THEN {FALSE} ELSE BOOLEAN
    BY <1>6 DEF Promise!Ungranting
  <2> QED
    BY <2>1, <2>2, Zenon DEF Promise!Selections
<1>10. m = "SILENT" => Shown(t) = PutMode(Shown(s), "SILENT", FALSE)
  <2> SUFFICES ASSUME m = "SILENT"
               PROVE  Shown(t) = PutMode(Shown(s), "SILENT", FALSE)
    OBVIOUS
  <2>1. ModelOf(m) = "SILENT" /\ on = FALSE /\ qn = s.b.hbCounter
    BY <1>6, <1>8 DEF qn
  <2>2. Shown(t) = PutMode(Shown(s), ModelOf(m), on)
    BY <1>5, <2>1, RecMode DEF Shown
  <2> QED
    BY <2>1, <2>2, Zenon
<1>11. SilentOff(t)
  BY <1>2, <1>3, <1>8 DEF SilentOff
<1> QED
  BY <1>2, <1>3, <1>4, <1>9, <1>10, <1>11 DEF t, SelectsFrom

\* The plug's part of the tick is nothing, or a selection of the same mode anew.
LEMMA HarnessTickShown ==
  ASSUME NEW m, NEW p, NEW s \in Boards(m, p), SilentOff(s), NEW h \in HarnessStates
  PROVE  LET t == HarnessTick(s, h)
         IN  /\ Shown(t) \in {Shown(s)} \cup Promise!Selections(Shown(s), Shown(s).model)
             /\ SilentOff(t)
             /\ t.b.countdown = s.b.countdown /\ t.b.hbEngaged = s.b.hbEngaged
             /\ t.g.mism = s.g.mism
             /\ t.b.hbLost => s.b.hbLost
             /\ t.b.harness = s.b.harness => t = s
<1> DEFINE s1 == [s EXCEPT !.b.harness = h]
           t == HarnessTick(s, h)
<1>1. /\ s1 \in Boards(m, p) /\ Shown(s1) = Shown(s)
      /\ s1.b.countdown = s.b.countdown /\ s1.b.siren = s.b.siren
      /\ s1.b.hbLost = s.b.hbLost /\ s1.b.harness = h
      /\ s1.b.hbEngaged = s.b.hbEngaged /\ s1.g = s.g
  BY DEF Boards, BoardType, Shown, Watched
<1>2. s.g.mode = m /\ s.g.param = p
  BY Fields DEF Boards
<1>3. Shown(s).model = ModelOf(m)
  BY <1>2 DEF Shown, Rec
<1> HIDE DEF s1
<1>4. CASE s.b.driven \/ h = s.b.harness
  <2>1. t = s
    BY <1>4, Zenon DEF HarnessTick
  <2> HIDE DEF t
  <2> QED
    BY <2>1 DEF t
<1>5. CASE ~(s.b.driven \/ h = s.b.harness)
  <2>1. t = set_safety_mode(s1, m, p)
    BY <1>2, <1>5, Zenon DEF HarnessTick, s1
  <2> HIDE DEF t
  <2>0. s1 \in Boards(m, p)
    BY <1>1
  <2>3. /\ Shown(t) \in Promise!Selections(Shown(s1), ModelOf(m)) /\ SilentOff(t)
        /\ t.b.countdown = s1.b.countdown /\ t.b.hbEngaged = s1.b.hbEngaged
        /\ t.g.mism = s1.g.mism /\ t.b.harness = s1.b.harness
        /\ t.b.hbLost => s1.b.hbLost
    <3>1. SelectsFrom(s1, m, set_safety_mode(s1, m, p))
      BY <2>0, SetModeShown
    <3> QED
      BY <2>1, <3>1, Zenon DEF SelectsFrom
  <2> QED
    BY <1>1, <1>3, <1>5, <2>3 DEF t
<1> QED
  BY <1>4, <1>5

\* Counting and expiring are PandaPromise's, and the countdown restarts while openpilot
\* may control the car.
LEMMA CountShown ==
  ASSUME NEW m, NEW p, NEW s \in Boards(m, p)
  PROVE  LET t == CountHeartbeat(s)
         IN  /\ Shown(t) = Promise!CountTick(Shown(s))
             /\ t.g = s.g /\ t.b.hbLost = s.b.hbLost
             /\ t.b.countdown = IF s.g.controls \/ s.b.hbEngaged THEN CONTROLS_COUNTDOWN
                                ELSE Down(s.b.countdown)
<1> DEFINE n   == IF s.b.hbCounter < HB_CAP THEN s.b.hbCounter + 1 ELSE s.b.hbCounter
           dis == s.b.hbDisabled /\ ~is_car_safety_mode(s.g.mode)
           sir == Down(s.b.siren)
           cd  == IF s.g.controls \/ s.b.hbEngaged THEN CONTROLS_COUNTDOWN
                  ELSE Down(s.b.countdown)
           t   == CountHeartbeat(s)
<1>1. t = [s EXCEPT !.b.hbCounter = n, !.b.hbDisabled = dis, !.b.siren = sir, !.b.countdown = cd]
  BY Zenon DEF CountHeartbeat, StillDisabled
<1> HIDE DEF n, dis, sir, cd, t
<1>2. /\ t.g = s.g /\ t.b.hbLost = s.b.hbLost /\ t.b.countdown = cd
      /\ t.b.hbCounter = n /\ t.b.hbDisabled = dis /\ t.b.hbEngaged = s.b.hbEngaged
  BY <1>1 DEF Boards, BoardType
<1>3. Watched(t) = (Watched(s) \/ ModelOf(s.g.mode) = "CAR")
  BY <1>2 DEF Watched, dis, ModelOf, is_car_safety_mode, NonCarModes
<1>4. Shown(t) = Promise!CountTick(Shown(s))
  <2>1. Shown(t) = Rec(ModelOf(s.g.mode), s.g.controls, s.b.hbEngaged, s.g.mism, n,
                       Watched(t))
    BY <1>2 DEF Shown
  <2> DEFINE w == Watched(s) \/ ModelOf(s.g.mode) = "CAR"
  <2>2. Promise!CountTick(Shown(s)) = PutCount(Shown(s), n, w)
    <3>1. /\ Shown(s).quiet = s.b.hbCounter /\ Shown(s).watch = Watched(s)
          /\ Shown(s).model = ModelOf(s.g.mode)
      BY DEF Shown, Rec
    <3> QED
      BY <3>1, Zenon DEF Promise!CountTick, n, HB_CAP, PutCount
  <2>3. Watched(t) = w
    BY <1>3
  <2> HIDE DEF w
  <2> QED
    BY <2>1, <2>2, <2>3, RecCount DEF Shown
<1> QED
  BY <1>2, <1>4 DEF cd, t

\* Expiring controls is PandaPromise's; what stays allowed is used, or counted.
LEMMA ExpireShown ==
  ASSUME NEW m, NEW p, NEW s \in Boards(m, p)
  PROVE  LET t == ExpireControls(s)
         IN  /\ Shown(t) = Promise!Expired(Shown(s))
             /\ t.b = s.b /\ t.g.mode = s.g.mode
             /\ t.g.controls => s.g.controls
             /\ t.g.controls => s.b.hbEngaged \/ (/\ t.g.mism = s.g.mism + 1
                                                  /\ t.g.mism < MISM_LIMIT)
<1> DEFINE n  == IF s.g.mism < MISM_LIMIT THEN s.g.mism + 1 ELSE s.g.mism
           on == s.g.mism + 1 < MISM_LIMIT
<1> HIDE DEF n, on
<1>1. CASE s.g.controls /\ ~s.b.hbEngaged
  <2> DEFINE t == [s EXCEPT !.g.mism = n, !.g.controls = on]
  <2>1. ExpireControls(s) = t
    BY <1>1, Zenon DEF ExpireControls, n, on
  <2>2. /\ t.b = s.b /\ t.g.mism = n /\ t.g.controls = on /\ t.g.mode = s.g.mode
    BY DEF Boards, Globals
  <2> HIDE DEF t
  <2>3. Shown(t) = PutExpire(Shown(s), n, on)
    <3>1. Watched(t) = Watched(s)
      BY <2>2 DEF Watched
    <3> QED
      BY <2>2, <3>1, RecExpire DEF Shown
  <2>4. Promise!Expired(Shown(s)) = PutExpire(Shown(s), n, on)
    <3>1. /\ Shown(s).idle = s.g.mism /\ Shown(s).controls = s.g.controls
          /\ Shown(s).used = s.b.hbEngaged
      BY DEF Shown, Rec
    <3> QED
      BY <1>1, <3>1, Zenon DEF Promise!Expired, PutExpire, n, on
  <2>5. on => n = s.g.mism + 1 /\ n < MISM_LIMIT
    BY DEF on, n, Boards, Globals, MISM_LIMIT
  <2> QED
    BY <1>1, <2>1, <2>2, <2>3, <2>4, <2>5
<1>2. CASE ~(s.g.controls /\ ~s.b.hbEngaged)
  <2> DEFINE t == [s EXCEPT !.g.mism = 0]
  <2>1. ExpireControls(s) = t
    BY <1>2, Zenon DEF ExpireControls
  <2>2. /\ t.b = s.b /\ t.g.mism = 0 /\ t.g.controls = s.g.controls /\ t.g.mode = s.g.mode
    BY DEF Boards, Globals
  <2> HIDE DEF t
  <2>3. Shown(t) = PutIdle(Shown(s), 0)
    <3>1. Watched(t) = Watched(s)
      BY <2>2 DEF Watched
    <3> QED
      BY <2>2, <3>1, RecIdle DEF Shown
  <2>4. Promise!Expired(Shown(s)) = PutIdle(Shown(s), 0)
    <3>1. Shown(s).controls = s.g.controls /\ Shown(s).used = s.b.hbEngaged
      BY DEF Shown, Rec
    <3> QED
      BY <1>2, <3>1, Zenon DEF Promise!Expired, PutIdle
  <2> QED
    BY <1>2, <2>1, <2>2, <2>3, <2>4
<1> QED
  BY <1>1, <1>2

\* A lost heartbeat is PandaPromise's: SILENT, no controls, nothing engaged; and the
\* siren starts if the countdown still runs.
LEMMA LoseShown ==
  ASSUME NEW m, NEW p, NEW s \in Boards(m, p), SilentOff(s)
  PROVE  LET t == LoseHeartbeat(s)
         IN  /\ Shown(t) = Promise!Lost(Shown(s))
             /\ SilentOff(t) /\ t.g.mode = "SILENT" /\ t.b.hbCounter = s.b.hbCounter
             /\ t.b.harness = s.b.harness
             /\ s.b.countdown > 0 => t.b.siren = SIREN_SECONDS
<1> DEFINE sir  == IF s.b.countdown > 0 THEN SIREN_SECONDS ELSE s.b.siren
           s1   == [s EXCEPT !.b.siren = sir, !.b.countdown = 0]
           lost == s1.b.hbLost \/ is_car_safety_mode(s.g.mode)
           t    == [s1 EXCEPT !.b.hbLost = lost, !.b.hbEngaged = FALSE]
           off  == FALSE
<1>1. s.b \in BoardType
  BY DEF Boards
<1>2. sir \in 0..SIREN_SECONDS /\ 0 \in 0..CONTROLS_COUNTDOWN
  BY <1>1 DEF BoardType, SIREN_SECONDS, CONTROLS_COUNTDOWN
<1>3. lost \in BOOLEAN
  BY Zenon
<1> HIDE DEF sir, lost
<1>4. /\ t \in Boards(m, p) /\ t.g = s.g /\ t.b.siren = sir /\ t.b.hbEngaged = FALSE
      /\ t.b.harness = s.b.harness
      /\ t.b.hbDisabled = s.b.hbDisabled /\ t.b.hbCounter = s.b.hbCounter
  <2>1. /\ s1 \in Boards(m, p) /\ s1.g = s.g /\ s1.b.siren = sir
        /\ s1.b.hbDisabled = s.b.hbDisabled /\ s1.b.hbCounter = s.b.hbCounter
        /\ s1.b.harness = s.b.harness
    BY <1>2 DEF Boards, BoardType
  <2> HIDE DEF s1
  <2> QED
    BY <1>3, <2>1 DEF Boards, BoardType
<1>5. LoseHeartbeat(s) = IF t.g.mode = "SILENT" THEN t ELSE set_safety_mode(t, "SILENT", {})
  BY Zenon DEF LoseHeartbeat, Alarm, t, sir, lost
<1> HIDE DEF t
<1>6. s.b.countdown > 0 => t.b.siren = SIREN_SECONDS
  BY <1>4 DEF sir
<1> HIDE DEF off
<1>7. off = FALSE
  BY DEF off
<1>8. Promise!Lost(Shown(s))
        = Rec("SILENT", off, off, s.g.mism, s.b.hbCounter, Watched(s))
  <2>1. Promise!Lost(Shown(s)) = PutLost(Shown(s), "SILENT", off, off)
    BY <1>7, Zenon DEF Promise!Lost, PutLost
  <2> QED
    BY <2>1, RecLost DEF Shown
<1>9. Shown(t) = Rec(ModelOf(s.g.mode), s.g.controls, off, s.g.mism, s.b.hbCounter, Watched(s))
  BY <1>4, <1>7 DEF Shown, Watched
<1>10. CASE s.g.mode = "SILENT"
  <2>1. LoseHeartbeat(s) = t
    BY <1>4, <1>5, <1>10
  <2>2. ModelOf(s.g.mode) = "SILENT"
    BY <1>10 DEF ModelOf, is_car_safety_mode, NonCarModes
  <2>3. s.g.controls = off
    BY <1>1, <1>7, <1>10 DEF SilentOff, Boards, Globals
  <2> QED
    BY <1>4, <1>6, <1>8, <1>9, <1>10, <2>1, <2>2, <2>3 DEF SilentOff
<1>11. CASE s.g.mode # "SILENT"
  <2> DEFINE v == set_safety_mode(t, "SILENT", {})
  <2>1. LoseHeartbeat(s) = v
    BY <1>4, <1>5, <1>11
  <2>2. SelectsFrom(t, "SILENT", v)
    BY <1>4, SetModeShown
  <2> HIDE DEF v
  <2>3. /\ Shown(v) = PutMode(Shown(t), "SILENT", off)
        /\ v.g.mode = "SILENT" /\ SilentOff(v) /\ v.b.siren = t.b.siren
        /\ v.b.harness = t.b.harness
    BY <1>7, <2>2, Zenon DEF SelectsFrom
  <2>4. Shown(v) = Rec("SILENT", off, off, s.g.mism, s.b.hbCounter, Watched(s))
    BY <1>9, <2>3, RecMode
  <2>5. v.b.hbCounter = s.b.hbCounter
    <3>1. Shown(v).quiet = v.b.hbCounter
      BY DEF Shown, Rec
    <3> QED
      BY <2>4, <3>1 DEF Rec
  <2> QED
    BY <1>4, <1>6, <1>8, <2>1, <2>3, <2>4, <2>5
<1> QED
  BY <1>10, <1>11

\* The safety code's own tick at most takes controls away.
LEMMA SafetyTickShown ==
  ASSUME NEW m, NEW p, NEW s \in Boards(m, p), NEW late
  PROVE  LET t == [s EXCEPT !.g = safety_tick(CountSecond(s.g), late)]
         IN  /\ Shown(t) \in {Shown(s), PutOn(Shown(s), FALSE)}
             /\ ~s.g.controls => Shown(t) = Shown(s)
             /\ t.b = s.b /\ t.g.mode = s.g.mode /\ t.g.mism = s.g.mism
             /\ t.g.controls => s.g.controls
<1> DEFINE h   == safety_tick(CountSecond(s.g), late)
           t   == [s EXCEPT !.g = h]
           off == FALSE
<1>1. s.g \in Globals(m, p)
  BY DEF Boards
<1>2. h \in Globals(m, p) /\ h.mode = s.g.mode
  BY <1>1, TickType, Fields
<1>3. h.mism = s.g.mism /\ (h.controls = s.g.controls \/ h.controls = FALSE)
  <2>1. h.mism = s.g.mism
    BY <1>1, TickKeeps
  <2>2. h.controls \in {s.g.controls, FALSE}
    BY <1>1, TickKeeps
  <2> HIDE DEF h
  <2> QED
    BY <2>1, <2>2
<1> HIDE DEF h
<1>4. t.g = h /\ t.b = s.b
  BY DEF Boards
<1> HIDE DEF t, off
<1>5. off = FALSE
  BY DEF off
<1>6. Shown(t) = Rec(ModelOf(s.g.mode), h.controls, s.b.hbEngaged, s.g.mism,
                     s.b.hbCounter, Watched(s))
  BY <1>2, <1>3, <1>4 DEF Shown, Watched
<1>7. PutOn(Shown(s), off)
        = Rec(ModelOf(s.g.mode), off, s.b.hbEngaged, s.g.mism, s.b.hbCounter, Watched(s))
  BY RecOn DEF Shown
<1>8. h.controls = s.g.controls => Shown(t) = Shown(s)
  BY <1>6 DEF Shown
<1>9. h.controls = FALSE => Shown(t) = PutOn(Shown(s), FALSE)
  BY <1>5, <1>6, <1>7
<1>10. ~s.g.controls => h.controls = s.g.controls
  BY <1>1, <1>3 DEF Globals
<1>11. t.g.controls => s.g.controls
  BY <1>3, <1>4
<1> QED
  BY <1>2, <1>3, <1>4, <1>8, <1>9, <1>10, <1>11 DEF t, h

\* The whole 1 Hz tick, after the plug was looked at.
AlarmRuns(s) ==
  IF s.g.controls \/ s.b.hbEngaged THEN CONTROLS_COUNTDOWN ELSE Down(s.b.countdown)

LEMMA OneHertzShown ==
  ASSUME NEW m, NEW p, NEW s \in Boards(m, p), Follows(s), SilentOff(s),
         NEW line, NEW can, NEW late
  PROVE  LET t == OneHertz(s, line, can, late)
         IN  /\ Shown(t) \in Promise!Ticked(Shown(s)) /\ SilentOff(t)
             /\ t.b.harness = s.b.harness
             /\ \/ (t.b.hbLost => s.b.hbLost) /\ t.b.countdown = AlarmRuns(s)
                \/ /\ t.g.mode = "SILENT" /\ t.b.hbCounter >= HEARTBEAT_IGNITION_CNT_OFF
                   /\ AlarmRuns(s) > 0 => t.b.siren = SIREN_SECONDS
             /\ t.g.controls =>
                  /\ s.g.controls /\ t.b.hbEngaged = s.b.hbEngaged
                  /\ s.b.hbEngaged \/ (t.g.mism = s.g.mism + 1 /\ t.g.mism < MISM_LIMIT)
<1> DEFINE s0 == CountHeartbeat(s)
           s1 == ExpireControls(s0)
           gone == HeartbeatGone(s1.b, Started(s, line, can))
           s2 == IF gone THEN LoseHeartbeat(s1) ELSE s1
           h  == safety_tick(CountSecond(s2.g), late)
           t  == [s2 EXCEPT !.g = h]
           r  == Promise!Expired(Promise!CountTick(Shown(s)))
<1>1. /\ s0 \in Boards(m, p) /\ Shown(s0) = Promise!CountTick(Shown(s))
      /\ s0.g = s.g /\ s0.b.hbLost = s.b.hbLost /\ s0.b.countdown = AlarmRuns(s)
      /\ s0.b.hbEngaged = s.b.hbEngaged /\ s0.b.harness = s.b.harness
  <2>1. s0 \in Boards(m, p)
    BY CountFollows
  <2>2. s0.b.hbEngaged = s.b.hbEngaged /\ s0.b.harness = s.b.harness
    BY DEF CountHeartbeat, Boards, BoardType
  <2>3. /\ Shown(s0) = Promise!CountTick(Shown(s))
        /\ s0.g = s.g /\ s0.b.hbLost = s.b.hbLost /\ s0.b.countdown = AlarmRuns(s)
    BY CountShown, Zenon DEF AlarmRuns
  <2> HIDE DEF s0
  <2> QED
    BY <2>1, <2>2, <2>3
<1> HIDE DEF s0
<1>2. /\ s1 \in Boards(m, p) /\ Shown(s1) = r
      /\ s1.b = s0.b /\ s1.g.mode = s0.g.mode
      /\ s1.g.controls => s0.g.controls
      /\ s1.g.controls => s0.b.hbEngaged \/ (/\ s1.g.mism = s0.g.mism + 1
                                             /\ s1.g.mism < MISM_LIMIT)
  <2>1. s1 \in Boards(m, p)
    BY <1>1, ExpireFollows
  <2>2. /\ Shown(s1) = Promise!Expired(Shown(s0))
        /\ s1.b = s0.b /\ s1.g.mode = s0.g.mode
        /\ s1.g.controls => s0.g.controls
        /\ s1.g.controls => s0.b.hbEngaged \/ (/\ s1.g.mism = s0.g.mism + 1
                                               /\ s1.g.mism < MISM_LIMIT)
    BY <1>1, ExpireShown
  <2>3. Shown(s1) = r
    BY <1>1, <2>2, Zenon
  <2> HIDE DEF s1, r
  <2> QED
    BY <2>1, <2>2, <2>3
<1>3. SilentOff(s1) /\ Follows(s1)
  <2>1. Follows(s1)
    BY CountFollows, ExpireFollows, SameFollows DEF s0
  <2> HIDE DEF s1
  <2> QED
    BY <1>1, <1>2, <2>1 DEF SilentOff
<1>4. OneHertz(s, line, can, late) = t
  BY Zenon DEF OneHertz, t, s0, s1, s2, h, gone
<1>5. /\ gone => Promise!MayLose(r) /\ s1.b.hbCounter >= HEARTBEAT_IGNITION_CNT_OFF
      /\ ~gone => ~Promise!MustLose(r)
  <2> DEFINE st == Started(s, line, can)
             dis == s1.b.hbDisabled
             n == s1.b.hbCounter
  <2>1. r.watch = ~dis /\ r.quiet = n
    <3>1. Shown(s1).watch = Watched(s1) /\ Shown(s1).quiet = s1.b.hbCounter
      BY DEF Shown, Rec
    <3> QED
      BY <1>2, <3>1, Zenon DEF Watched
  <2>2. n \in Nat
    BY <1>2 DEF Boards, BoardType
  <2>3. /\ Promise!MayLose(r) <=> ~dis /\ n >= HEARTBEAT_IGNITION_CNT_OFF
        /\ Promise!MustLose(r) <=> ~dis /\ n >= HEARTBEAT_IGNITION_CNT_ON
    BY <2>1, Zenon DEF Promise!MayLose, Promise!MustLose
  <2>4. gone <=> ~dis /\ n >= IF st THEN HEARTBEAT_IGNITION_CNT_ON
                             ELSE HEARTBEAT_IGNITION_CNT_OFF
    BY Zenon DEF HeartbeatGone
  <2> HIDE DEF st, dis, n, r, gone
  <2>5. /\ gone => Promise!MayLose(r) /\ n >= HEARTBEAT_IGNITION_CNT_OFF
        /\ ~gone => ~Promise!MustLose(r)
    BY <2>2, <2>3, <2>4 DEF HEARTBEAT_IGNITION_CNT_ON, HEARTBEAT_IGNITION_CNT_OFF
  <2> QED
    BY <2>5 DEF n
<1> HIDE DEF s1, gone
<1>6. CASE gone
  <2>1. s2 = LoseHeartbeat(s1)
    BY <1>6
  <2>2. s2 \in Boards(m, p) \cup Boards("SILENT", {})
    <3> HIDE DEF s2
    <3> QED
      BY <1>2, <1>3, <2>1, LoseFollows
  <2>3. /\ Shown(s2) = Promise!Lost(Shown(s1))
        /\ SilentOff(s2) /\ s2.g.mode = "SILENT" /\ s2.b.hbCounter = s1.b.hbCounter
        /\ s2.b.harness = s1.b.harness
        /\ s1.b.countdown > 0 => s2.b.siren = SIREN_SECONDS
    BY <1>2, <1>3, <2>1, LoseShown
  <2> HIDE DEF s2
  <2>4. PICK k, q : s2 \in Boards(k, q)
    BY <2>2
  <2>5. ~s2.g.controls
    BY <2>3 DEF SilentOff
  <2>6. /\ Shown(t) = Shown(s2) /\ t.b = s2.b /\ t.g.mode = s2.g.mode
        /\ t.g.controls => s2.g.controls
    BY <2>4, <2>5, SafetyTickShown, Zenon DEF t, h
  <2> HIDE DEF t
  <2>7. Shown(t) \in Promise!Ticked(Shown(s))
    <3>1. Shown(t) = Promise!Lost(r) /\ Promise!MayLose(r)
      BY <1>2, <1>5, <1>6, <2>3, <2>6, Zenon
    <3> QED
      BY <3>1, Zenon DEF Promise!Ticked
  <2>8. s1.b.hbCounter >= HEARTBEAT_IGNITION_CNT_OFF
    BY <1>5, <1>6
  <2>9. /\ t.g.mode = "SILENT" /\ t.b.hbCounter >= HEARTBEAT_IGNITION_CNT_OFF
        /\ AlarmRuns(s) > 0 => t.b.siren = SIREN_SECONDS
        /\ ~t.g.controls /\ t.b.harness = s.b.harness
    BY <1>1, <1>2, <2>3, <2>5, <2>6, <2>8
  <2> QED
    BY <1>4, <2>7, <2>9 DEF SilentOff
<1>7. CASE ~gone
  <2>1. s2 = s1
    BY <1>7
  <2> HIDE DEF s2
  <2>0. s2 \in Boards(m, p)
    BY <1>2, <2>1
  <2>2. /\ Shown(t) \in {Shown(s1), PutOn(Shown(s1), FALSE)}
        /\ t.b = s1.b /\ t.g.mode = s1.g.mode /\ t.g.mism = s1.g.mism
        /\ t.g.controls => s1.g.controls
    <3>1. /\ Shown(t) \in {Shown(s2), PutOn(Shown(s2), FALSE)}
          /\ t.b = s2.b /\ t.g.mode = s2.g.mode /\ t.g.mism = s2.g.mism
          /\ t.g.controls => s2.g.controls
      BY <2>0, SafetyTickShown, Zenon DEF t, h
    <3> HIDE DEF t
    <3> QED
      BY <2>1, <3>1, Zenon
  <2> HIDE DEF t
  <2>3. Shown(t) \in Promise!Ticked(Shown(s))
    <3>1. Shown(t) = r \/ Shown(t) = PutOn(r, FALSE)
      BY <1>2, <2>2, Zenon
    <3>2. ~Promise!MustLose(r)
      BY <1>5, <1>7
    <3> QED
      BY <3>1, <3>2, Zenon DEF Promise!Ticked, PutOn
  <2>4. SilentOff(t)
    BY <1>3, <2>2 DEF SilentOff
  <2>5. /\ (t.b.hbLost => s.b.hbLost) /\ t.b.countdown = AlarmRuns(s)
        /\ t.b.harness = s.b.harness
    BY <1>1, <1>2, <2>2
  <2>6. t.g.controls =>
          /\ s.g.controls /\ t.b.hbEngaged = s.b.hbEngaged
          /\ s.b.hbEngaged \/ (t.g.mism = s.g.mism + 1 /\ t.g.mism < MISM_LIMIT)
    BY <1>1, <1>2, <2>2
  <2> QED
    BY <1>4, <2>3, <2>4, <2>5, <2>6
<1> QED
  BY <1>6, <1>7

---------------------------------------------------------------------------
(* The refinement, step by step                                            *)

Silent == SilentOff(Board)

\* What PandaPromise sees of the state, now and after a handler that leaves board s.
LEMMA PromisedShown ==
  /\ Promised = Shown(Board)
  /\ \A s : Becomes(s) => Promised' = Shown(s) /\ (Silent' <=> SilentOff(s))
<1>1. Promised = Shown(Board)
  BY DEF Promised, Shown, Rec, Board, ModelOf, Watched
<1>2. ASSUME NEW s, Becomes(s) PROVE Promised' = Shown(s) /\ (Silent' <=> SilentOff(s))
  <2>1. Promised' = Shown(s)
    BY <1>2 DEF Promised, Shown, Rec, ModelOf, Watched, Becomes
  <2>2. Silent' <=> SilentOff(s)
    BY <1>2 DEF Silent, SilentOff, Board, Becomes
  <2> QED
    BY <2>1, <2>2
<1> QED
  BY <1>1, <1>2

LEMMA ModelsAreModels ==
  ASSUME NEW m, NEW p, [mode |-> m, param |-> p] \in Config
  PROVE  ModelOf(m) \in Promise!SafetyModel
<1>1. m \in NonCarModes \/ m \in CarModes
  BY DEF Config
<1> QED
  BY <1>1 DEF ModelOf, is_car_safety_mode, NonCarModes, CarModes, Promise!SafetyModel,
     Promise!Ungranting

\* A frame of the car: controls stay, or are taken away, or granted to a car's mode.
LEMMA RxShown ==
  ASSUME BTypeOK, Silent, NEW f \in Traffic, BusRx(f)
  PROVE  /\ Silent' /\ [Promise!Revoke \/ Promise!Grant]_Promised
         /\ g.controls /\ g'.controls => g'.mism = g.mism
<1> DEFINE m == g.mode
           p == g.param
           h == safety_fwd_hook(g, f)
           s == safety_rx_hook(h, f)
<1>1. g \in Globals(m, p) /\ [mode |-> m, param |-> p] \in Config /\ f \in Frame
  BY SafetyConstants DEF BTypeOK, TypeOK
<1>2. h \in Globals(m, p) /\ h.controls = g.controls /\ h.mism = g.mism
  BY <1>1, WindowType, WindowKeeps
<1> HIDE DEF h
<1>3. s \in Globals(m, p)
  BY <1>1, <1>2, RxType
<1>4. /\ s.controls /\ ~h.controls => s.mism = 0 /\ m \in CarModes
      /\ ~(s.controls /\ ~h.controls) => s.mism = h.mism
  BY <1>1, <1>2, RxGrants
<1>5. g' = s /\ UNCHANGED b
  BY DEF BusRx, CanRx, h
<1> HIDE DEF s
<1>6. g'.mode = m
  BY <1>3, <1>5, Fields
<1>7. g.controls \in BOOLEAN /\ g'.controls \in BOOLEAN
  BY <1>1, <1>3, <1>5 DEF Globals
<1>8. Promised = Rec(ModelOf(m), g.controls, b.hbEngaged, g.mism, b.hbCounter, ~b.hbDisabled)
  BY DEF Promised, Rec, ModelOf
<1>9. Promised' = Rec(ModelOf(m), g'.controls, b.hbEngaged, g'.mism, b.hbCounter, ~b.hbDisabled)
  BY <1>5, <1>6 DEF Promised, Rec, ModelOf
<1>10. CASE g'.controls /\ ~g.controls
  <2>1. g'.mism = 0 /\ m \in CarModes
    BY <1>2, <1>4, <1>5, <1>10
  <2>2. ModelOf(m) = "CAR" /\ m # "SILENT"
    BY <2>1 DEF ModelOf, is_car_safety_mode, CarModes, NonCarModes
  <2>3. Promised.model = "CAR" /\ Promised.controls = g.controls
    BY <1>8, <2>2 DEF Rec
  <2>4. Promised' = PutGrant(Promised, g'.controls, g'.mism)
    BY <1>8, <1>9, RecGrant
  <2>5. Promise!Grant
    BY <1>7, <1>10, <2>1, <2>3, <2>4, Zenon DEF Promise!Grant, PutGrant
  <2> QED
    BY <1>6, <1>10, <2>2, <2>5 DEF Silent, SilentOff, Board
<1>11. CASE ~(g'.controls /\ ~g.controls)
  <2>1. g'.mism = g.mism
    BY <1>2, <1>4, <1>5, <1>11
  <2>2. g'.controls = g.controls \/ g'.controls = FALSE
    BY <1>7, <1>11
  <2>3. g'.controls = g.controls => Promised' = Promised
    BY <1>8, <1>9, <2>1
  <2>4. Promised' = PutOn(Promised, g'.controls)
    BY <1>8, <1>9, <2>1, RecOn
  <2>5. g'.controls = FALSE => Promise!Revoke
    BY <2>4, Zenon DEF Promise!Revoke, PutOn
  <2> QED
    BY <1>6, <1>11, <2>1, <2>2, <2>3, <2>5 DEF Silent, SilentOff, Board
<1> QED
  BY <1>10, <1>11

\* A request to the safety code that changes the mode.
LEMMA SwitchShown ==
  ASSUME BTypeOK, RelayFollowsMode, NEW m, NEW p, [mode |-> m, param |-> p] \in Config,
         Becomes(set_safety_mode(Board, m, p))
  PROVE  /\ Silent' /\ \E k \in Promise!SafetyModel : Promise!Select(k)
         /\ b'.countdown = b.countdown /\ (b'.hbLost => b.hbLost) /\ g'.mism = g.mism
<1> DEFINE s == set_safety_mode(Board, m, p)
<1>1. Board \in Boards(g.mode, g.param)
  BY BInvIsBoard
<1>2. SelectsFrom(Board, m, s)
  BY <1>1, SetModeShown
<1>4. Becomes(s)
  OBVIOUS
<1> HIDE DEF s
<1>5. Promised = Shown(Board) /\ Promised' = Shown(s) /\ (Silent' <=> SilentOff(s))
  BY <1>4, PromisedShown
<1>6. Promised' \in Promise!Selections(Promised, ModelOf(m)) /\ Silent'
  BY <1>2, <1>5, Zenon DEF SelectsFrom
<1>7. ModelOf(m) \in Promise!SafetyModel
  BY ModelsAreModels
<1>8. s.b.countdown = b.countdown /\ (s.b.hbLost => b.hbLost) /\ s.g.mism = g.mism
  BY <1>2 DEF SelectsFrom, Board
<1> QED
  BY <1>4, <1>6, <1>7, <1>8 DEF Promise!Select, Becomes

\* The 1 Hz tick. Its alarm runs at least as long as before, one tick on, and anew if
\* the tick found controls allowed or openpilot engaged; controls that stay are used,
\* or counted.
LEMMA TickShown ==
  ASSUME BTypeOK, RelayFollowsMode, Silent, Tick1Hz
  PROVE  /\ Silent' /\ Promise!Tick
         /\ \E a \in 0..CONTROLS_COUNTDOWN :
              /\ a >= Down(b.countdown) /\ (Found => a = CONTROLS_COUNTDOWN)
              /\ \/ (b'.hbLost => b.hbLost) /\ b'.countdown = a
                 \/ Spent /\ (a > 0 => b'.siren = SIREN_SECONDS)
         /\ g'.controls =>
              /\ b'.hbEngaged = b.hbEngaged
              /\ b.hbEngaged \/ (g'.mism = g.mism + 1 /\ g'.mism < MISM_LIMIT)
<1> DEFINE m == g.mode
           p == g.param
<1>1. Board \in Boards(m, p) /\ Follows(Board) /\ SilentOff(Board)
  BY BInvIsBoard DEF Silent
<1>2. PICK h \in HarnessStates, line \in BOOLEAN, can \in BOOLEAN,
           late \in SUBSET {c \in DOMAIN g.rx : HalfSecondLag(c)} :
        Becomes(OneHertz(HarnessTick(Board, h), line, can, late))
  BY DEF Tick1Hz
<1> DEFINE s == HarnessTick(Board, h)
           t == OneHertz(s, line, can, late)
<1>3. s \in Boards(m, p) /\ Follows(s)
  BY <1>1, HarnessTickFollows
<1>4. /\ Shown(s) \in {Shown(Board)} \cup Promise!Selections(Shown(Board), Shown(Board).model)
      /\ SilentOff(s)
      /\ s.b.countdown = b.countdown /\ s.b.hbEngaged = b.hbEngaged
      /\ s.g.mism = g.mism /\ (s.b.hbLost => b.hbLost)
      /\ s.b.harness = b.harness => s.g = g
  <2>1. Board.b = b /\ Board.g = g
    BY DEF Board
  <2>2. /\ Shown(s) \in {Shown(Board)}
                           \cup Promise!Selections(Shown(Board), Shown(Board).model)
        /\ SilentOff(s)
        /\ s.b.countdown = Board.b.countdown /\ s.b.hbEngaged = Board.b.hbEngaged
        /\ s.g.mism = Board.g.mism
        /\ s.b.hbLost => Board.b.hbLost
        /\ s.b.harness = Board.b.harness => s = Board
    BY <1>1, HarnessTickShown
  <2> HIDE DEF s
  <2> QED
    BY <2>1, <2>2
<1>5. Becomes(t)
  BY <1>2
<1> HIDE DEF s
<1>6. /\ Shown(t) \in Promise!Ticked(Shown(s)) /\ SilentOff(t)
      /\ t.b.harness = s.b.harness
      /\ \/ (t.b.hbLost => s.b.hbLost) /\ t.b.countdown = AlarmRuns(s)
         \/ /\ t.g.mode = "SILENT" /\ t.b.hbCounter >= HEARTBEAT_IGNITION_CNT_OFF
            /\ AlarmRuns(s) > 0 => t.b.siren = SIREN_SECONDS
      /\ t.g.controls =>
           /\ s.g.controls /\ t.b.hbEngaged = s.b.hbEngaged
           /\ s.b.hbEngaged \/ (t.g.mism = s.g.mism + 1 /\ t.g.mism < MISM_LIMIT)
  BY <1>3, <1>4, OneHertzShown
<1> HIDE DEF t
<1>7. Promised = Shown(Board) /\ Promised' = Shown(t) /\ Silent'
  BY <1>5, <1>6, PromisedShown
<1>8. Promise!Tick
  <2>1. Shown(s) \in {Promised} \cup Promise!Selections(Promised, Promised.model)
    BY <1>4, <1>7, Zenon
  <2>2. Promised' \in Promise!Ticked(Shown(s))
    BY <1>6, <1>7, Zenon
  <2> QED
    BY <2>1, <2>2, Zenon DEF Promise!Tick
<1>9. g' = t.g /\ b' = t.b
  BY <1>5 DEF Becomes
<1> DEFINE a == AlarmRuns(s)
<1>10. a \in 0..CONTROLS_COUNTDOWN /\ a >= Down(b.countdown)
  BY <1>1, <1>4 DEF AlarmRuns, Down, CONTROLS_COUNTDOWN, Boards, BoardType, Board
<1>11. Found => a = CONTROLS_COUNTDOWN
  BY <1>4, <1>6, <1>9 DEF Found, AlarmRuns
<1> HIDE DEF a
<1>12. \/ (b'.hbLost => b.hbLost) /\ b'.countdown = a
       \/ Spent /\ (a > 0 => b'.siren = SIREN_SECONDS)
  BY <1>4, <1>6, <1>9 DEF Spent, a
<1>13. g'.controls =>
         /\ b'.hbEngaged = b.hbEngaged
         /\ b.hbEngaged \/ (g'.mism = g.mism + 1 /\ g'.mism < MISM_LIMIT)
  BY <1>4, <1>6, <1>9
<1> QED
  BY <1>7, <1>8, <1>10, <1>11, <1>12, <1>13

\* The other steps, in one disjunction: they leave the alarm alone, and the count of
\* unused ticks while controls stay.
Quietly == /\ b'.countdown = b.countdown /\ (b'.hbLost => b.hbLost)
           /\ g.controls /\ g'.controls => g'.mism = g.mism
Others == \/ Tick8Hz \/ HostStops \/ RequestUnknown \/ DisableHeartbeat
          \/ \E c \in Configs : RequestMode(c)
          \/ \E e \in BOOLEAN : Heartbeat(e)
          \/ \E i, r \in BOOLEAN : DriveRelay(i, r)
          \/ \E f \in Commands : HostSend(f)
          \/ \E f \in Traffic : BusRx(f)

LEMMA OthersShown ==
  ASSUME BTypeOK, RelayFollowsMode, Silent, Others \/ UNCHANGED vars
  PROVE  Silent' /\ [Promise!Next]_Promised /\ Quietly
<1>1. Board \in Boards(g.mode, g.param) /\ SilentOff(Board)
  BY BInvIsBoard DEF Silent
<1>2. CASE Tick8Hz
  <2>1. PICK h \in HarnessStates : Becomes(HarnessTick(Board, h))
    BY <1>2 DEF Tick8Hz
  <2> DEFINE t == HarnessTick(Board, h)
  <2>2. /\ Shown(t) \in {Shown(Board)}
                           \cup Promise!Selections(Shown(Board), Shown(Board).model)
        /\ SilentOff(t)
        /\ t.b.countdown = Board.b.countdown
        /\ t.g.mism = Board.g.mism /\ (t.b.hbLost => Board.b.hbLost)
    BY <1>1, HarnessTickShown
  <2>3. Becomes(t)
    BY <2>1
  <2> HIDE DEF t
  <2>4. Promised = Shown(Board) /\ Promised' = Shown(t) /\ Silent'
    BY <2>2, <2>3, PromisedShown
  <2>5. Promised' = Promised \/ Promise!Select(Promised.model)
    BY <2>2, <2>4, Zenon DEF Promise!Select
  <2>6. Promised.model \in Promise!SafetyModel
    <3>1. Promised.model = ModelOf(g.mode)
      BY DEF Promised, ModelOf
    <3> QED
      BY <3>1, ModelsAreModels DEF BTypeOK, TypeOK
  <2>7. [Promise!Next]_Promised
    BY <2>5, <2>6, Zenon DEF Promise!Next
  <2> QED
    BY <2>2, <2>3, <2>4, <2>7 DEF Quietly, Becomes, Board
<1>3. CASE RequestUnknown
  <2>1. Becomes(set_safety_mode(Board, "SILENT", {}))
    BY <1>3 DEF RequestUnknown
  <2>2. /\ Silent' /\ \E k \in Promise!SafetyModel : Promise!Select(k)
        /\ Quietly
    BY <2>1, BootType, SwitchShown DEF Quietly
  <2> QED
    BY <2>2, Zenon DEF Promise!Next
<1>4. ASSUME NEW c \in Configs, RequestMode(c)
      PROVE  Silent' /\ [Promise!Next]_Promised /\ Quietly
  <2>1. Becomes(set_safety_mode(Board, c.mode, c.param))
    BY <1>4 DEF RequestMode
  <2>2. [mode |-> c.mode, param |-> c.param] \in Config
    BY SafetyConstants DEF Config
  <2>3. /\ Silent' /\ \E k \in Promise!SafetyModel : Promise!Select(k)
        /\ Quietly
    BY <2>1, <2>2, SwitchShown DEF Quietly
  <2> QED
    BY <2>3, Zenon DEF Promise!Next
<1>5. ASSUME NEW f \in Traffic, BusRx(f)
      PROVE  Silent' /\ [Promise!Next]_Promised /\ Quietly
  <2>1. /\ Silent' /\ [Promise!Revoke \/ Promise!Grant]_Promised
        /\ g.controls /\ g'.controls => g'.mism = g.mism
    BY <1>5, RxShown
  <2>2. [Promise!Next]_Promised
    BY <2>1, Zenon DEF Promise!Next
  <2>3. UNCHANGED b
    BY <1>5 DEF BusRx
  <2> QED
    BY <2>1, <2>2, <2>3 DEF Quietly
\* The steps that leave the mode, the controls and the mismatches alone.
<1>6. Promised = Rec(ModelOf(g.mode), g.controls, b.hbEngaged, g.mism, b.hbCounter, ~b.hbDisabled)
  BY DEF Promised, Rec, ModelOf
<1>7. b \in BoardType /\ g \in Globals(g.mode, g.param)
  BY DEF BTypeOK, TypeOK
<1>8. ASSUME g'.mode = g.mode, g'.controls = g.controls, g'.mism = g.mism
      PROVE  /\ Silent'
             /\ Promised' = Rec(ModelOf(g.mode), g.controls, b'.hbEngaged, g.mism,
                                b'.hbCounter, ~b'.hbDisabled)
  BY <1>8 DEF Promised, Rec, ModelOf, Silent, SilentOff, Board
<1>9. ASSUME g'.mode = g.mode, g'.controls = g.controls, g'.mism = g.mism,
             b'.hbEngaged = b.hbEngaged, b'.hbCounter = b.hbCounter,
             b'.hbDisabled = b.hbDisabled, b'.countdown = b.countdown, b'.hbLost = b.hbLost
      PROVE  Silent' /\ [Promise!Next]_Promised /\ Quietly
  <2>1. Promised' = Promised
    BY <1>6, <1>8, <1>9
  <2> QED
    BY <1>8, <1>9, <2>1 DEF Quietly
<1>10. ASSUME NEW e \in BOOLEAN, Heartbeat(e)
       PROVE  Silent' /\ [Promise!Next]_Promised /\ Quietly
  <2> DEFINE none == FALSE
  <2>1. /\ b'.hbCounter = 0 /\ b'.hbLost = FALSE /\ b'.hbDisabled = none /\ b'.hbEngaged = e
        /\ b'.countdown = b.countdown /\ UNCHANGED g
    BY <1>7, <1>10 DEF Heartbeat, BoardType
  <2> DEFINE w == ~none
  <2>2. w = TRUE
    OBVIOUS
  <2> HIDE DEF none, w
  <2>3. Promised' = Rec(ModelOf(g.mode), g.controls, e, g.mism, 0, w)
    BY <1>8, <2>1 DEF w
  <2>4. Promised' = PutBeat(Promised, 0, w, e)
    BY <1>6, <2>3, RecBeat
  <2>5. Promise!Heartbeat(e)
    BY <2>2, <2>4, Zenon DEF Promise!Heartbeat, PutBeat
  <2>6. [Promise!Next]_Promised
    BY <2>5, Zenon DEF Promise!Next
  <2> QED
    BY <1>8, <2>1, <2>6 DEF Quietly
<1>11. CASE DisableHeartbeat
  <2> DEFINE all == TRUE
             w == ~all
  <2>1. /\ b'.hbCounter = b.hbCounter /\ b'.hbLost = b.hbLost /\ b'.hbDisabled = all
        /\ b'.hbEngaged = b.hbEngaged /\ b'.countdown = b.countdown /\ UNCHANGED g
        /\ ~is_car_safety_mode(g.mode)
    BY <1>7, <1>11 DEF DisableHeartbeat, BoardType
  <2>2. w = FALSE
    OBVIOUS
  <2> HIDE DEF all, w
  <2>3. Promised' = Rec(ModelOf(g.mode), g.controls, b.hbEngaged, g.mism, b.hbCounter, w)
    BY <1>8, <2>1 DEF w
  <2>4. Promised' = PutWatch(Promised, w)
    BY <1>6, <2>3, RecWatch
  <2>5. Promised.model # "CAR"
    BY <2>1 DEF Promised, is_car_safety_mode, NonCarModes
  <2>6. Promise!DisableWatch
    BY <2>2, <2>4, <2>5, Zenon DEF Promise!DisableWatch, PutWatch
  <2>7. [Promise!Next]_Promised
    BY <2>6, Zenon DEF Promise!Next
  <2> QED
    BY <1>8, <2>1, <2>7 DEF Quietly
<1>12. ASSUME NEW i \in BOOLEAN, NEW r \in BOOLEAN, DriveRelay(i, r)
       PROVE  Silent' /\ [Promise!Next]_Promised /\ Quietly
  <2> DEFINE d == SetRelay(b, i, r)
  <2>1. /\ d \in BoardType /\ d.hbEngaged = b.hbEngaged /\ d.hbDisabled = b.hbDisabled
        /\ d.hbCounter = b.hbCounter /\ d.hbLost = b.hbLost /\ d.countdown = b.countdown
    BY <1>7, SetRelayType
  <2>2. b' = [d EXCEPT !.byHost = TRUE] /\ UNCHANGED g
    BY <1>12 DEF DriveRelay
  <2> HIDE DEF d
  <2>3. /\ b'.hbEngaged = d.hbEngaged /\ b'.hbDisabled = d.hbDisabled
        /\ b'.hbCounter = d.hbCounter /\ b'.hbLost = d.hbLost /\ b'.countdown = d.countdown
    BY <2>1, <2>2 DEF BoardType
  <2> QED
    BY <1>9, <2>1, <2>2, <2>3
<1>13. ASSUME NEW f \in Commands, HostSend(f)
       PROVE  Silent' /\ [Promise!Next]_Promised /\ Quietly
  <2>1. g' = safety_tx_hook(g, f) /\ UNCHANGED b
    BY <1>13 DEF HostSend, CanTx
  <2>2. g'.controls = g.controls /\ g'.mism = g.mism
    BY <1>7, <2>1, WindowKeeps
  <2>3. g' \in Globals(g.mode, g.param)
    BY <1>7, <2>1, WindowType
  <2>4. g'.mode = g.mode
    BY <2>3, Fields
  <2> QED
    BY <1>9, <2>1, <2>2, <2>4
<1>14. CASE HostStops \/ UNCHANGED vars
  BY <1>9, <1>14 DEF HostStops, vars
<1> QED
  BY <1>2, <1>3, <1>4, <1>5, <1>10, <1>11, <1>12, <1>13, <1>14 DEF Others

LEMMA ResetShown ==
  ASSUME Reset
  PROVE  Silent' /\ Promise!Restart /\ b'.hbLost = FALSE /\ g'.controls = FALSE
<1>1. g' = BootGlobals /\ b' = BootBoard
  BY DEF Reset
<1>2. /\ g'.mode = "SILENT" /\ g'.controls = FALSE /\ g'.mism = 0
      /\ b'.hbEngaged = FALSE /\ b'.hbCounter = 0 /\ b'.hbDisabled = FALSE /\ b'.hbLost = FALSE
  BY <1>1 DEF BootGlobals, BootBoard
<1>3. Promised' = Promise!Boot
  BY <1>2 DEF Promised, Promise!Boot, is_car_safety_mode, NonCarModes
<1> QED
  BY <1>2, <1>3 DEF Silent, SilentOff, Board, Promise!Restart

LEMMA PromiseStep ==
  BInv /\ Silent /\ [BNext]_vars => Silent' /\ [Promise!Next]_Promised
<1> SUFFICES ASSUME BTypeOK, RelayFollowsMode, Silent, [BNext]_vars
             PROVE  Silent' /\ [Promise!Next]_Promised
  BY DEF BInv
<1>1. CASE Tick1Hz
  <2>1. Silent' /\ Promise!Tick
    BY <1>1, TickShown
  <2> QED
    BY <2>1, Zenon DEF Promise!Next
<1>2. CASE Reset
  <2>1. Silent' /\ Promise!Restart
    BY <1>2, ResetShown
  <2> QED
    BY <2>1, Zenon DEF Promise!Next
<1>3. CASE Others \/ UNCHANGED vars
  BY <1>3, OthersShown
<1>4. Tick1Hz \/ Reset \/ Others \/ UNCHANGED vars
  BY DEF BNext, Others
<1> QED
  BY <1>1, <1>2, <1>3, <1>4

LEMMA BootIsGood == BInit => BInv /\ Silent /\ Promise!Init
<1>1. BInit => BInv
  BY BootFollows, BootType, BootBoardType, Fields
     DEF BInit, Init, BInv, BTypeOK, TypeOK, RelayFollowsMode, Follows
<1>2. ASSUME BInit PROVE Silent /\ Promise!Init
  <2>1. g = BootGlobals /\ b = BootBoard
    BY <1>2 DEF BInit, Init
  <2>2. /\ g.mode = "SILENT" /\ g.controls = FALSE /\ g.mism = 0
        /\ b.hbEngaged = FALSE /\ b.hbCounter = 0 /\ b.hbDisabled = FALSE
    BY <2>1 DEF BootGlobals, BootBoard
  <2>3. Promised = Promise!Boot
    BY <2>2 DEF Promised, Promise!Boot, is_car_safety_mode, NonCarModes
  <2> QED
    BY <2>2, <2>3 DEF Silent, SilentOff, Board, Promise!Init
<1> QED
  BY <1>1, <1>2

\* For every set of modes, frames and plugs, the board keeps the panda's promises:
\* controls are allowed in a car's mode only, expire when they are unused, and a host
\* that goes silent loses the car no later than the fifth tick. Every initial state maps
\* to PandaPromise's, every handler to one of its steps or to none; the invariant of
\* RelayIsTheModes and SILENT's lack of controls carry the argument.
THEOREM PromiseIsKept == BSpec => KeepsPromise
<1>1. BInit => BInv /\ Silent /\ Promise!Init
  BY BootIsGood
<1>2. BInv /\ Silent /\ [BNext]_vars => BInv' /\ Silent' /\ [Promise!Next]_Promised
  BY BNextInv, PromiseStep
<1> QED
  BY <1>1, <1>2, PTL DEF BSpec, KeepsPromise, Promise!Spec

---------------------------------------------------------------------------
(* What the driver observes: MCPandaBoard's three witnesses                *)

\* The ticks that unused controls have lasted are among those the panda has counted.
IdleInv == /\ idle \in Nat
           /\ idle # 0 => /\ g.controls /\ ~b.hbEngaged
                          /\ idle <= g.mism /\ idle < MISM_LIMIT

\* The countdown of the alarm has run for sinceOn ticks at most.
AlarmInv == /\ sinceOn \in 0..OffTicks
            /\ b.countdown + sinceOn >= CONTROLS_COUNTDOWN

LEMMA MCNextIsNext == [MCNext]_mcvars => [BNext]_vars
  BY DEF MCNext, mcvars, BNext, vars

LEMMA MCNextCases ==
  ASSUME [MCNext]_mcvars
  PROVE  \/ Tick1Hz /\ Watch(TRUE)
         \/ Reset /\ idle' = 0 /\ sinceOn' = OffTicks
         \/ Others /\ Watch(FALSE)
         \/ UNCHANGED mcvars
  BY DEF MCNext, Others

LEMMA IdleStep ==
  ASSUME BTypeOK, RelayFollowsMode, Silent, IdleInv, [MCNext]_mcvars
  PROVE  IdleInv'
<1>1. g.mism \in 0..MISM_LIMIT
  BY DEF BTypeOK, TypeOK, Globals
<1>2. CASE Tick1Hz /\ Watch(TRUE)
  <2>1. g'.controls =>
          /\ b'.hbEngaged = b.hbEngaged
          /\ b.hbEngaged \/ (g'.mism = g.mism + 1 /\ g'.mism < MISM_LIMIT)
    BY <1>2, TickShown
  <2>2. idle' = IF ~g'.controls \/ ~g.controls \/ b'.hbEngaged THEN 0
                ELSE IF ~b.hbEngaged THEN idle + 1 ELSE idle
    BY <1>2 DEF Watch
  <2> QED
    BY <1>1, <2>1, <2>2 DEF IdleInv, MISM_LIMIT
<1>3. CASE Reset /\ idle' = 0 /\ sinceOn' = OffTicks
  BY <1>3 DEF IdleInv
<1>4. CASE Others /\ Watch(FALSE)
  <2>1. Quietly
    BY <1>4, OthersShown
  <2>2. idle' = IF ~g'.controls \/ ~g.controls \/ b'.hbEngaged THEN 0 ELSE idle
    BY <1>4 DEF Watch
  <2> QED
    BY <2>1, <2>2 DEF IdleInv, Quietly
<1>5. CASE UNCHANGED mcvars
  BY <1>5 DEF mcvars, vars, IdleInv
<1> QED
  BY <1>2, <1>3, <1>4, <1>5, MCNextCases

LEMMA AlarmStep ==
  ASSUME BTypeOK, RelayFollowsMode, Silent, AlarmInv, BTypeOK', [MCNext]_mcvars
  PROVE  /\ AlarmInv'
         /\ b'.hbLost /\ ~b.hbLost /\ (Found \/ sinceOn < CONTROLS_COUNTDOWN - 1) =>
              b'.siren = SIREN_SECONDS
<1> USE DEF OffTicks, CONTROLS_COUNTDOWN
<1>1. b.countdown \in 0..CONTROLS_COUNTDOWN /\ b'.countdown \in 0..CONTROLS_COUNTDOWN
  BY DEF BTypeOK, BoardType
<1>2. CASE Tick1Hz /\ Watch(TRUE)
  <2>1. PICK a \in 0..CONTROLS_COUNTDOWN :
          /\ a >= Down(b.countdown) /\ (Found => a = CONTROLS_COUNTDOWN)
          /\ \/ (b'.hbLost => b.hbLost) /\ b'.countdown = a
             \/ Spent /\ (a > 0 => b'.siren = SIREN_SECONDS)
    BY <1>2, TickShown
  <2>2. sinceOn' = IF Spent THEN OffTicks ELSE IF Found THEN 0
                   ELSE IF sinceOn < OffTicks THEN sinceOn + 1 ELSE sinceOn
    BY <1>2 DEF Watch
  <2>3. AlarmInv'
    BY <1>1, <2>1, <2>2 DEF AlarmInv, Down
  <2>4. Found \/ sinceOn < CONTROLS_COUNTDOWN - 1 => a > 0
    BY <1>1, <2>1 DEF AlarmInv, Down
  <2> QED
    BY <2>1, <2>3, <2>4
<1>3. CASE Reset /\ idle' = 0 /\ sinceOn' = OffTicks
  <2>1. b'.hbLost = FALSE
    BY <1>3, ResetShown
  <2>2. AlarmInv'
    BY <1>1, <1>3 DEF AlarmInv
  <2> QED
    BY <2>1, <2>2
<1>4. CASE Others /\ Watch(FALSE)
  <2>1. Quietly
    BY <1>4, OthersShown
  <2>2. sinceOn' = sinceOn
    BY <1>4 DEF Watch
  <2> QED
    BY <1>1, <2>1, <2>2 DEF AlarmInv, Quietly
<1>5. CASE UNCHANGED mcvars
  BY <1>5 DEF mcvars, vars, AlarmInv
<1> QED
  BY <1>2, <1>3, <1>4, <1>5, MCNextCases

LEMMA MCInitIsGood == MCInit => BInv /\ Silent /\ IdleInv /\ AlarmInv
  BY BootIsGood DEF MCInit, IdleInv, AlarmInv, OffTicks, CONTROLS_COUNTDOWN, BInv, BTypeOK,
     BoardType

\* Controls that openpilot does not use are taken away: they never outlive the third
\* tick in a row without an engaged heartbeat, whatever else the host, the car and the
\* plug do in between. Inductive with IdleInv.
THEOREM UnusedControlsEnd == MCSpec => []UnusedControlsExpire
<1>1. MCInit => BInv /\ Silent /\ IdleInv
  BY MCInitIsGood
<1>2. BInv /\ Silent /\ IdleInv /\ [MCNext]_mcvars => BInv' /\ Silent' /\ IdleInv'
  BY MCNextIsNext, BNextInv, PromiseStep, IdleStep DEF BInv
<1>3. IdleInv => UnusedControlsExpire
  BY DEF IdleInv, UnusedControlsExpire, MISM_LIMIT
<1> QED
  BY <1>1, <1>2, <1>3, PTL DEF MCSpec

\* The driver is warned: a heartbeat that is lost while controls are allowed or
\* openpilot is engaged, or within four ticks of that, starts the siren. Inductive with
\* AlarmInv: countdown and witness always make up the five ticks.
THEOREM LossIsHeard == MCSpec => LossSoundsSiren
<1>1. MCInit => BInv /\ Silent /\ AlarmInv
  BY MCInitIsGood
<1>2. BInv /\ Silent /\ AlarmInv /\ [MCNext]_mcvars => BInv' /\ Silent' /\ AlarmInv'
  BY MCNextIsNext, BNextInv, PromiseStep, AlarmStep DEF BInv
<1>3. BInv /\ Silent /\ AlarmInv /\ BInv' /\ [MCNext]_mcvars =>
        [ b'.hbLost /\ ~b.hbLost /\ (Found \/ sinceOn < CONTROLS_COUNTDOWN - 1) =>
            b'.siren = SIREN_SECONDS ]_mcvars
  BY AlarmStep DEF BInv
<1> QED
  BY <1>1, <1>2, <1>3, PTL DEF MCSpec, LossSoundsSiren
=============================================================================
