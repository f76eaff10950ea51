# A verification project for bukapilot

bukapilot is an openpilot fork for the KA2 device and cars of BYD, Perodua/Toyota
(DNGA), Proton, Chery and others. This directory holds TLA+ modules translated from its
source, TLC configurations that model-check them on small instances, and theorems that
TLAPS checks for every value of the constants. File names below are relative to the
repository's root.

Contents: 1 the system, 2 the modules, 3 the runs, 4 fairness, 5 the proofs, 6 where the
code and its documentation disagree, 7 abstractions and what is not modelled, 8 the plan.

---------------------------------------------------------------------------------------

## 1. The system

A car's CAN buses end in the **panda**, a microcontroller between the car and its camera.
It forwards the two sides' messages to each other, and lets the device's messages through
as far as its *safety mode* allows. On the device **pandad** carries CAN frames between
the panda and the messaging queues (**msgq**), publishes what the panda reports and sends
it heartbeats. **card** turns CAN into `carState` and `carControl` into CAN.
**selfdrived** decides from `carState`, `pandaStates` and everybody's health whether
openpilot is engaged. **controlsd**, the planners and the models compute what it does
when it is. **manager** starts and stops the processes, **Params** stores what they
share.

| component | state it keeps | operations | how it interacts |
|---|---|---|---|
| CAN safety core (`opendbc/safety/safety.h`) | `controls_allowed`, pedals, moving, relay malfunction, per-message rx status, the mode's tables and flags | rx, tx, fwd hooks; 1 Hz tick; mode switch | called by the panda's interrupts and requests; calls the mode's hooks |
| safety modes (`opendbc/safety/modes`) | statics of a mode: flags of a parameter, debounce counts, ages of spoofed messages | the mode's rx, tx, fwd, init | read and write the core's globals |
| steering limits (`lateral.h`, `helpers.h`) | last desired torque or angle, samples of the driver's and motor's torque, rate-limit window | one check per command | called by a mode's tx hook |
| panda board (`main.c`, `main_comms.h`, `harness.h`) | heartbeat, siren, relay and who drove it, harness orientation | 8 Hz and 1 Hz tick, control requests (0xc5 drives the relay) | requests over USB/SPI; relay and transceivers |
| CAN queues of the panda (`can_common.h`, `can_comms.h`, `fdcan.h`) | ring queues, the tail of a frame that was cut, the controller's FIFO | interrupts, packing | between bus and host |
| SPI link (`spi.h`; `spi.cc`, `panda.cc`) | DMA buffers, protocol state, `spi_can_tx_ready`; `receive_buffer`, `comms_healthy` | bursts, acknowledgements, retries, reset | the host's threads share one bus under a lock |
| msgq | ring buffer in shared memory, reader slots, uids, read and write pointers | init publisher/subscriber, send, recv | lock-free between processes that may die |
| pandad | safety_configured, engaged, is_onroad | CAN loop; 10 Hz: panda state, heartbeat, safety mode | panda requests, msgq, Params |
| card | last CarState, ControlsReady | 100 Hz step | CAN in, `carState` out; `carControl` in, CAN out |
| selfdrived | state machine, soft disable timer, mismatch counter, alerts | 100 Hz step | reads nearly every service |
| controlsd, plannerd, lane change, cruise speed | filters, PID, small state machines | 100/20 Hz steps | `carState`, `selfdriveState` in, `carControl` out |
| Params (`common/params.cc`) | one file per key, a queue and a thread for later writes | get, put, remove, putNonBlocking, readAll, clearAll | all processes, with locks and renames |
| manager, hardwared | processes, on/off-road conditions | ensure_running, 2 Hz status | starts, stops, kills |
| loggerd, uploader, deleter | segments on disk | rotate, upload, delete | file locks |
| modeld, locationd, monitoring | network and filter state | numerical | msgq |

### What is hard

* **Order within a handler and between handlers.** A rx hook grants controls and the next
  line may take them away; a tick falls between two frames; a host request replaces the
  mode between two ticks.
* **Two deciders.** The panda and selfdrived decide separately whether openpilot may
  control the car, from differently sampled inputs. Each must give up when the other does.
* **Crashes without restarts, restarts without state.** The manager does not restart
  selfdrived or card; pandad is restarted by its own script and forgets what it
  configured; the panda restarts and forgets everything.
* **Lock-free shared memory.** msgq's publisher overwrites what a subscriber is reading.
* **A link that loses its place.** After a damaged burst, or a pandad that died in the
  middle of one, the panda takes bytes for something they are not, and both sides must
  find each other again without sending twice, or joining halves of two frames.
* **Files under power failure.** Params' writes are several system calls, of processes that
  die, on a disk that keeps only what was synced.
* **Counters at boundaries.** Debounce counts, wrong-counter scores, rate-limit windows.
* **Samples and delays.** Torque limits look at the least and greatest of the last
  samples, angle limits at the angle commanded last.

### What makes each component correct

* safety core and modes: the brake wins over everything a frame can grant; controls are
  granted only by the driver; a message that is gone keeps withdrawing them; frames that
  fail their checks teach the panda nothing; where the code divides the commands between
  openpilot and the camera, they never both command.
* board: the relay follows the mode, unless the host drives it itself; a silent host loses the car; unused controls expire.
* limits: torque needs time to rise, fights are given up, the angle follows the wheel.
* msgq: what recv returns was sent, whole and in order; between two messages recv returns;
  slots are counted.
* link: frames arrive whole and in order, a frame goes to the bus once per fault at most,
  an answer belongs to its request, every transfer ends.
* Params: a key has a value that somebody wrote, and keeps what was acknowledged.
* selfdrived: engages only by an act of the driver; ends when the brake, a soft disable
  that lasts, or a panda that disagrees says so.
* together: neither the panda nor openpilot goes on for good without the other.

`PROJECT.json` lists the hazards of the code, each at its line, with the properties that
would catch it going wrong.

---------------------------------------------------------------------------------------

## 2. The modules

```
 SafetyModes <- SafetyHooks <- PandaBoard ..implements..> PandaPromise <.. Engagement
                     ^             ^                                          |
               MCKa2Hooks    MCPandaBoard                                     v
                                                StateMachine <- Selfdrived <--+
 Samples <- TorqueLimits <- MCTorqueLimits <- MCSteering         ^
        \<- AngleLimits  <- MCAngleLimits  <--/              CarEvents ..implements..> DriverConsent
                                                                 ^
 CanQueues <- SpiLink <- MCSpiLink                           MCCarEvents
 Msgq <- MCMsgq
 Params ..implements..> ParamStore;  Params <- MCParams
 AngleCases (the instances of the angle limits) is used by MCAngleLimits and MCSteering
 *_proofs EXTENDS the module it is named for; PandaBoard_proofs, Ka2Hooks_proofs and
 CarEvents_proofs extend its MC module, Steering_proofs extends MCSteering
```

**SafetyModes** (`opendbc/safety/modes/{byd,dnga,proton,chery,perodua_qve,elm327,defaults}.h`).
A mode is a table of operators over its parameter: which messages its `rx_checks` and
`tx_msgs` list, what its rx, tx and fwd hooks do. A frame is a record that says what its
bytes mean to the hook (brake pressed, ACC engaged, button, grant) instead of the bytes.

**SafetyHooks** (`opendbc/safety/safety.h`). The globals are one record `g`. Each function
of the source is an operator from `g` to `g` under its own name (`safety_rx_hook`,
`generic_rx_checks`, `safety_tx_hook`, `safety_fwd_hook`, `safety_tick`,
`set_safety_hooks`); the actions `CanRx`, `CanTx`, `SafetyTick` and `SetSafetyHooks` are
the ways in. All the panda's interrupts have one priority, so a handler is one action.

**PandaBoard** (`panda/board/main.c`, `main_comms.h`, `drivers/harness.h`). Adds the board
`b` and `hostUp`. `Tick8Hz` and `Tick1Hz` are `tick_handler`, with the harness first, as in
the code; `RequestMode`, `Heartbeat`, `DisableHeartbeat`, `DriveRelay` (0xc5, by which a host
sets the relay in any mode) are control requests; `Reset` any reset, `BusRx` a frame on a bus.
`b.driven` is what the relay's pin was told, `b.relay` that a harness is there to switch,
`b.byHost` that 0xc5 set it since the mode was last set up.

**PandaPromise** is the abstract panda: what it promises host and driver whichever car it
is in. `PandaBoard` implements it (run `panda_board`, property `KeepsPromise`), and
`Engagement` is built on it, so what is checked there does not depend on a car.

**Samples, TorqueLimits, AngleLimits** (`helpers.h`, `lateral.h`). A command's check with
everything it reads and updates; the last samples of a measurement; the window of the
real-time limit; and in AngleLimits the rate limits of speed.

**Msgq** (`msgq_repo/msgq/msgq.cc`). Every load and store of shared memory is a step. A
process is at the label of the next one (`pc`); a subscriber's copy is made a word at a
time, and a publisher works from the copy of the write pointer (`at`) it loaded at the start
of a message. Publishers start, are replaced and die, subscribers evict each other.

**CanQueues** (`can_comms.h`, `drivers/can_common.h`, `drivers/fdcan.h`). The queues are one
record `q`, each function of the source an operator on it under its own name. A frame for
the host is two units, because a transfer may end within it. **SpiLink** (`drivers/spi.h`,
`spi.cc`, `panda.cc`, the CAN threads of `pandad.cc`) adds the link: `panda` is the DMA
buffer it waits to fill or to empty and what it makes of it, `turn` the attempt that holds
the lock, `th` the two threads. Each burst is a step, each run of `spi_rx_done` is one
(`Header`, `ControlHandler`, `CanRead`, `CanWrite`, `CanNack`), so that CAN interrupts and
the other thread fall between. A burst that the panda does not expect leaves it in any of
the states that the number of its bytes can lead to (`Strewn`, `StrewnLong`).

**Params** (`common/params.cc`). Every process has a thread that calls and, from its first
putNonBlocking on, a writer; a thread's `pc` is the system call it makes next. `dir` is what
the directory shows, `disk` what it may show after a power failure: an entry may be any
since the directory was synced, and the content of a file that was not synced any part of
it. **ParamStore** is what it promises: a register per key, of which a power failure may
take back what was not acknowledged.

**StateMachine** (`selfdrived/state.py`) is pure: `update(m, E)`. **Selfdrived**
(`selfdrived.py`, `car_specific.py`) is one frame of selfdrived: the events of ACC and
brake, `controlsMismatch`, the age of `pandaStates`; every other condition is one member of
`Others`, any combination of event types a condition can add. **CarEvents** (`car/card.py`)
puts the car, card's sampling and the `carState` queue in front, and implements
**DriverConsent**, which says what a driver may expect: openpilot engages by using up an
act of the driver's own.

**Engagement** (`pandad.cc`, `panda_safety.cc`, `pandad.py`) composes PandaPromise, pandad
and Selfdrived. pandad's 10 Hz pass is three steps (`ReadPanda` or `ReadFails`, `Beat`,
`Configure`), so that the panda's ticks and selfdrived's frames fall in between; it ends in
the ways the code has (crash, lost panda, told to exit) and starts again without what it
knew. What the car reports is any CarState after any other: `AnyRaised` holds one
representative of each set of events the state machine can tell apart, and
`AnyRaisedIsAny`, which TLC evaluates, says that there are no others.

MC modules define the instance (which parameters, which messages) and record what a
property must remember in history variables, which nothing else reads. Three of them hold
two instances, of which a behaviour takes one by its initial state: MCKa2Hooks a BYD (or DNGA),
a Proton or a Chery car, MCSteering a torque or an angle limiter, MCMsgq a small queue that is lapped
or a crowded one.

---------------------------------------------------------------------------------------

## 3. The runs

| run | what it is | distinct states | checks |
|---|---|---|---|
| `ka2_hooks` | BYD with parameters {} and 1..5, DNGA, Proton with damaged frames, Chery and its Tiggo, SILENT; ticks and mode changes anywhere | 160,806 | BrakeStopsMoving, OneSource, ProtonDebounce, GrantNeedsDriver, InvalidFramesTeachNothing, LagKeepsInterrupting |
| `panda_board` | the board in Chery, NOOUTPUT, ELM327, ALLOUTPUT; plug in and out; a host that drives the relay, and dies | 236,068 | RelayFollowsMode, UnusedControlsExpire, LossSoundsSiren, DeadHostReleasesCar, KeepsPromise |
| `steering_limits` | motor and driver torque limits; angle limits as most brands use them, and BYD's | 182,938 | RampTakesTime, FightIsGivenUp, AngleFollowsWheel, RiseLimited, CutsAreRare, SteersFromWhereItIs, RefusalDoesNotStick |
| `msgq` | a publisher laps a subscriber; two subscribers, one slot, two publishers | 639,052 | ReturnedWhole, SlotsAreCounted, InOrder, CallsReturn |
| `can_link` | two transfers to the car, frames from it, one fault | 143,109 | WholeInOrder, NothingLost, WriteFits, OncePerFault, GenuineAnswer, LinkRecovers |
| `car_events` | car, card, queue, selfdrived; any pandaStates | 174,432 | SoftDisableEnds, MismatchGivesUp, ConsentGiven, BrakeDisengages |
| `engagement` | panda, pandad, selfdrived | 143,534 | NotAllowedEndsIt, UnusedControlsEnd, GivenUpIsFinal |
| `params` | two processes and a writer, two keys, one fault | 101,432 | NeverTorn, AcknowledgedStays, Snapshot, ActsAsStore, WriterCatchesUp |
| `byd_cancel`, `angle_reset`, `msgq_start`, `params_exit` | disagreements, section 6 | | one property each, violated |

The type invariants are theorems (section 5) and no run spends time on them.

What the passing runs show, in words:

* **BrakeStopsMoving, GrantNeedsDriver, LagKeepsInterrupting, OneSource.** Over every order
  of pedal, ACC, button and speed frames, ticks and mode changes: a braking driver in a
  moving car has controls taken away whatever the same frame grants; controls come back only
  with an edge of the ACC or a button (or the relaxed engagement a parameter asks for); a
  required message that is gone takes them away at every tick.
  **OneSource** says no more than the code does, which differs from car to car. The steering
  and ACC commands of BYD and DNGA, Chery's LANE_KEEP and, while controls are allowed, the
  Tiggo's two messages are the host's or the camera's in every state, whichever parameter
  divides them. Proton's two (`proton.h:174` disables static blocking) have both sources: after
  a command of the host the next three frames of the camera's with its address are held back,
  whatever is sent, refused, damaged or heard in between; then they pass again, as they do
  after a change of mode. Nothing is said of the Tiggo without controls, where both may send,
  or of the QVE, whose host sends towards the camera.
* **ProtonDebounce, InvalidFramesTeachNothing.** Five frames of an ACC that is off, in a
  row, disengage; fewer do not; and a frame that fails its checks changes nothing except
  that it may withdraw controls.
* **RelayFollowsMode, UnusedControlsExpire, LossSoundsSiren, DeadHostReleasesCar,
  KeepsPromise.** The relay is driven exactly in modes that drive it, also when the plug
  comes later, unless the host has set it by 0xc5 since the mode was last set up (a relay
  driven that way in SILENT stays driven when the host dies: `main.c:231` changes the mode
  only if it is another); controls openpilot does not use are gone after three ticks; a host lost soon
  after controls were allowed sounds the siren; a host that stops loses the car for good;
  and all of it is what PandaPromise says.
* **RampTakesTime, RiseLimited, CutsAreRare, FightIsGivenUp** and **AngleFollowsWheel,
  SteersFromWhereItIs, RefusalDoesNotStick.** Torque rises no faster than the real-time
  window allows, over windows that follow each other; with a motor's limits, a
  motor that does not follow a positive command brings it down to the allowed error; a refused
  command leaves a state from which the next small command is accepted.
* **ReturnedWhole, InOrder, SlotsAreCounted, CallsReturn.** As section 1 says of msgq.
  CallsReturn is followed in the queue that is lapped, the other three in both. It says that a
  call which has to start over ends before the publisher's next message, or that there is a
  next message: a publisher that laps the reader at every attempt sends `msgq_msg_recv` back
  to `start` without end, and nothing in the code bounds that.
* **WholeInOrder, NothingLost.** What pandad publishes is what the panda queued, in order and
  never joined from halves; without a fault every frame is somewhere on its way.
  **GenuineAnswer**: a transfer succeeds only with the answer the panda gave to it in this
  attempt, whatever an earlier attempt or an earlier pandad has left in the panda.
  **WriteFits**: a transfer that is taken is queued whole, unless frames were forwarded
  since room was found. **OncePerFault**: a write that is refused is sent once, one whose
  acknowledgement is lost once more. **LinkRecovers**: every transfer ends, refused writes
  when the bus has sent enough, and damaged ones after the two sides have found each other.
* **NeverTorn, AcknowledgedStays, Snapshot, ActsAsStore.** As section 1 says of Params, with
  a system call failing, a process dying or the power failing at any step.
  AcknowledgedStays is about crashes and power failures: changes are numbered as they are
  made. **WriterCatchesUp**: what is queued while the writer runs is written or fails, once
  callers stop (`MAX_CALLS`); the moment in which the writer ends is `params_exit`'s.
* **ConsentGiven.** Counting the turnings-on of the ACC still on their way through card and
  queue, each engagement uses one that no engagement used before, however samples are
  merged, delayed or lost. **BrakeDisengages**, **SoftDisableEnds**, **MismatchGivesUp**:
  the brake wins in its own frame, CAN errors included; a soft disable ends after its time
  whatever overrides come; a disagreeing panda ends the engagement at the limit.
* **NotAllowedEndsIt, UnusedControlsEnd, GivenUpIsFinal.** If the panda stays without
  controls, for whatever reason, openpilot does not stay active; if selfdrived crashed or is
  not engaged, the panda does not keep controls; a panda that gave up the car under a pandad
  that has configured it stays out of the car, and openpilot with it.

### Bounds, and why they are enough

Every bound is a named constant or definition. `CNT_CAP`, `HB_CAP`, `MISM_LIMIT`,
`SINCE_CAP`, `RT_AGE_CAP`, `FREED_CAP`: a counter is saturated where the code stops telling
values apart. `LagSeconds`: a message's age counts to the second in which it lags. `OffTicks`:
ticks, as long as the countdown. `FAR`: the largest distance of a command from the wheel. Torques are -1..7 and angles -4..4 around limits of 1 to 5, so
that every comparison is met with less, equal and more; `MAX_SAMPLE_VALS` is 2 of 6, where
least and greatest differ. `msgq`: `SIZE` 9 and messages of 1 or 2 words let the
publisher wrap at every remainder and lap a reader (`MAX_MSGS` 4, which is not what ends a
call: CallsReturn asks for the end before each next message); one publisher may die per
successor. `car_events`: limits of 2 frames (200, 300 and 100 in the code) let a count
start, go on and be cut short; a `QUEUE` of 2 can be empty, delayed and lost. `engagement`:
the same, `EXPIRE` 1 of 3 ticks (that it counts right is `panda_board`'s matter),
`LOSE_FROM`/`LOSE_BY` 1 and 2 of 2 and 5, `MAX_EXITS` 1 ending of pandad, which is once with and once without what it had configured.
`can_link`: three frames in two transfers, one of them blocked by the safety mode; the
controller has one slot, as in the code, and the transmit queue has one (416 in the code), so
that a write is refused until the bus has sent; answers end within a frame (`XFER` 3, `RECV` 5 units) and
take more than one request; `MAX_FAULTS` 1 damaged burst, late answer or crash, wherever,
after which the panda may be in any state; `NACKS` 1 for 3 and `TIMEOUTS` 0 for 5, counters that
only lengthen the way out; `MAX_BUS` 1 frame from the car, which is forwarded.
`params`: `MAX_CALLS` 3 changes by two processes, so that one can come between any two
steps of another, and `MAX_FAULTS` 1; a second power failure finds a disk as the first left it.

---------------------------------------------------------------------------------------

## 4. Fairness

* `FairSpec` (SafetyHooks), `FairBSpec` and the MC modules of the board: weak fairness of
  the 1 Hz tick, a hardware timer. Nothing is assumed of frames or the host.
* Msgq: weak fairness of the steps of a running process, which the scheduler guarantees;
  none of starting, sending or calling recv.
* SpiLink: weak fairness of the panda's interrupts, of the bus (a frame is sent or
  given up) and of pandad's threads together; strong fairness of the lock for each thread
  (`std::recursive_mutex` and `flock` between threads that yield after each attempt). Bursts
  after a failure meet the panda at a place that is a matter of timing; strong fairness says
  that they meet it at each place sometimes: that a header it began to wait for in the middle
  of bytes is filled at some time, and that the last wait for NACK leaves it ready at some
  time. Nothing is assumed of faults, callers or crashes.
* Params: weak fairness of every thread's steps, strong fairness of getting the lock (flock
  queues those who wait); none of calls, destruction, faults.
* Engagement: weak fairness of pandad's pass while it is up, of selfdrived's loop while it
  is up, and of the panda's timer. That pandad is started again is not assumed.

All liveness properties hold for a process that stays up: a crashed one is stuck, and the
properties say what the others then do.

---------------------------------------------------------------------------------------

## 5. The proofs

TLAPS proves, for every set of configurations, messages and commands the constants allow,
35 theorems a reader should know of; 32 of them state a property that a run checks. What they assume of the
constants is in the named `ASSUME`s, which TLC evaluates on every run:
`SafetyConstants`, `HarnessConstants`, `SampleConstants`, `TorqueConstants`,
`SoftDisableConstant`, `SelfdrivedConstants`, `CarEventsConstants`, `QueueConstants`,
`LinkConstants`, `MsgqConstants` and `ParamsConstants` are types, limits that are natural numbers, and what
the code asserts of its sizes; `WatchConstants` and `AngleConstantsFit` say that the bounds of history
variables are numbers, and large enough for the instance.

* `SafetyHooks_proofs`: **TypeCorrect**, the type of all of `g` under every hook of every
  mode, by one lemma per function; **BrakeWins** (`BrakeStopsMoving`), which needs only the
  types, because `generic_rx_checks` runs after every mode's hook; **GrantIsTheDrivers**
  (`GrantNeedsDriver`), an action property. `ExclusivesKept` compares the forward and transmit
  decisions of one state, and is half of NoTwoSources.
* `Ka2Hooks_proofs`: **RefusedTeachesNothing** (`InvalidFramesTeachNothing`), mode by mode:
  forwarding, sending and ticking only withdraw (`Leaves`), and the receive path of a frame
  that fails its checks ends before the mode's hook. **AccIsDebounced** (`ProtonDebounce`)
  by `DebounceInv`: as long as its ACC has been seen, Proton's own count is that of the
  idle frames in a row, and at five of them controls are gone unless a button came since.
  **NoTwoSources** (`OneSource`) by `WindowInv`: as long as the observer has counted fewer than
  three frames of Proton's camera since the host's command, the mode's own window for that
  address has what is left of them.
* `PandaBoard_proofs`: **RelayIsTheModes** (`RelayFollowsMode`), by the invariant `BInv ==
  BTypeOK /\ RelayFollowsMode`, under every request, 0xc5 included. The types are needed because a mode switch that happens
  inside the heartbeat's loss and inside the harness's change must find a board.
  **PromiseIsKept** (`KeepsPromise`): the board implements PandaPromise. Each action is shown to be one
  of the abstract panda's, or a stutter, from `BInv` and `Silent`, that modes
  which are no car's never allow controls; with it what the run `engagement` assumes of the
  panda holds of any mode. **UnusedControlsEnd** (`UnusedControlsExpire`) by `IdleInv`: the
  ticks an observer counts are among those the panda counted. **LossIsHeard**
  (`LossSoundsSiren`) by `AlarmInv`: the countdown and the time since controls were last
  used add up to its start.
* `Steering_proofs`, of torque: **TypeCorrect**, and **TorqueRisesSlowly** (`RiseLimited`). The
  property compares what was sent with what is sent next, the code compares with what it
  remembers; `Remembers` (the last desired torque is what was sent last, or 0) closes the
  gap, and `IInv == TypeOK /\ Remembers` is inductive. **MotorFightEnds**
  (`FightIsGivenUp`), inductive once the count of commands has its type. **CutsStayRare** (`CutsAreRare`) by
  `Counted`, the code's two counters against what was sent. **RampsSlowly**
  (`RampTakesTime`) by `Ramps`: what the base of the window can have reached depends on
  when the window began, `since - rtAge` ago, in whole intervals.
  Of angles: **SteeringStartsAtWheel** (`SteersFromWhereItIs`) by `StartInv`, the
  last angle is the one sent or the wheel's at the last judgement; **RefusalEnds**
  (`RefusalDoesNotStick`) by `RefusedInv`, it is zero after a refusal by limits that start
  over at zero; **CommandFollowsWheel** (`AngleFollowsWheel`) by `FollowInv`: it is no
  further from a wheel at rest than the commands sent since leave, by arithmetic on
  the two tables of rates that lateral.h interpolates and relaxes.
* `CarEvents_proofs`: **TypeCorrect**, by `IInv == TypeOK /\ SdInv`. `SdInv` says that the
  mismatch counter is below its limit while openpilot is engaged, and that openpilot is
  disabled before it is initialized. Nothing in the code bounds the counter: it stays within
  its type because the frame that reaches the limit raises `controlsMismatch`, and the state
  machine ends every engaged state on it (`DisabledByEvents`), if it runs at all, which is
  what the second half of `SdInv` is for. **BrakeWinsItsFrame** (`BrakeDisengages`) follows
  from the types and from the events a pressed (`PressDisables`) and a held brake
  (`HeldPreEnables`) raise, whether CAN is valid or not. **SoftDisableIsBounded**
  (`SoftDisableEnds`) and **MismatchIsBounded** (`MismatchGivesUp`) by `CountInv`, which
  bounds the observer's counts by the timer and the mismatch counter of selfdrived.
  **ConsentIsGiven** (`ConsentGiven`), the refinement of DriverConsent: the turnings-on left
  are those that the car, card and the samples in the queue still carry, and each way
  of merging, delaying or losing a sample can only make them fewer.
* `SpiLink_proofs`: **TransfersFit** (`WriteFits`) by `Roomy`: while `spi_can_tx_ready` is set there
  is room for what is to come of a transfer and the whole next one, although the
  flag is looked at only when a transfer ends. **AnswersAreGenuine** (`GenuineAnswer`) by
  `LinkInv`, what the panda may hold in each phase of an attempt, whatever was damaged
  before. **PublishedInOrder** (`WholeInOrder`) by `OrderInv`: there are bounds that
  separate the units of the places a frame passes through; it needs that `can_comms_reset`
  empties both ends of a cut frame. **SentOncePerFault** (`OncePerFault`) by `AskInv`, what
  the threads ask, and `OnceInv`, which counts a frame that is about to be executed as
  executed. **NoFrameIsLost** (`NothingLost`) by `FlowInv`, the places without a gap, and
  what each phase is like as long as there was no fault.
* `Msgq_proofs`: **HeldSlotsCount** (`SlotsAreCounted`), for any queue, subscribers and
  publishers. The property speaks of the moments when nobody clears slots, `Counted` of all:
  a slot that a subscriber holds within a call is counted and its own, one held between two
  calls unless it is about to be cleared. It assumes `~Overlap`, that nobody resets
  num_readers during a subscriber's call; `msgq_start` shows what happens otherwise.
  **MessagesAreWhole** (`ReturnedWhole`) and **MessagesInOrder** (`InOrder`), by `Safe /\
  Whole`, assume `~Overrun` too, that no reset stalls for a lap, and `~Rivals`, that no
  publisher starts while another is starting or sending. `Whole` says that there is
  a set of positions where messages start (`Laid`: before the write pointer those of this
  lap, without a gap, after it what is left of the last), what the publisher has written of
  the next message (`Working`), and, for every subscriber that holds its slot and finds its flag
  set, that it stands where a message starts, after the last it got (`Place`), that it
  copies what stands there (`Reads`), and that it is not in the way of a publisher that has
  looked at its pointer (`Avoids`). A subscriber whose flag is cleared may hold anything,
  which is why the last check of the flag, after the copy, is enough. The lemmas speak of
  two records of a buffer, before and after a store, a wrap or a message, and only the last
  part speaks of the steps. The set of positions is not a variable, so TLC has not checked `Whole`.
* `Params_proofs`, for any keys, processes and number of faults: **NeverTornValue**
  (`NeverTorn`), **KeepsAcknowledged** (`AcknowledgedStays`), **ReadsSnapshot** (`Snapshot`)
  and **ImplementsStore** (`ActsAsStore`), the refinement of ParamStore. They assume `First`:
  no two processes find the directory missing at the same time (section 6 says what happens
  otherwise). None of the properties is inductive. `Inv` adds: who is at the directory has
  the lock (`Locked`); what a writer renames has been synced (`Prepares`); what a reader has
  read is still there (`Reads`), and what a successful call has changed is the only thing a
  power failure leaves (`Done`), until they return, because nobody else has the lock; and
  all that a power failure may bring back is synced, not older than what was acknowledged
  and not newer than what is shown (`Durable`). `Moves` shows once what a step that is
  not at the directory cannot disturb.

Only model-checked: everything under fairness (LagKeepsInterrupting, DeadHostReleasesCar,
CallsReturn, LinkRecovers, WriterCatchesUp and all of `engagement`), as TLAPS has no ENABLED
or fairness here. The fixed parts of the instances (`AngleCases`, the bounds of the search)
play no role in the proofs but through the assumptions named above.

---------------------------------------------------------------------------------------

## 6. Where code and documentation disagree

* `byd_cancel`. BYD's parameters 2 and 4 relax engagement: `byd_relax_controls`
  (`byd.h:89`) grants controls in the same hook call in which the cancel button withdrew
  them.
* `angle_reset`. The comment at `lateral.h:269` has the angle limiter go back to the current
  angle after a refused command; with BYD's limits it goes to 0, and the next command may be
  further than the rate limit from the last one sent and from the wheel.
* `msgq_start`. A publisher that starts while a subscriber connects leaves it in a slot
  nobody counts: it is never invalidated and takes data for a message's size.
* `params_exit`. putNonBlocking (`params.cc:227`) pushes a value while the writer has found
  the queue empty but its future is not ready: no thread is started "on demand", the
  value waits for the next putNonBlocking, and the destructor's `assert(queue.empty())`
  (`params.cc:103`) fails.

`PROJECT.json` quotes the lines. Noted while modelling, not runs: `params.cc:58`
expects rename to fail on a link that another process has made, but rename replaces it, and
with it the directory the other may have written to (`Together = TRUE`); the comment at
`selfdrived.py:492` allows a mismatch of two samples, the code 200 and these need not be in
a row; BYD's parameters 3 and 5 have a check of the ACC's state that their tables never
let run; ACC_HUD of Perodua's QVE is not in its `rx_checks`, so its mode never
allows controls; `chery.h:43` says it matches carstate.py, which differs for one car.

---------------------------------------------------------------------------------------

## 7. Abstractions, and what is not modelled

* **Handlers are atomic** on the panda: its interrupts share one priority and the main loop
  does nothing the safety code reads.
* **Payloads** are what a hook makes of them. Checksums and counters are kept as a frame's
  `ok` and counter where a mode has them. Limits on acceleration compare a command with
  constants and appear as active or neutral.
* **Time** on the panda is the age of a message in seconds; the wrap of the microsecond
  timer is not modelled (a hazard says what it does). On the device a frame, pass or tick is
  an action, and clocks are interleaving.
* **ALLOUTPUT** is registered in debug builds only; the board's run includes it, as the
  board treats it specially.
* A board that boots with the plug inserted is one whose plug is inserted just after boot.
* Not on the board: power saving (it stops no frame for good: `llcan_init`, `llfdcan.h:213`,
  enables the interrupts of the other buses again), fan, IR, LEDs, bootkick, `siren_enabled`, stop mode, register and fault
  checks, CAN speeds, `ignition_can`'s own hook.
* Not in msgq: poll and its signals, conflate's effect on others, ZMQ, visionipc. Three
  windows are closed in the passing run and listed as hazards: `Overrun` (a subscriber stalled
  for a lap between two instructions); `Overlap` (slots that change hands during another
  reader's call), which `msgq_start` opens; and `Rivals` (a publisher that starts while another
  is starting or sending: `msgq_init_publisher` waits for nobody, and `msgq.cc:238` looks at
  `write_uid` only before a message). With `Rivals` both write at one position and the slower
  moves the write pointer back: TLC then finds ReturnedWhole and InOrder violated, while
  SlotsAreCounted holds and is proved for either value. A publisher loads the
  write pointer in the step that reads num_readers, which only a rival could tell apart.
* Not in selfdrived: alerts and their priorities, ALC, personality, start-up events, and the
  condition of each of the `Others`. A car with `pcmCruise`, the default (`interfaces.py:207`).
  REPLAY and SIMULATION are not modelled.
* Not in pandad: peripherals, several pandas, flashing, offroad.
* In CanQueues three buses are one. A receive FIFO of the controller that overflows, CAN FD,
  bit rates, error states and `can_clear` are left out; so are frames that leave can_tx_q
  with a wrong checksum, as the host packs none.
* In SpiLink the checksums find all damage. A failed ioctl is a damaged burst. Bytes that the
  panda still clocks out of an old answer may look like any acknowledgement. A new pandad's
  first header comes after the panda's interrupt handler has run. Requests other than the
  CAN ones and the reset take the same way and are left out, as are the version packet, the
  bulk test endpoints, DFU and the USB handle.
* In Params a rename of the `d` link is durable at once; a FileLock that fails (it is logged
  and ignored), temporary files that stay behind, the blocking get (a poll) and the types of
  the Python wrapper are left out. clearAll does not report a failed fsync and has no
  caller to tell: it counts as not acknowledged.
* In Engagement the car is onroad, and what the car reports to selfdrived and to the panda
  is independent: more behaviours than the car has, so the properties hold all the more.
* Other safety modes, modeld, locationd, monitoring, UI, athena, updater, sensors, cameras,
  and vendored code: see the components in `PROJECT.json`.

---------------------------------------------------------------------------------------

## 8. The plan

Done, in this order: SafetyModes and SafetyHooks with their proofs; PandaBoard; the limits;
Msgq; StateMachine, Selfdrived, CarEvents with their proofs; PandaPromise; Engagement;
CanQueues and SpiLink; Params and ParamStore with their proofs.

Next, by importance:

1. **Commands after a crash**: controlsd and card after Engagement: who still sends when
   selfdrived is gone, for modes that look at `controls_allowed` in their tx hook and for
   those that do not (hazard at `pandad.cc:464`).
2. **Lane change, cruise speed, longitudinal state machines**: pure step functions.
3. **manager and hardwared**: processes that should run do; the on/off-road conditions.
4. **loggerd, uploader, deleter**: segments that are rotated, locked, uploaded and deleted.

Proofs: every safety property a passing run checks is a theorem; liveness is left. New
components share runs with those of this list where their questions are one; the violation
runs can make room.
