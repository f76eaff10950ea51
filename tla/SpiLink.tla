------------------------------- MODULE SpiLink -------------------------------
(***************************************************************************)
(* The SPI link between pandad and the panda: spi.cc and panda.cc in the   *)
(* host, drivers/spi.h in the panda, over the panda's CAN queues. Two      *)
(* threads of pandad make requests, one attempt at a time holds the bus.   *)
(*                                                                         *)
(* An attempt is a series of bursts: the header, polls for HACK, the data, *)
(* polls for DACK, the answer; after a failure, bursts until three start   *)
(* with NACK. The panda gets a burst into a buffer (by DMA) or clocks out  *)
(* its answer, and its interrupt handler makes one out of the other. A     *)
(* burst that it does not expect leaves it in one of several states. What  *)
(* the checksums cover is taken to be found damaged when it is.            *)
(***************************************************************************)
EXTENDS CanQueues

CONSTANTS XFER,         \* xfer_size, in units
          RECV,         \* RECV_SIZE, in units
          NACKS,        \* 3
          TIMEOUTS,     \* 5
          Forwarded,    \* the frames from the bus that the fwd hook forwards
          MAX_BUS,      \* bound: frames from the bus
          MAX_FAULTS    \* bound: damaged bursts, late answers and crashes of pandad

ASSUME LinkConstants ==
  /\ {XFER, RECV, NACKS} \subseteq Nat \ {0}
  /\ {TIMEOUTS, MAX_BUS, MAX_FAULTS} \subseteq Nat

VARIABLES q,        \* the panda's queues
          panda,    \* its SPI state, the request it has got and its answer
          turn,     \* the attempt that holds the bus
          th,       \* the threads
          buf,      \* receive_buffer: units
          got,      \* the frames published
          healthy,  \* comms_healthy
          ran,      \* what the panda has executed in the present attempt
          arrived, writes, faults
host == <<th, buf, got, healthy>>
vars == <<q, panda, turn, host, ran, arrived, writes, faults>>

Threads == {"main", "send"}
Request(op, max, frames) == [op |-> op, max |-> max, frames |-> frames]
RESET == Request("reset", 0, <<>>)
GARBAGE == Request("garbage", 0, <<>>)
Read(max) == Request("read", IF max < XFER THEN max ELSE XFER, <<>>)
Write(frames) == Request("write", 0, frames)

FREE == [by |-> "free", phase |-> "none", nacks |-> 0, late |-> FALSE]
OFF == [pc |-> "off", req |-> RESET, timeouts |-> 0, data |-> <<>>]
IDLE == [OFF EXCEPT !.pc = "idle"]
Trying(req) == [OFF EXCEPT !.pc = "try", !.req = req]
At(t, phase) == turn.by = t /\ turn.phase = phase
Goes(phase) == turn' = [turn EXCEPT !.phase = phase]
Hit == faults < MAX_FAULTS /\ faults' = faults + 1
NoFault == UNCHANGED faults

---------------------------------------------------------------------------
(* The panda: spi_rx_done and spi_tx_done *)
In(state, req) == [state |-> state, req |-> req, answer |-> <<>>]
READY == In("header", GARBAGE)
Nacks == In("nack", GARBAGE)
Got(req) == In("received", req)      \* spi_rx_done is to come
Answers(req, answer) == [In("answer", req) EXCEPT !.answer = answer]

\* Its answer to a header or data that is not right
ToGarbageNothing == READY
ToGarbage == Nacks

\* Where bytes may leave it that it does not expect: no request comes of them. Those that
\* come while it has something to look at are lost. In a long burst it may come round.
Resynced == {READY, In("part", GARBAGE), Got(GARBAGE), ToGarbage}
Strewn(p) ==
  CASE p.state \in {"received", "data received"} -> {p}
    [] p.state \in {"header", "part", "data"} -> {In("part", GARBAGE), Got(GARBAGE)}
    [] p.state = "nack" -> {READY, In("part", GARBAGE)}
    [] p.state = "ack" -> {In("data", p.req), In("part", GARBAGE)}
    [] OTHER -> {In("rest", GARBAGE), READY, In("part", GARBAGE)}
StrewnLong(p) ==
  Strewn(p) \cup IF p.state \in {"received", "data received"} THEN {} ELSE Resynced

\* The panda gets a burst it waits for, or one it does not.
After(state, next) == IF panda.state = state THEN {next} ELSE Strewn(panda)
AfterLong(state, next) == IF panda.state = state THEN {next} ELSE StrewnLong(panda)

\* The first byte that the host sees
FirstBytes ==
  CASE panda.state = "ack" -> {"HACK"}
    [] panda.state = "nack" -> {"NACK"}
    [] panda.state = "answer" -> {"DACK"}
    [] panda.state \in {"read", "rest"} -> {"HACK", "DACK", "NACK", "other"}
    [] OTHER -> {"other"}

Header ==
  /\ panda.state = "received"
  /\ panda' = IF panda.req = GARBAGE THEN ToGarbage ELSE In("ack", panda.req)
  /\ UNCHANGED <<q, ran>>

Executes(queues, answer) ==
  /\ q' = queues
  /\ panda' = Answers(panda.req, answer)
  /\ ran' = panda.req
Asked(op) == panda.state = "data received" /\ panda.req.op = op

ControlHandler == Asked("reset") /\ Executes(comms_can_reset(q), <<>>)
CanRead ==
  Asked("read") /\ Executes(AfterRead(q, panda.req.max), Answer(q, panda.req.max))
CanWriteKeepsReady ==
  Asked("write") /\ q.ready /\ Executes(comms_can_write(q, panda.req.frames), <<>>)
CanWriteUnanswered ==
  /\ Asked("write") /\ q.ready /\ panda' = Nacks /\ UNCHANGED ran
  /\ q' = comms_can_write([q EXCEPT !.ready = FALSE], panda.req.frames)
CanWrite ==
  /\ Asked("write") /\ q.ready
  /\ Executes(comms_can_write([q EXCEPT !.ready = FALSE], panda.req.frames), <<>>)
CanNack == Asked("write") /\ ~q.ready /\ panda' = Nacks /\ UNCHANGED <<q, ran>>

Irq ==
  /\ Header \/ ControlHandler \/ CanRead \/ CanWrite \/ CanNack
  /\ UNCHANGED <<turn, host, arrived, writes, faults>>

---------------------------------------------------------------------------
(* The bus *)
Arrive ==
  /\ arrived < MAX_BUS /\ arrived' = arrived + 1
  /\ q' = can_rx(q, arrived' \in Forwarded)
  /\ UNCHANGED <<panda, turn, host, ran, writes, faults>>

BusSends ==
  /\ q.hw > 0 /\ q' = TxDone(q)
  /\ UNCHANGED <<panda, turn, host, ran, arrived, writes, faults>>

---------------------------------------------------------------------------
(* spi_transfer *)
Lock(t) ==
  /\ th[t].pc = "try" /\ turn.by = "free"
  /\ turn' = [FREE EXCEPT !.by = t, !.phase = "header"]
  /\ UNCHANGED <<q, panda, host, ran, arrived, writes, faults>>

OfHost == /\ ran' = IF turn' = FREE THEN GARBAGE ELSE ran
          /\ UNCHANGED <<q, arrived, writes>>

SendHeader(t) ==
  /\ At(t, "header") /\ Goes("hack")
  /\ \/ panda' \in AfterLong("header", Got(th[t].req)) /\ NoFault
     \/ panda' \in AfterLong("header", Got(GARBAGE)) /\ Hit
  /\ OfHost /\ UNCHANGED host

\* wait_for_ack: polls until the first byte is the ack or NACK. A byte may be damaged.
Poll(t, phase, state, next, ack, then) ==
  /\ At(t, phase)
  /\ panda' \in After(state, next)
  /\ \E byte \in {"HACK", "DACK", "NACK", "other"} :
       /\ IF byte \in FirstBytes THEN NoFault ELSE Hit
       /\ Goes(CASE byte = ack -> then [] byte = "NACK" -> "fail" [] OTHER -> phase)
  /\ OfHost /\ UNCHANGED host

PollHeader(t) == Poll(t, "hack", "ack", In("data", panda.req), "HACK", "data")
PollData(t) == Poll(t, "dack", "answer", [panda EXCEPT !.state = "read"], "DACK", "read")

\* The panda takes as much data as the header it has got says, which may be an older one.
Fits(t) == panda.req.op = th[t].req.op /\ Len(panda.req.frames) = Len(th[t].req.frames)
Data(t) == In("data received", [panda.req EXCEPT !.frames = th[t].req.frames])
SendData(t) ==
  /\ At(t, "data") /\ Goes("dack")
  /\ \/ panda' \in (IF Fits(t) THEN AfterLong("data", Data(t)) ELSE StrewnLong(panda)) /\ NoFault
     \/ panda' \in AfterLong("data", Got(GARBAGE)) /\ Hit
  /\ OfHost /\ UNCHANGED host

\* The panda's answer comes too late.
Timeout(t) ==
  /\ turn.by = t /\ turn.phase \in {"hack", "dack"} /\ Hit
  /\ turn' = [turn EXCEPT !.phase = "fail", !.late = TRUE]
  /\ OfHost /\ UNCHANGED <<panda, host>>

\* The request is done: bulk_transfer goes on until an answer is short.
Succeeds(t, answer) ==
  LET data == th[t].data \o answer
      more == Len(answer) = XFER /\ Len(data) < RECV
      after == IF th[t].req.op # "read" THEN IDLE
               ELSE IF more THEN [Trying(Read(RECV - Len(data))) EXCEPT !.data = data]
               ELSE [IDLE EXCEPT !.pc = "unpack", !.data = data]
  IN  th' = [u \in Threads |-> IF u = t THEN after
                               ELSE IF th[u].pc = "off" THEN IDLE ELSE th[u]]

OfAnswer == OfHost /\ UNCHANGED <<buf, got, healthy>>
ReadAnswer(t) ==
  /\ At(t, "read") /\ panda.state = "read" /\ NoFault
  /\ Succeeds(t, panda.answer) /\ turn' = FREE
  /\ panda' = READY
  /\ OfAnswer

\* Its checksum or its length is wrong; one that is too long is not read at all.
Bad(t) ==
  /\ At(t, "read")
  /\ IF panda.state = "read" THEN Hit ELSE NoFault
  /\ panda' \in {panda} \cup StrewnLong(panda)
TakeBadAnswer(t) == Bad(t) /\ Succeeds(t, <<>>) /\ turn' = FREE /\ OfAnswer
BadAnswer(t) == Bad(t) /\ Goes("fail") /\ UNCHANGED th /\ OfAnswer

\* The loop of a failed attempt; a byte of an old answer may look like NACK, and a wait
\* for NACK that times out starts the count again.
Fails(t) ==
  /\ At(t, "fail")
  /\ panda' \in StrewnLong(panda)
  /\ \E byte \in FirstBytes :
       \E n \in IF byte = "NACK" THEN {turn.nacks + 1} ELSE {turn.nacks, 0} :
         turn' = IF n = NACKS THEN FREE ELSE [turn EXCEPT !.nacks = n]
  /\ IF turn'.by = t THEN UNCHANGED host
     ELSE LET timed_out == t = "send" /\ th[t].timeouts > TIMEOUTS
              late == turn.late /\ t = "send"
              after == [th[t] EXCEPT !.timeouts = IF late THEN @ + 1 ELSE @]
          IN  /\ th' = [th EXCEPT ![t] = IF timed_out THEN IDLE ELSE after]
              /\ healthy' = (healthy /\ ~timed_out)
              /\ UNCHANGED <<buf, got>>
  /\ OfHost /\ NoFault

---------------------------------------------------------------------------
(* pandad *)
OfPandad == UNCHANGED <<q, panda, turn, ran, arrived, faults>>

\* The constructor of Panda; the other thread starts when it has returned. The panda's
\* interrupts are faster than a new process.
Connect ==
  /\ th["main"].pc = "off" /\ panda.state \notin {"received", "data received"}
  /\ th' = [th EXCEPT !["main"] = Trying(RESET)]
  /\ OfPandad /\ UNCHANGED <<buf, got, healthy, writes>>

can_receive ==
  /\ th["main"].pc = "idle"
  /\ th' = [th EXCEPT !["main"] = Trying(Read(RECV))]
  /\ OfPandad /\ UNCHANGED <<buf, got, healthy, writes>>

can_send_thread ==
  /\ th["send"].pc = "idle"
  /\ writes < Len(Batches) /\ writes' = writes + 1
  /\ th' = [th EXCEPT !["send"] = Trying(Write(Batches[writes']))]
  /\ OfPandad /\ UNCHANGED <<buf, got, healthy>>

\* A frame is whole, and its checksum right, if its halves belong together.
Unchecked(units, i) == 2 * i <= Len(units)
Whole(units, i) ==
  /\ 2 * i <= Len(units)
  /\ units[2 * i - 1][2] = 1 /\ units[2 * i] = <<units[2 * i - 1][1], 2>>
unpack_can_buffer ==
  LET units == buf \o th["main"].data
      n == CHOOSE k \in 0..Len(units) :
             /\ \A i \in 1..k : Whole(units, i)
             /\ ~Whole(units, k + 1)
      rest == SubSeq(units, 2 * n + 1, Len(units))
      Waits == /\ buf' = rest
               /\ th' = [th EXCEPT !["main"] = IDLE]
      ChecksumFails == /\ buf' = <<>>
                       /\ th' = [th EXCEPT !["main"] = Trying(RESET)]
  IN  /\ got' = got \o [i \in 1..n |-> <<units[2 * i - 1][1], units[2 * i][1]>>]
      /\ \/ Len(rest) <= 1 /\ Waits
         \/ rest # <<>> /\ (Len(rest) = 1 => rest[1][2] = 2) /\ ChecksumFails

Unpack ==
  /\ th["main"].pc = "unpack"
  /\ IF healthy /\ th["main"].data # <<>> THEN unpack_can_buffer
     ELSE th' = [th EXCEPT !["main"] = IDLE] /\ UNCHANGED <<buf, got>>
  /\ OfPandad /\ UNCHANGED <<healthy, writes>>

\* A new process of pandad; the panda goes on where it was.
NewPandad ==
  /\ th' = [t \in Threads |-> OFF] /\ turn' = FREE
  /\ buf' = <<>> /\ healthy' = TRUE
  /\ UNCHANGED <<q, panda, got, ran, arrived, writes>>
Crash == th["main"].pc # "off" /\ Hit /\ NewPandad
\* process_panda_state, ignition off
Reconnect ==
  /\ ~healthy /\ \A t \in Threads : th[t].pc = "idle"
  /\ NewPandad /\ NoFault

---------------------------------------------------------------------------
Init ==
  /\ q = Queues /\ panda = READY /\ turn = FREE
  /\ th = [t \in Threads |-> OFF]
  /\ buf = <<>> /\ got = <<>> /\ healthy = TRUE /\ ran = GARBAGE
  /\ arrived = 0 /\ writes = 0 /\ faults = 0

Burst(t) ==
  \/ SendHeader(t) \/ PollHeader(t) \/ SendData(t) \/ PollData(t)
  \/ ReadAnswer(t) \/ BadAnswer(t) \/ Fails(t)
Pandad == Connect \/ can_receive \/ Unpack

Next ==
  \/ Irq \/ Arrive \/ BusSends
  \/ \E t \in Threads : Lock(t) \/ Burst(t) \/ Timeout(t)
  \/ Pandad \/ can_send_thread \/ Crash \/ Reconnect

\* The panda's interrupts and the bus go on, a buffer that gets bytes is full at some time,
\* pandad's threads are scheduled, none is kept from the lock forever. Where the bursts
\* after a failure leave the panda is a matter of timing: sometimes it is ready.
Bursts == \E t \in Threads : Burst(t)
Fairness ==
  /\ WF_vars(Irq \/ Bursts \/ Pandad) /\ WF_vars(BusSends)
  /\ \A t \in Threads : SF_vars(Lock(t))
  /\ SF_vars(Bursts /\ panda.state = "part" /\ panda' = Got(GARBAGE))
  /\ SF_vars(Bursts /\ panda' = READY /\ turn' = FREE)
Spec == Init /\ [][Next]_vars /\ Fairness

---------------------------------------------------------------------------
(* Properties *)

\* A transfer succeeds only with the answer that the panda gave in this attempt to this
\* request, whatever was left over from earlier attempts or an earlier process.
GenuineAnswer ==
  [][\A t \in Threads : At(t, "read") /\ turn'.by = "free" /\ th'[t] # OFF =>
       /\ ran = th[t].req
       /\ ran.op = "read" => th'[t].data = th[t].data \o panda.answer]_vars

\* Frames are published whole, once and in order, whatever is lost between them.
WholeInOrder ==
  /\ \A i \in 1..Len(got) : got[i][1] = got[i][2]
  /\ \A i \in 1..Len(got) - 1 : got[i][1] < got[i + 1][1]

\* As long as nothing is damaged, late or restarted, every frame that the panda queued is in
\* one place on its way, in order.
OnTheWay ==
  IF panda.state \in {"answer", "read"} /\ panda.req.op = "read" THEN panda.answer ELSE <<>>
NothingLost ==
  faults = 0 => Units([i \in 1..q.queued |-> i]) =
    Units([i \in 1..Len(got) |-> got[i][1]]) \o buf \o th["main"].data \o OnTheWay \o q.tail \o Units(q.rx)

\* The panda takes a transfer only if it fits: no frame of the host is dropped, except for
\* those that were forwarded after the panda had found room.
WriteFits == q.dropped => q.forwards

\* A transfer that is refused or fails is repeated: that sends a frame once, and once more
\* for a fault at most; a blocked one is never sent.
OncePerFault ==
  \A f \in Frames : q.sent[f] <= IF f \in Blocked THEN 0 ELSE 1 + faults

\* Every transfer comes to an end: refused writes are taken when the bus has made room,
\* and the link is found again after faults.
LinkRecovers == \A t \in Threads : th[t].pc = "try" ~> th[t].pc # "try"
==============================================================================
