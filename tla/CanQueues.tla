------------------------------ MODULE CanQueues ------------------------------
(***************************************************************************)
(* The panda's CAN queues, can_common.h and fdcan.h, and their packing for *)
(* the host, can_comms.h, as functions on a record of queues: interrupt    *)
(* handlers have one priority and run one after the other. Three buses are *)
(* one here.                                                               *)
(*                                                                         *)
(* A frame for the bus is known by its name. A frame for the host, one     *)
(* that was received, sent or rejected, is known by its number in the      *)
(* order they were queued; it is split into two units, because a transfer  *)
(* may end within a frame.                                                 *)
(***************************************************************************)
EXTENDS Naturals, Sequences, FiniteSets

CONSTANTS Frames,      \* the host's frames
          Blocked,     \* those of them that the tx hook blocks
          RX_SLOTS,    \* of can_rx_q
          TX_SLOTS,    \* of can_tx_q
          HW_SLOTS,    \* of the controller's transmit FIFO
          MIN_SLOTS    \* MAX_CAN_MSGS_PER_SPI_BULK_TRANSFER

\* What the host packs for one transfer (pack_can_buffer).
CONSTANT Batches

FORWARDED == "forwarded"

\* The frames of a transfer that the tx hook lets through, by their places.
Passed(frames) == {k \in 1..Len(frames) : frames[k] \notin Blocked}

\* can_tx_q has room for a transfer. Room is looked for, and found for good, after any frame
\* of one: what is left of it and the whole next one must fit. A frame is sent by the host
\* in one transfer, at one place.
ASSUME QueueConstants ==
  /\ {RX_SLOTS, TX_SLOTS, HW_SLOTS, MIN_SLOTS} \subseteq Nat \ {0}
  /\ MIN_SLOTS <= TX_SLOTS
  /\ Batches \in Seq(Seq(Frames)) /\ FORWARDED \notin Frames
  /\ \A i \in 1..Len(Batches) : MIN_SLOTS + 1 >= 2 * Cardinality(Passed(Batches[i]))
  /\ \A i, j \in 1..Len(Batches) : \A k \in 1..Len(Batches[i]), n \in 1..Len(Batches[j]) :
       Batches[i][k] = Batches[j][n] => i = j /\ k = n

Queues ==
  [rx |-> <<>>,        \* can_rx_q
   tail |-> <<>>,      \* can_read_buffer: units
   tx |-> <<>>,        \* can_tx_q
   hw |-> 0,           \* frames in the controller
   ready |-> TRUE,     \* spi_can_tx_ready
   queued |-> 0,       \* frames ever queued for the host
   sent |-> [f \in Frames |-> 0],   \* how often a frame was given to the controller
   dropped |-> FALSE,  \* whether a frame of the host was lost to a full can_tx_q
   forwards |-> FALSE] \* whether a frame was forwarded

\* can_push to can_rx_q; rx_buffer_overflow
ToHost(q) ==
  IF Len(q.rx) = RX_SLOTS THEN q
  ELSE [q EXCEPT !.rx = Append(@, q.queued + 1), !.queued = @ + 1]

refresh_can_tx_slots_available(q) ==
  [q EXCEPT !.ready = @ \/ TX_SLOTS - Len(q.tx) >= MIN_SLOTS]

\* One frame per call; a copy goes to the host.
Sends(q) == q.hw < HW_SLOTS /\ q.tx # <<>>
SendNext(q) ==
  ToHost([q EXCEPT !.hw = @ + 1, !.tx = Tail(@),
                   !.sent = [f \in Frames |-> IF f = Head(q.tx) THEN @[f] + 1 ELSE @[f]]])
process_can(q) == IF Sends(q) THEN refresh_can_tx_slots_available(SendNext(q)) ELSE q

Enqueue(q, f) ==
  IF Len(q.tx) < TX_SLOTS THEN [q EXCEPT !.tx = Append(@, f)]
  ELSE [q EXCEPT !.dropped = @ \/ f # FORWARDED]
can_send(q, f) ==
  IF f \in Blocked THEN ToHost(q) ELSE process_can(Enqueue(q, f))

\* Over SPI a transfer holds whole frames.
comms_can_write(q, frames) ==
  LET after[i \in 0..Len(frames)] ==
        IF i = 0 THEN q ELSE can_send(after[i - 1], frames[i])
  IN  refresh_can_tx_slots_available(after[Len(frames)])

Units(frames) ==
  [k \in 1..2 * Len(frames) |-> <<frames[(k + 1) \div 2], IF k % 2 = 1 THEN 1 ELSE 2>>]

\* What an answer of at most max units holds, and what is left: can_read_buffer takes the
\* rest of the frame that did not fit.
Answer(q, max) ==
  LET all == q.tail \o Units(q.rx)
  IN  SubSeq(all, 1, IF Len(all) < max THEN Len(all) ELSE max)
Popped(q, max) == (Len(Answer(q, max)) + 1 - Len(q.tail)) \div 2
AfterDroppedTail(q, max) ==
  [q EXCEPT !.rx = SubSeq(@, Popped(q, max) + 1, Len(@)), !.tail = <<>>]
AfterRead(q, max) ==
  LET n == Popped(q, max)
  IN  [q EXCEPT !.rx = SubSeq(@, n + 1, Len(@)),
                !.tail = SubSeq(q.tail \o Units(SubSeq(q.rx, 1, n)),
                                Len(Answer(q, max)) + 1, Len(q.tail) + 2 * n)]

comms_can_reset(q) == [q EXCEPT !.tail = <<>>]

\* A frame from the bus, forwarded or not: the fwd hook decides.
can_rx(q, forward) ==
  ToHost(IF forward THEN can_send([q EXCEPT !.forwards = TRUE], FORWARDED) ELSE q)

\* The controller has sent a frame: FDCANx_IT1
TxDone(q) == process_can([q EXCEPT !.hw = @ - 1])
==============================================================================
