---------------------------- MODULE SpiLink_proofs ----------------------------
(***************************************************************************)
(* The SPI link and the queues behind it, for any queues, transfers,       *)
(* lengths of answers and numbers of faults:                               *)
(*   TransfersFit        by Roomy, the room in can_tx_q while it is ready; *)
(*   AnswersAreGenuine   by LinkInv, what the panda may hold in each phase *)
(*                       of an attempt;                                    *)
(*   PublishedInOrder    by OrderInv, the bounds between which the units   *)
(*                       of each place lie;                                *)
(*   SentOncePerFault    by OnceInv, how often a frame was executed, or is *)
(*                       about to be, over AskInv, what the threads ask;   *)
(*   NoFrameIsLost       by FlowInv, the same places without a gap, and    *)
(*                       what an attempt is like as long as no fault has   *)
(*                       hit it.                                           *)
(* A lemma ...Does or ...Is says what an action or an operator does.       *)
(***************************************************************************)
EXTENDS SpiLink, TLAPS, SequenceTheorems, FiniteSetTheorems, WellFoundedInduction

\* The constants are numbers.
LEMMA Slots ==
  /\ RX_SLOTS \in Nat /\ TX_SLOTS \in Nat /\ MIN_SLOTS \in Nat /\ HW_SLOTS \in Nat
  /\ MIN_SLOTS > 0 /\ MIN_SLOTS <= TX_SLOTS
  /\ XFER \in Nat /\ XFER > 0 /\ RECV \in Nat /\ NACKS \in Nat /\ NACKS > 0
  /\ TIMEOUTS \in Nat /\ MAX_BUS \in Nat /\ MAX_FAULTS \in Nat
  BY QueueConstants, LinkConstants

\* What holds at the start, and of the next whenever of one, holds up to the end.
LEMMA UpTo ==
  ASSUME NEW n \in Nat, NEW S, 0 \in S,
         \A i \in 0..n : i \in S /\ i # n => i + 1 \in S
  PROVE  \A i \in 0..n : i \in S
<1> DEFINE T == {i \in 0..n : i \notin S}
<1> SUFFICES ASSUME T # {} PROVE FALSE
  OBVIOUS
<1>1. T \subseteq Nat
  OBVIOUS
<1>2. PICK x \in T : \A y \in T : ~(<<y, x>> \in OpToRel(<, Nat))
  BY <1>1, NatLessThanWellFounded, WFMin
<1>3. \A y \in T : ~(y < x)
  BY <1>1, <1>2 DEF OpToRel
<1>4. x \in 0..n /\ x \notin S /\ x # 0
  OBVIOUS
<1>5. x - 1 \in 0..n /\ x - 1 < x /\ x - 1 # n
  BY <1>4
<1>6. x - 1 \in S
  BY <1>3, <1>5
<1>7. (x - 1) + 1 \in S
  BY <1>5, <1>6
<1>8. (x - 1) + 1 = x
  BY <1>4
<1> QED BY <1>4, <1>7, <1>8

---------------------------------------------------------------------------
(* The queues: types, and what each operation does to the host's side of   *)
(* them and to the bus's.                                                  *)

Unit == Nat \X {1, 2}
Queue ==
  [rx : Seq(Nat), tail : Seq(Unit), tx : Seq(Frames \cup {FORWARDED}), hw : Nat,
   ready : BOOLEAN, queued : Nat, sent : [Frames -> Nat],
   dropped : BOOLEAN, forwards : BOOLEAN]

\* Frames for the host are only added, with the next numbers.
Grows(a, b) ==
  /\ b.tail = a.tail /\ b.queued >= a.queued
  /\ Len(b.rx) = Len(a.rx) + (b.queued - a.queued)
  /\ \A i \in 1..Len(a.rx) : b.rx[i] = a.rx[i]
  /\ \A i \in 1..b.queued - a.queued : b.rx[Len(a.rx) + i] = a.queued + i

LEMMA QueueFields ==
  ASSUME NEW a \in Queue
  PROVE  /\ a.rx \in Seq(Nat) /\ a.tail \in Seq(Unit) /\ a.tx \in Seq(Frames \cup {FORWARDED})
         /\ a.hw \in Nat /\ a.ready \in BOOLEAN /\ a.queued \in Nat
         /\ a.sent \in [Frames -> Nat] /\ a.dropped \in BOOLEAN /\ a.forwards \in BOOLEAN
         /\ Len(a.rx) \in Nat /\ Len(a.tail) \in Nat /\ Len(a.tx) \in Nat
  BY DEF Queue

LEMMA GrowsNot ==
  ASSUME NEW a \in Queue, NEW b \in Queue,
         b.rx = a.rx, b.tail = a.tail, b.queued = a.queued
  PROVE  Grows(a, b)
  BY QueueFields DEF Grows

LEMMA GrowsOn ==
  ASSUME NEW a \in Queue, NEW b \in Queue, NEW c \in Queue, Grows(a, b), Grows(b, c)
  PROVE  Grows(a, c)
<1> DEFINE k == Len(a.rx)
           l == Len(b.rx)
           x == a.queued
           y == b.queued
           z == c.queued
<1>1. x \in Nat /\ y \in Nat /\ z \in Nat /\ k \in Nat /\ l \in Nat
  BY QueueFields
<1>2. /\ c.tail = a.tail /\ y >= x /\ z >= y
      /\ l = k + (y - x) /\ Len(c.rx) = l + (z - y)
  BY DEF Grows
<1>3. /\ \A i \in 1..k : b.rx[i] = a.rx[i]
      /\ \A i \in 1..y - x : b.rx[k + i] = x + i
  BY DEF Grows
<1>4. /\ \A i \in 1..l : c.rx[i] = b.rx[i]
      /\ \A i \in 1..z - y : c.rx[l + i] = y + i
  BY DEF Grows
<1> HIDE DEF k, l, x, y, z
<1>5. z >= x /\ Len(c.rx) = k + (z - x) /\ l = k + (y - x) /\ k <= l
  BY <1>1, <1>2
<1>6. ASSUME NEW i \in 1..k PROVE c.rx[i] = a.rx[i]
  <2>1. i \in 1..l
    BY <1>1, <1>5
  <2> QED BY <1>3, <1>4, <2>1
<1>7. ASSUME NEW i \in 1..z - x PROVE c.rx[k + i] = x + i
  <2>1. CASE i \in 1..y - x
    <3>1. k + i \in 1..l
      BY <1>1, <1>5, <2>1
    <3> QED BY <1>3, <1>4, <2>1, <3>1
  <2>2. CASE i \notin 1..y - x
    <3> DEFINE j == i - (y - x)
    <3>1. j \in 1..z - y /\ l + j = k + i /\ y + j = x + i
      BY <1>1, <1>2, <2>2
    <3> HIDE DEF j
    <3>2. c.rx[l + j] = y + j
      BY <1>4, <3>1
    <3> QED BY <3>1, <3>2
  <2> QED BY <2>1, <2>2
<1> QED BY <1>2, <1>5, <1>6, <1>7 DEF Grows, k, x, z

\* The bus's side of the queues, which frames for the host leave alone.
SameBus(a, b) ==
  /\ b.tx = a.tx /\ b.hw = a.hw /\ b.ready = a.ready
  /\ b.sent = a.sent /\ b.dropped = a.dropped /\ b.forwards = a.forwards

LEMMA ToHostDoes ==
  ASSUME NEW a \in Queue
  PROVE  ToHost(a) \in Queue /\ Grows(a, ToHost(a)) /\ SameBus(a, ToHost(a))
<1> DEFINE n == a.queued + 1
           b == [a EXCEPT !.rx = Append(@, n), !.queued = @ + 1]
<1>1. a.rx \in Seq(Nat) /\ n \in Nat /\ a.queued \in Nat
  BY QueueFields
<1>2. Append(a.rx, n) \in Seq(Nat)
  BY <1>1
<1>3. b \in Queue
  BY <1>1, <1>2 DEF Queue
<1>4. SameBus(a, b)
  BY DEF Queue, SameBus
<1>5. b.rx = Append(a.rx, n) /\ b.queued = n /\ b.tail = a.tail
  BY DEF Queue
<1> HIDE DEF b
<1>6. Len(b.rx) = Len(a.rx) + 1 /\ b.rx[Len(a.rx) + 1] = n
      /\ \A i \in 1..Len(a.rx) : b.rx[i] = a.rx[i]
  BY <1>1, <1>5
<1>7. n >= a.queued /\ n - a.queued = 1
  BY <1>1
<1>8. \A i \in 1..1 : b.rx[Len(a.rx) + i] = a.queued + i
  BY <1>6
<1> HIDE DEF n
<1>9. Grows(a, b)
  BY <1>5, <1>6, <1>7, <1>8 DEF Grows
<1>10. SameBus(a, a) /\ Grows(a, a)
  BY GrowsNot DEF SameBus
<1> QED BY <1>3, <1>4, <1>9, <1>10 DEF ToHost, b, n

\* The bus has taken one frame of can_tx_q, and room is looked for.
Took(a, b) ==
  /\ a.tx # <<>> /\ b.tx = Tail(a.tx)
  /\ b.sent = [f \in Frames |-> IF f = Head(a.tx) THEN a.sent[f] + 1 ELSE a.sent[f]]
  /\ b.ready = (a.ready \/ TX_SLOTS - Len(Tail(a.tx)) >= MIN_SLOTS)

LEMMA RefreshDoes ==
  ASSUME NEW a \in Queue
  PROVE  LET b == refresh_can_tx_slots_available(a)
         IN  /\ b \in Queue /\ b.rx = a.rx /\ b.tail = a.tail /\ b.queued = a.queued
             /\ b.tx = a.tx /\ b.hw = a.hw /\ b.sent = a.sent
             /\ b.dropped = a.dropped /\ b.forwards = a.forwards
             /\ b.ready = (a.ready \/ TX_SLOTS - Len(a.tx) >= MIN_SLOTS)
<1>1. (a.ready \/ TX_SLOTS - Len(a.tx) >= MIN_SLOTS) \in BOOLEAN
  OBVIOUS
<1> QED BY <1>1 DEF refresh_can_tx_slots_available, Queue

LEMMA SendNextDoes ==
  ASSUME NEW a \in Queue, a.tx # <<>>
  PROVE  LET b == SendNext(a)
         IN  /\ b \in Queue /\ Grows(a, b)
             /\ b.tx = Tail(a.tx) /\ b.hw = a.hw + 1 /\ b.ready = a.ready
             /\ b.sent = [f \in Frames |-> IF f = Head(a.tx) THEN a.sent[f] + 1 ELSE a.sent[f]]
             /\ b.dropped = a.dropped /\ b.forwards = a.forwards
<1> DEFINE s == [f \in Frames |-> IF f = Head(a.tx) THEN a.sent[f] + 1 ELSE a.sent[f]]
           c == [a EXCEPT !.hw = @ + 1, !.tx = Tail(@),
                          !.sent = [f \in Frames |-> IF f = Head(a.tx) THEN @[f] + 1 ELSE @[f]]]
<1>1. s \in [Frames -> Nat] /\ Tail(a.tx) \in Seq(Frames \cup {FORWARDED}) /\ a.hw + 1 \in Nat
  <2>1. a.tx \in Seq(Frames \cup {FORWARDED}) /\ a.sent \in [Frames -> Nat] /\ a.hw \in Nat
    BY QueueFields
  <2>2. Tail(a.tx) \in Seq(Frames \cup {FORWARDED})
    BY <2>1, HeadTailProperties
  <2>3. s \in [Frames -> Nat]
    BY <2>1
  <2> QED BY <2>1, <2>2, <2>3
<1>2. c.tx = Tail(a.tx) /\ c.hw = a.hw + 1 /\ c.sent = s /\ c.ready = a.ready
      /\ c.dropped = a.dropped /\ c.forwards = a.forwards
      /\ c.rx = a.rx /\ c.tail = a.tail /\ c.queued = a.queued
  BY DEF Queue
<1>3. c \in Queue
  <2> HIDE DEF s
  <2>1. c = [a EXCEPT !.hw = a.hw + 1, !.tx = Tail(a.tx), !.sent = s]
    BY DEF Queue, s
  <2> QED BY <1>1, <2>1 DEF Queue
<1> HIDE DEF c, s
<1>4. Grows(a, c)
  BY <1>2, <1>3, GrowsNot
<1>5. ToHost(c) \in Queue /\ Grows(c, ToHost(c)) /\ SameBus(c, ToHost(c))
  BY <1>3, ToHostDoes
<1>6. Grows(a, ToHost(c))
  BY <1>3, <1>4, <1>5, GrowsOn
<1>7. SendNext(a) = ToHost(c)
  BY DEF SendNext, c
<1> QED BY <1>2, <1>5, <1>6, <1>7 DEF SameBus, s

LEMMA ProcessDoes ==
  ASSUME NEW a \in Queue
  PROVE  LET b == process_can(a)
         IN  /\ b \in Queue /\ Grows(a, b)
             /\ b.dropped = a.dropped /\ b.forwards = a.forwards
             /\ \/ b = a \/ Took(a, b)
<1>1. CASE ~Sends(a)
  BY <1>1, GrowsNot DEF process_can
<1>2. CASE Sends(a)
  <2> DEFINE c == SendNext(a)
             b == refresh_can_tx_slots_available(c)
  <2>1. a.tx # <<>>
    BY <1>2 DEF Sends
  <2>2. /\ c \in Queue /\ Grows(a, c)
        /\ c.tx = Tail(a.tx) /\ c.ready = a.ready
        /\ c.sent = [f \in Frames |-> IF f = Head(a.tx) THEN a.sent[f] + 1 ELSE a.sent[f]]
        /\ c.dropped = a.dropped /\ c.forwards = a.forwards
    BY <2>1, SendNextDoes
  <2> HIDE DEF c
  <2>3. /\ b \in Queue /\ b.rx = c.rx /\ b.tail = c.tail /\ b.queued = c.queued
        /\ b.tx = c.tx /\ b.sent = c.sent
        /\ b.dropped = c.dropped /\ b.forwards = c.forwards
        /\ b.ready = (c.ready \/ TX_SLOTS - Len(c.tx) >= MIN_SLOTS)
    BY <2>2, RefreshDoes
  <2>4. process_can(a) = b
    BY <1>2 DEF process_can, c
  <2> HIDE DEF b
  <2>5. Grows(a, b)
    BY <2>2, <2>3, GrowsNot, GrowsOn
  <2>6. Took(a, b)
    BY <2>1, <2>2, <2>3 DEF Took
  <2> QED BY <2>2, <2>3, <2>4, <2>5, <2>6
<1> QED BY <1>1, <1>2

\* A frame is put into can_tx_q, or lost if it is full.
Put(a, f, b) ==
  /\ b.rx = a.rx /\ b.tail = a.tail /\ b.queued = a.queued
  /\ b.hw = a.hw /\ b.ready = a.ready /\ b.sent = a.sent /\ b.forwards = a.forwards
  /\ \/ Len(a.tx) < TX_SLOTS /\ b.tx = Append(a.tx, f) /\ b.dropped = a.dropped
     \/ /\ ~(Len(a.tx) < TX_SLOTS) /\ b.tx = a.tx
        /\ b.dropped = (a.dropped \/ f # FORWARDED)

LEMMA EnqueueDoes ==
  ASSUME NEW a \in Queue, NEW f \in Frames \cup {FORWARDED}
  PROVE  Enqueue(a, f) \in Queue /\ Put(a, f, Enqueue(a, f))
<1>1. CASE Len(a.tx) < TX_SLOTS
  <2> DEFINE b == [a EXCEPT !.tx = Append(@, f)]
  <2>1. Append(a.tx, f) \in Seq(Frames \cup {FORWARDED})
    BY QueueFields, AppendProperties
  <2>2. b \in Queue
    BY <2>1 DEF Queue
  <2>3. Put(a, f, b)
    BY <1>1 DEF Queue, Put
  <2> QED BY <1>1, <2>2, <2>3 DEF Enqueue
<1>2. CASE ~(Len(a.tx) < TX_SLOTS)
  <2> DEFINE d == a.dropped \/ f # FORWARDED
             b == [a EXCEPT !.dropped = @ \/ f # FORWARDED]
  <2>1. d \in BOOLEAN
    OBVIOUS
  <2>2. b = [a EXCEPT !.dropped = d]
    BY DEF Queue
  <2> HIDE DEF d
  <2>3. [a EXCEPT !.dropped = d] \in Queue
    BY <2>1 DEF Queue
  <2>4. b.dropped = d /\ b.rx = a.rx /\ b.tail = a.tail /\ b.queued = a.queued
        /\ b.hw = a.hw /\ b.ready = a.ready /\ b.sent = a.sent /\ b.forwards = a.forwards
        /\ b.tx = a.tx
    BY <2>2 DEF Queue
  <2> HIDE DEF b
  <2>5. Put(a, f, b)
    BY <1>2, <2>4 DEF Put, d
  <2> QED BY <1>2, <2>2, <2>3, <2>5 DEF Enqueue, b
<1> QED BY <1>1, <1>2

\* What can_send makes of the bus's side.
Sent(a, f, b) ==
  IF f \in Blocked THEN SameBus(a, b)
  ELSE \E c \in Queue : /\ Put(a, f, c)
                        /\ b.dropped = c.dropped /\ b.forwards = c.forwards
                        /\ SameBus(c, b) \/ Took(c, b)

LEMMA CanSendDoes ==
  ASSUME NEW a \in Queue, NEW f \in Frames \cup {FORWARDED}
  PROVE  can_send(a, f) \in Queue /\ Grows(a, can_send(a, f)) /\ Sent(a, f, can_send(a, f))
<1>1. CASE f \in Blocked
  BY <1>1, ToHostDoes DEF can_send, Sent
<1>2. CASE f \notin Blocked
  <2> DEFINE c == Enqueue(a, f)
             b == process_can(c)
  <2>1. c \in Queue /\ Put(a, f, c)
    BY EnqueueDoes
  <2> HIDE DEF c
  <2>2. b \in Queue /\ Grows(c, b) /\ b.dropped = c.dropped /\ b.forwards = c.forwards
        /\ (b = c \/ Took(c, b))
    BY <2>1, ProcessDoes
  <2>3. can_send(a, f) = b
    BY <1>2 DEF can_send, c
  <2> HIDE DEF b
  <2>4. Grows(a, c)
    BY <2>1, GrowsNot DEF Put
  <2>5. Grows(a, b)
    BY <2>1, <2>2, <2>4, GrowsOn
  <2>6. SameBus(c, b) \/ Took(c, b)
    BY <2>2 DEF SameBus
  <2>7. Sent(a, f, b)
    BY <1>2, <2>1, <2>2, <2>6 DEF Sent
  <2> QED BY <2>2, <2>3, <2>5, <2>7
<1> QED BY <1>1, <1>2

\* comms_can_write as the queues after each frame, and a last look for room.
IsRun(a, frames, r) ==
  /\ r \in [0..Len(frames) -> Queue] /\ r[0] = a
  /\ \A i \in 1..Len(frames) :
       /\ Grows(r[i - 1], r[i]) /\ Sent(r[i - 1], frames[i], r[i])

LEMMA WriteRuns ==
  ASSUME NEW a \in Queue, NEW frames \in Seq(Frames)
  PROVE  \E r : /\ IsRun(a, frames, r)
                /\ comms_can_write(a, frames) = refresh_can_tx_slots_available(r[Len(frames)])
<1> DEFINE n == Len(frames)
           F(g) == [i \in 0..n |-> IF i = 0 THEN a ELSE can_send(g[i - 1], frames[i])]
           h == CHOOSE g : g = F(g)
           Upto(k, g) == /\ g \in [0..k -> Queue] /\ g[0] = a
                         /\ \A i \in 1..k : g[i] = can_send(g[i - 1], frames[i])
           S == {k \in 0..n : \E g : Upto(k, g)}
<1>1. n \in Nat /\ \A i \in 1..n : frames[i] \in Frames \cup {FORWARDED}
  OBVIOUS
<1>2. 0 \in S
  <2> DEFINE g == [i \in 0..0 |-> a]
  <2>1. Upto(0, g)
    OBVIOUS
  <2> HIDE DEF g, Upto
  <2> QED BY <1>1, <2>1
<1>3. ASSUME NEW k \in 0..n, k \in S, k # n PROVE k + 1 \in S
  <2>1. PICK g : Upto(k, g)
    BY <1>3
  <2> DEFINE x == can_send(g[k], frames[k + 1])
             gg == [i \in 0..k + 1 |-> IF i = k + 1 THEN x ELSE g[i]]
  <2>2. k + 1 \in 1..n /\ k \in Nat
    BY <1>1, <1>3
  <2>3. g[k] \in Queue
    BY <2>1, <2>2
  <2>4. x \in Queue
    BY <1>1, <2>2, <2>3, CanSendDoes
  <2> HIDE DEF x
  <2>5. gg \in [0..k + 1 -> Queue] /\ gg[0] = a
    BY <2>1, <2>2, <2>4
  <2>6. ASSUME NEW i \in 1..k + 1 PROVE gg[i] = can_send(gg[i - 1], frames[i])
    <3>1. CASE i = k + 1
      <4>1. gg[i] = x /\ i - 1 = k
        BY <2>2, <3>1
      <4>2. k \in 0..k + 1 /\ k # k + 1
        BY <2>2
      <4>3. gg[k] = g[k]
        BY <4>2
      <4> QED BY <3>1, <4>1, <4>3 DEF x
    <3>2. CASE i # k + 1
      <4>1. i \in 1..k /\ i \in 0..k /\ i - 1 \in 0..k
        BY <2>2, <3>2
      <4>2. gg[i] = g[i] /\ gg[i - 1] = g[i - 1]
        BY <2>2, <4>1
      <4> QED BY <2>1, <4>1, <4>2
    <3> QED BY <3>1, <3>2
  <2> HIDE DEF gg
  <2>7. Upto(k + 1, gg)
    BY <2>5, <2>6
  <2> HIDE DEF Upto
  <2> QED BY <2>2, <2>7
<1>4. n \in S
  <2> HIDE DEF S
  <2>1. \A i \in 0..n : i \in S
    BY <1>1, <1>2, <1>3, UpTo
  <2> QED BY <1>1, <2>1
<1>5. PICK g : Upto(n, g)
  BY <1>4
<1>6. g = F(g)
  <2>1. F(g) \in [0..n -> Queue] /\ g \in [0..n -> Queue]
    <3>1. ASSUME NEW i \in 0..n PROVE F(g)[i] = g[i]
      BY <1>1, <1>5
    <3> QED BY <1>5, <3>1
  <2>2. \A i \in 0..n : F(g)[i] = g[i]
    BY <1>1, <1>5
  <2> QED BY <2>1, <2>2
<1>7. h = F(h)
  BY <1>6
<1>8. comms_can_write(a, frames) = refresh_can_tx_slots_available(h[n])
  BY DEF comms_can_write
<1> HIDE DEF h
<1>9. /\ DOMAIN h = 0..n /\ h[0] = a
      /\ \A i \in 1..n : h[i] = can_send(h[i - 1], frames[i])
  <2> DEFINE G == F(h)
  <2>1. DOMAIN G = 0..n
    OBVIOUS
  <2>2. G[0] = a
    BY <1>1
  <2>3. ASSUME NEW i \in 1..n PROVE G[i] = can_send(h[i - 1], frames[i])
    <3>1. i \in 0..n /\ i # 0
      BY <1>1
    <3> QED BY <3>1
  <2>4. G = h
    BY <1>7
  <2> HIDE DEF G
  <2> QED BY <2>1, <2>2, <2>3, <2>4
<1>10. \A i \in 0..n : h[i] \in Queue
  <2> DEFINE T == {i \in 0..n : h[i] \in Queue}
  <2>1. 0 \in T
    BY <1>1, <1>9
  <2>2. ASSUME NEW i \in 0..n, i \in T, i # n PROVE i + 1 \in T
    <3>1. i + 1 \in 1..n /\ i + 1 \in 0..n /\ (i + 1) - 1 = i
      BY <1>1, <2>2
    <3>2. h[i + 1] = can_send(h[i], frames[i + 1])
      BY <1>9, <3>1
    <3> QED BY <1>1, <2>2, <3>1, <3>2, CanSendDoes
  <2> HIDE DEF T
  <2>3. \A i \in 0..n : i \in T
    BY <1>1, <2>1, <2>2, UpTo
  <2> QED BY <2>3 DEF T
<1>11. ASSUME NEW i \in 1..n
       PROVE  Grows(h[i - 1], h[i]) /\ Sent(h[i - 1], frames[i], h[i])
  <2>1. i - 1 \in 0..n
    BY <1>1
  <2>2. h[i - 1] \in Queue /\ h[i] = can_send(h[i - 1], frames[i])
    BY <1>9, <1>10, <2>1
  <2> QED BY <1>1, <2>2, CanSendDoes
<1>12. h \in [0..n -> Queue]
  BY <1>7, <1>9, <1>10
<1>13. IsRun(a, frames, h)
  BY <1>9, <1>11, <1>12 DEF IsRun
<1> QED BY <1>8, <1>13

LEMMA WriteDoes ==
  ASSUME NEW a \in Queue, NEW frames \in Seq(Frames)
  PROVE  LET b == comms_can_write(a, frames)
         IN  b \in Queue /\ Grows(a, b) /\ b.forwards = a.forwards
<1> DEFINE n == Len(frames)
           b == comms_can_write(a, frames)
<1>0. n \in Nat
  OBVIOUS
<1>1. PICK r : IsRun(a, frames, r) /\ b = refresh_can_tx_slots_available(r[n])
  BY WriteRuns
<1> HIDE DEF b, n
<1>2. /\ n \in Nat /\ r[0] = a /\ \A i \in 0..n : r[i] \in Queue
      /\ \A i \in 1..n : Grows(r[i - 1], r[i]) /\ Sent(r[i - 1], frames[i], r[i])
  BY <1>0, <1>1 DEF IsRun, n
<1> DEFINE S == {i \in 0..n : Grows(a, r[i]) /\ r[i].forwards = a.forwards}
<1>3. 0 \in S
  BY <1>2, GrowsNot
<1>4. ASSUME NEW i \in 0..n, i \in S, i # n PROVE i + 1 \in S
  <2>1. i + 1 \in 1..n /\ i + 1 \in 0..n /\ (i + 1) - 1 = i
    BY <1>2, <1>4
  <2>2. Grows(r[i], r[i + 1]) /\ Sent(r[i], frames[i + 1], r[i + 1])
    BY <1>2, <2>1
  <2>3. r[i] \in Queue /\ r[i + 1] \in Queue
    BY <1>2, <2>1
  <2>4. r[i + 1].forwards = r[i].forwards
    BY <2>2 DEF Sent, SameBus, Put
  <2>5. Grows(a, r[i + 1])
    BY <1>4, <2>2, <2>3, GrowsOn
  <2> QED BY <1>4, <2>1, <2>4, <2>5
<1> HIDE DEF S
<1>5. \A i \in 0..n : i \in S
  BY <1>2, <1>3, <1>4, UpTo
<1>6. Grows(a, r[n]) /\ r[n].forwards = a.forwards /\ r[n] \in Queue
  BY <1>2, <1>5 DEF S
<1>7. /\ b \in Queue /\ b.rx = r[n].rx /\ b.tail = r[n].tail /\ b.queued = r[n].queued
      /\ b.forwards = r[n].forwards
  BY <1>1, <1>6, RefreshDoes
<1> HIDE DEF b
<1>8. Grows(a, b)
  BY <1>6, <1>7, GrowsNot, GrowsOn
<1> QED BY <1>6, <1>7, <1>8 DEF b

LEMMA CanRxDoes ==
  ASSUME NEW a \in Queue, NEW forward \in BOOLEAN
  PROVE  LET b == can_rx(a, forward)
         IN  /\ b \in Queue /\ Grows(a, b)
             /\ b.forwards = (a.forwards \/ forward)
             /\ ~forward => SameBus(a, b)
             /\ forward => \E c \in Queue : Sent([a EXCEPT !.forwards = TRUE], FORWARDED, c)
                                            /\ SameBus(c, b)
<1> DEFINE b == can_rx(a, forward)
<1>1. CASE ~forward
  <2>1. b = ToHost(a)
    BY <1>1 DEF can_rx
  <2> HIDE DEF b
  <2>2. b \in Queue /\ Grows(a, b) /\ SameBus(a, b)
    BY <2>1, ToHostDoes
  <2>3. b.forwards = (a.forwards \/ forward)
    BY <1>1, <2>2 DEF SameBus, Queue
  <2> QED BY <1>1, <2>2, <2>3 DEF b
<1>2. CASE forward
  <2> DEFINE d == [a EXCEPT !.forwards = TRUE]
             c == can_send(d, FORWARDED)
  <2>1. b = ToHost(c)
    BY <1>2 DEF can_rx
  <2>2. d \in Queue /\ d.forwards = TRUE
        /\ d.rx = a.rx /\ d.tail = a.tail /\ d.queued = a.queued
    BY DEF Queue
  <2>3. Grows(a, d)
    BY <2>2, GrowsNot
  <2> HIDE DEF b
  <2>4. c \in Queue /\ Grows(d, c) /\ Sent(d, FORWARDED, c)
    <3> HIDE DEF d
    <3> QED BY <2>2, CanSendDoes
  <2>5. c.forwards = d.forwards
    <3> HIDE DEF d, c
    <3> QED BY <2>4 DEF Sent, SameBus, Put
  <2>6. b \in Queue /\ Grows(c, b) /\ SameBus(c, b)
    <3> HIDE DEF d, c
    <3> QED BY <2>1, <2>4, ToHostDoes
  <2>7. Grows(a, b)
    <3> HIDE DEF d, c
    <3> QED BY <2>2, <2>3, <2>4, <2>6, GrowsOn
  <2>8. b.forwards = (a.forwards \/ forward)
    <3> HIDE DEF d, c
    <3> QED BY <1>2, <2>2, <2>5, <2>6 DEF SameBus
  <2>9. \E x \in Queue : Sent(d, FORWARDED, x) /\ SameBus(x, b)
    <3> HIDE DEF d, c
    <3> QED BY <2>4, <2>6
  <2> QED BY <1>2, <2>6, <2>7, <2>8, <2>9 DEF b
<1> QED BY <1>1, <1>2

LEMMA TxDoneDoes ==
  ASSUME NEW a \in Queue, a.hw > 0
  PROVE  LET b == TxDone(a)
         IN  /\ b \in Queue /\ Grows(a, b)
             /\ b.dropped = a.dropped /\ b.forwards = a.forwards
             /\ \/ b.tx = a.tx /\ b.sent = a.sent /\ b.ready = a.ready
                \/ Took(a, b)
<1> DEFINE c == [a EXCEPT !.hw = @ - 1]
           b == process_can(c)
<1>1. /\ c \in Queue /\ c.rx = a.rx /\ c.tail = a.tail /\ c.queued = a.queued
      /\ c.tx = a.tx /\ c.sent = a.sent /\ c.ready = a.ready
      /\ c.dropped = a.dropped /\ c.forwards = a.forwards
  <2>1. a.hw - 1 \in Nat
    BY QueueFields
  <2> QED BY <2>1 DEF Queue
<1> HIDE DEF c
<1>2. /\ b \in Queue /\ Grows(c, b)
      /\ b.dropped = c.dropped /\ b.forwards = c.forwards
      /\ (b = c \/ Took(c, b))
  BY <1>1, ProcessDoes
<1>3. TxDone(a) = b
  BY DEF TxDone, c
<1> HIDE DEF b
<1>4. Grows(a, b)
  BY <1>1, <1>2, GrowsNot, GrowsOn
<1>5. b = c \/ Took(a, b)
  BY <1>1, <1>2 DEF Took
<1> QED BY <1>1, <1>2, <1>3, <1>4, <1>5

LEMMA ResetDoes ==
  ASSUME NEW a \in Queue
  PROVE  LET b == comms_can_reset(a)
         IN  /\ b \in Queue /\ b.tail = <<>> /\ b.rx = a.rx /\ b.queued = a.queued
             /\ SameBus(a, b)
<1>1. <<>> \in Seq(Unit)
  OBVIOUS
<1> DEFINE e == <<>>
           b == [a EXCEPT !.tail = e]
<1> HIDE DEF e
<1>2. e \in Seq(Unit)
  BY <1>1 DEF e
<1>3. b \in Queue /\ b.tail = e /\ b.rx = a.rx /\ b.queued = a.queued /\ SameBus(a, b)
  BY <1>2 DEF Queue, SameBus
<1> HIDE DEF b
<1>4. comms_can_reset(a) = b
  BY DEF comms_can_reset, b, e
<1> QED BY <1>3, <1>4 DEF e

---------------------------------------------------------------------------
(* Room in can_tx_q *)

\* Room for the largest transfer, where the panda is ready for one.
Roomy(a) ==
  a.forwards \/ /\ ~a.dropped /\ Len(a.tx) <= TX_SLOTS
                /\ a.ready => 2 * (TX_SLOTS - Len(a.tx)) >= MIN_SLOTS + 1

\* The bus makes room.
LEMMA TookRoom ==
  ASSUME NEW a \in Queue, NEW b \in Queue, Took(a, b)
  PROVE  /\ Len(b.tx) = Len(a.tx) - 1 /\ Len(b.tx) \in Nat
         /\ b.ready => a.ready \/ TX_SLOTS - Len(b.tx) >= MIN_SLOTS
<1>1. a.tx \in Seq(Frames \cup {FORWARDED}) /\ a.tx # <<>>
  BY QueueFields DEF Took
<1>2. Len(Tail(a.tx)) = Len(a.tx) - 1
  BY <1>1, HeadTailProperties
<1>3. Len(b.tx) \in Nat
  BY QueueFields
<1> QED BY <1>2, <1>3 DEF Took

\* How many of the first i frames of a transfer have passed
PassedOf(frames, i) == {k \in 1..i : frames[k] \notin Blocked}

LEMMA PassedCounts ==
  ASSUME NEW frames, NEW i \in Nat
  PROVE  /\ IsFiniteSet(PassedOf(frames, i)) /\ Cardinality(PassedOf(frames, i)) \in Nat
         /\ Cardinality(PassedOf(frames, 0)) = 0
         /\ Cardinality(PassedOf(frames, i + 1)) =
              Cardinality(PassedOf(frames, i)) + (IF frames[i + 1] \in Blocked THEN 0 ELSE 1)
<1>0. IsFiniteSet(1..i)
  BY FS_Interval
<1>1. PassedOf(frames, i) \subseteq 1..i /\ IsFiniteSet(1..i)
  BY <1>0 DEF PassedOf
<1>2. IsFiniteSet(PassedOf(frames, i)) /\ Cardinality(PassedOf(frames, i)) \in Nat
  BY <1>1, FS_Subset, FS_CardinalityType
<1>3. PassedOf(frames, 0) = {}
  BY DEF PassedOf
<1>4. i + 1 \notin PassedOf(frames, i)
  BY DEF PassedOf
<1>7. 1..i + 1 = (1..i) \cup {i + 1}
  OBVIOUS
<1>5. CASE frames[i + 1] \in Blocked
  <2>1. PassedOf(frames, i + 1) = PassedOf(frames, i)
    BY <1>5, <1>7 DEF PassedOf
  <2>2. Cardinality(PassedOf(frames, 0)) = 0
    BY <1>3, FS_EmptySet
  <2>3. Cardinality(PassedOf(frames, i + 1)) = Cardinality(PassedOf(frames, i)) + 0
    BY <1>2, <2>1
  <2> QED BY <1>2, <1>5, <2>2, <2>3
<1>6. CASE frames[i + 1] \notin Blocked
  <2>1. PassedOf(frames, i + 1) = PassedOf(frames, i) \cup {i + 1}
    BY <1>6, <1>7 DEF PassedOf
  <2>2. Cardinality(PassedOf(frames, i) \cup {i + 1}) = Cardinality(PassedOf(frames, i)) + 1
    BY <1>2, <1>4, FS_AddElement
  <2> QED BY <1>2, <1>3, <1>6, <2>1, <2>2, FS_EmptySet
<1> QED BY <1>5, <1>6

LEMMA PassedWithin ==
  ASSUME NEW frames, NEW i \in Nat, NEW j \in Nat, i <= j
  PROVE  Cardinality(PassedOf(frames, i)) <= Cardinality(PassedOf(frames, j))
<1>1. PassedOf(frames, i) \subseteq PassedOf(frames, j)
  BY DEF PassedOf
<1>2. IsFiniteSet(PassedOf(frames, j))
  BY PassedCounts
<1> QED BY <1>1, <1>2, FS_Subset

\* Room for all n frames of a transfer of which k have passed, and room for one more of the
\* largest when the panda is ready again.
Room(a, k, n) ==
  /\ ~a.dropped /\ Len(a.tx) <= TX_SLOTS
  /\ TX_SLOTS - Len(a.tx) + k >= n
  /\ a.ready => TX_SLOTS - Len(a.tx) + k >= MIN_SLOTS + 1

LEMMA RoomKept ==
  ASSUME NEW a \in Queue, NEW b \in Queue, NEW k \in Nat, NEW k2 \in Nat, NEW n \in Nat,
         Room(a, k, n), Len(b.tx) <= TX_SLOTS, Len(b.tx) - Len(a.tx) <= k2 - k,
         b.dropped = a.dropped,
         b.ready => a.ready \/ TX_SLOTS - Len(b.tx) + k2 >= MIN_SLOTS + 1
  PROVE  Room(b, k2, n)
<1> DEFINE l == Len(a.tx)
           m == Len(b.tx)
           A == TX_SLOTS - l + k >= MIN_SLOTS + 1
           B == TX_SLOTS - m + k2 >= MIN_SLOTS + 1
<1>1. l \in Nat /\ m \in Nat /\ TX_SLOTS \in Nat /\ MIN_SLOTS \in Nat
  BY QueueFields, Slots
<1>2. ~a.dropped /\ (a.ready => A)
  BY DEF Room
<1>3. TX_SLOTS - l + k >= n
  BY DEF Room
<1>4. m - l <= k2 - k /\ m <= TX_SLOTS
  OBVIOUS
<1> HIDE DEF l, m
<1>5. TX_SLOTS - m + k2 >= n
  BY <1>1, <1>3, <1>4
<1>6. A => B
  BY <1>1, <1>4
<1>7. b.ready => a.ready \/ B
  BY DEF m
<1> HIDE DEF A, B
<1>8. b.ready => B
  BY <1>2, <1>6, <1>7
<1>9. ~b.dropped
  BY <1>2
<1> QED BY <1>4, <1>5, <1>8, <1>9 DEF Room, m, B

\* How many have passed with one more frame
With(f, k) == IF f \in Blocked THEN k ELSE k + 1

\* One frame of a transfer, while there is room for those that are left of it.
LEMMA SendHasRoom ==
  ASSUME NEW a \in Queue, NEW f \in Frames, NEW b \in Queue, Sent(a, f, b),
         NEW k \in Nat, NEW n \in Nat, NEW k2 \in Nat,
         k2 = With(f, k), k2 <= n, Room(a, k, n)
  PROVE  Room(b, k2, n)
<1>1. Len(a.tx) \in Nat /\ Len(b.tx) \in Nat /\ TX_SLOTS \in Nat /\ MIN_SLOTS \in Nat
  BY QueueFields, Slots
<1>2. CASE f \in Blocked
  <2>1. k2 = k
    BY <1>2 DEF With
  <2>2. b.tx = a.tx /\ b.ready = a.ready /\ b.dropped = a.dropped
    BY <1>2 DEF Sent, SameBus
  <2> QED BY <2>1, <2>2 DEF Room
<1>3. CASE f \notin Blocked
  <2>1. k2 = k + 1
    BY <1>3 DEF With
  <2>2. PICK c \in Queue : /\ Put(a, f, c) /\ b.dropped = c.dropped
                           /\ SameBus(c, b) \/ Took(c, b)
    BY <1>3 DEF Sent
  <2>3. Len(a.tx) < TX_SLOTS
    <3>1. TX_SLOTS - Len(a.tx) + k >= n
      BY DEF Room
    <3> QED BY <1>1, <2>1, <3>1
  <2>4. c.tx = Append(a.tx, f) /\ c.dropped = a.dropped /\ c.ready = a.ready
    BY <2>2, <2>3 DEF Put
  <2>5. Len(c.tx) = Len(a.tx) + 1
    BY <2>4, QueueFields, AppendProperties
  <2>6. b.dropped = a.dropped
    BY <2>2, <2>4
  <2>7. CASE SameBus(c, b)
    <3>1. b.tx = c.tx /\ b.ready = a.ready
      BY <2>4, <2>7 DEF SameBus
    <3>2. Len(b.tx) <= TX_SLOTS /\ Len(b.tx) - Len(a.tx) <= k2 - k
      BY <1>1, <2>1, <2>3, <2>5, <3>1
    <3> QED BY <2>6, <3>1, <3>2, RoomKept
  <2>8. CASE Took(c, b)
    <3>1. Len(b.tx) = Len(c.tx) - 1 /\ (b.ready => c.ready \/ TX_SLOTS - Len(b.tx) >= MIN_SLOTS)
      BY <2>8, TookRoom
    <3>2. Len(b.tx) <= TX_SLOTS /\ Len(b.tx) - Len(a.tx) <= k2 - k
      BY <1>1, <2>1, <2>3, <2>5, <3>1
    <3>3. TX_SLOTS - Len(b.tx) >= MIN_SLOTS => TX_SLOTS - Len(b.tx) + k2 >= MIN_SLOTS + 1
      <4> DEFINE m == Len(b.tx)
      <4>1. m \in Nat
        BY <1>1
      <4> HIDE DEF m
      <4>2. TX_SLOTS - m >= MIN_SLOTS => TX_SLOTS - m + k2 >= MIN_SLOTS + 1
        BY <1>1, <2>1, <4>1
      <4> QED BY <4>2 DEF m
    <3>4. b.ready => a.ready \/ TX_SLOTS - Len(b.tx) + k2 >= MIN_SLOTS + 1
      BY <2>4, <3>1, <3>3, Zenon
    <3> QED BY <2>6, <3>2, <3>4, RoomKept
  <2> QED BY <2>2, <2>7, <2>8
<1> QED BY <1>2, <1>3

\* A transfer that was found room for is queued whole, and room is found again, if at all,
\* for the largest one.
LEMMA WriteHasRoom ==
  ASSUME NEW a \in Queue, NEW frames \in Seq(Frames),
         ~a.forwards, ~a.dropped, ~a.ready, Len(a.tx) <= TX_SLOTS,
         2 * (TX_SLOTS - Len(a.tx)) >= MIN_SLOTS + 1,
         MIN_SLOTS + 1 >= 2 * Cardinality(Passed(frames))
  PROVE  Roomy(comms_can_write(a, frames))
<1> DEFINE n == Len(frames)
           b == comms_can_write(a, frames)
           C(i) == Cardinality(PassedOf(frames, i))
           N == C(n)
<1>0. n \in Nat
  OBVIOUS
<1>1. PICK r : IsRun(a, frames, r) /\ b = refresh_can_tx_slots_available(r[n])
  BY WriteRuns
<1> HIDE DEF b
<1>2. /\ r[0] = a /\ \A i \in 0..n : r[i] \in Queue
      /\ \A i \in 1..n : Sent(r[i - 1], frames[i], r[i])
  BY <1>0, <1>1 DEF IsRun
<1>3. Passed(frames) = PassedOf(frames, n)
  BY DEF Passed, PassedOf
<1>4. MIN_SLOTS + 1 >= 2 * N
  BY <1>3
<1>5. \A i \in Nat : C(i) \in Nat
  BY PassedCounts
<1>6. C(0) = 0 /\ N \in Nat
  BY <1>0, PassedCounts
<1>7. Len(a.tx) \in Nat /\ TX_SLOTS \in Nat /\ MIN_SLOTS \in Nat
  BY QueueFields, Slots
<1> DEFINE S == {i \in 0..n : Room(r[i], C(i), N)}
<1>8. 0 \in S
  <2> HIDE DEF N, C
  <2>1. TX_SLOTS - Len(a.tx) + 0 >= N
    BY <1>4, <1>6, <1>7
  <2>2. Room(a, 0, N)
    BY <2>1 DEF Room
  <2> QED BY <1>0, <1>2, <1>6, <2>2
<1>9. ASSUME NEW i \in 0..n, i \in S, i # n PROVE i + 1 \in S
  <2>1. i + 1 \in 1..n /\ i + 1 \in 0..n /\ (i + 1) - 1 = i /\ i \in Nat /\ i + 1 \in Nat /\ i + 1 <= n
    BY <1>0, <1>9
  <2>2. r[i] \in Queue /\ r[i + 1] \in Queue /\ Sent(r[i], frames[i + 1], r[i + 1])
    BY <1>2, <2>1
  <2>3. frames[i + 1] \in Frames
    BY <2>1
  <2>4. C(i) \in Nat /\ C(i + 1) \in Nat
        /\ C(i + 1) = With(frames[i + 1], C(i))
    BY <2>1, PassedCounts DEF With
  <2>5. C(i + 1) <= N
    BY <1>0, <2>1, PassedWithin
  <2>6. Room(r[i], C(i), N)
    BY <1>9
  <2> HIDE DEF C, N, S
  <2>7. Room(r[i + 1], C(i + 1), N)
    BY <1>6, <2>2, <2>3, <2>4, <2>5, <2>6, SendHasRoom
  <2> QED BY <2>1, <2>7 DEF S
<1> HIDE DEF S
<1>10. \A i \in 0..n : i \in S
  BY <1>0, <1>8, <1>9, UpTo
<1> DEFINE x == r[n]
<1>11. Room(x, N, N) /\ x \in Queue
  BY <1>0, <1>2, <1>10 DEF S
<1>12. /\ b \in Queue /\ b.tx = x.tx /\ b.dropped = x.dropped
       /\ b.ready = (x.ready \/ TX_SLOTS - Len(x.tx) >= MIN_SLOTS)
  BY <1>1, <1>11, RefreshDoes
<1> HIDE DEF x, N, C
<1> DEFINE m == Len(b.tx)
           A == TX_SLOTS - m + N >= MIN_SLOTS + 1
           B == TX_SLOTS - m >= MIN_SLOTS
           D == 2 * (TX_SLOTS - m) >= MIN_SLOTS + 1
<1>13. m \in Nat
  BY <1>12, QueueFields
<1>14. m <= TX_SLOTS /\ ~b.dropped
  BY <1>11, <1>12 DEF Room
<1>15. b.ready => A \/ B
  BY <1>11, <1>12, Zenon DEF Room
<1> HIDE DEF m
<1>16. A => D
  BY <1>4, <1>6, <1>7, <1>13
<1>17. B => D
  BY <1>7, <1>13, Slots
<1>18. b.ready => D
  BY <1>15, <1>16, <1>17, Zenon
<1> QED BY <1>14, <1>18 DEF Roomy, b, m

---------------------------------------------------------------------------
(* Types of the link, and what a burst may make of the panda *)

Parts == {<<>>} \cup {Batches[i] : i \in 1..Len(Batches)}
HostReq == [op : {"reset", "read", "write"}, max : Nat, frames : Parts]
Req == HostReq \cup {GARBAGE}
States == {"header", "part", "received", "ack", "nack", "data", "data received", "answer",
           "read", "rest"}
Panda == [state : States, req : Req, answer : Seq(Unit)]
Phases == {"none", "header", "hack", "data", "dack", "read", "fail"}
Turn == [by : Threads \cup {"free"}, phase : Phases, nacks : 0..NACKS - 1, late : BOOLEAN]
Thread == [pc : {"off", "idle", "try", "unpack"}, req : HostReq, timeouts : Nat,
           data : Seq(Unit)]

LEMMA Requests ==
  /\ RESET \in HostReq /\ GARBAGE \in Req
  /\ \A max \in Nat : Read(max) \in HostReq
  /\ \A frames \in Parts : Write(frames) \in HostReq
<1>1. <<>> \in Parts
  BY DEF Parts
<1>2. RESET \in HostReq
  BY <1>1 DEF RESET, Request, HostReq
<1>3. ASSUME NEW max \in Nat PROVE Read(max) \in HostReq
  <2>1. (IF max < XFER THEN max ELSE XFER) \in Nat
    BY Slots
  <2> QED BY <1>1, <2>1 DEF Read, Request, HostReq
<1>4. ASSUME NEW frames \in Parts PROVE Write(frames) \in HostReq
  BY DEF Write, Request, HostReq
<1> QED BY <1>2, <1>3, <1>4 DEF Req

LEMMA FramesOf ==
  ASSUME NEW r \in Req, r # GARBAGE
  PROVE  /\ r \in HostReq /\ r.frames \in Seq(Frames) /\ r.max \in Nat
         /\ MIN_SLOTS + 1 >= 2 * Cardinality(Passed(r.frames))
<1>1. r \in HostReq /\ r.frames \in Parts /\ r.max \in Nat
  BY DEF Req, HostReq
<1>2. CASE r.frames = <<>>
  <2>1. Passed(<<>>) = {}
    BY DEF Passed
  <2>2. Cardinality(Passed(r.frames)) = 0
    BY <1>2, <2>1, FS_EmptySet
  <2>3. r.frames \in Seq(Frames)
    BY <1>2
  <2> QED BY <1>1, <2>2, <2>3, Slots
<1>3. CASE r.frames # <<>>
  <2>1. PICK i \in 1..Len(Batches) : r.frames = Batches[i]
    BY <1>1, <1>3 DEF Parts
  <2>2. Batches \in Seq(Seq(Frames))
    BY QueueConstants
  <2>3. Batches[i] \in Seq(Frames)
    BY <2>2, ElementOfSeq
  <2>4. MIN_SLOTS + 1 >= 2 * Cardinality(Passed(Batches[i]))
    BY QueueConstants
  <2> QED BY <1>1, <2>1, <2>3, <2>4
<1> QED BY <1>2, <1>3

LEMMA InIs ==
  ASSUME NEW state \in States, NEW req \in Req
  PROVE  /\ In(state, req) \in Panda /\ In(state, req).state = state
         /\ In(state, req).req = req /\ In(state, req).answer = <<>>
  BY DEF In, Panda

\* The panda with nothing to look at but garbage, and no answer
Calm(x) ==
  /\ x \in Panda /\ x.state \in {"header", "part", "received", "nack", "rest"}
  /\ x.req = GARBAGE /\ x.answer = <<>>

LEMMA CalmOnes ==
  /\ \A s \in {"header", "part", "received", "nack", "rest"} : Calm(In(s, GARBAGE))
  /\ Calm(READY) /\ READY.state = "header" /\ Calm(Nacks) /\ Nacks.state = "nack"
  /\ Calm(Got(GARBAGE)) /\ Calm(ToGarbage)
<1>1. ASSUME NEW s \in {"header", "part", "received", "nack", "rest"} PROVE Calm(In(s, GARBAGE))
  <2>1. s \in States
    BY DEF States
  <2>2. /\ In(s, GARBAGE) \in Panda /\ In(s, GARBAGE).state = s
        /\ In(s, GARBAGE).req = GARBAGE /\ In(s, GARBAGE).answer = <<>>
    BY <2>1, InIs, Requests
  <2> QED BY <2>2 DEF Calm
<1>2. READY.state = "header" /\ Nacks.state = "nack"
  BY DEF READY, Nacks, In
<1> QED BY <1>1, <1>2 DEF READY, Nacks, Got, ToGarbage

\* What a burst leaves of the panda that does not expect it
Strays(p, x) ==
  \/ x = p /\ p.state \in {"received", "data received"}
  \/ p.state \notin {"received", "data received"} /\ Calm(x)
  \/ p.state = "ack" /\ x = In("data", p.req)

LEMMA StrewnIs ==
  ASSUME NEW p \in Panda, NEW x \in StrewnLong(p)
  PROVE  Strays(p, x)
<1>1. CASE p.state \in {"received", "data received"}
  <2>1. Strewn(p) = {p}
    BY <1>1, Zenon DEF Strewn
  <2> QED BY <1>1, <2>1 DEF StrewnLong, Strays
<1>2. CASE p.state \notin {"received", "data received"}
  <2>1. x \in Strewn(p) \/ x \in Resynced
    BY DEF StrewnLong
  <2>2. CASE x \in Resynced
    BY <1>2, <2>2, CalmOnes DEF Resynced, Strays
  <2>3. CASE x \in Strewn(p)
    <3>1. CASE p.state \in {"header", "part", "data"}
      <4>1. Strewn(p) = {In("part", GARBAGE), Got(GARBAGE)}
        BY <1>2, <3>1, Zenon DEF Strewn
      <4> QED BY <1>2, <2>3, <4>1, CalmOnes DEF Strays
    <3>2. CASE p.state = "nack"
      <4>1. Strewn(p) = {READY, In("part", GARBAGE)}
        <5>1. p.state \notin {"header", "part", "data"}
          BY <3>2
        <5> QED BY <1>2, <3>2, <5>1, Zenon DEF Strewn
      <4> QED BY <1>2, <2>3, <4>1, CalmOnes DEF Strays
    <3>3. CASE p.state = "ack"
      <4>1. Strewn(p) = {In("data", p.req), In("part", GARBAGE)}
        <5>1. p.state \notin {"header", "part", "data"} /\ p.state # "nack"
          BY <3>3
        <5> QED BY <1>2, <3>3, <5>1, Zenon DEF Strewn
      <4> QED BY <1>2, <2>3, <3>3, <4>1, CalmOnes DEF Strays
    <3>4. CASE p.state \notin {"header", "part", "data", "nack", "ack"}
      <4>1. Strewn(p) = {In("rest", GARBAGE), READY, In("part", GARBAGE)}
        <5>1. p.state \notin {"header", "part", "data"} /\ p.state # "nack" /\ p.state # "ack"
          BY <3>4
        <5> QED BY <1>2, <5>1, Zenon DEF Strewn
      <4> QED BY <1>2, <2>3, <4>1, CalmOnes DEF Strays
    <3> QED BY <3>1, <3>2, <3>3, <3>4
  <2> QED BY <2>1, <2>2, <2>3
<1> QED BY <1>1, <1>2

LEMMA AfterIs ==
  ASSUME NEW state, NEW next, panda \in Panda, NEW x \in AfterLong(state, next) \cup After(state, next)
  PROVE  IF panda.state = state THEN x = next ELSE Strays(panda, x)
<1>1. \A y \in Strewn(panda) : y \in StrewnLong(panda)
  BY DEF StrewnLong
<1>2. x \in StrewnLong(panda) => Strays(panda, x)
  BY StrewnIs
<1> QED BY <1>1, <1>2 DEF After, AfterLong

LEMMA StraysType ==
  ASSUME NEW p \in Panda, NEW x, Strays(p, x)
  PROVE  x \in Panda
<1>1. p.req \in Req
  BY DEF Panda
<1>2. "data" \in States
  BY DEF States
<1>3. In("data", p.req) \in Panda
  BY <1>1, <1>2, InIs
<1> QED BY <1>3 DEF Strays, Calm

---------------------------------------------------------------------------
(* Frames as units, and what a read takes *)

LEMMA Halves ==
  ASSUME NEW n \in Nat, NEW i \in Nat
  PROVE  /\ (2 * n + i + 1) \div 2 = n + (i + 1) \div 2 /\ (2 * n + i) % 2 = i % 2
         /\ (i + 1) \div 2 \in Nat
         /\ i >= 1 /\ i <= 2 * n => 1 <= (i + 1) \div 2 /\ (i + 1) \div 2 <= n
         /\ i = 2 * ((i + 1) \div 2) - (IF i % 2 = 1 THEN 1 ELSE 0)
  OBVIOUS

\* The i-th unit of frames
UnitAt(frames, i) == <<frames[(i + 1) \div 2], IF i % 2 = 1 THEN 1 ELSE 2>>

LEMMA UnitsAre ==
  ASSUME NEW frames \in Seq(Nat)
  PROVE  /\ Units(frames) \in Seq(Unit) /\ Len(Units(frames)) = 2 * Len(frames)
         /\ \A i \in 1..2 * Len(frames) :
              Units(frames)[i] = UnitAt(frames, i) /\ (i + 1) \div 2 \in 1..Len(frames)
<1> DEFINE n == Len(frames)
<1>1. n \in Nat /\ 2 * n \in Nat
  OBVIOUS
<1>2. \A i \in 1..n : frames[i] \in Nat
  OBVIOUS
<1>3. Units(frames) = [i \in 1..2 * n |-> UnitAt(frames, i)]
  BY DEF Units, UnitAt
<1> HIDE DEF n
<1>4. ASSUME NEW i \in 1..2 * n PROVE (i + 1) \div 2 \in 1..n
  BY <1>1, <1>4, Halves
<1>5. ASSUME NEW i \in 1..2 * n PROVE UnitAt(frames, i) \in Unit
  <2>1. frames[(i + 1) \div 2] \in Nat
    BY <1>2, <1>4
  <2>2. (IF i % 2 = 1 THEN 1 ELSE 2) \in {1, 2}
    OBVIOUS
  <2> QED BY <2>1, <2>2 DEF UnitAt, Unit
<1>6. Units(frames) \in [1..2 * n -> Unit]
  BY <1>3, <1>5
<1>7. Units(frames) \in Seq(Unit) /\ Len(Units(frames)) = 2 * n
  BY <1>1, <1>6
<1> QED BY <1>3, <1>4, <1>7 DEF n

\* Parts of a sequence
LEMMA SubSeqType ==
  ASSUME NEW S, NEW s \in Seq(S), NEW m \in Nat, NEW n \in Nat, m >= 1, n <= Len(s)
  PROVE  /\ SubSeq(s, m, n) \in Seq(S)
         /\ Len(SubSeq(s, m, n)) = IF m <= n THEN n - m + 1 ELSE 0
         /\ \A i \in 1..n - m + 1 : SubSeq(s, m, n)[i] = s[m + i - 1]
<1>1. \A i \in m..n : i \in 1..Len(s)
  OBVIOUS
<1>2. \A i \in m..n : s[i] \in S
  BY <1>1
<1> QED BY <1>2, SubSeqProperties

LEMMA ReadDoes ==
  ASSUME NEW a \in Queue, Len(a.tail) <= 1, NEW max \in Nat
  PROVE  LET all == a.tail \o Units(a.rx)
             b == AfterRead(a, max)
         IN  /\ all \in Seq(Unit) /\ Answer(a, max) \in Seq(Unit)
             /\ b \in Queue /\ Len(b.tail) <= 1 /\ SameBus(a, b) /\ b.queued = a.queued
             /\ \E k \in 0..Len(all) : \E m \in k..Len(all) :
                  /\ Answer(a, max) = SubSeq(all, 1, k)
                  /\ b.tail = SubSeq(all, k + 1, m)
                  /\ Units(b.rx) = SubSeq(all, m + 1, Len(all))
<1> DEFINE t == Len(a.tail)
           L == Len(a.rx)
           all == a.tail \o Units(a.rx)
           k == IF Len(all) < max THEN Len(all) ELSE max
           n == Popped(a, max)
           m == t + 2 * n
           rest == SubSeq(a.rx, n + 1, L)
           first == SubSeq(a.rx, 1, n)
           tail == SubSeq(a.tail \o Units(first), k + 1, m)
           b == AfterRead(a, max)
<1>1. a.rx \in Seq(Nat) /\ a.tail \in Seq(Unit) /\ t \in Nat /\ L \in Nat /\ t <= 1
  BY QueueFields
<1>2. /\ Units(a.rx) \in Seq(Unit) /\ Len(Units(a.rx)) = 2 * L
      /\ \A i \in 1..2 * L : Units(a.rx)[i] = UnitAt(a.rx, i)
  BY <1>1, UnitsAre
<1>3. all \in Seq(Unit) /\ Len(all) = t + 2 * L
      /\ \A i \in 1..t + 2 * L : all[i] = IF i <= t THEN a.tail[i] ELSE UnitAt(a.rx, i - t)
  <2> HIDE DEF L
  <2>1. /\ all \in Seq(Unit) /\ Len(all) = t + 2 * L
        /\ \A i \in 1..t + 2 * L : all[i] = IF i <= t THEN a.tail[i] ELSE Units(a.rx)[i - t]
    <3> DEFINE u == Units(a.rx)
    <3>1. u \in Seq(Unit) /\ Len(u) = 2 * L /\ a.tail \in Seq(Unit)
      BY <1>1, <1>2
    <3> HIDE DEF u
    <3>2. /\ a.tail \o u \in Seq(Unit) /\ Len(a.tail \o u) = Len(a.tail) + Len(u)
          /\ \A i \in 1..Len(a.tail) + Len(u) :
               (a.tail \o u)[i] = IF i <= Len(a.tail) THEN a.tail[i] ELSE u[i - Len(a.tail)]
      BY <3>1, ConcatProperties
    <3> QED BY <3>1, <3>2 DEF u
  <2> HIDE DEF all, t
  <2>2. ASSUME NEW i \in 1..t + 2 * L, ~(i <= t) PROVE Units(a.rx)[i - t] = UnitAt(a.rx, i - t)
    <3>1. i - t \in 1..2 * L
      BY <1>1, <2>2
    <3> QED BY <1>2, <3>1
  <2> QED BY <2>1, <2>2
<1> HIDE DEF all, L
<1>4. k \in Nat /\ k <= Len(all) /\ Answer(a, max) = SubSeq(all, 1, k)
  <2>1. Answer(a, max) = SubSeq(all, 1, k)
    BY DEF Answer, all
  <2>2. Len(all) \in Nat
    BY <1>3
  <2>3. k \in Nat /\ k <= Len(all)
    BY <2>2
  <2> QED BY <2>1, <2>3
<1> HIDE DEF k
<1>5. Answer(a, max) \in Seq(Unit) /\ Len(Answer(a, max)) = k
  BY <1>3, <1>4, SubSeqType
<1>6. n = (k + 1 - t) \div 2
  BY <1>5 DEF Popped
<1> HIDE DEF n, t
<1>7. n \in Nat /\ n <= L /\ k <= m /\ m <= k + 1 /\ m <= Len(all) /\ m \in Nat
  BY <1>1, <1>3, <1>4, <1>6
<1>8. rest \in Seq(Nat) /\ Len(rest) = L - n
      /\ \A i \in 1..L - n : rest[i] = a.rx[n + i]
  <2>1. n + 1 \in Nat /\ L <= Len(a.rx)
    BY <1>1, <1>7 DEF L
  <2>2. /\ rest \in Seq(Nat) /\ Len(rest) = IF n + 1 <= L THEN L - (n + 1) + 1 ELSE 0
        /\ \A i \in 1..L - (n + 1) + 1 : rest[i] = a.rx[n + 1 + i - 1]
    BY <1>1, <1>7, <2>1, SubSeqType
  <2> HIDE DEF rest
  <2>3. Len(rest) = L - n
    BY <1>1, <1>7, <2>2
  <2>4. ASSUME NEW i \in 1..L - n PROVE rest[i] = a.rx[n + i]
    <3>1. i \in 1..L - (n + 1) + 1 /\ n + 1 + i - 1 = n + i
      BY <1>1, <1>7
    <3>2. rest[i] = a.rx[n + 1 + i - 1]
      BY <2>2, <3>1
    <3> QED BY <3>1, <3>2
  <2> QED BY <2>2, <2>3, <2>4
<1>9. first \in Seq(Nat) /\ Len(first) = n /\ \A i \in 1..n : first[i] = a.rx[i]
  <2>1. n <= Len(a.rx)
    BY <1>7 DEF L
  <2>2. /\ first \in Seq(Nat) /\ Len(first) = IF 1 <= n THEN n - 1 + 1 ELSE 0
        /\ \A i \in 1..n - 1 + 1 : first[i] = a.rx[1 + i - 1]
    BY <1>1, <1>7, <2>1, SubSeqType
  <2> HIDE DEF first
  <2> QED BY <1>7, <2>2
<1> HIDE DEF rest, first
<1>10. /\ a.tail \o Units(first) \in Seq(Unit) /\ Len(a.tail \o Units(first)) = m
       /\ \A i \in 1..m : (a.tail \o Units(first))[i] = all[i]
  <2>1. /\ Units(first) \in Seq(Unit) /\ Len(Units(first)) = 2 * n
        /\ \A i \in 1..2 * n : Units(first)[i] = UnitAt(first, i) /\ (i + 1) \div 2 \in 1..n
    BY <1>9, UnitsAre
  <2> DEFINE c == a.tail \o Units(first)
  <2>2. /\ c \in Seq(Unit) /\ Len(c) = m
        /\ \A i \in 1..m : c[i] = IF i <= t THEN a.tail[i] ELSE Units(first)[i - t]
    BY <1>1, <2>1, ConcatProperties DEF t
  <2> HIDE DEF c, m
  <2>3. ASSUME NEW i \in 1..m PROVE c[i] = all[i]
    <3>1. i \in 1..t + 2 * L
      BY <1>1, <1>3, <1>7
    <3>2. CASE i <= t
      BY <1>3, <2>2, <3>1, <3>2
    <3>3. CASE ~(i <= t)
      <4> DEFINE j == i - t
      <4>1. j \in 1..2 * n
        BY <1>1, <1>7, <3>3 DEF m
      <4>2. all[i] = UnitAt(a.rx, j)
        BY <1>3, <3>1, <3>3
      <4>3. c[i] = Units(first)[j]
        BY <2>2, <3>3
      <4> HIDE DEF j
      <4>4. Units(first)[j] = UnitAt(first, j) /\ (j + 1) \div 2 \in 1..n
        BY <2>1, <4>1
      <4>5. first[(j + 1) \div 2] = a.rx[(j + 1) \div 2]
        BY <1>9, <4>4
      <4> QED BY <4>2, <4>3, <4>4, <4>5 DEF UnitAt
    <3> QED BY <3>2, <3>3
  <2> QED BY <2>2, <2>3 DEF c
<1>11. tail \in Seq(Unit) /\ tail = SubSeq(all, k + 1, m) /\ Len(tail) <= 1
  <2> DEFINE c == a.tail \o Units(first)
             s == SubSeq(all, k + 1, m)
  <2>1. k + 1 \in Nat /\ k + 1 >= 1
    BY <1>4
  <2>2. c \in Seq(Unit) /\ Len(c) = m /\ \A i \in 1..m : c[i] = all[i]
    BY <1>10
  <2> HIDE DEF m, c
  <2>3. /\ s \in Seq(Unit) /\ Len(s) = (IF k + 1 <= m THEN m - (k + 1) + 1 ELSE 0)
        /\ \A i \in 1..m - (k + 1) + 1 : s[i] = all[k + 1 + i - 1]
    <3>1. all \in Seq(Unit) /\ m \in Nat /\ m <= Len(all)
      BY <1>3, <1>7
    <3> QED BY <2>1, <3>1, SubSeqType
  <2>4. /\ SubSeq(c, k + 1, m) \in Seq(Unit)
        /\ Len(SubSeq(c, k + 1, m)) = (IF k + 1 <= m THEN m - (k + 1) + 1 ELSE 0)
        /\ \A i \in 1..m - (k + 1) + 1 : SubSeq(c, k + 1, m)[i] = c[k + 1 + i - 1]
    BY <1>7, <2>1, <2>2, SubSeqType
  <2>5. tail = SubSeq(c, k + 1, m)
    BY DEF c
  <2> HIDE DEF s, tail
  <2>6. \A i \in 1..Len(s) : k + 1 + i - 1 \in 1..m /\ i \in 1..m - (k + 1) + 1
    BY <1>4, <1>7, <2>3
  <2>7. \A i \in 1..Len(s) : tail[i] = s[i]
    BY <2>2, <2>3, <2>4, <2>5, <2>6
  <2>8. tail = s
    <3>1. tail \in Seq(Unit) /\ Len(tail) = Len(s)
      BY <2>3, <2>4, <2>5
    <3>2. \A i \in 1..Len(tail) : tail[i] = s[i]
      BY <2>7, <3>1
    <3> QED BY <2>3, <3>1, <3>2, SeqEqual
  <2>9. Len(s) <= 1
    BY <1>4, <1>7, <2>3
  <2> QED BY <2>3, <2>8, <2>9 DEF s
<1>12. Units(rest) = SubSeq(all, m + 1, Len(all))
  <2> DEFINE u == Units(rest)
             s == SubSeq(all, m + 1, Len(all))
  <2>1. /\ u \in Seq(Unit) /\ Len(u) = 2 * (L - n)
        /\ \A i \in 1..2 * (L - n) : u[i] = UnitAt(rest, i) /\ (i + 1) \div 2 \in 1..L - n
    BY <1>8, UnitsAre
  <2> HIDE DEF u
  <2>2. m + 1 \in Nat /\ m + 1 >= 1 /\ Len(all) \in Nat
    BY <1>1, <1>3, <1>7
  <2>3. /\ s \in Seq(Unit) /\ Len(s) = IF m + 1 <= Len(all) THEN Len(all) - (m + 1) + 1 ELSE 0
        /\ \A i \in 1..Len(all) - (m + 1) + 1 : s[i] = all[m + 1 + i - 1]
    <3> HIDE DEF m
    <3> QED BY <1>3, <2>2, SubSeqType
  <2> HIDE DEF s
  <2>4. Len(s) = Len(u)
    BY <1>1, <1>3, <1>7, <2>1, <2>3
  <2>5. ASSUME NEW i \in 1..Len(u) PROVE u[i] = s[i]
    <3>1. /\ i \in 1..2 * (L - n) /\ i \in 1..Len(all) - (m + 1) + 1 /\ i \in Nat
          /\ m + 1 + i - 1 = t + (2 * n + i) /\ t + (2 * n + i) \in 1..t + 2 * L
          /\ ~(t + (2 * n + i) <= t) /\ t + (2 * n + i) - t = 2 * n + i
      BY <1>1, <1>3, <1>7, <2>1
    <3>2. s[i] = UnitAt(a.rx, 2 * n + i)
      <4>1. s[i] = all[t + (2 * n + i)]
        BY <2>3, <3>1
      <4> DEFINE x == t + (2 * n + i)
      <4>2. x \in 1..t + 2 * L /\ ~(x <= t)
        BY <3>1
      <4>4. x - t = 2 * n + i
        BY <1>1, <1>7, <3>1
      <4> HIDE DEF x
      <4>3. all[x] = UnitAt(a.rx, x - t)
        BY <1>3, <4>2
      <4> QED BY <4>1, <4>3, <4>4 DEF x
    <3>3. u[i] = UnitAt(rest, i) /\ (i + 1) \div 2 \in 1..L - n
      BY <2>1, <3>1
    <3>4. rest[(i + 1) \div 2] = a.rx[n + (i + 1) \div 2]
      BY <1>8, <3>3
    <3>5. (2 * n + i + 1) \div 2 = n + (i + 1) \div 2 /\ (2 * n + i) % 2 = i % 2
      BY <1>7, <3>1, Halves
    <3> QED BY <3>2, <3>3, <3>4, <3>5 DEF UnitAt
  <2>6. u = s
    BY <2>1, <2>3, <2>4, <2>5, SeqEqual
  <2> QED BY <2>6 DEF u, s
<1>13. b.rx = rest /\ b.tail = tail /\ b.queued = a.queued /\ b \in Queue /\ SameBus(a, b)
  <2> DEFINE d == [a EXCEPT !.rx = rest, !.tail = tail]
  <2>1. b = d
    BY <1>5 DEF AfterRead, rest, first, n, t, L
  <2> HIDE DEF b, tail
  <2>2. d \in Queue
    BY <1>8, <1>11 DEF Queue
  <2>3. d.rx = rest /\ d.tail = tail /\ d.queued = a.queued
    BY DEF Queue
  <2>4. SameBus(a, d)
    BY DEF Queue, SameBus
  <2> QED BY <2>1, <2>2, <2>3, <2>4
<1> HIDE DEF b, m, tail
<1>14. k \in 0..Len(all) /\ m \in k..Len(all)
  BY <1>1, <1>3, <1>4, <1>7
<1>15. \E x \in 0..Len(all) : \E y \in x..Len(all) :
         /\ Answer(a, max) = SubSeq(all, 1, x)
         /\ b.tail = SubSeq(all, x + 1, y)
         /\ Units(b.rx) = SubSeq(all, y + 1, Len(all))
  BY <1>4, <1>11, <1>12, <1>13, <1>14
<1> QED BY <1>3, <1>5, <1>11, <1>13, <1>15 DEF all, b

---------------------------------------------------------------------------
(* Type correctness *)

TypeOK ==
  /\ q \in Queue /\ Len(q.tail) <= 1
  /\ panda \in Panda /\ ran \in Req
  /\ turn \in Turn
  /\ th \in [Threads -> Thread]
  /\ buf \in Seq(Unit) /\ got \in Seq(Nat \X Nat) /\ healthy \in BOOLEAN
  /\ arrived \in Nat /\ writes \in 0..Len(Batches) /\ faults \in Nat

LEMMA ThreadTypes ==
  /\ OFF \in Thread /\ OFF.pc = "off" /\ OFF.data = <<>>
  /\ IDLE \in Thread /\ IDLE.pc = "idle" /\ IDLE.data = <<>>
  /\ \A r \in HostReq : /\ Trying(r) \in Thread /\ Trying(r).pc = "try"
                        /\ Trying(r).req = r /\ Trying(r).data = <<>>
<1> DEFINE e == <<>>
<1>1. e \in Seq(Unit)
  OBVIOUS
<1> HIDE DEF e
<1>2. OFF = [pc |-> "off", req |-> RESET, timeouts |-> 0, data |-> e]
  BY DEF OFF, e
<1>3. RESET \in HostReq
  BY Requests
<1>4. OFF \in Thread /\ OFF.pc = "off" /\ OFF.data = e
  BY <1>1, <1>2, <1>3 DEF Thread
<1>5. IDLE \in Thread /\ IDLE.pc = "idle" /\ IDLE.data = e
  BY <1>4 DEF Thread, IDLE
<1>6. ASSUME NEW r \in HostReq
      PROVE  Trying(r) \in Thread /\ Trying(r).pc = "try"
             /\ Trying(r).req = r /\ Trying(r).data = e
  BY <1>4 DEF Thread, Trying
<1> QED BY <1>4, <1>5, <1>6 DEF e

LEMMA FreeType == FREE \in Turn /\ FREE.by = "free" /\ FREE.phase = "none"
  BY Slots DEF FREE, Turn, Phases

LEMMA GoesDoes ==
  ASSUME turn \in Turn, NEW p \in Phases, Goes(p)
  PROVE  turn' \in Turn /\ turn'.by = turn.by /\ turn'.phase = p
  BY DEF Goes, Turn

\* What the end of a request makes of the threads
Done(t, answer) ==
  /\ th' \in [Threads -> Thread]
  /\ \A u \in Threads : u # t => th'[u] = IF th[u].pc = "off" THEN IDLE ELSE th[u]
  /\ th'[t].pc \in {"idle", "try", "unpack"}
  /\ IF th[t].req.op = "read" THEN th'[t].data = th[t].data \o answer ELSE th'[t] = IDLE

LEMMA SucceedsDoes ==
  ASSUME th \in [Threads -> Thread], NEW t \in Threads, NEW answer \in Seq(Unit),
         Succeeds(t, answer)
  PROVE  Done(t, answer)
<1> DEFINE data == th[t].data \o answer
           more == Len(answer) = XFER /\ Len(data) < RECV
           left == RECV - Len(data)
           A == [Trying(Read(left)) EXCEPT !.data = data]
           B == [IDLE EXCEPT !.pc = "unpack", !.data = data]
           after == IF th[t].req.op # "read" THEN IDLE ELSE IF more THEN A ELSE B
<1>1. th[t] \in Thread /\ th[t].data \in Seq(Unit)
  BY DEF Thread
<1>2. data \in Seq(Unit) /\ Len(data) \in Nat
  BY <1>1
<1>3. th' = [u \in Threads |-> IF u = t THEN after
                               ELSE IF th[u].pc = "off" THEN IDLE ELSE th[u]]
  BY DEF Succeeds
<1> HIDE DEF data
<1>4. B \in Thread /\ B.pc = "unpack" /\ B.data = data
  BY <1>2, ThreadTypes DEF Thread
<1>5. ASSUME more PROVE A \in Thread /\ A.pc = "try" /\ A.data = data
  <2>1. left \in Nat
    BY <1>2, <1>5, Slots
  <2> HIDE DEF left
  <2>2. Trying(Read(left)) \in Thread /\ Trying(Read(left)).pc = "try"
    BY <2>1, Requests, ThreadTypes
  <2> QED BY <1>2, <2>2 DEF Thread
<1> HIDE DEF more, A, B
<1>6. CASE th[t].req.op # "read"
  <2>1. after = IDLE
    BY <1>6
  <2> HIDE DEF after
  <2> QED BY <1>3, <1>6, <2>1, ThreadTypes DEF Done
<1>7. CASE th[t].req.op = "read" /\ more
  <2>1. after = A
    BY <1>7
  <2> HIDE DEF after
  <2> QED BY <1>3, <1>5, <1>7, <2>1, ThreadTypes DEF Done, data
<1>8. CASE th[t].req.op = "read" /\ ~more
  <2>1. after = B
    BY <1>8
  <2> HIDE DEF after
  <2> QED BY <1>3, <1>4, <1>8, <2>1, ThreadTypes DEF Done, data
<1> QED BY <1>6, <1>7, <1>8

LEMMA InitTypes == Init => TypeOK
<1> SUFFICES ASSUME Init PROVE TypeOK
  OBVIOUS
<1>1. <<>> \in Seq(Nat) /\ <<>> \in Seq(Unit) /\ <<>> \in Seq(Frames \cup {FORWARDED})
      /\ <<>> \in Seq(Nat \X Nat) /\ Len(<<>>) = 0
  OBVIOUS
<1>2. [f \in Frames |-> 0] \in [Frames -> Nat]
  OBVIOUS
<1>3. q \in Queue /\ Len(q.tail) <= 1
  <2> DEFINE e == <<>>
             z == [f \in Frames |-> 0]
  <2>1. e \in Seq(Nat) /\ e \in Seq(Unit) /\ e \in Seq(Frames \cup {FORWARDED}) /\ Len(e) = 0
        /\ z \in [Frames -> Nat]
    BY <1>1, <1>2
  <2>2. q = [rx |-> e, tail |-> e, tx |-> e, hw |-> 0, ready |-> TRUE, queued |-> 0,
             sent |-> z, dropped |-> FALSE, forwards |-> FALSE]
    BY DEF Init, Queues
  <2> HIDE DEF e, z
  <2> QED BY <2>1, <2>2 DEF Queue
<1>4. panda \in Panda /\ ran \in Req /\ turn \in Turn /\ th \in [Threads -> Thread]
  BY CalmOnes, Requests, FreeType, ThreadTypes DEF Init, Calm
<1>5. 0 \in 0..Len(Batches)
  BY QueueConstants
<1> QED BY <1>1, <1>3, <1>4, <1>5 DEF Init, TypeOK

LEMMA AnswersIs ==
  ASSUME NEW r \in Req, NEW answer \in Seq(Unit)
  PROVE  /\ Answers(r, answer) \in Panda /\ Answers(r, answer).state = "answer"
         /\ Answers(r, answer).req = r /\ Answers(r, answer).answer = answer
<1>1. "answer" \in States
  BY DEF States
<1>2. In("answer", r) \in Panda /\ In("answer", r).state = "answer" /\ In("answer", r).req = r
  BY <1>1, InIs
<1> QED BY <1>2 DEF Answers, Panda

LEMMA UnreadyIs ==
  ASSUME NEW a \in Queue
  PROVE  LET b == [a EXCEPT !.ready = FALSE]
         IN  /\ b \in Queue /\ Grows(a, b) /\ b.tx = a.tx /\ b.sent = a.sent
             /\ b.dropped = a.dropped /\ b.forwards = a.forwards /\ ~b.ready
<1> DEFINE b == [a EXCEPT !.ready = FALSE]
<1>1. b \in Queue /\ b.tx = a.tx /\ b.sent = a.sent /\ b.rx = a.rx /\ b.tail = a.tail
      /\ b.dropped = a.dropped /\ b.forwards = a.forwards /\ ~b.ready /\ b.queued = a.queued
  BY DEF Queue
<1> HIDE DEF b
<1>2. Grows(a, b)
  BY <1>1, GrowsNot
<1> QED BY <1>1, <1>2 DEF b

\* What the handlers of the panda do to its state: the answer to a header, an answer to a
\* request, or a refusal
Handled ==
  \/ /\ panda.state = "received" /\ q' = q /\ ran' = ran
     /\ panda' = IF panda.req = GARBAGE THEN Nacks ELSE In("ack", panda.req)
  \/ /\ panda.state = "data received" /\ panda.req \in HostReq
     /\ panda'.state = "answer" /\ panda'.req = panda.req /\ ran' = panda.req
  \/ panda.state = "data received" /\ panda' = Nacks /\ q' = q /\ ran' = ran

LEMMA IrqDoes ==
  ASSUME TypeOK, Irq
  PROVE  Handled /\ q' \in Queue /\ Len(q'.tail) <= 1 /\ panda' \in Panda /\ ran' \in Req
<1>0. panda \in Panda /\ q \in Queue /\ Len(q.tail) <= 1 /\ ran \in Req
  BY DEF TypeOK
<1>1. panda.req \in Req
  BY <1>0 DEF Panda
<1>2. ASSUME NEW op \in {"reset", "read", "write"}, Asked(op)
      PROVE  panda.state = "data received" /\ panda.req \in HostReq /\ panda.req # GARBAGE
  <2>1. GARBAGE.op = "garbage"
    BY DEF GARBAGE, Request
  <2>2. op # "garbage" /\ panda.state = "data received" /\ panda.req.op = op
    BY <1>2 DEF Asked
  <2> QED BY <1>1, <2>1, <2>2 DEF Req
<1>3. ASSUME NEW answer \in Seq(Unit), NEW queues, Executes(queues, answer),
             panda.state = "data received", panda.req \in HostReq
      PROVE  /\ Handled /\ panda' \in Panda /\ ran' \in Req /\ q' = queues
  <2>1. q' = queues /\ panda' = Answers(panda.req, answer) /\ ran' = panda.req
    BY <1>3 DEF Executes
  <2>2. /\ panda' \in Panda /\ panda'.state = "answer" /\ panda'.req = panda.req
    BY <1>1, <2>1, AnswersIs
  <2> QED BY <1>1, <1>3, <2>1, <2>2 DEF Handled
<1>4. CASE Header
  <2>1. "ack" \in States
    BY DEF States
  <2>2. panda' \in Panda
    BY <1>1, <1>4, <2>1, InIs, CalmOnes DEF Header, ToGarbage, Calm
  <2> QED BY <1>0, <1>1, <1>4, <2>2 DEF Header, Handled, ToGarbage
<1>5. CASE ControlHandler
  <2>1. Asked("reset") /\ Executes(comms_can_reset(q), <<>>)
    BY <1>5 DEF ControlHandler
  <2>2. <<>> \in Seq(Unit) /\ Len(<<>>) <= 1
    OBVIOUS
  <2>3. Handled /\ panda' \in Panda /\ ran' \in Req /\ q' = comms_can_reset(q)
    BY <1>2, <1>3, <2>1, <2>2
  <2>4. q' \in Queue /\ q'.tail = <<>>
    BY <1>0, <2>3, ResetDoes
  <2> QED BY <2>2, <2>3, <2>4
<1>6. CASE CanRead
  <2>1. Asked("read") /\ Executes(AfterRead(q, panda.req.max), Answer(q, panda.req.max))
    BY <1>6 DEF CanRead
  <2>2. panda.req.max \in Nat
    BY <1>2, <2>1 DEF HostReq
  <2>3. /\ Answer(q, panda.req.max) \in Seq(Unit)
        /\ AfterRead(q, panda.req.max) \in Queue /\ Len(AfterRead(q, panda.req.max).tail) <= 1
    BY <1>0, <2>2, ReadDoes
  <2>4. Handled /\ panda' \in Panda /\ ran' \in Req /\ q' = AfterRead(q, panda.req.max)
    BY <1>2, <1>3, <2>1, <2>3
  <2> QED BY <2>3, <2>4
<1>7. CASE CanWrite
  <2> DEFINE a == [q EXCEPT !.ready = FALSE]
             b == comms_can_write(a, panda.req.frames)
  <2>1. Asked("write") /\ Executes(b, <<>>)
    BY <1>7 DEF CanWrite
  <2>2. panda.req.frames \in Seq(Frames)
    BY <1>1, <1>2, <2>1, FramesOf
  <2>3. a \in Queue /\ a.tail = q.tail
    BY <1>0 DEF Queue
  <2> HIDE DEF a
  <2>4. b \in Queue /\ Grows(a, b)
    BY <2>2, <2>3, WriteDoes
  <2> HIDE DEF b
  <2>5. <<>> \in Seq(Unit)
    OBVIOUS
  <2>6. Handled /\ panda' \in Panda /\ ran' \in Req /\ q' = b
    BY <1>2, <1>3, <2>1, <2>5
  <2>7. b.tail = q.tail
    BY <2>3, <2>4 DEF Grows
  <2> QED BY <1>0, <2>4, <2>6, <2>7
<1>8. CASE CanNack
  <2>1. panda.state = "data received" /\ panda' = Nacks /\ q' = q /\ ran' = ran
    BY <1>8 DEF CanNack, Asked
  <2>2. ran' = ran /\ q' = q
    BY <2>1
  <2> QED BY <1>0, <2>1, <2>2, CalmOnes DEF Handled, Calm
<1> QED BY <1>4, <1>5, <1>6, <1>7, <1>8 DEF Irq

LEMMA RanIs ==
  ASSUME TypeOK, OfHost
  PROVE  ran' \in Req /\ q' = q /\ arrived' = arrived /\ writes' = writes
         /\ (turn'.by \in Threads => ran' = ran)
<1>1. turn'.by \in Threads => turn' # FREE
  BY FreeType DEF Threads
<1> QED BY <1>1, Requests DEF OfHost, TypeOK

\* A burst of an attempt that goes on: what it leaves of the panda, and the phases it may
\* lead to
Moved(t, phase, state, next, phases) ==
  /\ turn.by = t /\ turn.phase = phase
  /\ turn' \in Turn /\ turn'.by = t /\ turn'.phase \in phases
  /\ IF panda.state = state THEN panda' \in next ELSE Strays(panda, panda')
  /\ ran' = ran /\ q' = q /\ UNCHANGED host
  /\ arrived' = arrived /\ writes' = writes /\ faults' \in Nat

LEMMA HitType == TypeOK /\ (NoFault \/ Hit) => faults' \in Nat
  BY DEF TypeOK, NoFault, Hit

LEMMA PollDoes ==
  ASSUME TypeOK, NEW t \in Threads, NEW phase \in Phases, NEW then \in Phases, NEW state, NEW next,
         NEW ack \in {"HACK", "DACK"}, Poll(t, phase, state, next, ack, then)
  PROVE  Moved(t, phase, state, {next}, {phase, then, "fail"})
<1>1. /\ turn.by = t /\ turn.phase = phase /\ OfHost /\ UNCHANGED host
      /\ panda' \in After(state, next)
  BY DEF Poll, At
<1>2. PICK byte \in {"HACK", "DACK", "NACK", "other"} :
        /\ (IF byte \in FirstBytes THEN NoFault ELSE Hit)
        /\ Goes(CASE byte = ack -> then [] byte = "NACK" -> "fail" [] OTHER -> phase)
  BY DEF Poll
<1>3. faults' \in Nat
  BY <1>2, HitType
<1>4. \E p \in {phase, then, "fail"} : Goes(p)
  <2> DEFINE p == CASE byte = ack -> then [] byte = "NACK" -> "fail" [] OTHER -> phase
  <2>1. ack # "NACK"
    OBVIOUS
  <2>2. CASE byte = ack
    <3>1. p = then
      BY <2>1, <2>2, Zenon
    <3> QED BY <1>2, <3>1, Zenon
  <2>3. CASE byte = "NACK"
    <3>1. p = "fail"
      BY <2>1, <2>3, Zenon
    <3> QED BY <1>2, <3>1, Zenon
  <2>4. CASE byte # ack /\ byte # "NACK"
    <3>1. p = phase
      BY <2>4, Zenon
    <3> QED BY <1>2, <3>1, Zenon
  <2> QED BY <2>2, <2>3, <2>4
<1>5. turn' \in Turn /\ turn'.by = t /\ turn'.phase \in {phase, then, "fail"}
  <2>1. "fail" \in Phases /\ turn \in Turn
    BY DEF Phases, TypeOK
  <2>2. PICK p \in {phase, then, "fail"} : Goes(p)
    BY <1>4
  <2>3. p \in Phases
    BY <2>1
  <2> QED BY <1>1, <2>1, <2>2, <2>3, GoesDoes
<1>6. IF panda.state = state THEN panda' = next ELSE Strays(panda, panda')
  BY <1>1, AfterIs DEF TypeOK
<1>7. ran' = ran /\ q' = q /\ arrived' = arrived /\ writes' = writes
  BY <1>1, <1>5, RanIs
<1> QED BY <1>1, <1>3, <1>5, <1>6, <1>7 DEF Moved

LEMMA SendHeaderDoes ==
  ASSUME TypeOK, NEW t \in Threads, SendHeader(t)
  PROVE  Moved(t, "header", "header", {Got(th[t].req), Got(GARBAGE)}, {"hack"})
<1>1. turn.by = t /\ turn.phase = "header" /\ Goes("hack") /\ OfHost /\ UNCHANGED host
  BY DEF SendHeader, At
<1>2. PICK x \in {Got(th[t].req), Got(GARBAGE)} : panda' \in AfterLong("header", x)
  BY DEF SendHeader
<1>3. faults' \in Nat
  BY HitType DEF SendHeader
<1>4. turn' \in Turn /\ turn'.by = t /\ turn'.phase = "hack"
  BY <1>1, GoesDoes DEF TypeOK, Phases
<1>5. IF panda.state = "header" THEN panda' = x ELSE Strays(panda, panda')
  BY <1>2, AfterIs DEF TypeOK
<1>6. ran' = ran /\ q' = q /\ arrived' = arrived /\ writes' = writes
  BY <1>1, <1>4, RanIs
<1> QED BY <1>1, <1>3, <1>4, <1>5, <1>6 DEF Moved

LEMMA SendDataDoes ==
  ASSUME TypeOK, NEW t \in Threads, SendData(t)
  PROVE  /\ turn.by = t /\ turn.phase = "data"
         /\ turn' \in Turn /\ turn'.by = t /\ turn'.phase = "dack"
         /\ \/ panda.state = "data" /\ Fits(t) /\ panda' = Data(t)
            \/ panda.state = "data" /\ panda' = Got(GARBAGE)
            \/ Strays(panda, panda')
         /\ ran' = ran /\ q' = q /\ UNCHANGED host
         /\ arrived' = arrived /\ writes' = writes /\ faults' \in Nat
<1>1. turn.by = t /\ turn.phase = "data" /\ Goes("dack") /\ OfHost /\ UNCHANGED host
  BY DEF SendData, At
<1>2. faults' \in Nat
  BY HitType DEF SendData
<1>3. turn' \in Turn /\ turn'.by = t /\ turn'.phase = "dack"
  BY <1>1, GoesDoes DEF TypeOK, Phases
<1>4. \/ panda.state = "data" /\ Fits(t) /\ panda' = Data(t)
      \/ panda.state = "data" /\ panda' = Got(GARBAGE)
      \/ Strays(panda, panda')
  <2>0. panda \in Panda
    BY DEF TypeOK
  <2>1. CASE Fits(t) /\ panda' \in AfterLong("data", Data(t))
    BY <2>0, <2>1, AfterIs
  <2>2. CASE panda' \in StrewnLong(panda)
    BY <2>0, <2>2, StrewnIs
  <2>3. CASE panda' \in AfterLong("data", Got(GARBAGE))
    BY <2>0, <2>3, AfterIs
  <2> QED BY <2>1, <2>2, <2>3 DEF SendData
<1>5. ran' = ran /\ q' = q /\ arrived' = arrived /\ writes' = writes
  BY <1>1, <1>3, RanIs
<1> QED BY <1>1, <1>2, <1>3, <1>4, <1>5

LEMMA PollHeaderDoes ==
  ASSUME TypeOK, NEW t \in Threads, PollHeader(t)
  PROVE  Moved(t, "hack", "ack", {In("data", panda.req)}, {"hack", "data", "fail"})
  BY PollDoes DEF PollHeader, Phases

LEMMA PollDataDoes ==
  ASSUME TypeOK, NEW t \in Threads, PollData(t)
  PROVE  Moved(t, "dack", "answer", {[panda EXCEPT !.state = "read"]}, {"dack", "read", "fail"})
  BY PollDoes DEF PollData, Phases

\* The end of an attempt that failed, or one more burst of it
LEMMA FailsDoes ==
  ASSUME TypeOK, NEW t \in Threads, Fails(t)
  PROVE  /\ turn.by = t /\ turn.phase = "fail" /\ turn' \in Turn
         /\ Strays(panda, panda') /\ q' = q /\ ran' \in Req
         /\ \/ turn'.by = t /\ turn'.phase = "fail" /\ ran' = ran /\ UNCHANGED host
            \/ /\ turn' = FREE /\ panda.state \notin {"received", "data received"}
               /\ buf' = buf /\ got' = got /\ healthy' \in BOOLEAN
               /\ th' \in [Threads -> Thread] /\ \A u \in Threads : u # t => th'[u] = th[u]
               /\ (th'[t].pc = th[t].pc /\ th'[t].data = th[t].data) \/ th'[t] = IDLE
         /\ arrived' = arrived /\ writes' = writes /\ faults' = faults
<1> USE DEF TypeOK
<1>1. turn.by = t /\ turn.phase = "fail" /\ OfHost /\ NoFault /\ panda' \in StrewnLong(panda)
  BY DEF Fails, At
<1>2. Strays(panda, panda')
  BY <1>1, StrewnIs
<1>3. PICK byte \in FirstBytes, n \in Nat :
        /\ n \in (IF byte = "NACK" THEN {turn.nacks + 1} ELSE {turn.nacks, 0})
        /\ turn' = IF n = NACKS THEN FREE ELSE [turn EXCEPT !.nacks = n]
  <2>1. PICK byte \in FirstBytes :
          \E n \in IF byte = "NACK" THEN {turn.nacks + 1} ELSE {turn.nacks, 0} :
            turn' = IF n = NACKS THEN FREE ELSE [turn EXCEPT !.nacks = n]
    BY DEF Fails
  <2>2. PICK n \in (IF byte = "NACK" THEN {turn.nacks + 1} ELSE {turn.nacks, 0}) :
            turn' = IF n = NACKS THEN FREE ELSE [turn EXCEPT !.nacks = n]
    BY <2>1
  <2>3. turn.nacks \in Nat
    BY Slots DEF Turn
  <2>4. n \in Nat
    BY <2>2, <2>3
  <2> QED BY <2>2, <2>4
<1>4. turn.nacks \in Nat /\ turn.nacks < NACKS /\ NACKS \in Nat
  BY Slots DEF Turn
<1>5. n <= NACKS
  BY <1>3, <1>4
<1>6. CASE n # NACKS
  <2>1. turn' = [turn EXCEPT !.nacks = n] /\ n \in 0..NACKS - 1
    BY <1>3, <1>4, <1>5, <1>6
  <2>2. turn' \in Turn /\ turn'.by = t /\ turn'.phase = "fail"
    BY <1>1, <2>1 DEF Turn
  <2>3. UNCHANGED host
    BY <2>2 DEF Fails
  <2> QED BY <1>1, <1>2, <2>2, <2>3, RanIs DEF NoFault
<1>7. CASE n = NACKS
  <2>1. turn' = FREE /\ turn'.by # t
    BY <1>3, <1>7, FreeType DEF Threads
  <2>2. byte = "NACK"
    BY <1>3, <1>4, <1>7
  <2>3. panda.state \notin {"received", "data received"}
    <3>1. CASE panda.state \in {"received", "data received"}
      <4>1. panda.state \notin {"ack", "nack", "answer", "read", "rest"}
        BY <3>1
      <4>2. FirstBytes = {"other"}
        <5>1. panda.state # "ack" /\ panda.state # "nack" /\ panda.state # "answer"
              /\ panda.state \notin {"read", "rest"}
          BY <4>1
        <5> QED BY <5>1, Zenon DEF FirstBytes
      <4> QED BY <1>3, <2>2, <4>2
    <3> QED BY <3>1
  <2> DEFINE timed_out == t = "send" /\ th[t].timeouts > TIMEOUTS
             late == turn.late /\ t = "send"
             x == IF late THEN th[t].timeouts + 1 ELSE th[t].timeouts
             after == [th[t] EXCEPT !.timeouts = IF late THEN @ + 1 ELSE @]
             y == IF timed_out THEN IDLE ELSE after
  <2>4. th' = [th EXCEPT ![t] = y] /\ healthy' = (healthy /\ ~timed_out) /\ buf' = buf /\ got' = got
    BY <2>1, Zenon DEF Fails
  <2>5. x \in Nat /\ th[t] \in Thread
    BY DEF Thread
  <2> HIDE DEF x
  <2>6. /\ y \in Thread
        /\ (y.pc = th[t].pc /\ y.data = th[t].data) \/ y = IDLE
    <3> HIDE DEF timed_out, late
    <3>0. after = [th[t] EXCEPT !.timeouts = x]
      BY <2>5 DEF x
    <3> HIDE DEF after
    <3>1. after \in Thread /\ after.pc = th[t].pc /\ after.data = th[t].data
      BY <2>5, <3>0 DEF Thread
    <3> QED BY <3>1, ThreadTypes
  <2> HIDE DEF y
  <2>7. healthy' \in BOOLEAN
    BY <2>4
  <2>8. th' \in [Threads -> Thread] /\ th'[t] = y /\ \A u \in Threads : u # t => th'[u] = th[u]
    BY <2>4, <2>6
  <2>9. turn' \in Turn /\ ran' \in Req /\ q' = q /\ arrived' = arrived /\ writes' = writes
    BY <1>1, <2>1, FreeType, RanIs
  <2> QED BY <1>1, <1>2, <2>1, <2>3, <2>4, <2>6, <2>7, <2>8, <2>9 DEF NoFault
<1> QED BY <1>6, <1>7

LEMMA ReadAnswerDoes ==
  ASSUME TypeOK, NEW t \in Threads, ReadAnswer(t)
  PROVE  /\ turn.by = t /\ turn.phase = "read" /\ panda.state = "read"
         /\ turn' = FREE /\ panda' = READY /\ Done(t, panda.answer)
         /\ q' = q /\ ran' \in Req /\ UNCHANGED <<buf, got, healthy, arrived, writes, faults>>
<1>1. /\ turn.by = t /\ turn.phase = "read" /\ panda.state = "read" /\ faults' = faults
      /\ turn' = FREE /\ panda' = READY /\ Succeeds(t, panda.answer) /\ OfHost
      /\ buf' = buf /\ got' = got /\ healthy' = healthy
  BY DEF ReadAnswer, At, OfAnswer, NoFault
<1>2. panda.answer \in Seq(Unit) /\ th \in [Threads -> Thread]
  BY DEF TypeOK, Panda
<1>3. Done(t, panda.answer)
  BY <1>1, <1>2, SucceedsDoes
<1>4. ran' \in Req /\ q' = q /\ arrived' = arrived /\ writes' = writes
  BY <1>1, RanIs
<1> QED BY <1>1, <1>3, <1>4

LEMMA BadAnswerDoes ==
  ASSUME TypeOK, NEW t \in Threads, BadAnswer(t)
  PROVE  /\ turn.by = t /\ turn.phase = "read"
         /\ turn' \in Turn /\ turn'.by = t /\ turn'.phase = "fail"
         /\ panda' = panda \/ Strays(panda, panda')
         /\ ran' = ran /\ q' = q /\ UNCHANGED host
         /\ arrived' = arrived /\ writes' = writes /\ faults' \in Nat
<1>1. /\ turn.by = t /\ turn.phase = "read" /\ Goes("fail") /\ OfHost /\ UNCHANGED host
      /\ panda' \in {panda} \cup StrewnLong(panda) /\ (NoFault \/ Hit)
  BY DEF BadAnswer, Bad, At, OfAnswer, host
<1>2. turn' \in Turn /\ turn'.by = t /\ turn'.phase = "fail"
  BY <1>1, GoesDoes DEF TypeOK, Phases
<1>3. panda' = panda \/ Strays(panda, panda')
  BY <1>1, StrewnIs DEF TypeOK
<1>4. ran' = ran /\ q' = q /\ arrived' = arrived /\ writes' = writes
  BY <1>1, <1>2, RanIs
<1> QED BY <1>1, <1>2, <1>3, <1>4, HitType

LEMMA TimeoutDoes ==
  ASSUME TypeOK, NEW t \in Threads, Timeout(t)
  PROVE  /\ turn.by = t /\ turn.phase \in {"hack", "dack"}
         /\ turn' \in Turn /\ turn'.by = t /\ turn'.phase = "fail"
         /\ panda' = panda /\ ran' = ran /\ q' = q /\ UNCHANGED host
         /\ arrived' = arrived /\ writes' = writes /\ faults' \in Nat
<1>1. /\ turn.by = t /\ turn.phase \in {"hack", "dack"} /\ OfHost /\ UNCHANGED <<panda, host>>
      /\ turn' = [turn EXCEPT !.phase = "fail", !.late = TRUE] /\ Hit
  BY DEF Timeout
<1>2. turn' \in Turn /\ turn'.by = t /\ turn'.phase = "fail"
  BY <1>1 DEF TypeOK, Turn, Phases
<1>3. ran' = ran /\ q' = q /\ arrived' = arrived /\ writes' = writes
  BY <1>1, <1>2, RanIs
<1> QED BY <1>1, <1>2, <1>3, HitType

LEMMA LockDoes ==
  ASSUME TypeOK, NEW t \in Threads, Lock(t)
  PROVE  /\ turn.by = "free" /\ th[t].pc = "try"
         /\ turn' \in Turn /\ turn'.by = t /\ turn'.phase = "header"
         /\ UNCHANGED <<q, panda, host, ran, arrived, writes, faults>>
<1>1. turn' \in Turn /\ turn'.by = t /\ turn'.phase = "header"
  BY FreeType DEF Lock, Turn, Phases
<1> QED BY <1>1 DEF Lock

\* What a new process of pandad starts with
Anew ==
  /\ turn' = FREE /\ buf' = <<>> /\ healthy' = TRUE
  /\ \A t \in Threads : th'[t] = OFF
  /\ th' \in [Threads -> Thread]
  /\ UNCHANGED <<q, panda, got, ran, arrived, writes>>

LEMMA NewPandadDoes == NewPandad => Anew
  BY ThreadTypes DEF NewPandad, Anew

\* One more thing to do for a thread
LEMMA SetThread ==
  ASSUME th \in [Threads -> Thread], NEW t \in Threads, NEW x \in Thread,
         th' = [th EXCEPT ![t] = x]
  PROVE  th' \in [Threads -> Thread] /\ th'[t] = x /\ \A u \in Threads : u # t => th'[u] = th[u]
  OBVIOUS

LEMMA ConnectDoes ==
  ASSUME TypeOK, Connect
  PROVE  /\ th["main"].pc = "off" /\ panda.state \notin {"received", "data received"}
         /\ th' \in [Threads -> Thread] /\ th'["main"] = Trying(RESET)
         /\ th'["send"] = th["send"]
         /\ UNCHANGED <<q, panda, turn, ran, arrived, faults, buf, got, healthy, writes>>
<1>1. Trying(RESET) \in Thread
  BY Requests, ThreadTypes
<1> QED BY <1>1, SetThread DEF Connect, OfPandad, TypeOK, Threads

LEMMA ReceiveDoes ==
  ASSUME TypeOK, can_receive
  PROVE  /\ th["main"].pc = "idle"
         /\ th' \in [Threads -> Thread] /\ th'["main"].pc = "try" /\ th'["main"].data = <<>>
         /\ th'["send"] = th["send"]
         /\ UNCHANGED <<q, panda, turn, ran, arrived, faults, buf, got, healthy, writes>>
<1>1. Read(RECV) \in HostReq
  BY Requests, Slots
<1>2. Trying(Read(RECV)) \in Thread /\ Trying(Read(RECV)).pc = "try"
      /\ Trying(Read(RECV)).data = <<>>
  BY <1>1, ThreadTypes
<1> QED BY <1>2, SetThread DEF can_receive, OfPandad, TypeOK, Threads

LEMMA SendThreadDoes ==
  ASSUME TypeOK, can_send_thread
  PROVE  /\ th["send"].pc = "idle" /\ writes < Len(Batches) /\ writes' = writes + 1
         /\ writes' \in 1..Len(Batches)
         /\ th' \in [Threads -> Thread] /\ th'["send"] = Trying(Write(Batches[writes']))
         /\ th'["send"].pc = "try" /\ th'["main"] = th["main"]
         /\ UNCHANGED <<q, panda, turn, ran, arrived, faults, buf, got, healthy>>
<1>1. /\ th["send"].pc = "idle" /\ writes < Len(Batches) /\ writes' = writes + 1
      /\ th' = [th EXCEPT !["send"] = Trying(Write(Batches[writes']))]
      /\ UNCHANGED <<q, panda, turn, ran, arrived, faults, buf, got, healthy>>
  BY DEF can_send_thread, OfPandad
<1>2. writes' \in 1..Len(Batches)
  <2>1. writes \in 0..Len(Batches) /\ Len(Batches) \in Nat
    BY QueueConstants DEF TypeOK
  <2> QED BY <1>1, <2>1
<1>3. Write(Batches[writes']) \in HostReq
  BY <1>2, Requests DEF Parts
<1> DEFINE x == Trying(Write(Batches[writes']))
<1>4. x \in Thread /\ x.pc = "try"
  BY <1>3, ThreadTypes
<1> HIDE DEF x
<1>5. th' = [th EXCEPT !["send"] = x]
  BY <1>1 DEF x
<1>6. th' \in [Threads -> Thread] /\ th'["send"] = x /\ th'["main"] = th["main"]
  BY <1>4, <1>5, SetThread DEF TypeOK, Threads
<1> QED BY <1>1, <1>2, <1>4, <1>6 DEF x

\* The whole frames at the start of the buffer are published, and the rest is kept or dropped.
Unpacked(units, n) ==
  /\ n \in Nat /\ 2 * n <= Len(units) /\ \A i \in 1..n : Whole(units, i)
  /\ got' = got \o [i \in 1..n |-> <<units[2 * i - 1][1], units[2 * i][1]>>]
  /\ buf' \in {<<>>, SubSeq(units, 2 * n + 1, Len(units))}

LEMMA WholeEnds ==
  ASSUME NEW units \in Seq(Unit)
  PROVE  \E k \in 0..Len(units) : (\A i \in 1..k : Whole(units, i)) /\ ~Whole(units, k + 1)
<1> DEFINE n == Len(units)
           Stop(k) == (\A i \in 1..k : Whole(units, i)) /\ ~Whole(units, k + 1)
           S == {k \in 0..n : \A i \in 1..k : Whole(units, i)}
<1>1. n \in Nat
  OBVIOUS
<1> SUFFICES ASSUME ~\E k \in 0..n : Stop(k) PROVE FALSE
  BY Zenon
<1>2. 0 \in S
  BY <1>1
<1>3. ASSUME NEW k \in 0..n, k \in S, k # n PROVE k + 1 \in S
  <2>1. Whole(units, k + 1)
    BY <1>3
  <2> HIDE DEF n
  <2>2. 1..k + 1 = (1..k) \cup {k + 1} /\ k + 1 \in 0..n
    BY <1>1, <1>3
  <2> QED BY <1>3, <2>1, <2>2
<1> HIDE DEF S
<1>4. \A k \in 0..n : k \in S
  BY <1>1, <1>2, <1>3, UpTo
<1>5. n \in 0..n
  BY <1>1
<1>6. n \in S
  BY <1>4, <1>5
<1>7. \A i \in 1..n : Whole(units, i)
  BY <1>6 DEF S
<1>8. Whole(units, n + 1)
  BY <1>5, <1>7
<1>9. 2 * (n + 1) <= n
  BY <1>8 DEF Whole
<1> HIDE DEF n
<1> QED BY <1>1, <1>9

LEMMA UnpackDoes ==
  ASSUME TypeOK, Unpack
  PROVE  /\ th["main"].pc = "unpack"
         /\ \/ buf' = buf /\ got' = got
            \/ \E n \in Nat : Unpacked(buf \o th["main"].data, n)
         /\ buf' \in Seq(Unit) /\ got' \in Seq(Nat \X Nat)
         /\ th' \in [Threads -> Thread] /\ th'["main"].data = <<>>
         /\ th'["main"].pc \in {"idle", "try"} /\ th'["send"] = th["send"]
         /\ UNCHANGED <<q, panda, turn, ran, arrived, faults, healthy, writes>>
<1>1. th["main"].pc = "unpack" /\ UNCHANGED <<q, panda, turn, ran, arrived, faults, healthy, writes>>
  BY DEF Unpack, OfPandad
<1>2. buf \in Seq(Unit) /\ got \in Seq(Nat \X Nat) /\ th \in [Threads -> Thread]
  BY DEF TypeOK
<1>3. ASSUME NEW x \in {IDLE, Trying(RESET)}, th' = [th EXCEPT !["main"] = x]
      PROVE  /\ th' \in [Threads -> Thread] /\ th'["main"].data = <<>>
             /\ th'["main"].pc \in {"idle", "try"} /\ th'["send"] = th["send"]
  <2>1. x \in Thread /\ x.data = <<>> /\ x.pc \in {"idle", "try"}
    BY Requests, ThreadTypes
  <2>2. "main" \in Threads /\ "send" \in Threads /\ "send" # "main"
    BY DEF Threads
  <2>3. th' \in [Threads -> Thread] /\ th'["main"] = x /\ th'["send"] = th["send"]
    BY <1>2, <1>3, <2>1, <2>2, SetThread
  <2> QED BY <2>1, <2>3
<1>4. CASE ~(healthy /\ th["main"].data # <<>>)
  <2>1. th' = [th EXCEPT !["main"] = IDLE] /\ buf' = buf /\ got' = got
    BY <1>4 DEF Unpack
  <2> QED BY <1>1, <1>2, <1>3, <2>1
<1>5. CASE healthy /\ th["main"].data # <<>>
  <2> DEFINE units == buf \o th["main"].data
             Stop(k) == (\A i \in 1..k : Whole(units, i)) /\ ~Whole(units, k + 1)
             n == CHOOSE k \in 0..Len(units) : Stop(k)
             rest == SubSeq(units, 2 * n + 1, Len(units))
             new == [i \in 1..n |-> <<units[2 * i - 1][1], units[2 * i][1]>>]
  <2>1. unpack_can_buffer
    BY <1>5 DEF Unpack
  <2>2. /\ got' = got \o new
        /\ \/ buf' = rest /\ th' = [th EXCEPT !["main"] = IDLE]
           \/ buf' = <<>> /\ th' = [th EXCEPT !["main"] = Trying(RESET)]
    BY <2>1, Zenon DEF unpack_can_buffer
  <2>3. units \in Seq(Unit)
    <3>1. th["main"] \in Thread
      BY <1>2 DEF Threads
    <3>2. th["main"].data \in Seq(Unit)
      BY <3>1 DEF Thread
    <3> QED BY <1>2, <3>2, ConcatProperties
  <2> HIDE DEF units
  <2>4. n \in 0..Len(units) /\ Stop(n)
    <3>1. \E k \in 0..Len(units) : Stop(k)
      BY <2>3, WholeEnds
    <3> QED BY <3>1, Zenon
  <2> HIDE DEF n
  <2>5. n \in Nat /\ \A i \in 1..n : Whole(units, i)
    BY <2>3, <2>4
  <2>6. 2 * n <= Len(units)
    <3>1. CASE n = 0
      BY <2>3, <3>1
    <3>2. CASE n # 0
      <4>1. n \in 1..n
        BY <2>5, <3>2
      <4> QED BY <2>5, <4>1 DEF Whole
    <3> QED BY <3>1, <3>2
  <2>7. rest \in Seq(Unit)
    BY <2>3, <2>5, SubSeqType
  <2>8. new \in Seq(Nat \X Nat)
    <3>1. ASSUME NEW i \in 1..n PROVE new[i] \in Nat \X Nat
      <4>1. 2 * i - 1 \in 1..Len(units) /\ 2 * i \in 1..Len(units)
        BY <2>3, <2>5, <2>6
      <4>2. units[2 * i - 1] \in Unit /\ units[2 * i] \in Unit
        BY <2>3, <4>1
      <4> QED BY <4>2 DEF Unit
    <3>2. new \in [1..n -> Nat \X Nat]
      BY <3>1
    <3> QED BY <2>5, <3>2
  <2>9. buf' \in Seq(Unit) /\ got' \in Seq(Nat \X Nat)
    <3>1. <<>> \in Seq(Unit)
      OBVIOUS
    <3> HIDE DEF new, rest
    <3>2. got \o new \in Seq(Nat \X Nat)
      BY <1>2, <2>8, ConcatProperties
    <3> QED BY <2>2, <2>7, <3>1, <3>2
  <2>10. Unpacked(units, n)
    BY <2>2, <2>5, <2>6 DEF Unpacked
  <2> HIDE DEF new, rest
  <2>11. /\ th' \in [Threads -> Thread] /\ th'["main"].data = <<>>
         /\ th'["main"].pc \in {"idle", "try"} /\ th'["send"] = th["send"]
    BY <1>3, <2>2
  <2> QED BY <1>1, <2>5, <2>9, <2>10, <2>11 DEF units
<1> QED BY <1>4, <1>5

LEMMA DataType ==
  ASSUME TypeOK, NEW t \in Threads, Fits(t)
  PROVE  /\ panda.req \in HostReq
         /\ Data(t) \in Panda /\ Data(t).state = "data received" /\ Data(t).answer = <<>>
         /\ Data(t).req.frames = th[t].req.frames /\ Data(t).req.op = th[t].req.op
         /\ Data(t).req.max = panda.req.max
<1>1. th[t] \in Thread /\ panda.req \in Req
  BY DEF TypeOK, Panda
<1>2. th[t].req \in HostReq /\ panda.req.op = th[t].req.op
  BY <1>1 DEF Thread, Fits
<1>3. GARBAGE.op = "garbage"
  BY DEF GARBAGE, Request
<1>4. th[t].req.op # "garbage"
  BY <1>2 DEF HostReq
<1>5. panda.req \in HostReq
  BY <1>1, <1>2, <1>3, <1>4 DEF Req
<1> DEFINE r == [panda.req EXCEPT !.frames = th[t].req.frames]
<1>6. r \in HostReq /\ r.frames = th[t].req.frames /\ r.op = th[t].req.op /\ r.max = panda.req.max
  BY <1>2, <1>5 DEF HostReq
<1>7. r \in Req
  BY <1>6 DEF Req
<1>8. "data received" \in States
  BY DEF States
<1> HIDE DEF r
<1>9. Data(t) = In("data received", r)
  BY DEF Data, r
<1>10. Data(t) \in Panda /\ Data(t).state = "data received" /\ Data(t).answer = <<>>
       /\ Data(t).req = r
  <2> DEFINE x == In("data received", r)
  <2>1. x \in Panda /\ x.state = "data received" /\ x.req = r /\ x.answer = <<>>
    BY <1>7, <1>8, InIs
  <2> HIDE DEF x
  <2> QED BY <1>9, <2>1 DEF x
<1> QED BY <1>5, <1>6, <1>10

LEMMA TypeStep == TypeOK /\ [Next]_vars => TypeOK'
<1> SUFFICES ASSUME TypeOK, [Next]_vars PROVE TypeOK'
  OBVIOUS
<1> DEFINE QT == q' \in Queue /\ Len(q'.tail) <= 1
           PT == panda' \in Panda /\ ran' \in Req
           TT == turn' \in Turn
           HT == th' \in [Threads -> Thread]
           DT == buf' \in Seq(Unit) /\ got' \in Seq(Nat \X Nat) /\ healthy' \in BOOLEAN
           NT == arrived' \in Nat /\ writes' \in 0..Len(Batches) /\ faults' \in Nat
<1>0. /\ q \in Queue /\ Len(q.tail) <= 1
      /\ panda \in Panda /\ ran \in Req /\ panda.req \in Req
      /\ turn \in Turn
      /\ th \in [Threads -> Thread]
      /\ buf \in Seq(Unit) /\ got \in Seq(Nat \X Nat) /\ healthy \in BOOLEAN
      /\ arrived \in Nat /\ writes \in 0..Len(Batches) /\ faults \in Nat
  BY DEF TypeOK, Panda
<1>Q. q' = q => QT
  BY <1>0
<1>D. UNCHANGED <<buf, got, healthy>> => DT
  BY <1>0
<1>N. UNCHANGED <<arrived, writes>> /\ faults' \in Nat => NT
  BY <1>0
<1>R. ran' = ran => ran' \in Req
  BY <1>0
<1>H. UNCHANGED host => HT /\ DT
  BY <1>0 DEF host
<1>S. Strays(panda, panda') => panda' \in Panda
  BY <1>0, StraysType
<1>M. ASSUME NEW t \in Threads, NEW phase, NEW state, NEW next, NEW phases,
             Moved(t, phase, state, next, phases), \A x \in next : x \in Panda
      PROVE  QT /\ PT /\ TT /\ HT /\ DT /\ NT
  <2>1. panda' \in Panda
    BY <1>M, <1>S DEF Moved
  <2>2. TT /\ ran' = ran /\ q' = q /\ UNCHANGED host
        /\ UNCHANGED <<arrived, writes>> /\ faults' \in Nat
    BY <1>M DEF Moved
  <2> QED BY <1>Q, <1>R, <1>H, <1>N, <2>1, <2>2
<1>G. Got(GARBAGE) \in Panda
  BY CalmOnes DEF Calm
<1> SUFFICES QT /\ PT /\ TT /\ HT /\ DT /\ NT
  BY DEF TypeOK
<1>1. CASE Irq
  <2>1. QT /\ PT
    BY <1>1, IrqDoes
  <2>2. UNCHANGED <<turn, host, arrived, writes, faults>>
    BY <1>1 DEF Irq
  <2> HIDE DEF QT, PT, DT, HT, NT
  <2> QED BY <1>0, <1>H, <1>N, <2>1, <2>2
<1>2. CASE Arrive
  <2>1. (arrived' \in Forwarded) \in BOOLEAN
    OBVIOUS
  <2>2. q' = can_rx(q, arrived' \in Forwarded) /\ arrived' = arrived + 1
        /\ UNCHANGED <<panda, turn, host, ran, writes, faults>>
    BY <1>2 DEF Arrive
  <2> DEFINE forward == arrived' \in Forwarded
  <2> HIDE DEF forward
  <2>3. q' \in Queue /\ Grows(q, q')
    <3>1. forward \in BOOLEAN /\ q' = can_rx(q, forward)
      BY <2>1, <2>2 DEF forward
    <3> QED BY <1>0, <3>1, CanRxDoes
  <2>4. QT
    BY <1>0, <2>3 DEF Grows
  <2>5. NT
    BY <1>0, <2>2
  <2> HIDE DEF DT, HT
  <2> QED BY <1>0, <1>H, <2>2, <2>4, <2>5
<1>3. CASE BusSends
  <2>1. q.hw > 0 /\ q' = TxDone(q) /\ UNCHANGED <<panda, turn, host, ran, arrived, writes, faults>>
    BY <1>3 DEF BusSends
  <2>2. q' \in Queue /\ Grows(q, q')
    BY <1>0, <2>1, TxDoneDoes
  <2>3. QT
    BY <1>0, <2>2 DEF Grows
  <2> HIDE DEF QT, DT, HT
  <2> QED BY <1>0, <1>H, <1>N, <2>1, <2>3
<1>4. ASSUME NEW t \in Threads, Lock(t) PROVE QT /\ PT /\ TT /\ HT /\ DT /\ NT
  BY <1>0, <1>4, <1>Q, <1>H, <1>N, LockDoes
<1>5. ASSUME NEW t \in Threads, SendHeader(t) PROVE QT /\ PT /\ TT /\ HT /\ DT /\ NT
  <2>1. th[t].req \in Req /\ "received" \in States
    <3>1. th[t] \in Thread
      BY <1>0
    <3> QED BY <3>1 DEF Thread, Req, States
  <2>2. \A x \in {Got(th[t].req), Got(GARBAGE)} : x \in Panda
    BY <1>G, <2>1, InIs DEF Got
  <2>3. Moved(t, "header", "header", {Got(th[t].req), Got(GARBAGE)}, {"hack"})
    BY <1>5, SendHeaderDoes
  <2> HIDE DEF QT, PT, TT, HT, DT, NT
  <2> QED BY <1>M, <2>2, <2>3
<1>6. ASSUME NEW t \in Threads, PollHeader(t) PROVE QT /\ PT /\ TT /\ HT /\ DT /\ NT
  <2>1. "data" \in States
    BY DEF States
  <2>2. \A x \in {In("data", panda.req)} : x \in Panda
    BY <1>0, <2>1, InIs
  <2> QED BY <1>6, <1>M, <2>2, PollHeaderDoes
<1>7. ASSUME NEW t \in Threads, SendData(t) PROVE QT /\ PT /\ TT /\ HT /\ DT /\ NT
  <2>1. panda' \in Panda
    BY <1>7, <1>G, <1>S, DataType, SendDataDoes
  <2>2. TT /\ ran' = ran /\ q' = q /\ UNCHANGED host
        /\ UNCHANGED <<arrived, writes>> /\ faults' \in Nat
    BY <1>7, SendDataDoes
  <2> QED BY <1>Q, <1>R, <1>H, <1>N, <2>1, <2>2
<1>8. ASSUME NEW t \in Threads, PollData(t) PROVE QT /\ PT /\ TT /\ HT /\ DT /\ NT
  <2>1. \A x \in {[panda EXCEPT !.state = "read"]} : x \in Panda
    BY <1>0 DEF Panda, States
  <2> QED BY <1>8, <1>M, <2>1, PollDataDoes
<1>9. ASSUME NEW t \in Threads, ReadAnswer(t) PROVE QT /\ PT /\ TT /\ HT /\ DT /\ NT
  <2>1. /\ turn' = FREE /\ panda' = READY /\ Done(t, panda.answer) /\ q' = q /\ ran' \in Req
        /\ UNCHANGED <<buf, got, healthy, arrived, writes, faults>>
    BY <1>9, ReadAnswerDoes
  <2>2. PT /\ TT /\ HT
    BY <2>1, FreeType, CalmOnes DEF Done, Calm
  <2> HIDE DEF PT, TT, HT
  <2> QED BY <1>0, <2>1, <2>2
<1>10. ASSUME NEW t \in Threads, BadAnswer(t) PROVE QT /\ PT /\ TT /\ HT /\ DT /\ NT
  <2>1. panda' \in Panda
    BY <1>0, <1>10, <1>S, BadAnswerDoes
  <2>2. TT /\ ran' = ran /\ q' = q /\ UNCHANGED host
        /\ UNCHANGED <<arrived, writes>> /\ faults' \in Nat
    BY <1>10, BadAnswerDoes
  <2> QED BY <1>Q, <1>R, <1>H, <1>N, <2>1, <2>2
<1>11. ASSUME NEW t \in Threads, Fails(t) PROVE QT /\ PT /\ TT /\ HT /\ DT /\ NT
  <2>1. panda' \in Panda /\ TT /\ q' = q /\ ran' \in Req
        /\ UNCHANGED <<arrived, writes, faults>>
    BY <1>11, <1>S, FailsDoes
  <2>2. HT /\ DT
    <3>1. UNCHANGED host \/ (HT /\ UNCHANGED <<buf, got>> /\ healthy' \in BOOLEAN)
      BY <1>11, FailsDoes
    <3> QED BY <1>0, <1>H, <3>1
  <2> HIDE DEF QT, HT, DT, TT
  <2> QED BY <1>0, <1>Q, <1>N, <2>1, <2>2
<1>12. ASSUME NEW t \in Threads, Timeout(t) PROVE QT /\ PT /\ TT /\ HT /\ DT /\ NT
  BY <1>0, <1>12, <1>Q, <1>H, <1>N, TimeoutDoes
<1>13. CASE Connect
  BY <1>0, <1>13, <1>Q, <1>D, <1>N, ConnectDoes
<1>14. CASE can_receive
  BY <1>0, <1>14, <1>Q, <1>D, <1>N, ReceiveDoes
<1>15. CASE Unpack
  BY <1>0, <1>15, <1>Q, <1>N, UnpackDoes
<1>16. CASE can_send_thread
  <2>1. writes' \in 0..Len(Batches) /\ HT
        /\ UNCHANGED <<q, panda, turn, ran, arrived, faults, buf, got, healthy>>
    BY <1>16, SendThreadDoes
  <2> QED BY <1>0, <2>1
<1>17. CASE Crash \/ Reconnect
  <2>1. Anew
    BY <1>17, NewPandadDoes DEF Crash, Reconnect
  <2>2. faults' \in Nat
    BY <1>17, HitType DEF Crash, Reconnect
  <2>3. TT /\ HT /\ DT /\ UNCHANGED <<q, panda, ran, arrived, writes>>
    BY <1>0, <2>1, FreeType DEF Anew
  <2> QED BY <1>0, <2>2, <2>3
<1>18. CASE UNCHANGED vars
  BY <1>0, <1>18 DEF vars, host
<1> HIDE DEF QT, PT, TT, HT, DT, NT
<1> QED BY <1>1, <1>2, <1>3, <1>4, <1>5, <1>6, <1>7, <1>8, <1>9, <1>10, <1>11, <1>12, <1>13,
           <1>14, <1>15, <1>16, <1>17, <1>18 DEF Next, Burst, Pandad

LEMMA Types == Spec => []TypeOK
<1>1. TypeOK /\ [Next]_vars => TypeOK'
  BY TypeStep
<1> QED BY <1>1, InitTypes, PTL DEF Spec

---------------------------------------------------------------------------
(* A transfer fits. *)

\* Who changes the queues
LEMMA QueueSteps ==
  ASSUME TypeOK, [Next]_vars
  PROVE  q' = q \/ Irq \/ Arrive \/ BusSends
<1>1. ASSUME NEW t \in Threads, Lock(t) \/ Burst(t) \/ Timeout(t) PROVE q' = q
  BY <1>1 DEF Lock, Burst, Timeout, SendHeader, PollHeader, SendData, PollData, Poll,
     ReadAnswer, BadAnswer, OfAnswer, Fails, OfHost
<1>2. ASSUME Pandad \/ can_send_thread \/ Crash \/ Reconnect PROVE q' = q
  BY <1>2 DEF Pandad, Connect, can_receive, Unpack, can_send_thread, Crash, Reconnect, NewPandad,
     OfPandad
<1> QED BY <1>1, <1>2 DEF Next, vars

\* What the handlers do to the bus's side of the queues
LEMMA IrqQueues ==
  ASSUME TypeOK, Irq
  PROVE  \/ SameBus(q, q')
         \/ /\ Asked("write") /\ q.ready
            /\ q' = comms_can_write([q EXCEPT !.ready = FALSE], panda.req.frames)
<1>1. q \in Queue /\ Len(q.tail) <= 1 /\ panda.req \in Req
  BY DEF TypeOK, Panda
<1>2. CASE Header \/ CanNack
  BY <1>2 DEF Header, CanNack, SameBus
<1>3. CASE ControlHandler
  BY <1>1, <1>3, ResetDoes DEF ControlHandler, Executes
<1>4. CASE CanRead
  <2>1. q' = AfterRead(q, panda.req.max) /\ Asked("read")
    BY <1>4 DEF CanRead, Executes
  <2>2. panda.req.max \in Nat
    <3>1. GARBAGE.max = 0
      BY DEF GARBAGE, Request
    <3> QED BY <1>1, <3>1 DEF Req, HostReq
  <2> QED BY <1>1, <2>1, <2>2, ReadDoes
<1>5. CASE CanWrite
  BY <1>5 DEF CanWrite, Executes
<1> QED BY <1>2, <1>3, <1>4, <1>5 DEF Irq

LEMMA TookRoomy ==
  ASSUME NEW a \in Queue, NEW b \in Queue, Took(a, b), Roomy(a),
         b.dropped = a.dropped, b.forwards = a.forwards
  PROVE  Roomy(b)
<1> DEFINE l == Len(a.tx)
           m == Len(b.tx)
           A == 2 * (TX_SLOTS - l) >= MIN_SLOTS + 1
           B == TX_SLOTS - m >= MIN_SLOTS
           D == 2 * (TX_SLOTS - m) >= MIN_SLOTS + 1
<1>1. TX_SLOTS \in Nat /\ MIN_SLOTS \in Nat /\ MIN_SLOTS > 0 /\ l \in Nat /\ m \in Nat /\ m = l - 1
      /\ (b.ready => a.ready \/ B)
  BY QueueFields, Slots, TookRoom
<1>2. a.forwards \/ (~a.dropped /\ l <= TX_SLOTS /\ (a.ready => A))
  BY DEF Roomy
<1> HIDE DEF l, m
<1>3. A => D
  BY <1>1
<1>4. B => D
  BY <1>1
<1>5. l <= TX_SLOTS => m <= TX_SLOTS
  BY <1>1
<1> HIDE DEF A, B, D
<1>6. a.forwards \/ (~b.dropped /\ m <= TX_SLOTS /\ (b.ready => D))
  BY <1>1, <1>2, <1>3, <1>4, <1>5, Zenon
<1> QED BY <1>6, Zenon DEF Roomy, m, D

LEMMA SameRoom ==
  ASSUME NEW a, NEW b, SameBus(a, b), Roomy(a)
  PROVE  Roomy(b)
  BY DEF SameBus, Roomy

LEMMA RoomStep == TypeOK /\ Roomy(q) /\ [Next]_vars => Roomy(q')
<1> SUFFICES ASSUME TypeOK, Roomy(q), [Next]_vars PROVE Roomy(q')
  OBVIOUS
<1>1. q \in Queue /\ q' \in Queue /\ panda.req \in Req
  BY TypeStep DEF TypeOK, Panda
<1>2. CASE q' = q
  BY <1>2
<1>3. CASE Irq
  <2>1. CASE SameBus(q, q')
    BY <2>1, SameRoom
  <2>2. CASE /\ Asked("write") /\ q.ready
             /\ q' = comms_can_write([q EXCEPT !.ready = FALSE], panda.req.frames)
    <3> DEFINE a == [q EXCEPT !.ready = FALSE]
    <3>1. a \in Queue /\ a.tx = q.tx /\ a.dropped = q.dropped /\ a.forwards = q.forwards /\ ~a.ready
      BY <1>1, UnreadyIs
    <3> HIDE DEF a
    <3>2. q' = comms_can_write(a, panda.req.frames)
      BY <2>2 DEF a
    <3>3. panda.req # GARBAGE
      <4>1. panda.req.op = "write"
        BY <2>2 DEF Asked
      <4>2. GARBAGE.op = "garbage"
        BY DEF GARBAGE, Request
      <4> QED BY <4>1, <4>2
    <3>4. panda.req.frames \in Seq(Frames)
          /\ MIN_SLOTS + 1 >= 2 * Cardinality(Passed(panda.req.frames))
      BY <1>1, <3>3, FramesOf
    <3>5. CASE a.forwards
      <4>1. q'.forwards = a.forwards
        BY <3>1, <3>2, <3>4, WriteDoes
      <4> QED BY <3>5, <4>1 DEF Roomy
    <3>6. CASE ~a.forwards
      <4>1. ~a.dropped /\ Len(a.tx) <= TX_SLOTS /\ 2 * (TX_SLOTS - Len(a.tx)) >= MIN_SLOTS + 1
        BY <2>2, <3>1, <3>6 DEF Roomy
      <4> QED BY <3>1, <3>2, <3>4, <3>6, <4>1, WriteHasRoom
    <3> QED BY <3>5, <3>6
  <2> QED BY <1>3, <2>1, <2>2, IrqQueues
<1>4. CASE Arrive
  <2> DEFINE forward == arrived' \in Forwarded
  <2>1. q' = can_rx(q, forward) /\ forward \in BOOLEAN
    BY <1>4 DEF Arrive
  <2> HIDE DEF forward
  <2>2. q'.forwards = (q.forwards \/ forward) /\ (~forward => SameBus(q, q'))
    BY <1>1, <2>1, CanRxDoes
  <2>3. CASE forward
    BY <2>2, <2>3 DEF Roomy
  <2>4. CASE ~forward
    BY <2>2, <2>4, SameRoom
  <2> QED BY <2>3, <2>4
<1>5. CASE BusSends
  <2>1. q.hw > 0 /\ q' = TxDone(q)
    BY <1>5 DEF BusSends
  <2>2. /\ q'.dropped = q.dropped /\ q'.forwards = q.forwards
        /\ \/ q'.tx = q.tx /\ q'.sent = q.sent /\ q'.ready = q.ready
           \/ Took(q, q')
    BY <1>1, <2>1, TxDoneDoes
  <2>3. CASE Took(q, q')
    BY <1>1, <2>2, <2>3, TookRoomy
  <2>4. CASE q'.tx = q.tx /\ q'.ready = q.ready
    BY <2>2, <2>4 DEF Roomy
  <2> QED BY <2>2, <2>3, <2>4
<1> QED BY <1>2, <1>3, <1>4, <1>5, QueueSteps

LEMMA RoomAtFirst == Init => Roomy(q)
<1> SUFFICES ASSUME Init PROVE Roomy(q)
  OBVIOUS
<1>1. q.tx = <<>> /\ ~q.dropped /\ Len(<<>>) = 0
  BY DEF Init, Queues
<1>2. 2 * (TX_SLOTS - 0) >= MIN_SLOTS + 1 /\ 0 <= TX_SLOTS
  BY Slots
<1> QED BY <1>1, <1>2 DEF Roomy

\* The panda takes a transfer of the host only if it fits into can_tx_q, whatever the bus, the
\* other frames and lost or damaged bursts do meanwhile: no frame is dropped unless the panda
\* forwards frames of the bus (can_send, comms_can_write, refresh_can_tx_slots_available).
THEOREM TransfersFit == Spec => []WriteFits
<1>1. TypeOK /\ Roomy(q) /\ [Next]_vars => (TypeOK /\ Roomy(q))'
  BY TypeStep, RoomStep
<1>2. Init => TypeOK /\ Roomy(q)
  BY InitTypes, RoomAtFirst
<1>3. TypeOK /\ Roomy(q) => WriteFits
  BY DEF Roomy, WriteFits
<1> QED BY <1>1, <1>2, <1>3, PTL DEF Spec

---------------------------------------------------------------------------
(* An answer belongs to the request of its attempt. *)

\* Nothing is left to look at of a request from an earlier attempt.
Fresh(p) == p.state # "data received" /\ (p.state = "received" => p.req = GARBAGE)

\* Before the data of request r, and after it
Asking(p, r) ==
  /\ p.state \notin {"data received", "answer", "read"}
  /\ p.state = "received" => p.req \in {GARBAGE, r}
  /\ p.state = "ack" => p.req = r
Answering(p, r, x) ==
  /\ p.state = "data received" => p.req = r
  /\ p.state \in {"answer", "read"} => p.req = r /\ x = r

\* What the panda may hold in each phase of an attempt for request r
Tracks(phase, p, r, x) ==
  /\ phase = "header" => Fresh(p)
  /\ phase \in {"hack", "data"} => Asking(p, r)
  /\ phase = "data" /\ p.state = "data" => p.req = r
  /\ phase \in {"dack", "read"} => Answering(p, r, x)

LinkInv ==
  /\ th["main"].pc = "off" => th["send"].pc = "off" /\ turn.by = "free"
  /\ turn.by = "free" /\ th["main"].pc # "off" => Fresh(panda)
  /\ \A t \in Threads : turn.by = t => /\ th[t].pc = "try"
                                       /\ Tracks(turn.phase, panda, th[t].req, ran)

LEMMA HandledTracks ==
  ASSUME TypeOK, Handled, panda' \in Panda, ran' \in Req
  PROVE  /\ Fresh(panda) => Fresh(panda')
         /\ \A phase \in Phases, r \in Req :
              Tracks(phase, panda, r, ran) => Tracks(phase, panda', r, ran')
<1>0. /\ \A r \in Req : /\ In("ack", r).state = "ack" /\ In("ack", r).req = r
      /\ Nacks.state = "nack" /\ Nacks.req = GARBAGE
      /\ panda.req \in Req
  <2>1. \A r \in Req : In("ack", r).state = "ack" /\ In("ack", r).req = r
    BY DEF In
  <2>2. Nacks.state = "nack" /\ Nacks.req = GARBAGE
    BY DEF Nacks, In
  <2> QED BY <2>1, <2>2 DEF TypeOK, Panda
<1>1. CASE panda.state = "received" /\ panda.req = GARBAGE /\ panda' = Nacks /\ ran' = ran
  BY <1>0, <1>1 DEF Fresh, Asking, Answering, Tracks
<1>2. CASE panda.state = "received" /\ panda.req # GARBAGE /\ panda' = In("ack", panda.req)
           /\ ran' = ran
  <2>1. panda'.state = "ack" /\ panda'.req = panda.req
    BY <1>0, <1>2
  <2> QED BY <1>2, <2>1 DEF Fresh, Asking, Answering, Tracks
<1>3. CASE panda.state = "data received" /\ panda'.state = "answer" /\ panda'.req = panda.req
           /\ ran' = panda.req
  BY <1>3 DEF Fresh, Asking, Answering, Tracks
<1>4. CASE panda.state = "data received" /\ panda' = Nacks
  BY <1>0, <1>4 DEF Fresh, Asking, Answering, Tracks
<1> QED BY <1>1, <1>2, <1>3, <1>4 DEF Handled

\* A burst that was not expected
LEMMA StraysTracks ==
  ASSUME NEW p \in Panda, NEW x, Strays(p, x), NEW r, NEW y
  PROVE  /\ Fresh(p) => Fresh(x) /\ Asking(x, r)
         /\ Asking(p, r) => Asking(x, r) /\ Answering(x, r, y)
                            /\ (x.state = "data" => x.req = r)
         /\ Answering(p, r, y) => Answering(x, r, y)
         /\ p.state \notin {"received", "data received"} => Fresh(x)
<1>1. CASE x = p /\ p.state \in {"received", "data received"}
  BY <1>1 DEF Fresh, Asking, Answering
<1>2. CASE Calm(x)
  BY <1>2 DEF Calm, Fresh, Asking, Answering
<1>3. CASE p.state = "ack" /\ x = In("data", p.req)
  <2>1. x.state = "data" /\ x.req = p.req
    BY <1>3 DEF In
  <2> QED BY <1>3, <2>1 DEF Fresh, Asking, Answering
<1> QED BY <1>1, <1>2, <1>3 DEF Strays

\* A step of the attempt that holds the bus
LEMMA HolderStep ==
  ASSUME TypeOK, LinkInv, NEW t \in Threads, turn.by = t, turn'.by = t, UNCHANGED host,
         Tracks(turn'.phase, panda', th[t].req, ran')
  PROVE  LinkInv'
<1>1. th' = th /\ t # "free"
  BY DEF host, Threads
<1>2. th["main"].pc # "off" /\ th[t].pc = "try"
  BY <1>1 DEF LinkInv
<1>3. \A u \in Threads : turn'.by = u => u = t
  OBVIOUS
<1> QED BY <1>1, <1>2, <1>3 DEF LinkInv

\* The end of an attempt
LEMMA EndStep ==
  ASSUME TypeOK, LinkInv, NEW t \in Threads, turn.by = t, turn' = FREE, Fresh(panda'),
         th'[t].pc # "off", \A u \in Threads : u # t => th'[u] = th[u] \/ th'[u] = IDLE
  PROVE  LinkInv'
<1>1. t # "free" /\ "main" \in Threads
  BY DEF Threads
<1>2. th["main"].pc # "off"
  BY <1>1 DEF LinkInv
<1>3. th'["main"].pc # "off"
  BY <1>1, <1>2, ThreadTypes
<1>4. turn'.by = "free" /\ "free" \notin Threads
  BY FreeType DEF Threads
<1> QED BY <1>3, <1>4 DEF LinkInv

\* A step that leaves the link alone, of a thread that does not hold the bus
LEMMA OthersStep ==
  ASSUME TypeOK, LinkInv, turn' = turn, panda' = panda, ran' = ran,
         th'["main"].pc # "off" \/ th' = th,
         \A t \in Threads : turn.by = t => th'[t] = th[t],
         th["main"].pc = "off" => Fresh(panda) \/ th' = th
  PROVE  LinkInv'
  BY DEF LinkInv

LEMMA LinkStep == TypeOK /\ LinkInv /\ [Next]_vars => LinkInv'
<1> SUFFICES ASSUME TypeOK, LinkInv, [Next]_vars PROVE LinkInv'
  OBVIOUS
<1>0. /\ panda \in Panda /\ panda.req \in Req /\ turn \in Turn /\ th \in [Threads -> Thread]
      /\ turn.phase \in Phases /\ \A t \in Threads : th[t].req \in Req
      /\ "main" \in Threads /\ "send" \in Threads
  BY DEF TypeOK, Panda, Turn, Thread, Req, Threads
<1>T. ASSUME NEW t \in Threads, turn.by = t PROVE Tracks(turn.phase, panda, th[t].req, ran)
  BY <1>T DEF LinkInv
<1>1. CASE Irq
  <2>1. Handled /\ panda' \in Panda /\ ran' \in Req /\ turn' = turn /\ th' = th
    BY <1>1, IrqDoes DEF Irq, host
  <2>2. Fresh(panda) => Fresh(panda')
    BY <2>1, HandledTracks
  <2>3. \A t \in Threads : Tracks(turn.phase, panda, th[t].req, ran)
                           => Tracks(turn.phase, panda', th[t].req, ran')
    BY <1>0, <2>1, HandledTracks
  <2> QED BY <2>1, <2>2, <2>3 DEF LinkInv
<1>2. CASE Arrive \/ BusSends
  BY <1>2 DEF Arrive, BusSends, host, LinkInv
<1>3. ASSUME NEW t \in Threads, Lock(t) PROVE LinkInv'
  <2>1. /\ turn.by = "free" /\ th[t].pc = "try" /\ turn'.by = t /\ turn'.phase = "header"
        /\ panda' = panda /\ ran' = ran /\ th' = th
    BY <1>3, LockDoes DEF host
  <2>2. th["main"].pc # "off"
    BY <1>0, <2>1 DEF LinkInv, Threads
  <2>3. Fresh(panda)
    BY <2>1, <2>2 DEF LinkInv
  <2>4. Tracks("header", panda, th[t].req, ran)
    BY <2>3 DEF Tracks
  <2>5. \A u \in Threads : turn'.by = u => u = t
    BY <2>1
  <2>6. turn'.by # "free"
    BY <2>1 DEF Threads
  <2> QED BY <2>1, <2>2, <2>4, <2>5, <2>6 DEF LinkInv
<1>4. ASSUME NEW t \in Threads, SendHeader(t) PROVE LinkInv'
  <2>1. Moved(t, "header", "header", {Got(th[t].req), Got(GARBAGE)}, {"hack"})
    BY <1>4, SendHeaderDoes
  <2>2. turn.by = t /\ turn.phase = "header" /\ turn'.by = t /\ turn'.phase = "hack" /\ UNCHANGED host
    BY <2>1 DEF Moved
  <2>3. Fresh(panda)
    BY <1>T, <2>2 DEF Tracks
  <2>4. Asking(panda', th[t].req)
    <3>1. CASE panda' \in {Got(th[t].req), Got(GARBAGE)}
      <4>1. PICK r \in {th[t].req, GARBAGE} : panda' = Got(r)
        BY <3>1
      <4>2. panda'.state = "received" /\ panda'.req = r
        BY <4>1 DEF Got, In
      <4> QED BY <4>2 DEF Asking
    <3>2. CASE Strays(panda, panda')
      BY <1>0, <2>3, <3>2, StraysTracks
    <3> QED BY <2>1, <3>1, <3>2 DEF Moved
  <2>5. Tracks(turn'.phase, panda', th[t].req, ran')
    BY <2>2, <2>4 DEF Tracks
  <2> QED BY <2>2, <2>5, HolderStep
<1>5. ASSUME NEW t \in Threads, PollHeader(t) PROVE LinkInv'
  <2>1. Moved(t, "hack", "ack", {In("data", panda.req)}, {"hack", "data", "fail"})
    BY <1>5, PollHeaderDoes
  <2>2. turn.by = t /\ turn.phase = "hack" /\ turn'.by = t /\ turn'.phase \in {"hack", "data", "fail"}
        /\ UNCHANGED host
    BY <2>1 DEF Moved
  <2>3. Asking(panda, th[t].req)
    BY <1>T, <2>2 DEF Tracks
  <2>4. Asking(panda', th[t].req) /\ (panda'.state = "data" => panda'.req = th[t].req)
    <3>1. CASE panda.state = "ack" /\ panda' = In("data", panda.req)
      BY <2>3, <3>1 DEF In, Asking
    <3>2. CASE Strays(panda, panda')
      <4> DEFINE r == th[t].req
      <4>1. Asking(panda, r)
        BY <2>3
      <4> HIDE DEF r
      <4>2. Asking(panda', r) /\ (panda'.state = "data" => panda'.req = r)
        BY <1>0, <3>2, <4>1, StraysTracks
      <4> QED BY <4>2 DEF r
    <3> QED BY <2>1, <3>1, <3>2 DEF Moved
  <2>5. Tracks(turn'.phase, panda', th[t].req, ran')
    BY <2>2, <2>4 DEF Tracks
  <2> QED BY <2>2, <2>5, HolderStep
<1>6. ASSUME NEW t \in Threads, SendData(t) PROVE LinkInv'
  <2>1. /\ turn.by = t /\ turn.phase = "data" /\ turn'.by = t /\ turn'.phase = "dack"
        /\ UNCHANGED host
        /\ \/ panda.state = "data" /\ Fits(t) /\ panda' = Data(t)
           \/ panda.state = "data" /\ panda' = Got(GARBAGE)
           \/ Strays(panda, panda')
    BY <1>6, SendDataDoes
  <2>2. Asking(panda, th[t].req) /\ (panda.state = "data" => panda.req = th[t].req)
    BY <1>T, <2>1 DEF Tracks
  <2>3. Answering(panda', th[t].req, ran')
    <3>1. CASE panda.state = "data" /\ Fits(t) /\ panda' = Data(t)
      <4>1. panda.req = th[t].req /\ panda.req \in HostReq
        BY <2>2, <3>1, DataType
      <4>2. [panda.req EXCEPT !.frames = th[t].req.frames] = th[t].req
        BY <4>1 DEF HostReq
      <4>3. panda'.req = th[t].req /\ panda'.state = "data received"
        BY <3>1, <4>2 DEF Data, In
      <4> QED BY <4>3 DEF Answering
    <3>2. CASE panda' = Got(GARBAGE)
      BY <3>2 DEF Got, In, Answering
    <3>3. CASE Strays(panda, panda')
      BY <1>0, <2>2, <3>3, StraysTracks
    <3> QED BY <2>1, <3>1, <3>2, <3>3
  <2>4. Tracks(turn'.phase, panda', th[t].req, ran')
    BY <2>1, <2>3 DEF Tracks
  <2> QED BY <2>1, <2>4, HolderStep
<1>7. ASSUME NEW t \in Threads, PollData(t) PROVE LinkInv'
  <2>1. Moved(t, "dack", "answer", {[panda EXCEPT !.state = "read"]}, {"dack", "read", "fail"})
    BY <1>7, PollDataDoes
  <2>2. turn.by = t /\ turn.phase = "dack" /\ turn'.by = t /\ turn'.phase \in {"dack", "read", "fail"}
        /\ UNCHANGED host /\ ran' = ran
    BY <2>1 DEF Moved
  <2>3. Answering(panda, th[t].req, ran)
    BY <1>T, <2>2 DEF Tracks
  <2>4. Answering(panda', th[t].req, ran')
    <3>1. CASE panda.state = "answer" /\ panda' = [panda EXCEPT !.state = "read"]
      BY <1>0, <2>2, <2>3, <3>1 DEF Panda, Answering
    <3>2. CASE Strays(panda, panda')
      BY <1>0, <2>2, <2>3, <3>2, StraysTracks
    <3> QED BY <2>1, <3>1, <3>2 DEF Moved
  <2>5. Tracks(turn'.phase, panda', th[t].req, ran')
    BY <2>2, <2>4 DEF Tracks
  <2> QED BY <2>2, <2>5, HolderStep
<1>8. ASSUME NEW t \in Threads, ReadAnswer(t) PROVE LinkInv'
  <2>1. turn.by = t /\ turn' = FREE /\ panda' = READY /\ Done(t, panda.answer)
    BY <1>8, ReadAnswerDoes
  <2>2. Fresh(panda')
    BY <2>1 DEF READY, In, Fresh
  <2>3. th'[t].pc # "off" /\ \A u \in Threads : u # t => th'[u] = th[u] \/ th'[u] = IDLE
    BY <2>1 DEF Done
  <2> QED BY <2>1, <2>2, <2>3, EndStep
<1>9. ASSUME NEW t \in Threads, BadAnswer(t) PROVE LinkInv'
  <2>1. turn.by = t /\ turn'.by = t /\ turn'.phase = "fail" /\ UNCHANGED host
    BY <1>9, BadAnswerDoes
  <2>2. Tracks(turn'.phase, panda', th[t].req, ran')
    BY <2>1 DEF Tracks
  <2> QED BY <2>1, <2>2, HolderStep
<1>10. ASSUME NEW t \in Threads, Fails(t) PROVE LinkInv'
  <2>1. /\ turn.by = t /\ Strays(panda, panda')
        /\ \/ turn'.by = t /\ turn'.phase = "fail" /\ UNCHANGED host
           \/ /\ turn' = FREE /\ panda.state \notin {"received", "data received"}
              /\ \A u \in Threads : u # t => th'[u] = th[u]
              /\ th'[t].pc = th[t].pc \/ th'[t] = IDLE
    BY <1>10, FailsDoes
  <2>2. CASE turn'.by = t /\ turn'.phase = "fail" /\ UNCHANGED host
    <3>1. Tracks(turn'.phase, panda', th[t].req, ran')
      BY <2>2 DEF Tracks
    <3> QED BY <2>1, <2>2, <3>1, HolderStep
  <2>3. CASE /\ turn' = FREE /\ panda.state \notin {"received", "data received"}
             /\ \A u \in Threads : u # t => th'[u] = th[u]
             /\ th'[t].pc = th[t].pc \/ th'[t] = IDLE
    <3>1. Fresh(panda')
      BY <1>0, <2>1, <2>3, StraysTracks
    <3>2. th[t].pc = "try"
      BY <2>1 DEF LinkInv
    <3>3. th'[t].pc # "off"
      BY <2>3, <3>2, ThreadTypes
    <3> QED BY <2>1, <2>3, <3>1, <3>3, EndStep
  <2> QED BY <2>1, <2>2, <2>3
<1>11. ASSUME NEW t \in Threads, Timeout(t) PROVE LinkInv'
  <2>1. turn.by = t /\ turn'.by = t /\ turn'.phase = "fail" /\ UNCHANGED host
    BY <1>11, TimeoutDoes
  <2>2. Tracks(turn'.phase, panda', th[t].req, ran')
    BY <2>1 DEF Tracks
  <2> QED BY <2>1, <2>2, HolderStep
<1>12. CASE Connect
  <2>1. /\ th["main"].pc = "off" /\ panda.state \notin {"received", "data received"}
        /\ th'["main"] = Trying(RESET) /\ th'["send"] = th["send"]
        /\ turn' = turn /\ panda' = panda /\ ran' = ran
    BY <1>12, ConnectDoes
  <2>2. th'["main"].pc # "off"
    BY <2>1, Requests, ThreadTypes
  <2>3. \A t \in Threads : turn.by # t
    BY <2>1 DEF LinkInv, Threads
  <2>4. Fresh(panda)
    BY <2>1 DEF Fresh
  <2> QED BY <2>1, <2>2, <2>3, <2>4, OthersStep
<1>13. CASE can_receive \/ Unpack
  <2>1. /\ th["main"].pc \in {"idle", "unpack"} /\ th'["main"].pc \in {"idle", "try"}
        /\ th'["send"] = th["send"]
        /\ turn' = turn /\ panda' = panda /\ ran' = ran
    BY <1>13, ReceiveDoes, UnpackDoes
  <2>2. turn.by # "main"
    BY <1>0, <2>1 DEF LinkInv
  <2>3. \A t \in Threads : turn.by = t => th'[t] = th[t]
    BY <2>1, <2>2 DEF Threads
  <2> QED BY <2>1, <2>3, OthersStep
<1>14. CASE can_send_thread
  <2>1. /\ th["send"].pc = "idle" /\ th'["main"] = th["main"]
        /\ turn' = turn /\ panda' = panda /\ ran' = ran
    BY <1>14, SendThreadDoes
  <2>2. turn.by # "send" /\ th["main"].pc # "off"
    BY <1>0, <2>1 DEF LinkInv
  <2>3. \A t \in Threads : turn.by = t => th'[t] = th[t]
    BY <2>1, <2>2 DEF Threads
  <2> QED BY <2>1, <2>2, <2>3, OthersStep
<1>15. CASE Crash \/ Reconnect
  <2>1. Anew
    BY <1>15, NewPandadDoes DEF Crash, Reconnect
  <2>2. th'["main"].pc = "off" /\ th'["send"].pc = "off" /\ turn'.by = "free"
    BY <1>0, <2>1, ThreadTypes, FreeType DEF Anew
  <2>3. "free" \notin Threads
    BY DEF Threads
  <2> QED BY <2>2, <2>3 DEF LinkInv
<1>16. CASE UNCHANGED vars
  BY <1>16 DEF vars, host, LinkInv
<1> QED BY <1>1, <1>2, <1>3, <1>4, <1>5, <1>6, <1>7, <1>8, <1>9, <1>10, <1>11, <1>12, <1>13,
           <1>14, <1>15, <1>16 DEF Next, Burst, Pandad

LEMMA LinkAtFirst == Init => LinkInv
<1> SUFFICES ASSUME Init PROVE LinkInv
  OBVIOUS
<1>1. turn.by = "free" /\ "free" \notin Threads
  BY FreeType DEF Init, Threads
<1>2. th["main"].pc = "off" /\ th["send"].pc = "off"
  BY ThreadTypes DEF Init, Threads
<1> QED BY <1>1, <1>2 DEF LinkInv

\* One step of the property
Genuine ==
  \A t \in Threads : At(t, "read") /\ turn'.by = "free" /\ th'[t] # OFF =>
    /\ ran = th[t].req
    /\ ran.op = "read" => th'[t].data = th[t].data \o panda.answer

LEMMA GenuineStep == TypeOK /\ LinkInv /\ [Next]_vars => Genuine
<1> SUFFICES ASSUME TypeOK, LinkInv, [Next]_vars,
                    NEW t \in Threads, At(t, "read"), turn'.by = "free", th'[t] # OFF
             PROVE  /\ ran = th[t].req
                    /\ ran.op = "read" => th'[t].data = th[t].data \o panda.answer
  BY DEF Genuine
<1>1. turn.by = t /\ turn.phase = "read" /\ t # "free" /\ turn'.by # t
  BY DEF At, Threads
<1>2. CASE ReadAnswer(t)
  <2>1. panda.state = "read" /\ Done(t, panda.answer)
    BY <1>2, ReadAnswerDoes
  <2>2. Answering(panda, th[t].req, ran)
    BY <1>1 DEF LinkInv, Tracks
  <2>3. ran = th[t].req
    BY <2>1, <2>2 DEF Answering
  <2> QED BY <2>1, <2>3 DEF Done
<1>3. ASSUME NEW u \in Threads, Lock(u) \/ Burst(u) \/ Timeout(u), ~ReadAnswer(u)
      PROVE FALSE
  <2>1. CASE Lock(u)
    BY <1>1, <2>1, LockDoes
  <2>2. CASE SendHeader(u) \/ PollHeader(u) \/ PollData(u)
    BY <1>1, <2>2, SendHeaderDoes, PollHeaderDoes, PollDataDoes DEF Moved
  <2>3. CASE SendData(u) \/ BadAnswer(u) \/ Timeout(u)
    BY <1>1, <2>3, SendDataDoes, BadAnswerDoes, TimeoutDoes
  <2>4. CASE Fails(u)
    BY <1>1, <2>4, FailsDoes
  <2> QED BY <1>3, <2>1, <2>2, <2>3, <2>4 DEF Burst
<1>4. ASSUME ReadAnswer("main") \/ ReadAnswer("send") PROVE ReadAnswer(t)
  <2>1. \A u \in Threads : ReadAnswer(u) => u = t
    BY <1>1 DEF ReadAnswer, At
  <2> QED BY <1>4, <2>1 DEF Threads
<1>5. CASE Irq \/ Arrive \/ BusSends \/ UNCHANGED vars
  BY <1>1, <1>5 DEF Irq, Arrive, BusSends, vars
<1>6. CASE Pandad \/ can_send_thread
  BY <1>1, <1>6 DEF Pandad, Connect, can_receive, Unpack, can_send_thread, OfPandad
<1>7. CASE Crash \/ Reconnect
  BY <1>7, NewPandadDoes DEF Crash, Reconnect, Anew
<1>8. CASE \E u \in Threads : ReadAnswer(u)
  BY <1>2, <1>4, <1>8 DEF Threads
<1> QED BY <1>3, <1>5, <1>6, <1>7, <1>8 DEF Next, Burst

\* The answer that an attempt succeeds with was given by the panda in this attempt, to this
\* request, whatever earlier attempts or an earlier process have left in the panda's buffers
\* (spi_transfer, wait_for_ack, spi_rx_done): no length of an answer, number of retries or of
\* faults is large enough to break it.
THEOREM AnswersAreGenuine == Spec => GenuineAnswer
<1>1. TypeOK /\ LinkInv /\ [Next]_vars => (TypeOK /\ LinkInv)'
  BY TypeStep, LinkStep
<1>2. Init => TypeOK /\ LinkInv
  BY InitTypes, LinkAtFirst
<1>3. TypeOK /\ LinkInv /\ [Next]_vars => [Genuine]_vars
  BY GenuineStep
<1> QED BY <1>1, <1>2, <1>3, PTL DEF Spec, GenuineAnswer, Genuine

---------------------------------------------------------------------------
(* Frames are published in order. *)

\* The place of a unit in the order of all units that the panda queues, and units in order
\* and between two places
Key(u) == 2 * u[1] + u[2]
Within(s, lo, hi) ==
  /\ lo <= hi
  /\ \A i \in 1..Len(s) : lo < Key(s[i]) /\ Key(s[i]) <= hi
  /\ \A i, j \in 1..Len(s) : i < j => Key(s[i]) < Key(s[j])
Cut(s, lo, k) == IF k = 0 THEN lo ELSE Key(s[k])

LEMMA KeyType ==
  ASSUME NEW u \in Unit
  PROVE  Key(u) \in Nat /\ u[1] \in Nat /\ u[2] \in {1, 2}
<1>1. u[1] \in Nat /\ u[2] \in {1, 2}
  BY DEF Unit
<1> QED BY <1>1 DEF Key

LEMMA KeyOfSeq ==
  ASSUME NEW s \in Seq(Unit), NEW i \in 1..Len(s)
  PROVE  Key(s[i]) \in Nat
<1>1. s[i] \in Unit
  BY ElementOfSeq
<1> QED BY <1>1, KeyType

LEMMA WithinEmpty ==
  ASSUME NEW lo \in Nat, NEW hi \in Nat, lo <= hi
  PROVE  Within(<<>>, lo, hi)
  BY DEF Within

LEMMA WithinMore ==
  ASSUME NEW s \in Seq(Unit), NEW lo \in Nat, NEW hi \in Nat, NEW l \in Nat, NEW h \in Nat,
         Within(s, lo, hi), l <= lo, hi <= h
  PROVE  Within(s, l, h)
  BY KeyOfSeq DEF Within

LEMMA WithinConcat ==
  ASSUME NEW s \in Seq(Unit), NEW t \in Seq(Unit), NEW lo \in Nat, NEW m \in Nat, NEW hi \in Nat,
         Within(s, lo, m), Within(t, m, hi)
  PROVE  s \o t \in Seq(Unit) /\ Within(s \o t, lo, hi)
<1> DEFINE u == s \o t
           k == Len(s)
           l == Len(t)
<1>1. k \in Nat /\ l \in Nat
  OBVIOUS
<1>2. /\ u \in Seq(Unit) /\ Len(u) = k + l
      /\ \A i \in 1..k + l : u[i] = IF i <= k THEN s[i] ELSE t[i - k]
  BY ConcatProperties
<1>3. lo <= m /\ m <= hi
  BY DEF Within
<1>4. \A i \in 1..k : Key(s[i]) \in Nat /\ lo < Key(s[i]) /\ Key(s[i]) <= m
  BY KeyOfSeq DEF Within
<1>5. \A i \in 1..l : Key(t[i]) \in Nat /\ m < Key(t[i]) /\ Key(t[i]) <= hi
  BY KeyOfSeq DEF Within
<1>6. /\ \A i, j \in 1..k : i < j => Key(s[i]) < Key(s[j])
      /\ \A i, j \in 1..l : i < j => Key(t[i]) < Key(t[j])
  BY DEF Within
<1> HIDE DEF u, k, l
<1>7. ASSUME NEW i \in 1..k + l
      PROVE  \/ i \in 1..k /\ u[i] = s[i]
             \/ i - k \in 1..l /\ u[i] = t[i - k] /\ i > k
  BY <1>1, <1>2
<1>8. ASSUME NEW i \in 1..k + l PROVE lo < Key(u[i]) /\ Key(u[i]) <= hi
  <2>1. CASE i \in 1..k /\ u[i] = s[i]
    BY <1>3, <1>4, <2>1
  <2>2. CASE i - k \in 1..l /\ u[i] = t[i - k]
    BY <1>3, <1>5, <2>2
  <2> QED BY <1>7, <2>1, <2>2
<1>9. ASSUME NEW i \in 1..k + l, NEW j \in 1..k + l, i < j PROVE Key(u[i]) < Key(u[j])
  <2>1. CASE i \in 1..k /\ u[i] = s[i] /\ j \in 1..k /\ u[j] = s[j]
    BY <1>6, <1>9, <2>1
  <2>2. CASE i \in 1..k /\ u[i] = s[i] /\ j - k \in 1..l /\ u[j] = t[j - k]
    <3>1. Key(s[i]) \in Nat /\ Key(s[i]) <= m /\ Key(t[j - k]) \in Nat /\ m < Key(t[j - k])
      BY <1>4, <1>5, <2>2
    <3> QED BY <2>2, <3>1
  <2>3. CASE i - k \in 1..l /\ u[i] = t[i - k] /\ j - k \in 1..l /\ u[j] = t[j - k]
    <3>1. i - k < j - k
      BY <1>1, <1>9
    <3> QED BY <1>6, <2>3, <3>1
  <2>4. ~(i > k /\ j \in 1..k)
    BY <1>1, <1>9
  <2> QED BY <1>7, <2>1, <2>2, <2>3, <2>4
<1>10. lo <= hi
  BY <1>3
<1> QED BY <1>2, <1>8, <1>9, <1>10 DEF Within, u

\* A part of units in order
LEMMA WithinPart ==
  ASSUME NEW s \in Seq(Unit), NEW lo \in Nat, NEW hi \in Nat, Within(s, lo, hi),
         NEW k \in 0..Len(s), NEW m \in k..Len(s)
  PROVE  /\ Cut(s, lo, k) \in Nat /\ lo <= Cut(s, lo, k) /\ Cut(s, lo, k) <= hi
         /\ SubSeq(s, k + 1, m) \in Seq(Unit)
         /\ Within(SubSeq(s, k + 1, m), Cut(s, lo, k), Cut(s, lo, m))
         /\ Within(SubSeq(s, k + 1, Len(s)), Cut(s, lo, k), hi)
<1> DEFINE n == Len(s)
<1>0. n \in Nat
  OBVIOUS
<1>1. \A i \in 1..n : Key(s[i]) \in Nat /\ lo < Key(s[i]) /\ Key(s[i]) <= hi
  BY KeyOfSeq DEF Within
<1>2. \A i, j \in 1..n : i < j => Key(s[i]) < Key(s[j])
  BY DEF Within
<1>3. lo <= hi
  BY DEF Within
<1>4. ASSUME NEW x \in 0..n
      PROVE  Cut(s, lo, x) \in Nat /\ lo <= Cut(s, lo, x) /\ Cut(s, lo, x) <= hi
  <2>1. CASE x = 0
    BY <1>3, <2>1 DEF Cut
  <2>2. CASE x # 0
    <3>1. x \in 1..n
      BY <1>0, <2>2
    <3> QED BY <1>1, <2>2, <3>1 DEF Cut
  <2> QED BY <2>1, <2>2
<1>5. ASSUME NEW x \in 0..n, NEW i \in 1..n, x < i PROVE Cut(s, lo, x) < Key(s[i])
  <2>1. CASE x = 0
    BY <1>1, <2>1 DEF Cut
  <2>2. CASE x # 0
    <3>1. x \in 1..n
      BY <1>0, <2>2
    <3> QED BY <1>2, <1>5, <2>2, <3>1 DEF Cut
  <2> QED BY <2>1, <2>2
<1>6. ASSUME NEW x \in 0..n, NEW i \in 1..n, i <= x PROVE Key(s[i]) <= Cut(s, lo, x)
  <2>1. x # 0 /\ x \in 1..n
    BY <1>0, <1>6
  <2>2. CASE i = x
    BY <1>1, <2>1, <2>2 DEF Cut
  <2>3. CASE i # x
    <3>1. i < x
      BY <1>6, <2>3
    <3>2. Key(s[i]) < Key(s[x]) /\ Key(s[i]) \in Nat /\ Key(s[x]) \in Nat
      BY <1>1, <1>2, <2>1, <3>1
    <3> QED BY <2>1, <3>2 DEF Cut
  <2> QED BY <2>2, <2>3
<1>7. ASSUME NEW x \in k..n, NEW h \in Nat, Cut(s, lo, k) <= h,
             \A i \in 1..n : i <= x => Key(s[i]) <= h
      PROVE  SubSeq(s, k + 1, x) \in Seq(Unit) /\ Within(SubSeq(s, k + 1, x), Cut(s, lo, k), h)
  <2> DEFINE u == SubSeq(s, k + 1, x)
  <2>1. k + 1 \in Nat /\ k + 1 >= 1 /\ x \in Nat /\ x <= Len(s) /\ k \in Nat /\ k <= x
    BY <1>0
  <2>2. /\ u \in Seq(Unit) /\ Len(u) = (IF k + 1 <= x THEN x - (k + 1) + 1 ELSE 0)
        /\ \A i \in 1..x - (k + 1) + 1 : u[i] = s[k + 1 + i - 1]
    <3> DEFINE k1 == k + 1
    <3>1. k1 \in Nat /\ k1 >= 1 /\ x \in Nat /\ x <= Len(s)
      BY <2>1
    <3> HIDE DEF k1
    <3>2. /\ SubSeq(s, k1, x) \in Seq(Unit)
          /\ Len(SubSeq(s, k1, x)) = IF k1 <= x THEN x - k1 + 1 ELSE 0
          /\ \A i \in 1..x - k1 + 1 : SubSeq(s, k1, x)[i] = s[k1 + i - 1]
      BY <3>1, SubSeqType
    <3> QED BY <3>2 DEF k1
  <2> HIDE DEF u
  <2>3. Len(u) = x - k
    BY <2>1, <2>2
  <2>4. ASSUME NEW i \in 1..x - k PROVE u[i] = s[k + i] /\ k + i \in 1..n /\ k + i <= x /\ k < k + i
    <3>1. i \in 1..x - (k + 1) + 1 /\ k + 1 + i - 1 = k + i
      BY <2>1
    <3>2. k + i \in 1..n /\ k + i <= x /\ k < k + i
      BY <1>0, <2>1
    <3> QED BY <2>2, <3>1, <3>2
  <2>5. k \in 0..n
    BY <1>0
  <2>6. ASSUME NEW i \in 1..x - k PROVE Cut(s, lo, k) < Key(u[i]) /\ Key(u[i]) <= h
    BY <1>5, <1>7, <2>4, <2>5
  <2>7. ASSUME NEW i \in 1..x - k, NEW j \in 1..x - k, i < j PROVE Key(u[i]) < Key(u[j])
    <3>1. k + i < k + j
      BY <2>1, <2>7
    <3> QED BY <1>2, <2>4, <3>1
  <2> QED BY <1>7, <2>2, <2>3, <2>6, <2>7 DEF Within, u
<1>8. k \in 0..n /\ m \in 0..n /\ m \in k..n /\ n \in k..n
  BY <1>0
<1>9. Cut(s, lo, k) <= Cut(s, lo, m)
  <2>1. CASE k = 0
    BY <1>4, <1>8, <2>1 DEF Cut
  <2>2. CASE k # 0
    <3>1. k \in 1..n /\ k <= m
      BY <1>0, <2>2
    <3> QED BY <1>6, <1>8, <2>2, <3>1 DEF Cut
  <2> QED BY <2>1, <2>2
<1>10. SubSeq(s, k + 1, m) \in Seq(Unit)
       /\ Within(SubSeq(s, k + 1, m), Cut(s, lo, k), Cut(s, lo, m))
  BY <1>4, <1>6, <1>7, <1>8, <1>9
<1>11. Within(SubSeq(s, k + 1, n), Cut(s, lo, k), hi)
  BY <1>1, <1>4, <1>7, <1>8
<1> QED BY <1>4, <1>8, <1>10, <1>11

\* The panda queues units behind those it has queued.
LEMMA GrowsWithin ==
  ASSUME NEW a \in Queue, NEW b \in Queue, Grows(a, b), NEW e \in Nat,
         Within(Units(a.rx), e, 2 * a.queued + 2)
  PROVE  Within(Units(b.rx), e, 2 * b.queued + 2)
<1> DEFINE u == Units(a.rx)
           v == Units(b.rx)
           k == Len(a.rx)
           l == Len(b.rx)
           x == a.queued
           y == b.queued
<1>1. a.rx \in Seq(Nat) /\ b.rx \in Seq(Nat) /\ k \in Nat /\ l \in Nat /\ x \in Nat /\ y \in Nat
  BY QueueFields
<1>2. /\ y >= x /\ l = k + (y - x)
      /\ \A i \in 1..k : b.rx[i] = a.rx[i]
      /\ \A i \in 1..y - x : b.rx[k + i] = x + i
  BY DEF Grows
<1>3. /\ u \in Seq(Unit) /\ Len(u) = 2 * k
      /\ \A i \in 1..2 * k : u[i] = UnitAt(a.rx, i) /\ (i + 1) \div 2 \in 1..k
  BY <1>1, UnitsAre
<1>4. /\ v \in Seq(Unit) /\ Len(v) = 2 * l
      /\ \A i \in 1..2 * l : v[i] = UnitAt(b.rx, i) /\ (i + 1) \div 2 \in 1..l
  BY <1>1, UnitsAre
<1>5. /\ e <= 2 * x + 2
      /\ \A i \in 1..2 * k : e < Key(u[i]) /\ Key(u[i]) <= 2 * x + 2
      /\ \A i, j \in 1..2 * k : i < j => Key(u[i]) < Key(u[j])
  BY <1>3 DEF Within
<1>6. \A i \in 1..2 * k : Key(u[i]) \in Nat
  BY <1>3, KeyOfSeq
<1>7. \A i \in 1..2 * l : Key(v[i]) \in Nat
  BY <1>4, KeyOfSeq
<1> HIDE DEF u, v, k, l, x, y
<1>8. ASSUME NEW i \in 1..2 * k PROVE v[i] = u[i]
  <2>1. i \in 1..2 * l
    BY <1>1, <1>2
  <2>2. b.rx[(i + 1) \div 2] = a.rx[(i + 1) \div 2]
    BY <1>2, <1>3
  <2> QED BY <1>3, <1>4, <2>1, <2>2 DEF UnitAt
<1>9. ASSUME NEW i \in 1..2 * l, ~(i <= 2 * k) PROVE Key(v[i]) = 2 * (x - k) + i + 2
  <2> DEFINE h == (i + 1) \div 2
             p == IF i % 2 = 1 THEN 1 ELSE 2
             j == h - k
  <2>1. h \in Nat /\ i = 2 * h - (IF i % 2 = 1 THEN 1 ELSE 0) /\ h \in 1..l
    BY <1>4, Halves
  <2>2. p \in {1, 2} /\ i = 2 * h + p - 2 /\ p \in Nat
    BY <2>1
  <2>3. v[i] = <<b.rx[h], p>>
    BY <1>4 DEF UnitAt
  <2> HIDE DEF h, p
  <2>4. j \in 1..y - x /\ k + j = h
    BY <1>1, <1>2, <1>9, <2>1, <2>2
  <2> HIDE DEF j
  <2>5. b.rx[h] = x + j
    BY <1>2, <2>4
  <2>6. v[i] = <<x + j, p>>
    BY <2>3, <2>5
  <2>7. Key(v[i]) = 2 * (x + j) + p
    BY <2>6 DEF Key
  <2>8. j = h - k
    BY DEF j
  <2> QED BY <1>1, <2>1, <2>2, <2>7, <2>8
<1>10. ASSUME NEW i \in 1..2 * l PROVE e < Key(v[i]) /\ Key(v[i]) <= 2 * y + 2
  <2>1. CASE i <= 2 * k
    <3>1. i \in 1..2 * k
      BY <1>1, <2>1
    <3>2. Key(v[i]) = Key(u[i]) /\ Key(u[i]) \in Nat /\ e < Key(u[i]) /\ Key(u[i]) <= 2 * x + 2
      BY <1>5, <1>6, <1>8, <3>1
    <3> QED BY <1>1, <1>2, <3>2
  <2>2. CASE ~(i <= 2 * k)
    <3>1. Key(v[i]) = 2 * (x - k) + i + 2
      BY <1>9, <2>2
    <3> QED BY <1>1, <1>2, <1>5, <2>2, <3>1
  <2> QED BY <2>1, <2>2
<1>11. ASSUME NEW i \in 1..2 * l, NEW j \in 1..2 * l, i < j PROVE Key(v[i]) < Key(v[j])
  <2>1. CASE j <= 2 * k
    <3>1. i \in 1..2 * k /\ j \in 1..2 * k
      BY <1>1, <1>11, <2>1
    <3> QED BY <1>5, <1>8, <1>11, <3>1
  <2>2. CASE i <= 2 * k /\ ~(j <= 2 * k)
    <3>1. i \in 1..2 * k
      BY <1>1, <2>2
    <3>2. Key(v[i]) = Key(u[i]) /\ Key(u[i]) \in Nat /\ Key(u[i]) <= 2 * x + 2
      BY <1>5, <1>6, <1>8, <3>1
    <3>3. Key(v[j]) = 2 * (x - k) + j + 2
      BY <1>9, <2>2
    <3> QED BY <1>1, <1>2, <2>2, <3>2, <3>3
  <2>3. CASE ~(i <= 2 * k)
    <3>1. ~(j <= 2 * k)
      BY <1>1, <1>11, <2>3
    <3>2. Key(v[i]) = 2 * (x - k) + i + 2 /\ Key(v[j]) = 2 * (x - k) + j + 2
      BY <1>9, <2>3, <3>1
    <3> QED BY <1>1, <1>11, <3>2
  <2> QED BY <2>1, <2>2, <2>3
<1>12. e <= 2 * y + 2
  BY <1>1, <1>2, <1>5
<1>13. Within(v, e, 2 * y + 2)
  BY <1>4, <1>10, <1>11, <1>12 DEF Within
<1> QED BY <1>13 DEF v, y

\* Frames published whole and in order, up to a place
Published(g, hi) ==
  \A i \in 1..Len(g) : /\ g[i][1] = g[i][2] /\ 2 * g[i][1] + 2 <= hi
                       /\ \A j \in 1..Len(g) : i < j => g[i][1] < g[j][1]

\* What is published, kept, read, answered and queued follow one another.
Ordered(a, b, c, d, e) ==
  /\ Published(got, a) /\ Within(buf, a, b) /\ Within(th["main"].data, b, c)
  /\ Within(panda.answer, c, d) /\ Within(q.tail, d, e)
  /\ Within(Units(q.rx), e, 2 * q.queued + 2)
OrderInv == \E a, b, c, d, e \in Nat : Ordered(a, b, c, d, e)

LEMMA Segments ==
  ASSUME TypeOK
  PROVE  /\ buf \in Seq(Unit) /\ th["main"].data \in Seq(Unit) /\ panda.answer \in Seq(Unit)
         /\ q.tail \in Seq(Unit) /\ q.rx \in Seq(Nat) /\ Units(q.rx) \in Seq(Unit)
         /\ q.queued \in Nat /\ 2 * q.queued + 2 \in Nat /\ got \in Seq(Nat \X Nat)
         /\ q \in Queue /\ Len(q.tail) <= 1
<1>1. th["main"] \in Thread
  BY DEF TypeOK, Threads
<1>2. q \in Queue
  BY DEF TypeOK
<1>3. q.tail \in Seq(Unit) /\ q.rx \in Seq(Nat) /\ q.queued \in Nat
  BY <1>2, QueueFields
<1>4. Units(q.rx) \in Seq(Unit)
  BY <1>3, UnitsAre
<1>5. th["main"].data \in Seq(Unit)
  BY <1>1 DEF Thread
<1>6. panda.answer \in Seq(Unit)
  BY DEF TypeOK, Panda
<1> QED BY <1>2, <1>3, <1>4, <1>5, <1>6 DEF TypeOK

LEMMA MakeOrder ==
  ASSUME NEW a \in Nat, NEW b \in Nat, NEW c \in Nat, NEW d \in Nat, NEW e \in Nat,
         Published(got', a), Within(buf', a, b), Within(th'["main"].data, b, c),
         Within(panda'.answer, c, d), Within(q'.tail, d, e),
         Within(Units(q'.rx), e, 2 * q'.queued + 2)
  PROVE  OrderInv'
<1>1. Ordered(a, b, c, d, e)'
  BY DEF Ordered
<1> QED BY <1>1 DEF OrderInv

\* Something is dropped, or queued behind the rest.
LEMMA ThinsOrder ==
  ASSUME TypeOK, TypeOK', OrderInv, got' = got, buf' \in {buf, <<>>},
         th'["main"].data \in {th["main"].data, <<>>}, panda'.answer \in {panda.answer, <<>>},
         Grows(q, q') \/ (q'.tail = <<>> /\ q'.rx = q.rx /\ q'.queued = q.queued)
  PROVE  OrderInv'
<1>1. PICK a \in Nat, b \in Nat, c \in Nat, d \in Nat, e \in Nat : Ordered(a, b, c, d, e)
  BY DEF OrderInv
<1>2. a <= b /\ b <= c /\ c <= d /\ d <= e
  BY <1>1 DEF Ordered, Within
<1>3. Within(buf', a, b)
  BY <1>1, <1>2, WithinEmpty DEF Ordered
<1>4. Within(th'["main"].data, b, c)
  BY <1>1, <1>2, WithinEmpty DEF Ordered
<1>5. Within(panda'.answer, c, d)
  BY <1>1, <1>2, WithinEmpty DEF Ordered
<1>6. Within(q'.tail, d, e) /\ Within(Units(q'.rx), e, 2 * q'.queued + 2)
  <2>1. Within(q.tail, d, e) /\ Within(Units(q.rx), e, 2 * q.queued + 2)
    BY <1>1 DEF Ordered
  <2>2. CASE Grows(q, q')
    <3>1. q \in Queue /\ q' \in Queue
      BY DEF TypeOK
    <3>2. q'.tail = q.tail
      BY <2>2 DEF Grows
    <3> QED BY <2>1, <2>2, <3>1, <3>2, GrowsWithin
  <2>3. CASE q'.tail = <<>> /\ q'.rx = q.rx /\ q'.queued = q.queued
    BY <1>2, <2>1, <2>3, WithinEmpty
  <2> QED BY <2>2, <2>3
<1>7. Published(got', a)
  BY <1>1 DEF Ordered
<1> QED BY <1>3, <1>4, <1>5, <1>6, <1>7, MakeOrder

\* The panda answers with what is queued first.
LEMMA ReadOrder ==
  ASSUME TypeOK, OrderInv, CanRead, UNCHANGED host
  PROVE  OrderInv'
<1>1. PICK a \in Nat, b \in Nat, c \in Nat, d \in Nat, e \in Nat : Ordered(a, b, c, d, e)
  BY DEF OrderInv
<1> DEFINE max == panda.req.max
           all == q.tail \o Units(q.rx)
           top == 2 * q.queued + 2
<1>2. max \in Nat
  <2>1. panda.req \in Req
    BY DEF TypeOK, Panda
  <2>2. GARBAGE.max = 0
    BY DEF GARBAGE, Request
  <2> QED BY <2>1, <2>2 DEF Req, HostReq
<1>3. /\ q' = AfterRead(q, max) /\ panda'.answer = Answer(q, max)
  <2>1. q' = AfterRead(q, max) /\ panda' = Answers(panda.req, Answer(q, max))
    BY DEF CanRead, Executes
  <2>2. Answer(q, max) \in Seq(Unit)
    BY <1>2, Segments, ReadDoes
  <2>3. panda.req \in Req
    BY DEF TypeOK, Panda
  <2> QED BY <2>1, <2>2, <2>3, AnswersIs
<1> HIDE DEF max
<1>4. /\ q'.queued = q.queued /\ all \in Seq(Unit)
      /\ \E k \in 0..Len(all) : \E m \in k..Len(all) :
           /\ panda'.answer = SubSeq(all, 1, k)
           /\ q'.tail = SubSeq(all, k + 1, m)
           /\ Units(q'.rx) = SubSeq(all, m + 1, Len(all))
  <2>1. q \in Queue /\ Len(q.tail) <= 1
    BY Segments
  <2>2. /\ AfterRead(q, max).queued = q.queued /\ all \in Seq(Unit)
        /\ \E k \in 0..Len(all) : \E m \in k..Len(all) :
             /\ Answer(q, max) = SubSeq(all, 1, k)
             /\ AfterRead(q, max).tail = SubSeq(all, k + 1, m)
             /\ Units(AfterRead(q, max).rx) = SubSeq(all, m + 1, Len(all))
    BY <1>2, <2>1, ReadDoes
  <2> HIDE DEF all
  <2> QED BY <1>3, <2>2
<1>5. PICK k \in 0..Len(all) : \E m \in k..Len(all) :
         /\ panda'.answer = SubSeq(all, 1, k)
         /\ q'.tail = SubSeq(all, k + 1, m)
         /\ Units(q'.rx) = SubSeq(all, m + 1, Len(all))
  BY <1>4
<1>6. PICK m \in k..Len(all) :
         /\ panda'.answer = SubSeq(all, 1, k)
         /\ q'.tail = SubSeq(all, k + 1, m)
         /\ Units(q'.rx) = SubSeq(all, m + 1, Len(all))
  BY <1>5
<1>7. a <= b /\ b <= c /\ c <= d /\ d <= e /\ top \in Nat
  BY <1>1, Segments DEF Ordered, Within
<1>8. Within(all, d, top)
  <2>1. Within(q.tail, d, e) /\ Within(Units(q.rx), e, top)
    BY <1>1 DEF Ordered
  <2> HIDE DEF top
  <2> QED BY <1>7, <2>1, Segments, WithinConcat
<1> HIDE DEF all, top
<1> DEFINE x == Cut(all, d, k)
           y == Cut(all, d, m)
<1>9. /\ Len(all) \in Nat /\ k \in Nat /\ m \in Nat /\ 0 \in 0..Len(all) /\ k \in 0..Len(all)
      /\ m \in 0..Len(all) /\ Len(all) \in m..Len(all)
  BY <1>4
<1>10. Cut(all, d, 0) = d
  BY DEF Cut
<1>11. x \in Nat /\ d <= x /\ Within(panda'.answer, d, x) /\ panda'.answer \in Seq(Unit)
  <2>1. x \in Nat /\ d <= x
    BY <1>4, <1>7, <1>8, <1>9, WithinPart
  <2>2. SubSeq(all, 0 + 1, k) \in Seq(Unit) /\ Within(SubSeq(all, 0 + 1, k), Cut(all, d, 0), x)
    BY <1>4, <1>7, <1>8, <1>9, WithinPart
  <2>3. 0 + 1 = 1
    OBVIOUS
  <2> HIDE DEF x
  <2> QED BY <1>6, <1>10, <2>1, <2>2, <2>3
<1>12. y \in Nat /\ Within(q'.tail, x, y)
  <2>1. y \in Nat
    BY <1>4, <1>7, <1>8, <1>9, WithinPart
  <2>2. Within(SubSeq(all, k + 1, m), x, y)
    BY <1>4, <1>7, <1>8, <1>9, WithinPart
  <2> HIDE DEF x, y
  <2> QED BY <1>6, <2>1, <2>2
<1>13. Within(Units(q'.rx), y, top)
  <2>1. Within(SubSeq(all, m + 1, Len(all)), y, top)
    BY <1>4, <1>7, <1>8, <1>9, WithinPart
  <2> HIDE DEF y
  <2> QED BY <1>6, <2>1
<1> HIDE DEF x, y
<1>14. Within(panda'.answer, c, x)
  BY <1>7, <1>11, WithinMore
<1>15. UNCHANGED <<th, buf, got>>
  BY DEF host
<1>16. Published(got', a) /\ Within(buf', a, b) /\ Within(th'["main"].data, b, c)
  BY <1>1, <1>15 DEF Ordered
<1>17. Within(Units(q'.rx), y, 2 * q'.queued + 2)
  BY <1>4, <1>13 DEF top
<1>18. x \in Nat /\ y \in Nat /\ Within(q'.tail, x, y)
  BY <1>11, <1>12
<1> QED BY <1>14, <1>16, <1>17, <1>18, MakeOrder

\* An answer is read.
LEMMA AnswerOrder ==
  ASSUME TypeOK, OrderInv, q' = q, panda'.answer = <<>>, UNCHANGED <<buf, got>>,
         th'["main"].data = th["main"].data \o panda.answer
  PROVE  OrderInv'
<1>1. PICK a \in Nat, b \in Nat, c \in Nat, d \in Nat, e \in Nat : Ordered(a, b, c, d, e)
  BY DEF OrderInv
<1>2. Within(th'["main"].data, b, d)
  <2>1. th["main"].data \in Seq(Unit) /\ panda.answer \in Seq(Unit)
    BY Segments
  <2>2. Within(th["main"].data, b, c) /\ Within(panda.answer, c, d)
    BY <1>1 DEF Ordered
  <2>3. Within(th["main"].data \o panda.answer, b, d)
    BY <2>1, <2>2, WithinConcat
  <2> QED BY <2>3
<1>3. Within(panda'.answer, d, d)
  BY WithinEmpty
<1>4. /\ Published(got', a) /\ Within(buf', a, b) /\ Within(q'.tail, d, e)
      /\ Within(Units(q'.rx), e, 2 * q'.queued + 2)
  BY <1>1 DEF Ordered
<1> QED BY <1>2, <1>3, <1>4, MakeOrder

\* Whole frames are published, and the rest is kept or dropped.
LEMMA UnpackOrder ==
  ASSUME TypeOK, OrderInv, q' = q, panda' = panda, th'["main"].data = <<>>,
         NEW n \in Nat, Unpacked(buf \o th["main"].data, n)
  PROVE  OrderInv'
<1>1. PICK a \in Nat, b \in Nat, c \in Nat, d \in Nat, e \in Nat : Ordered(a, b, c, d, e)
  BY DEF OrderInv
<1> DEFINE s == buf \o th["main"].data
           new == [i \in 1..n |-> <<s[2 * i - 1][1], s[2 * i][1]>>]
           x == Cut(s, a, 2 * n)
           l == Len(got)
<1>2. s \in Seq(Unit) /\ Within(s, a, c)
  BY <1>1, Segments, WithinConcat DEF Ordered
<1>3. /\ 2 * n <= Len(s) /\ \A i \in 1..n : Whole(s, i)
      /\ got' = got \o new /\ buf' \in {<<>>, SubSeq(s, 2 * n + 1, Len(s))}
  BY DEF Unpacked
<1> HIDE DEF s
<1>4. Len(s) \in Nat /\ 2 * n \in 0..Len(s) /\ Len(s) \in 2 * n..Len(s)
  BY <1>2, <1>3
<1>5. /\ x \in Nat /\ a <= x /\ x <= c /\ Within(SubSeq(s, 2 * n + 1, Len(s)), x, c)
  BY <1>2, <1>4, WithinPart
<1>6. Within(buf', x, c)
  <2> HIDE DEF x
  <2> QED BY <1>3, <1>5, WithinEmpty
<1>7. ASSUME NEW i \in 1..n
      PROVE  /\ 2 * i \in 1..Len(s) /\ 2 * i \in Nat /\ 2 * i - 1 \in 1..Len(s)
             /\ new[i][1] = new[i][2] /\ new[i] = <<new[i][1], new[i][2]>>
             /\ new[i][1] \in Nat /\ Key(s[2 * i]) = 2 * new[i][1] + 2
  <2>1. 2 * i \in 1..Len(s) /\ 2 * i \in Nat /\ 2 * i - 1 \in 1..Len(s)
    BY <1>3, <1>4
  <2>2. s[2 * i] = <<s[2 * i - 1][1], 2>>
    BY <1>3 DEF Whole
  <2>3. s[2 * i - 1][1] \in Nat
    BY <1>2, <2>1, ElementOfSeq, KeyType
  <2>4. new[i] = <<s[2 * i - 1][1], s[2 * i][1]>>
    OBVIOUS
  <2> HIDE DEF new
  <2> QED BY <2>1, <2>2, <2>3, <2>4 DEF Key
<1>8. new \in Seq(Nat \X Nat) /\ Len(new) = n
  <2>1. ASSUME NEW i \in 1..n PROVE new[i] \in Nat \X Nat
    <3> HIDE DEF new
    <3>1. new[i] = <<new[i][1], new[i][2]>> /\ new[i][1] \in Nat /\ new[i][2] \in Nat
      BY <1>7
    <3> DEFINE y == new[i][1]
               z == new[i][2]
    <3>2. new[i] = <<y, z>> /\ y \in Nat /\ z \in Nat
      BY <3>1
    <3> HIDE DEF y, z
    <3> QED BY <3>2
  <2>2. new \in [1..n -> Nat \X Nat]
    <3>1. new = [i \in 1..n |-> new[i]]
      OBVIOUS
    <3> HIDE DEF new
    <3> QED BY <2>1, <3>1
  <2> HIDE DEF new
  <2> QED BY <2>2
<1> HIDE DEF new
<1>9. \A i \in 1..Len(s) : a < Key(s[i]) /\ Key(s[i]) \in Nat
  BY <1>2, KeyOfSeq DEF Within
<1>10. \A i, j \in 1..Len(s) : i < j => Key(s[i]) < Key(s[j])
  BY <1>2 DEF Within
<1>11. ASSUME NEW i \in 1..n PROVE 2 * new[i][1] + 2 <= x /\ a < 2 * new[i][1] + 2
  <2>1. n # 0 /\ 2 * n # 0 /\ 2 * n \in 1..Len(s) /\ 2 * i <= 2 * n
    BY <1>4
  <2>2. x = Key(s[2 * n])
    BY <2>1 DEF Cut
  <2>3. CASE i = n
    <3>1. Key(s[2 * i]) = 2 * new[i][1] + 2 /\ Key(s[2 * i]) = x
      BY <1>7, <2>2, <2>3
    <3>2. a < Key(s[2 * i]) /\ Key(s[2 * i]) \in Nat
      BY <1>7, <1>9
    <3> QED BY <3>1, <3>2
  <2>4. CASE i # n
    <3>1. 2 * i < 2 * n
      BY <2>4
    <3>2. Key(s[2 * i]) < x
      BY <1>7, <1>10, <2>1, <2>2, <3>1
    <3>3. a < Key(s[2 * i]) /\ Key(s[2 * i]) \in Nat /\ Key(s[2 * i]) = 2 * new[i][1] + 2
      BY <1>7, <1>9
    <3> QED BY <1>5, <3>2, <3>3
  <2> QED BY <2>3, <2>4
<1>12. ASSUME NEW i \in 1..n, NEW j \in 1..n, i < j PROVE new[i][1] < new[j][1]
  <2>1. 2 * i < 2 * j
    BY <1>12
  <2>2. Key(s[2 * i]) < Key(s[2 * j])
    BY <1>7, <1>10, <2>1
  <2>3. /\ Key(s[2 * i]) = 2 * new[i][1] + 2 /\ Key(s[2 * j]) = 2 * new[j][1] + 2
        /\ new[i][1] \in Nat /\ new[j][1] \in Nat
    BY <1>7
  <2> QED BY <2>2, <2>3
<1>13. Published(got, a) /\ got \in Seq(Nat \X Nat) /\ l \in Nat
  BY <1>1, Segments DEF Ordered
<1> HIDE DEF x
<1>14. /\ Len(got') = l + n
       /\ \A i \in 1..l + n : got'[i] = IF i <= l THEN got[i] ELSE new[i - l]
  BY <1>3, <1>8, <1>13, ConcatProperties
<1>15. \A i \in 1..l : /\ got[i][1] = got[i][2] /\ 2 * got[i][1] + 2 <= a /\ got[i][1] \in Nat
                       /\ \A j \in 1..l : i < j => got[i][1] < got[j][1]
  <2>1. \A i \in 1..l : got[i] \in Nat \X Nat
    BY <1>13, ElementOfSeq
  <2> QED BY <1>13, <2>1 DEF Published
<1> HIDE DEF l
<1>16. ASSUME NEW i \in 1..l + n
       PROVE  \/ i \in 1..l /\ got'[i] = got[i]
              \/ i - l \in 1..n /\ got'[i] = new[i - l] /\ i > l
  BY <1>13, <1>14
<1>17. ASSUME NEW i \in 1..l + n PROVE got'[i][1] = got'[i][2] /\ 2 * got'[i][1] + 2 <= x
  <2>1. CASE i \in 1..l /\ got'[i] = got[i]
    BY <1>5, <1>15, <2>1
  <2>2. CASE i - l \in 1..n /\ got'[i] = new[i - l]
    BY <1>7, <1>11, <2>2
  <2> QED BY <1>16, <2>1, <2>2
<1>18. ASSUME NEW i \in 1..l + n, NEW j \in 1..l + n, i < j PROVE got'[i][1] < got'[j][1]
  <2>1. CASE i \in 1..l /\ got'[i] = got[i] /\ j \in 1..l /\ got'[j] = got[j]
    BY <1>15, <1>18, <2>1
  <2>2. CASE i \in 1..l /\ got'[i] = got[i] /\ j - l \in 1..n /\ got'[j] = new[j - l]
    <3>1. 2 * got[i][1] + 2 <= a /\ got[i][1] \in Nat
      BY <1>15, <2>2
    <3>2. a < 2 * new[j - l][1] + 2 /\ new[j - l][1] \in Nat
      BY <1>7, <1>11, <2>2
    <3> QED BY <2>2, <3>1, <3>2
  <2>3. CASE i - l \in 1..n /\ got'[i] = new[i - l] /\ j - l \in 1..n /\ got'[j] = new[j - l]
    <3>1. i - l < j - l
      BY <1>13, <1>18
    <3> QED BY <1>12, <2>3, <3>1
  <2>4. ~(i > l /\ j \in 1..l)
    BY <1>13, <1>18
  <2> QED BY <1>16, <2>1, <2>2, <2>3, <2>4
<1>19. Published(got', x)
  BY <1>14, <1>17, <1>18 DEF Published
<1>20. Within(th'["main"].data, c, c)
  BY WithinEmpty
<1>21. /\ Within(panda'.answer, c, d) /\ Within(q'.tail, d, e)
       /\ Within(Units(q'.rx), e, 2 * q'.queued + 2)
  BY <1>1 DEF Ordered
<1>22. x \in Nat
  BY <1>5 DEF x
<1> QED BY <1>6, <1>19, <1>20, <1>21, <1>22, MakeOrder

LEMMA InAnswer ==
  ASSUME NEW state, NEW req
  PROVE  In(state, req).answer = <<>>
  BY DEF In

\* What becomes of the panda's answer when a burst comes that it does not expect
LEMMA StraysAnswer ==
  ASSUME NEW p, NEW x, Strays(p, x)
  PROVE  x.answer \in {p.answer, <<>>}
<1>1. In("data", p.req).answer = <<>>
  BY InAnswer
<1>2. x = p \/ Calm(x) \/ x = In("data", p.req)
  BY DEF Strays
<1>3. Calm(x) => x.answer = <<>>
  BY DEF Calm
<1> QED BY <1>1, <1>2, <1>3

\* Steps that leave the queues and what is published alone
LEMMA BurstThins ==
  ASSUME TypeOK, TypeOK', OrderInv, q' = q, UNCHANGED <<buf, got>>,
         th'["main"].data \in {th["main"].data, <<>>}, panda'.answer \in {panda.answer, <<>>}
  PROVE  OrderInv'
<1>1. q \in Queue
  BY DEF TypeOK
<1>2. Grows(q, q')
  BY <1>1, GrowsNot
<1> QED BY <1>2, ThinsOrder

\* The panda's handlers
LEMMA IrqOrder ==
  ASSUME TypeOK, TypeOK', OrderInv, Irq
  PROVE  OrderInv'
<1>0. q \in Queue /\ q' \in Queue /\ panda.req \in Req /\ UNCHANGED <<buf, got, th>>
  BY DEF TypeOK, Panda, Irq, host
<1>1. CASE Header
  <2>1. panda'.answer = <<>> /\ q' = q
    BY <1>1, InAnswer DEF Header, ToGarbage, Nacks
  <2> QED BY <1>0, <2>1, BurstThins
<1>2. CASE CanNack
  <2>1. panda'.answer = <<>> /\ q' = q
    BY <1>2, InAnswer DEF CanNack, Nacks
  <2> QED BY <1>0, <2>1, BurstThins
<1>3. ASSUME NEW queues, Executes(queues, <<>>) PROVE q' = queues /\ panda'.answer = <<>>
  <2>1. <<>> \in Seq(Unit)
    OBVIOUS
  <2> QED BY <1>0, <1>3, <2>1, AnswersIs DEF Executes
<1>4. CASE ControlHandler
  <2>1. q' = comms_can_reset(q) /\ panda'.answer = <<>>
    BY <1>3, <1>4 DEF ControlHandler
  <2>2. q'.tail = <<>> /\ q'.rx = q.rx /\ q'.queued = q.queued
    BY <1>0, <2>1, ResetDoes
  <2> QED BY <1>0, <2>1, <2>2, ThinsOrder
<1>5. CASE CanRead
  BY <1>5, ReadOrder DEF Irq
<1>6. CASE CanWrite
  <2> DEFINE a == [q EXCEPT !.ready = FALSE]
             b == comms_can_write(a, panda.req.frames)
  <2>1. Asked("write") /\ Executes(b, <<>>)
    BY <1>6 DEF CanWrite
  <2>2. panda.req # GARBAGE
    <3>1. panda.req.op = "write"
      BY <2>1 DEF Asked
    <3>2. GARBAGE.op = "garbage"
      BY DEF GARBAGE, Request
    <3> QED BY <3>1, <3>2
  <2>3. panda.req.frames \in Seq(Frames)
    BY <1>0, <2>2, FramesOf
  <2>4. a \in Queue /\ Grows(q, a)
    BY <1>0, UnreadyIs
  <2> HIDE DEF a
  <2>5. b \in Queue /\ Grows(a, b)
    BY <2>3, <2>4, WriteDoes
  <2> HIDE DEF b
  <2>6. q' = b /\ panda'.answer = <<>>
    BY <1>3, <2>1
  <2>7. Grows(q, q')
    BY <1>0, <2>4, <2>5, <2>6, GrowsOn
  <2> QED BY <1>0, <2>6, <2>7, ThinsOrder
<1> QED BY <1>1, <1>2, <1>4, <1>5, <1>6 DEF Irq

LEMMA OrderStep == TypeOK /\ OrderInv /\ [Next]_vars => OrderInv'
<1> SUFFICES ASSUME TypeOK, OrderInv, [Next]_vars PROVE OrderInv'
  OBVIOUS
<1>0. /\ q \in Queue /\ q' \in Queue /\ panda \in Panda /\ panda.req \in Req
      /\ "main" \in Threads /\ "send" \in Threads
  BY TypeStep DEF TypeOK, Panda, Threads
<1>00. TypeOK'
  BY TypeStep
<1>1. CASE Irq
  BY <1>00, <1>1, IrqOrder
<1>2. CASE Arrive \/ BusSends
  <2>1. UNCHANGED <<buf, got, th, panda>>
    BY <1>2 DEF Arrive, BusSends, host
  <2>2. CASE Arrive
    <3> DEFINE forward == arrived' \in Forwarded
    <3>1. q' = can_rx(q, forward) /\ forward \in BOOLEAN
      BY <2>2 DEF Arrive
    <3> HIDE DEF forward
    <3>2. Grows(q, q')
      BY <1>0, <3>1, CanRxDoes
    <3> QED BY <1>00, <2>1, <3>2, ThinsOrder
  <2>3. CASE BusSends
    <3>1. q.hw > 0 /\ q' = TxDone(q)
      BY <2>3 DEF BusSends
    <3>2. Grows(q, q')
      BY <1>0, <3>1, TxDoneDoes
    <3> QED BY <1>00, <2>1, <3>2, ThinsOrder
  <2> QED BY <1>2, <2>2, <2>3
<1>3. ASSUME NEW t \in Threads, NEW phase, NEW state, NEW next, NEW phases,
             Moved(t, phase, state, next, phases), \A x \in next : x.answer \in {panda.answer, <<>>}
      PROVE  OrderInv'
  <2>1. q' = q /\ UNCHANGED <<th, buf, got>>
    BY <1>3 DEF Moved, host
  <2>2. panda'.answer \in {panda.answer, <<>>}
    BY <1>3, StraysAnswer DEF Moved
  <2> QED BY <1>00, <2>1, <2>2, BurstThins
<1>4. ASSUME NEW t \in Threads, SendHeader(t) PROVE OrderInv'
  <2>1. Moved(t, "header", "header", {Got(th[t].req), Got(GARBAGE)}, {"hack"})
    BY <1>4, SendHeaderDoes
  <2>2. \A x \in {Got(th[t].req), Got(GARBAGE)} : x.answer \in {panda.answer, <<>>}
    BY InAnswer DEF Got
  <2> QED BY <1>3, <2>1, <2>2
<1>5. ASSUME NEW t \in Threads, PollHeader(t) PROVE OrderInv'
  <2>1. Moved(t, "hack", "ack", {In("data", panda.req)}, {"hack", "data", "fail"})
    BY <1>5, PollHeaderDoes
  <2>2. \A x \in {In("data", panda.req)} : x.answer \in {panda.answer, <<>>}
    BY InAnswer
  <2> QED BY <1>3, <2>1, <2>2
<1>6. ASSUME NEW t \in Threads, SendData(t) PROVE OrderInv'
  <2>1. /\ q' = q /\ UNCHANGED <<th, buf, got>>
        /\ \/ Fits(t) /\ panda' = Data(t)
           \/ panda' = Got(GARBAGE)
           \/ Strays(panda, panda')
    BY <1>6, SendDataDoes DEF host
  <2>2. panda'.answer \in {panda.answer, <<>>}
    <3>1. Data(t).answer = <<>>
      BY InAnswer DEF Data
    <3>2. Got(GARBAGE).answer = <<>>
      BY InAnswer DEF Got
    <3> QED BY <2>1, <3>1, <3>2, StraysAnswer
  <2> QED BY <1>00, <2>1, <2>2, BurstThins
<1>7. ASSUME NEW t \in Threads, PollData(t) PROVE OrderInv'
  <2> DEFINE y == [panda EXCEPT !.state = "read"]
  <2>1. Moved(t, "dack", "answer", {y}, {"dack", "read", "fail"})
    BY <1>7, PollDataDoes
  <2>2. y.answer = panda.answer
    BY <1>0 DEF Panda
  <2> HIDE DEF y
  <2> QED BY <1>3, <2>1, <2>2
<1>8. ASSUME NEW t \in Threads, ReadAnswer(t) PROVE OrderInv'
  <2>1. /\ panda' = READY /\ Done(t, panda.answer) /\ q' = q /\ UNCHANGED <<buf, got>>
    BY <1>8, ReadAnswerDoes
  <2>2. panda'.answer = <<>>
    BY <2>1, InAnswer DEF READY
  <2>3. CASE t = "main" /\ th[t].req.op = "read"
    <3>1. th'["main"].data = th["main"].data \o panda.answer
      BY <2>1, <2>3 DEF Done
    <3> QED BY <2>1, <2>2, <3>1, AnswerOrder
  <2>4. CASE ~(t = "main" /\ th[t].req.op = "read")
    <3>1. th'["main"] \in {IDLE, th["main"]}
      BY <1>0, <2>1, <2>4 DEF Done
    <3>2. th'["main"].data \in {th["main"].data, <<>>}
      BY <3>1, ThreadTypes
    <3> QED BY <1>00, <2>1, <2>2, <3>2, BurstThins
  <2> QED BY <2>3, <2>4
<1>9. ASSUME NEW t \in Threads, BadAnswer(t) \/ Timeout(t) PROVE OrderInv'
  <2>1. q' = q /\ UNCHANGED <<th, buf, got>> /\ (panda' = panda \/ Strays(panda, panda'))
    BY <1>9, BadAnswerDoes, TimeoutDoes DEF host
  <2>2. panda'.answer \in {panda.answer, <<>>}
    BY <2>1, StraysAnswer
  <2> QED BY <1>00, <2>1, <2>2, BurstThins
<1>10. ASSUME NEW t \in Threads, Fails(t) PROVE OrderInv'
  <2>1. /\ Strays(panda, panda') /\ q' = q /\ UNCHANGED <<buf, got>>
        /\ th' = th \/ (/\ \A u \in Threads : u # t => th'[u] = th[u]
                        /\ th'[t].data = th[t].data \/ th'[t] = IDLE)
    BY <1>10, FailsDoes DEF host
  <2>2. th'["main"].data \in {th["main"].data, <<>>}
    BY <1>0, <2>1, ThreadTypes
  <2>3. panda'.answer \in {panda.answer, <<>>}
    BY <2>1, StraysAnswer
  <2> QED BY <1>00, <2>1, <2>2, <2>3, BurstThins
<1>11. ASSUME NEW t \in Threads, Lock(t) PROVE OrderInv'
  <2>1. q' = q /\ UNCHANGED <<th, buf, got, panda>>
    BY <1>11, LockDoes DEF host
  <2> QED BY <1>00, <2>1, BurstThins
<1>12. CASE Connect \/ can_receive \/ can_send_thread
  <2>1. q' = q /\ UNCHANGED <<buf, got, panda>>
    BY <1>12, ConnectDoes, ReceiveDoes, SendThreadDoes
  <2>2. th'["main"].data \in {th["main"].data, <<>>}
    BY <1>12, ConnectDoes, ReceiveDoes, SendThreadDoes, Requests, ThreadTypes
  <2> QED BY <1>00, <2>1, <2>2, BurstThins
<1>13. CASE Unpack
  <2>1. /\ q' = q /\ panda' = panda /\ th'["main"].data = <<>>
        /\ (buf' = buf /\ got' = got) \/ \E n \in Nat : Unpacked(buf \o th["main"].data, n)
    BY <1>13, UnpackDoes
  <2>2. CASE buf' = buf /\ got' = got
    BY <1>00, <2>1, <2>2, BurstThins
  <2>3. CASE \E n \in Nat : Unpacked(buf \o th["main"].data, n)
    BY <2>1, <2>3, UnpackOrder
  <2> QED BY <2>1, <2>2, <2>3
<1>14. CASE Crash \/ Reconnect
  <2>1. Anew
    BY <1>14, NewPandadDoes DEF Crash, Reconnect
  <2>2. th'["main"].data = <<>>
    BY <1>0, <2>1, ThreadTypes DEF Anew
  <2>3. q' = q /\ UNCHANGED <<got, panda>> /\ buf' = <<>>
    BY <2>1 DEF Anew
  <2>4. Grows(q, q')
    BY <1>0, <2>3, GrowsNot
  <2> QED BY <1>00, <2>2, <2>3, <2>4, ThinsOrder
<1>15. CASE UNCHANGED vars
  <2>1. q' = q /\ UNCHANGED <<th, buf, got, panda>>
    BY <1>15 DEF vars, host
  <2> QED BY <1>00, <2>1, BurstThins
<1> QED BY <1>1, <1>2, <1>4, <1>5, <1>6, <1>7, <1>8, <1>9, <1>10, <1>11, <1>12, <1>13,
           <1>14, <1>15 DEF Next, Burst, Pandad

LEMMA OrderAtFirst == Init => OrderInv
<1> SUFFICES ASSUME Init PROVE OrderInv
  OBVIOUS
<1>1. /\ got = <<>> /\ buf = <<>> /\ panda.answer = <<>> /\ q.tail = <<>> /\ q.rx = <<>>
      /\ q.queued = 0
  BY InAnswer DEF Init, Queues, READY
<1>2. th["main"].data = <<>>
  BY ThreadTypes DEF Init, Threads
<1>3. <<>> \in Seq(Nat) /\ Len(<<>>) = 0
  OBVIOUS
<1>4. Units(q.rx) \in Seq(Unit) /\ Len(Units(q.rx)) = 0
  <2>1. q.rx \in Seq(Nat) /\ Len(q.rx) = 0
    BY <1>1, <1>3
  <2> QED BY <2>1, UnitsAre
<1>5. Units(q.rx) = <<>>
  BY <1>4
<1>6. Published(got, 0)
  BY <1>1, <1>3 DEF Published
<1>7. Within(<<>>, 0, 0) /\ Within(<<>>, 0, 2 * q.queued + 2)
  BY <1>1, WithinEmpty
<1>8. Ordered(0, 0, 0, 0, 0)
  BY <1>1, <1>2, <1>5, <1>6, <1>7 DEF Ordered
<1> QED BY <1>8 DEF OrderInv

\* The frames that pandad publishes are whole, each is published once at most, and they are
\* in the order in which the panda queued them, whatever bursts, answers and processes are
\* lost, and however often can_read_buffer and receive_buffer hold half a frame between two
\* transfers (comms_can_read, comms_can_reset, unpack_can_buffer).
THEOREM PublishedInOrder == Spec => []WholeInOrder
<1>1. TypeOK /\ OrderInv /\ [Next]_vars => (TypeOK /\ OrderInv)'
  BY TypeStep, OrderStep
<1>2. Init => TypeOK /\ OrderInv
  BY InitTypes, OrderAtFirst
<1>3. TypeOK /\ OrderInv => WholeInOrder
  <2> SUFFICES ASSUME TypeOK, OrderInv PROVE WholeInOrder
    OBVIOUS
  <2>1. PICK a \in Nat, b \in Nat, c \in Nat, d \in Nat, e \in Nat : Ordered(a, b, c, d, e)
    BY DEF OrderInv
  <2>2. Published(got, a)
    BY <2>1 DEF Ordered
  <2>3. Len(got) \in Nat
    BY Segments
  <2>4. ASSUME NEW i \in 1..Len(got) - 1
        PROVE  i \in 1..Len(got) /\ i + 1 \in 1..Len(got) /\ i < i + 1
    BY <2>3
  <2> QED BY <2>2, <2>4 DEF Published, WholeInOrder
<1> QED BY <1>1, <1>2, <1>3, PTL DEF Spec

---------------------------------------------------------------------------
(* What the threads ask for *)

\* The main thread never sends frames, and keeps the answers of a read only; the other one
\* sends the batch that is its turn.
AskInv ==
  /\ th["main"].req.frames = <<>> /\ th["main"].req.op \in {"reset", "read"}
  /\ th["main"].pc \in {"off", "idle"} \/ (th["main"].pc = "try" /\ th["main"].req.op = "reset")
       => th["main"].data = <<>>
  /\ th["send"].pc \in {"off", "idle", "try"}
  /\ th["send"].pc = "try" => writes \in 1..Len(Batches) /\ th["send"].req = Write(Batches[writes])
  /\ th["send"].data = <<>>

LEMMA Asks ==
  /\ OFF.req = RESET /\ IDLE.req = RESET
  /\ RESET.op = "reset" /\ RESET.frames = <<>>
  /\ \A max : Read(max).op = "read" /\ Read(max).frames = <<>>
  /\ \A frames : Write(frames).op = "write" /\ Write(frames).frames = frames
  /\ \A r : /\ Trying(r).pc = "try" /\ Trying(r).req = r /\ Trying(r).data = <<>>
<1>1. OFF.req = RESET /\ IDLE.req = RESET
  BY DEF OFF, IDLE
<1>2. RESET.op = "reset" /\ RESET.frames = <<>>
  BY DEF RESET, Request
<1>3. \A max : Read(max).op = "read" /\ Read(max).frames = <<>>
  BY DEF Read, Request
<1>4. \A frames : Write(frames).op = "write" /\ Write(frames).frames = frames
  BY DEF Write, Request
<1>5. \A r : /\ Trying(r).pc = "try" /\ Trying(r).req = r /\ Trying(r).data = <<>>
  BY DEF Trying, OFF
<1> QED BY <1>1, <1>2, <1>3, <1>4, <1>5

\* The main thread after the end of a request
LEMMA SucceedsAsks ==
  ASSUME th \in [Threads -> Thread], NEW answer, Succeeds("main", answer)
  PROVE  /\ th'["main"].req.frames = <<>> /\ th'["main"].req.op \in {"reset", "read"}
         /\ th'["main"] = IDLE \/ th'["main"].pc = "unpack"
            \/ (th'["main"].pc = "try" /\ th'["main"].req.op = "read")
<1> DEFINE data == th["main"].data \o answer
           more == Len(answer) = XFER /\ Len(data) < RECV
           A == [Trying(Read(RECV - Len(data))) EXCEPT !.data = data]
           B == [IDLE EXCEPT !.pc = "unpack", !.data = data]
<1>0. "main" \in Threads
  BY DEF Threads
<1>1. th'["main"] = IF th["main"].req.op # "read" THEN IDLE ELSE IF more THEN A ELSE B
  BY <1>0 DEF Succeeds
<1>2. /\ A.req = Trying(Read(RECV - Len(data))).req /\ A.pc = "try"
  BY DEF Trying, OFF
<1>3. A.req.op = "read" /\ A.req.frames = <<>>
  BY <1>2, Asks
<1>4. B.req = IDLE.req /\ B.pc = "unpack"
  BY DEF IDLE, OFF
<1> HIDE DEF A, B, more, data
<1> QED BY <1>1, <1>2, <1>3, <1>4, Asks

LEMMA AskStep == TypeOK /\ LinkInv /\ AskInv /\ [Next]_vars => AskInv'
<1> SUFFICES ASSUME TypeOK, LinkInv, AskInv, [Next]_vars PROVE AskInv'
  OBVIOUS
<1>0. /\ th \in [Threads -> Thread] /\ "main" \in Threads /\ "send" \in Threads /\ "main" # "send"
      /\ \A t \in Threads : t = "main" \/ t = "send"
  BY DEF TypeOK, Threads
<1>1. CASE th' = th /\ writes' = writes
  BY <1>1 DEF AskInv
<1>2. CASE Irq \/ Arrive \/ BusSends \/ UNCHANGED vars
  <2>1. th' = th /\ writes' = writes
    BY <1>2 DEF Irq, Arrive, BusSends, vars, host
  <2> QED BY <1>1, <2>1
<1>3. ASSUME NEW t \in Threads,
             SendHeader(t) \/ PollHeader(t) \/ SendData(t) \/ PollData(t) \/ BadAnswer(t) \/ Timeout(t)
             \/ Lock(t)
      PROVE  AskInv'
  <2>1. th' = th /\ writes' = writes
    BY <1>3, SendHeaderDoes, PollHeaderDoes, SendDataDoes, PollDataDoes, BadAnswerDoes, TimeoutDoes,
       LockDoes DEF Moved, host
  <2> QED BY <1>1, <2>1
<1>4. ASSUME NEW t \in Threads, ReadAnswer(t) PROVE AskInv'
  <2>1. turn.by = t /\ Done(t, panda.answer) /\ writes' = writes /\ Succeeds(t, panda.answer)
    BY <1>4, ReadAnswerDoes DEF ReadAnswer
  <2>2. th[t].pc = "try"
    BY <2>1 DEF LinkInv
  <2>3. CASE t = "main"
    <3>1. th'["send"] = IDLE \/ th'["send"] = th["send"]
      BY <1>0, <2>1, <2>3 DEF Done
    <3>2. /\ th'["main"].req.frames = <<>> /\ th'["main"].req.op \in {"reset", "read"}
          /\ th'["main"] = IDLE \/ th'["main"].pc = "unpack"
             \/ (th'["main"].pc = "try" /\ th'["main"].req.op = "read")
      BY <1>0, <2>1, <2>3, SucceedsAsks
    <3> QED BY <2>1, <3>1, <3>2, ThreadTypes DEF AskInv
  <2>4. CASE t = "send"
    <3>1. th[t].req.op = "write"
      BY <2>2, <2>4, Asks DEF AskInv
    <3>2. th'["send"] = IDLE /\ (th'["main"] = IDLE \/ th'["main"] = th["main"])
      BY <1>0, <2>1, <2>4, <3>1 DEF Done
    <3> QED BY <2>1, <3>2, ThreadTypes, Asks DEF AskInv
  <2> QED BY <1>0, <2>3, <2>4
<1>5. ASSUME NEW t \in Threads, Fails(t) PROVE AskInv'
  <2>1. writes' = writes /\ \A u \in Threads : u # t => th'[u] = th[u]
    BY <1>5, FailsDoes DEF host
  <2>2. \/ th'[t].pc = th[t].pc /\ th'[t].req = th[t].req /\ th'[t].data = th[t].data
        \/ th'[t] = IDLE
    <3> DEFINE timed_out == t = "send" /\ th[t].timeouts > TIMEOUTS
               late == turn.late /\ t = "send"
               after == [th[t] EXCEPT !.timeouts = IF late THEN @ + 1 ELSE @]
    <3>1. th' = th \/ th' = [th EXCEPT ![t] = IF timed_out THEN IDLE ELSE after]
      BY <1>5 DEF Fails, host
    <3>2. after.pc = th[t].pc /\ after.req = th[t].req /\ after.data = th[t].data
      BY <1>0 DEF Thread
    <3> HIDE DEF after, timed_out
    <3> QED BY <1>0, <3>1, <3>2
  <2>3. CASE t = "main"
    <3>1. th'["send"] = th["send"]
      BY <1>0, <2>1, <2>3
    <3> QED BY <2>1, <2>2, <2>3, <3>1, ThreadTypes, Asks DEF AskInv
  <2>4. CASE t = "send"
    <3>1. th'["main"] = th["main"]
      BY <1>0, <2>1, <2>4
    <3> QED BY <2>1, <2>2, <2>4, <3>1, ThreadTypes, Asks DEF AskInv
  <2> QED BY <1>0, <2>3, <2>4
<1>6. CASE Connect
  <2>1. th'["main"] = Trying(RESET) /\ th'["send"] = th["send"] /\ writes' = writes
    BY <1>6, ConnectDoes
  <2>2. /\ Trying(RESET).req.op = "reset" /\ Trying(RESET).req.frames = <<>>
        /\ Trying(RESET).data = <<>>
    BY Asks
  <2> QED BY <2>1, <2>2 DEF AskInv
<1>7. CASE can_receive
  <2>1. th' = [th EXCEPT !["main"] = Trying(Read(RECV))] /\ writes' = writes
    BY <1>7 DEF can_receive
  <2>2. th'["main"] = Trying(Read(RECV)) /\ th'["send"] = th["send"]
    BY <1>0, <2>1
  <2> QED BY <2>1, <2>2, Asks DEF AskInv
<1>8. CASE can_send_thread
  BY <1>8, SendThreadDoes, Asks DEF AskInv
<1>9. CASE Unpack
  <2>1. th' = [th EXCEPT !["main"] = IDLE] \/ th' = [th EXCEPT !["main"] = Trying(RESET)]
    BY <1>9 DEF Unpack, unpack_can_buffer
  <2>2. th'["main"] \in {IDLE, Trying(RESET)} /\ th'["send"] = th["send"]
    BY <1>0, <2>1
  <2>3. writes' = writes
    BY <1>9 DEF Unpack
  <2>4. Trying(RESET).req.op = "reset" /\ Trying(RESET).req.frames = <<>> /\ Trying(RESET).data = <<>>
    BY Asks
  <2>5. IDLE.req.op = "reset" /\ IDLE.req.frames = <<>> /\ IDLE.data = <<>>
    BY Asks, ThreadTypes
  <2> QED BY <2>2, <2>3, <2>4, <2>5 DEF AskInv
<1>10. CASE Crash \/ Reconnect
  <2>1. Anew
    BY <1>10, NewPandadDoes DEF Crash, Reconnect
  <2>2. th'["main"] = OFF /\ th'["send"] = OFF
    BY <1>0, <2>1 DEF Anew
  <2> QED BY <2>2, ThreadTypes, Asks DEF AskInv
<1> QED BY <1>2, <1>3, <1>4, <1>5, <1>6, <1>7, <1>8, <1>9, <1>10 DEF Next, Burst, Pandad

LEMMA AskAtFirst == Init => AskInv
<1> SUFFICES ASSUME Init PROVE AskInv
  OBVIOUS
<1>1. th["main"] = OFF /\ th["send"] = OFF
  BY DEF Init, Threads
<1> QED BY <1>1, ThreadTypes, Asks DEF AskInv

---------------------------------------------------------------------------
(* A frame is sent once, and once more for a fault at most. *)

OftenIn(s, f) == Cardinality({i \in 1..Len(s) : s[i] = f})
One(p) == IF p THEN 1 ELSE 0

LEMMA OftenType ==
  ASSUME NEW S, NEW s \in Seq(S), NEW f
  PROVE  /\ IsFiniteSet({i \in 1..Len(s) : s[i] = f}) /\ OftenIn(s, f) \in Nat
<1>1. IsFiniteSet(1..Len(s))
  BY FS_Interval
<1>2. {i \in 1..Len(s) : s[i] = f} \subseteq 1..Len(s)
  OBVIOUS
<1> QED BY <1>1, <1>2, FS_Subset, FS_CardinalityType DEF OftenIn

LEMMA OftenAppend ==
  ASSUME NEW S, NEW s \in Seq(S), NEW g \in S, NEW f
  PROVE  OftenIn(Append(s, g), f) = OftenIn(s, f) + One(g = f)
<1> DEFINE n == Len(s)
           P == {i \in 1..n : s[i] = f}
           Q == {i \in 1..n + 1 : Append(s, g)[i] = f}
<1>1. n \in Nat /\ Len(Append(s, g)) = n + 1 /\ Append(s, g)[n + 1] = g
      /\ \A i \in 1..n : Append(s, g)[i] = s[i]
  OBVIOUS
<1>2. IsFiniteSet(P) /\ Cardinality(P) \in Nat /\ n + 1 \notin P
  <2>1. n + 1 \notin P
    BY <1>1
  <2>2. IsFiniteSet(P) /\ OftenIn(s, f) \in Nat
    BY OftenType
  <2>3. OftenIn(s, f) = Cardinality(P)
    BY DEF OftenIn
  <2> HIDE DEF P, n
  <2> QED BY <2>1, <2>2, <2>3
<1>3. 1..n + 1 = (1..n) \cup {n + 1}
  BY <1>1
<1>4. CASE g = f
  <2>1. Q = P \cup {n + 1}
    BY <1>1, <1>3, <1>4
  <2> HIDE DEF P, Q
  <2>2. Cardinality(Q) = Cardinality(P) + 1
    BY <1>2, <2>1, FS_AddElement
  <2> QED BY <1>1, <1>4, <2>2 DEF OftenIn, One, P, Q
<1>5. CASE g # f
  <2>1. Q = P
    BY <1>1, <1>3, <1>5
  <2>2. OftenIn(Append(s, g), f) = Cardinality(Q) /\ OftenIn(s, f) = Cardinality(P)
    BY <1>1 DEF OftenIn
  <2> HIDE DEF P, Q
  <2> QED BY <1>2, <1>5, <2>1, <2>2 DEF One
<1> QED BY <1>4, <1>5

LEMMA OftenTail ==
  ASSUME NEW S, NEW s \in Seq(S), s # <<>>, NEW f
  PROVE  OftenIn(s, f) = OftenIn(Tail(s), f) + One(Head(s) = f)
<1> DEFINE n == Len(s)
           m == n - 1
           P == {i \in 1..n : s[i] = f}
           Q == {i \in 1..m : Tail(s)[i] = f}
           R == P \ {1}
           h == [i \in Q |-> i + 1]
<1>1. n \in Nat /\ m \in Nat /\ Len(Tail(s)) = m /\ Head(s) = s[1] /\ n = m + 1
      /\ \A i \in 1..m : Tail(s)[i] = s[i + 1]
  OBVIOUS
<1>2. IsFiniteSet(P) /\ Cardinality(P) \in Nat
  BY OftenType DEF OftenIn
<1>3. IsFiniteSet(Q) /\ Cardinality(Q) \in Nat
  <2>1. Tail(s) \in Seq(S)
    OBVIOUS
  <2> QED BY <1>1, <2>1, OftenType DEF OftenIn
<1> HIDE DEF n, m
<1>4. \A i \in Q : i + 1 \in R
  BY <1>1
<1>5. \A j \in R : j - 1 \in Q /\ (j - 1) + 1 = j
  BY <1>1
<1>6. \A i, j \in Q : i + 1 = j + 1 => i = j
  BY <1>1
<1> HIDE DEF P, Q, R
<1>7. h \in Bijection(Q, R)
  <2>1. h \in [Q -> R]
    BY <1>4
  <2>2. h \in Surjection(Q, R)
    BY <1>5, <2>1 DEF Surjection
  <2>3. h \in Injection(Q, R)
    BY <1>6, <2>1 DEF Injection, IsInjective
  <2> QED BY <2>2, <2>3 DEF Bijection
<1>8. Cardinality(R) = Cardinality(Q)
  <2>1. ExistsBijection(Q, R)
    BY <1>7, Zenon DEF ExistsBijection
  <2> QED BY <1>3, <2>1, FS_Bijection
<1>9. (1 \in P) = (Head(s) = f)
  BY <1>1 DEF P
<1>10. Cardinality(P) = Cardinality(R) + One(1 \in P)
  <2>1. CASE 1 \in P
    <3>1. Cardinality(P \ {1}) = Cardinality(P) - 1
      BY <1>2, <2>1, FS_RemoveElement
    <3> QED BY <1>2, <2>1, <3>1 DEF R, One
  <2>2. CASE 1 \notin P
    <3>1. R = P
      BY <2>2 DEF R
    <3> QED BY <1>2, <2>2, <3>1 DEF One
  <2> QED BY <2>1, <2>2
<1>11. OftenIn(s, f) = Cardinality(P) /\ OftenIn(Tail(s), f) = Cardinality(Q)
  BY <1>1 DEF OftenIn, P, Q, n
<1> QED BY <1>8, <1>9, <1>10, <1>11

\* How often frame f is on its way to the bus or there
Executions(a, f) == a.sent[f] + OftenIn(a.tx, f)

LEMMA ExecutionsType ==
  ASSUME NEW a \in Queue, NEW f \in Frames
  PROVE  Executions(a, f) \in Nat /\ a.sent[f] \in Nat /\ OftenIn(a.tx, f) \in Nat
<1>1. a.sent[f] \in Nat
  BY QueueFields
<1>2. OftenIn(a.tx, f) \in Nat
  BY QueueFields, OftenType
<1> QED BY <1>1, <1>2 DEF Executions

\* Whoever takes a frame to the bus does not send it twice.
LEMMA TookExecutes ==
  ASSUME NEW a \in Queue, NEW b \in Queue, Took(a, b), NEW f \in Frames
  PROVE  Executions(b, f) = Executions(a, f)
<1>1. a.tx # <<>> /\ b.tx = Tail(a.tx) /\ a.tx \in Seq(Frames \cup {FORWARDED})
  BY QueueFields DEF Took
<1>2. OftenIn(a.tx, f) = OftenIn(b.tx, f) + One(Head(a.tx) = f)
  BY <1>1, OftenTail
<1>3. b.sent[f] = a.sent[f] + One(Head(a.tx) = f)
  <2>1. b.sent[f] = IF f = Head(a.tx) THEN a.sent[f] + 1 ELSE a.sent[f]
    BY DEF Took
  <2>2. a.sent[f] \in Nat
    BY ExecutionsType
  <2> QED BY <2>1, <2>2 DEF One
<1>4. One(Head(a.tx) = f) \in Nat
  BY DEF One
<1> QED BY <1>2, <1>3, <1>4, ExecutionsType DEF Executions

\* A frame that is queued is one more, if it fits.
LEMMA PutExecutes ==
  ASSUME NEW a \in Queue, NEW b \in Queue, NEW g \in Frames \cup {FORWARDED}, Put(a, g, b),
         NEW f \in Frames
  PROVE  Executions(b, f) <= Executions(a, f) + One(g = f)
<1>1. b.sent[f] = a.sent[f] /\ (b.tx = Append(a.tx, g) \/ b.tx = a.tx)
  BY DEF Put
<1>2. OftenIn(Append(a.tx, g), f) = OftenIn(a.tx, f) + One(g = f)
  BY QueueFields, OftenAppend
<1>3. One(g = f) \in Nat
  BY DEF One
<1>4. OftenIn(b.tx, f) <= OftenIn(a.tx, f) + One(g = f)
  <2>1. OftenIn(a.tx, f) \in Nat
    BY ExecutionsType
  <2>2. OftenIn(b.tx, f) \in {OftenIn(a.tx, f), OftenIn(a.tx, f) + One(g = f)}
    BY <1>1, <1>2
  <2> QED BY <1>3, <2>1, <2>2
<1> QED BY <1>1, <1>3, <1>4, ExecutionsType DEF Executions

LEMMA SentExecutes ==
  ASSUME NEW a \in Queue, NEW b \in Queue, NEW g \in Frames \cup {FORWARDED}, Sent(a, g, b),
         NEW f \in Frames
  PROVE  Executions(b, f) <= Executions(a, f) + One(g = f /\ g \notin Blocked)
<1>1. CASE g \in Blocked
  <2>1. Executions(b, f) = Executions(a, f)
    BY <1>1 DEF Sent, SameBus, Executions
  <2> QED BY <1>1, <2>1, ExecutionsType DEF One
<1>2. CASE g \notin Blocked
  <2>1. PICK c \in Queue : Put(a, g, c) /\ (SameBus(c, b) \/ Took(c, b))
    BY <1>2 DEF Sent
  <2>2. Executions(c, f) <= Executions(a, f) + One(g = f)
    BY <2>1, PutExecutes
  <2>3. Executions(b, f) = Executions(c, f)
    <3>1. CASE SameBus(c, b)
      BY <3>1 DEF SameBus, Executions
    <3>2. CASE Took(c, b)
      BY <3>2, TookExecutes
    <3> QED BY <2>1, <3>1, <3>2
  <2>4. One(g = f /\ g \notin Blocked) = One(g = f)
    BY <1>2 DEF One
  <2> QED BY <2>2, <2>3, <2>4
<1> QED BY <1>1, <1>2

\* A frame is named by a transfer, and the tx hook lets it through.
Names(frames, f) == f \notin Blocked /\ \E k \in 1..Len(frames) : frames[k] = f

LEMMA WriteExecutes ==
  ASSUME NEW a \in Queue, NEW frames \in Seq(Frames), NEW f \in Frames,
         \A j, k \in 1..Len(frames) : frames[j] = frames[k] => j = k
  PROVE  Executions(comms_can_write(a, frames), f) <= Executions(a, f) + One(Names(frames, f))
<1> DEFINE n == Len(frames)
           b == comms_can_write(a, frames)
           Hits(k) == frames[k] = f /\ f \notin Blocked
           D(i) == One(\E k \in 1..i : Hits(k))
<1>0. n \in Nat
  OBVIOUS
<1>1. PICK r : IsRun(a, frames, r) /\ b = refresh_can_tx_slots_available(r[n])
  BY WriteRuns
<1> HIDE DEF b
<1>2. /\ r[0] = a /\ \A i \in 0..n : r[i] \in Queue
      /\ \A i \in 1..n : Sent(r[i - 1], frames[i], r[i])
  BY <1>0, <1>1 DEF IsRun
<1> DEFINE S == {i \in 0..n : Executions(r[i], f) <= Executions(a, f) + D(i)}
<1>3. 0 \in S
  <2>1. D(0) \in Nat
    BY DEF One
  <2>2. Executions(a, f) \in Nat
    BY ExecutionsType
  <2> HIDE DEF D
  <2>3. Executions(r[0], f) <= Executions(a, f) + D(0)
    BY <1>2, <2>1, <2>2
  <2> QED BY <1>0, <2>3
<1>4. ASSUME NEW i \in 0..n, i \in S, i # n PROVE i + 1 \in S
  <2>1. i + 1 \in 1..n /\ i + 1 \in 0..n /\ (i + 1) - 1 = i /\ i \in Nat
    BY <1>0, <1>4
  <2>2. r[i] \in Queue /\ r[i + 1] \in Queue /\ Sent(r[i], frames[i + 1], r[i + 1])
    BY <1>2, <2>1
  <2>3. frames[i + 1] \in Frames
    BY <2>1
  <2>4. Executions(r[i + 1], f) <= Executions(r[i], f) + One(frames[i + 1] = f /\ frames[i + 1] \notin Blocked)
    BY <2>2, <2>3, SentExecutes
  <2>5. Executions(r[i], f) <= Executions(a, f) + D(i)
    BY <1>4
  <2>6. One(frames[i + 1] = f /\ frames[i + 1] \notin Blocked) = One(Hits(i + 1))
    BY DEF One
  <2>7. 1..i + 1 = (1..i) \cup {i + 1}
    BY <2>1
  <2>8. D(i + 1) = D(i) + One(Hits(i + 1))
    <3>1. (\E k \in 1..i + 1 : Hits(k)) <=> (\E k \in 1..i : Hits(k)) \/ Hits(i + 1)
      BY <2>7
    <3>2. ~((\E k \in 1..i : Hits(k)) /\ Hits(i + 1))
      BY <1>0, <2>1
    <3> HIDE DEF Hits
    <3> QED BY <3>1, <3>2 DEF One
  <2>9. D(i) \in Nat /\ One(Hits(i + 1)) \in Nat
    BY DEF One
  <2>10. /\ Executions(r[i], f) \in Nat /\ Executions(r[i + 1], f) \in Nat
         /\ Executions(a, f) \in Nat
    BY <2>2, ExecutionsType
  <2> HIDE DEF D, Hits
  <2>11. Executions(r[i + 1], f) <= Executions(a, f) + D(i + 1)
    BY <2>4, <2>5, <2>6, <2>8, <2>9, <2>10
  <2> QED BY <2>1, <2>11
<1> HIDE DEF S
<1>5. \A i \in 0..n : i \in S
  BY <1>0, <1>3, <1>4, UpTo
<1>6. Executions(r[n], f) <= Executions(a, f) + D(n) /\ r[n] \in Queue
  <2>1. n \in 0..n
    BY <1>0
  <2>2. n \in S
    BY <1>5, <2>1
  <2> QED BY <1>2, <2>1, <2>2 DEF S
<1>7. b.tx = r[n].tx /\ b.sent = r[n].sent
  BY <1>1, <1>6, RefreshDoes
<1>8. Executions(b, f) = Executions(r[n], f)
  BY <1>7 DEF Executions
<1>9. D(n) = One(Names(frames, f))
  BY DEF One, Names
<1> QED BY <1>6, <1>8, <1>9 DEF b

\* The bus and other nodes send none of the host's frames.
LEMMA BusExecutes ==
  ASSUME TypeOK, NEW f \in Frames, Arrive \/ BusSends
  PROVE  Executions(q', f) <= Executions(q, f)
<1>0. q \in Queue /\ q' \in Queue
  BY TypeStep DEF TypeOK, Next
<1>1. CASE Arrive
  <2> DEFINE forward == arrived' \in Forwarded
  <2>1. q' = can_rx(q, forward) /\ forward \in BOOLEAN
    BY <1>1 DEF Arrive
  <2> HIDE DEF forward
  <2>2. CASE ~forward
    <3>1. SameBus(q, q')
      BY <1>0, <2>1, <2>2, CanRxDoes
    <3>2. Executions(q', f) = Executions(q, f)
      BY <3>1 DEF SameBus, Executions
    <3> QED BY <1>0, <3>2, ExecutionsType
  <2>3. CASE forward
    <3> DEFINE a == [q EXCEPT !.forwards = TRUE]
    <3>1. a \in Queue /\ a.sent = q.sent /\ a.tx = q.tx
      BY <1>0 DEF Queue
    <3>2. \E c \in Queue : Sent(a, FORWARDED, c) /\ SameBus(c, q')
      BY <1>0, <2>1, <2>3, CanRxDoes
    <3> HIDE DEF a
    <3>3. PICK c \in Queue : Sent(a, FORWARDED, c) /\ SameBus(c, q')
      BY <3>2
    <3>4. Executions(c, f) <= Executions(a, f) + One(FORWARDED = f /\ FORWARDED \notin Blocked)
      BY <3>1, <3>3, SentExecutes
    <3>5. One(FORWARDED = f /\ FORWARDED \notin Blocked) = 0
      BY QueueConstants DEF One
    <3>6. Executions(a, f) = Executions(q, f) /\ Executions(q', f) = Executions(c, f)
      BY <3>1, <3>3 DEF SameBus, Executions
    <3> QED BY <1>0, <3>4, <3>5, <3>6, ExecutionsType
  <2> QED BY <2>2, <2>3
<1>2. CASE BusSends
  <2>1. q.hw > 0 /\ q' = TxDone(q)
    BY <1>2 DEF BusSends
  <2>2. (q'.tx = q.tx /\ q'.sent = q.sent) \/ Took(q, q')
    BY <1>0, <2>1, TxDoneDoes
  <2>3. Executions(q', f) = Executions(q, f)
    BY <1>0, <2>2, TookExecutes DEF Executions
  <2> QED BY <1>0, <2>3, ExecutionsType
<1> QED BY <1>1, <1>2

\* What the host sees of the panda
LEMMA Bytes ==
  /\ panda.state = "ack" => FirstBytes = {"HACK"}
  /\ panda.state = "nack" => FirstBytes = {"NACK"}
  /\ panda.state = "answer" => FirstBytes = {"DACK"}
  /\ panda.state \in {"header", "part", "received", "data", "data received"}
       => FirstBytes = {"other"}
<1>1. ASSUME panda.state = "ack" PROVE FirstBytes = {"HACK"}
  <2>1. panda.state # "nack" /\ panda.state # "answer" /\ panda.state \notin {"read", "rest"}
    BY <1>1
  <2> QED BY <1>1, <2>1, Zenon DEF FirstBytes
<1>2. ASSUME panda.state = "nack" PROVE FirstBytes = {"NACK"}
  <2>1. panda.state # "ack" /\ panda.state # "answer" /\ panda.state \notin {"read", "rest"}
    BY <1>2
  <2> QED BY <1>2, <2>1, Zenon DEF FirstBytes
<1>3. ASSUME panda.state = "answer" PROVE FirstBytes = {"DACK"}
  <2>1. panda.state # "ack" /\ panda.state # "nack" /\ panda.state \notin {"read", "rest"}
    BY <1>3
  <2> QED BY <1>3, <2>1, Zenon DEF FirstBytes
<1>4. ASSUME panda.state \in {"header", "part", "received", "data", "data received"}
      PROVE  FirstBytes = {"other"}
  <2>1. /\ panda.state # "ack" /\ panda.state # "nack" /\ panda.state # "answer"
        /\ panda.state \notin {"read", "rest"}
    BY <1>4
  <2> QED BY <2>1, Zenon DEF FirstBytes
<1> QED BY <1>1, <1>2, <1>3, <1>4

LEMMA FaultsAre == TypeOK => faults \in Nat
  BY DEF TypeOK

\* Faults are only counted; a new one is one more.
LEMMA FaultsGrow ==
  ASSUME TypeOK, [Next]_vars
  PROVE  faults' = faults \/ Hit
<1>1. ASSUME NEW t \in Threads, Lock(t) \/ Burst(t) \/ Timeout(t) PROVE faults' = faults \/ Hit
  BY <1>1 DEF Lock, Burst, Timeout, SendHeader, PollHeader, SendData, PollData, Poll, ReadAnswer,
     BadAnswer, Bad, Fails, NoFault
<1>2. ASSUME Pandad \/ can_send_thread \/ Crash \/ Reconnect PROVE faults' = faults \/ Hit
  BY <1>2 DEF Pandad, Connect, can_receive, Unpack, can_send_thread, Crash, Reconnect, OfPandad,
     NoFault
<1>3. ASSUME Irq \/ Arrive \/ BusSends \/ UNCHANGED vars PROVE faults' = faults
  BY <1>3 DEF Irq, Arrive, BusSends, vars
<1> QED BY <1>1, <1>2, <1>3 DEF Next

\* A poll without a fault goes by what the panda shows.
LEMMA PollHears ==
  ASSUME TypeOK, NEW t \in Threads, NEW phase \in Phases, NEW then \in Phases, NEW state, NEW next,
         NEW ack \in {"HACK", "DACK"}, Poll(t, phase, state, next, ack, then), ~Hit
  PROVE  /\ turn'.by = t /\ turn'.late = turn.late
         /\ \E byte \in FirstBytes :
              turn'.phase = IF byte = ack THEN then ELSE IF byte = "NACK" THEN "fail" ELSE phase
<1>1. turn.by = t /\ turn \in Turn
  BY DEF Poll, At, TypeOK
<1>2. PICK byte \in {"HACK", "DACK", "NACK", "other"} :
        /\ (IF byte \in FirstBytes THEN NoFault ELSE Hit)
        /\ Goes(CASE byte = ack -> then [] byte = "NACK" -> "fail" [] OTHER -> phase)
  BY DEF Poll
<1>3. byte \in FirstBytes
  BY <1>2
<1> DEFINE p == IF byte = ack THEN then ELSE IF byte = "NACK" THEN "fail" ELSE phase
<1>4. Goes(p)
  <2>1. ack # "NACK"
    OBVIOUS
  <2>2. (CASE byte = ack -> then [] byte = "NACK" -> "fail" [] OTHER -> phase) = p
    <3>1. CASE byte = ack
      BY <2>1, <3>1, Zenon
    <3>2. CASE byte = "NACK"
      BY <2>1, <3>2, Zenon
    <3>3. CASE byte # ack /\ byte # "NACK"
      BY <3>3, Zenon
    <3> QED BY <3>1, <3>2, <3>3
  <2> QED BY <1>2, <2>2, Zenon
<1>5. turn'.by = turn.by /\ turn'.late = turn.late /\ turn'.phase = p
  <2> HIDE DEF p
  <2> QED BY <1>1, <1>4 DEF Goes, Turn
<1> QED BY <1>1, <1>3, <1>5

\* A frame of the data that the panda has got, and has not looked at
Pending(f) == One(panda.state = "data received" /\ Names(panda.req.frames, f))

\* The transfer of frames is executed, or is about to be, and nothing has gone wrong since.
OnTrack ==
  /\ turn.by = "send"
  /\ \/ turn.phase = "dack" /\ panda.state \in {"data received", "answer"}
     \/ turn.phase = "read" /\ panda.state = "read"

\* A transfer that is tried has been executed for a fault, and once more if this may be heard.
Current(f) == th["send"].pc = "try" /\ Names(Batches[writes], f)
Begun(f) == \E j \in 1..writes : Names(Batches[j], f)
Allowed(f) == IF Begun(f) THEN faults + One(Current(f) => OnTrack) ELSE 0
OnceInv == \A f \in Frames : Executions(q, f) + Pending(f) <= Allowed(f)

LEMMA Ones ==
  /\ \A p : One(p) \in {0, 1} /\ One(p) \in Nat
  /\ One(TRUE) = 1 /\ One(FALSE) = 0
  BY DEF One

LEMMA Sums ==
  \A m, n, x, y \in Nat : /\ m + x \in Nat
                          /\ n = m /\ x <= y => m + x <= n + y
                          /\ n = m + 1 /\ x <= 1 => m + x <= n + y
  OBVIOUS

LEMMA MoreAllowed ==
  ASSUME TypeOK, TypeOK', writes' = writes, NEW f,
         faults' = faults \/ faults' = faults + 1,
         th'["send"].pc = "try" => th["send"].pc = "try",
         faults' = faults /\ th'["send"].pc = "try" /\ OnTrack => OnTrack'
  PROVE  Allowed(f) <= Allowed(f)' /\ Allowed(f) \in Nat /\ Allowed(f)' \in Nat
<1>1. faults \in Nat /\ faults' \in Nat
  BY DEF TypeOK
<1>2. (Begun(f)' <=> Begun(f)) /\ (Current(f)' => Current(f))
  BY DEF Begun, Current
<1> DEFINE x == One(Current(f) => OnTrack)
           y == One(Current(f)' => OnTrack')
<1>3. x \in {0, 1} /\ y \in {0, 1} /\ x \in Nat /\ y \in Nat /\ x <= 1
  BY Ones
<1>4. faults' = faults => x <= y
  <2>1. CASE faults' = faults /\ x = 1
    <3>1. Current(f) => OnTrack
      BY <2>1 DEF One
    <3>2. Current(f)' => OnTrack'
      BY <1>2, <2>1, <3>1 DEF Current
    <3>3. y = 1
      BY <3>2 DEF One
    <3> QED BY <2>1, <3>3
  <2> QED BY <1>3, <2>1
<1>5. /\ Allowed(f) = IF Begun(f) THEN faults + x ELSE 0
      /\ Allowed(f)' = IF Begun(f)' THEN faults' + y ELSE 0
  BY DEF Allowed
<1> HIDE DEF x, y
<1>6. faults + x <= faults' + y
  <2>1. CASE faults' = faults
    <3>1. x <= y
      BY <1>4, <2>1
    <3> QED BY <1>1, <1>3, <2>1, <3>1, Sums, Zenon
  <2>2. CASE faults' = faults + 1
    BY <1>1, <1>3, <2>2, Sums, Zenon
  <2> QED BY <2>1, <2>2, Zenon
<1>7. CASE Begun(f)
  <2>1. Allowed(f) = faults + x /\ Allowed(f)' = faults' + y
    BY <1>2, <1>5, <1>7
  <2>2. faults + x \in Nat /\ faults' + y \in Nat
    BY <1>1, <1>3, Sums, Zenon
  <2> QED BY <1>6, <2>1, <2>2, Zenon
<1>8. CASE ~Begun(f)
  <2>1. Allowed(f) = 0 /\ Allowed(f)' = 0
    BY <1>2, <1>5, <1>8
  <2> QED BY <2>1
<1> QED BY <1>7, <1>8

\* Steps that execute no more, and lose no answer without a fault
LEMMA KeepsOnce ==
  ASSUME TypeOK, TypeOK', OnceInv, writes' = writes, NEW f \in Frames,
         faults' = faults \/ faults' = faults + 1,
         th'["send"].pc = "try" => th["send"].pc = "try",
         faults' = faults /\ th'["send"].pc = "try" /\ OnTrack => OnTrack',
         Executions(q', f) + Pending(f)' <= Executions(q, f) + Pending(f)
  PROVE  Executions(q', f) + Pending(f)' <= Allowed(f)'
<1>1. Allowed(f) <= Allowed(f)' /\ Allowed(f) \in Nat /\ Allowed(f)' \in Nat
  BY MoreAllowed
<1>2. Executions(q, f) + Pending(f) <= Allowed(f)
  BY DEF OnceInv
<1>3. Executions(q, f) \in Nat /\ Executions(q', f) \in Nat
  BY ExecutionsType DEF TypeOK
<1>4. Pending(f) \in Nat /\ Pending(f)' \in Nat
  BY Ones DEF Pending
<1> QED BY <1>1, <1>2, <1>3, <1>4

LEMMA SameOrNone == \A m, n \in Nat : n = m \/ n = 0 => n <= m
  OBVIOUS

\* A burst that the panda does not expect makes it execute nothing.
LEMMA StraysPending ==
  ASSUME TypeOK, NEW f, panda' = panda \/ Strays(panda, panda') \/ panda'.state # "data received"
  PROVE  Pending(f)' <= Pending(f) /\ Pending(f) \in Nat /\ Pending(f)' \in Nat
<1> DEFINE x == Pending(f)
           y == Pending(f)'
<1>1. panda' = panda \/ panda'.state # "data received"
  <2>1. In("data", panda.req).state = "data"
    BY DEF In
  <2>2. Calm(panda') => panda'.state # "data received"
    BY DEF Calm
  <2> QED BY <2>1, <2>2 DEF Strays
<1>2. x \in Nat /\ y \in Nat
  BY Ones DEF Pending
<1>3. panda' = panda => y = x
  BY DEF Pending
<1>4. panda'.state # "data received" => y = 0
  BY DEF Pending, One
<1>5. y = x \/ y = 0
  BY <1>1, <1>3, <1>4
<1> HIDE DEF x, y
<1>6. y <= x
  BY <1>2, <1>5, SameOrNone, Zenon
<1> QED BY <1>2, <1>6 DEF x, y

\* A transfer of the host names a frame once.
LEMMA NamedOnce ==
  ASSUME NEW r \in HostReq
  PROVE  \A j, k \in 1..Len(r.frames) : r.frames[j] = r.frames[k] => j = k
<1>1. r.frames \in Parts
  BY DEF HostReq
<1>2. CASE r.frames = <<>>
  <2>1. 1..Len(<<>>) = {}
    OBVIOUS
  <2> QED BY <1>2, <2>1
<1>3. CASE r.frames # <<>>
  <2>1. PICK i \in 1..Len(Batches) : r.frames = Batches[i]
    BY <1>1, <1>3 DEF Parts
  <2>2. \A j, k \in 1..Len(Batches[i]) : Batches[i][j] = Batches[i][k] => j = k
    BY QueueConstants
  <2> QED BY <2>1, <2>2
<1> QED BY <1>2, <1>3

LEMMA IrqOnce ==
  ASSUME TypeOK, TypeOK', LinkInv, AskInv, OnceInv, Irq, NEW f \in Frames
  PROVE  Executions(q', f) + Pending(f)' <= Allowed(f)'
<1>0. /\ q \in Queue /\ q' \in Queue /\ panda.req \in Req /\ panda \in Panda
      /\ th' = th /\ turn' = turn /\ writes' = writes /\ faults' = faults
  BY DEF TypeOK, Panda, Irq, host
<1>1. /\ Executions(q, f) \in Nat /\ Executions(q', f) \in Nat
      /\ Pending(f) \in Nat /\ Pending(f)' \in Nat
  BY <1>0, ExecutionsType, Ones DEF Pending
<1>2. CASE Header
  <2>1. panda.state = "received" /\ panda'.state # "data received" /\ q' = q
    BY <1>2 DEF Header, ToGarbage, Nacks, In
  <2>2. Pending(f)' <= Pending(f)
    BY <2>1, StraysPending
  <2>3. Executions(q', f) = Executions(q, f)
    BY <2>1
  <2>4. Executions(q', f) + Pending(f)' <= Executions(q, f) + Pending(f)
    BY <1>1, <2>2, <2>3
  <2>5. ~OnTrack
    BY <2>1 DEF OnTrack
  <2> QED BY <1>0, <2>4, <2>5, KeepsOnce
<1>3. ASSUME panda.state = "data received", panda'.state = "answer",
             Executions(q', f) <= Executions(q, f) + Pending(f)
      PROVE  Executions(q', f) + Pending(f)' <= Allowed(f)'
  <2>1. Pending(f)' = 0
    BY <1>3 DEF Pending, One
  <2>2. Executions(q', f) + Pending(f)' <= Executions(q, f) + Pending(f)
    <3> DEFINE m == Executions(q', f)
               k == Pending(f)'
               n == Executions(q, f) + Pending(f)
    <3>1. m \in Nat /\ k = 0 /\ m <= n
      BY <1>1, <1>3, <2>1
    <3> HIDE DEF m, k, n
    <3>2. m + k <= n
      BY <3>1
    <3> QED BY <3>2 DEF m, k, n
  <2>3. OnTrack => OnTrack'
    BY <1>0, <1>3 DEF OnTrack
  <2> QED BY <1>0, <2>2, <2>3, KeepsOnce
<1>4. ASSUME NEW queues, NEW answer \in Seq(Unit), Executes(queues, answer)
      PROVE  q' = queues /\ panda'.state = "answer"
  BY <1>0, <1>4, AnswersIs DEF Executes
<1>5. <<>> \in Seq(Unit)
  OBVIOUS
<1>6. ASSUME NEW a \in Queue, SameBus(q, a), q' = a
      PROVE  Executions(q', f) <= Executions(q, f) + Pending(f)
  <2>1. Executions(a, f) = Executions(q, f)
    BY <1>6 DEF SameBus, Executions
  <2> QED BY <1>1, <1>6, <2>1
<1>7. CASE ControlHandler
  <2>1. panda.state = "data received" /\ Executes(comms_can_reset(q), <<>>)
    BY <1>7 DEF ControlHandler, Asked
  <2>2. q' = comms_can_reset(q) /\ panda'.state = "answer"
    BY <1>4, <1>5, <2>1
  <2>3. SameBus(q, q')
    BY <1>0, <2>2, ResetDoes
  <2> QED BY <1>0, <1>3, <1>6, <2>1, <2>2, <2>3
<1>8. CASE CanRead
  <2>1. /\ panda.state = "data received"
        /\ Executes(AfterRead(q, panda.req.max), Answer(q, panda.req.max))
    BY <1>8 DEF CanRead, Asked
  <2>2. panda.req.max \in Nat
    <3>1. GARBAGE.max = 0
      BY DEF GARBAGE, Request
    <3> QED BY <1>0, <3>1 DEF Req, HostReq
  <2>3. Len(q.tail) <= 1
    BY DEF TypeOK
  <2>4. Answer(q, panda.req.max) \in Seq(Unit) /\ SameBus(q, AfterRead(q, panda.req.max))
    BY <1>0, <2>2, <2>3, ReadDoes
  <2>5. q' = AfterRead(q, panda.req.max) /\ panda'.state = "answer"
    BY <1>4, <2>1, <2>4
  <2> QED BY <1>0, <1>3, <1>6, <2>1, <2>4, <2>5
<1>9. CASE CanWrite
  <2> DEFINE a == [q EXCEPT !.ready = FALSE]
             b == comms_can_write(a, panda.req.frames)
  <2>1. Asked("write") /\ panda.state = "data received" /\ Executes(b, <<>>)
    BY <1>9 DEF CanWrite, Asked
  <2>2. panda.req # GARBAGE
    <3>1. panda.req.op = "write"
      BY <2>1 DEF Asked
    <3>2. GARBAGE.op = "garbage"
      BY DEF GARBAGE, Request
    <3> QED BY <3>1, <3>2
  <2>3. panda.req \in HostReq /\ panda.req.frames \in Seq(Frames)
    BY <1>0, <2>2, FramesOf
  <2>4. \A j, k \in 1..Len(panda.req.frames) : panda.req.frames[j] = panda.req.frames[k] => j = k
    BY <2>3, NamedOnce
  <2>5. a \in Queue /\ a.tx = q.tx /\ a.sent = q.sent
    BY <1>0, UnreadyIs
  <2> HIDE DEF a
  <2>6. Executions(a, f) = Executions(q, f)
    BY <2>5 DEF Executions
  <2>7. Executions(b, f) <= Executions(a, f) + One(Names(panda.req.frames, f))
    BY <2>3, <2>4, <2>5, WriteExecutes
  <2>8. Pending(f) = One(Names(panda.req.frames, f))
    BY <2>1 DEF Pending, One
  <2> HIDE DEF b
  <2>9. q' = b /\ panda'.state = "answer"
    BY <1>4, <1>5, <2>1
  <2>10. Executions(q', f) <= Executions(q, f) + Pending(f)
    BY <2>6, <2>7, <2>8, <2>9
  <2> QED BY <1>3, <2>1, <2>9, <2>10
<1>10. CASE CanNack
  <2>1. panda.state = "data received" /\ panda' = Nacks /\ q' = q
    BY <1>10 DEF CanNack, Asked
  <2>2. panda'.state = "nack" /\ Executions(q', f) = Executions(q, f)
    BY <2>1 DEF Nacks, In
  <2>3. Pending(f)' = 0
    BY <2>2 DEF Pending, One
  <2>4. CASE OnTrack /\ Current(f)
    <3>1. /\ turn.by = "send" /\ turn.phase = "dack"
      BY <2>1, <2>4 DEF OnTrack
    <3>2. panda.req = th["send"].req
      BY <2>1, <3>1 DEF LinkInv, Tracks, Answering, Threads
    <3>3. panda.req.frames = Batches[writes]
      BY <2>4, <3>2, Asks DEF AskInv, Current
    <3>4. Names(panda.req.frames, f)
      BY <2>4, <3>3 DEF Current
    <3>5. Pending(f) = 1
      BY <2>1, <3>4 DEF Pending, One
    <3>6. writes \in 1..Len(Batches)
      BY <2>4 DEF AskInv, Current
    <3>7. Begun(f) /\ Begun(f)'
      <4>1. writes \in 1..writes
        BY <3>6
      <4>2. Names(Batches[writes], f)
        BY <2>4 DEF Current
      <4> QED BY <1>0, <4>1, <4>2 DEF Begun
    <3>8. Allowed(f) = faults + 1
      BY <2>4, <3>7 DEF Allowed, One
    <3>9. Allowed(f)' = faults' + One(Current(f)' => OnTrack')
      BY <3>7 DEF Allowed
    <3>10. One(Current(f)' => OnTrack') \in Nat
      BY Ones
    <3>11. Executions(q, f) + 1 <= faults + 1
      <4>1. Executions(q, f) + Pending(f) <= Allowed(f)
        BY DEF OnceInv
      <4> QED BY <3>5, <3>8, <4>1
    <3>12. faults \in Nat
      BY FaultsAre
    <3> HIDE DEF Current
    <3> QED BY <1>0, <1>1, <2>2, <2>3, <3>9, <3>10, <3>11, <3>12
  <2>5. CASE ~OnTrack
    <3>1. Executions(q', f) + Pending(f)' <= Executions(q, f) + Pending(f)
      BY <1>1, <2>2, <2>3
    <3> QED BY <1>0, <2>5, <3>1, KeepsOnce
  <2>6. CASE ~Current(f)
    <3>1. Executions(q, f) + Pending(f) <= Allowed(f)
      BY DEF OnceInv
    <3>2. ~Current(f)'
      BY <1>0, <2>6 DEF Current
    <3>3. Begun(f)' <=> Begun(f)
      BY <1>0 DEF Begun
    <3>4. Allowed(f)' = Allowed(f)
      BY <1>0, <2>6, <3>2, <3>3 DEF Allowed, One
    <3>5. Allowed(f) \in Nat
      BY FaultsAre, Ones DEF Allowed
    <3> QED BY <1>1, <2>2, <2>3, <3>1, <3>4, <3>5
  <2> QED BY <2>4, <2>5, <2>6
<1> QED BY <1>2, <1>7, <1>8, <1>9, <1>10 DEF Irq

LEMMA OnceStep == TypeOK /\ LinkInv /\ AskInv /\ OnceInv /\ [Next]_vars => OnceInv'
<1> SUFFICES ASSUME TypeOK, LinkInv, AskInv, OnceInv, [Next]_vars, NEW f \in Frames
             PROVE  Executions(q', f) + Pending(f)' <= Allowed(f)'
  BY DEF OnceInv
<1>0. /\ q \in Queue /\ q' \in Queue /\ TypeOK' /\ "send" \in Threads /\ "main" \in Threads
      /\ \A t \in Threads : t \in {"main", "send"} /\ t # "free"
  BY TypeStep DEF TypeOK, Threads
<1>1. /\ Executions(q, f) \in Nat /\ Executions(q', f) \in Nat
      /\ Pending(f) \in Nat /\ Pending(f)' \in Nat
  BY <1>0, ExecutionsType, Ones DEF Pending
<1>2. faults' = faults \/ Hit
  BY FaultsGrow
<1>3. faults' = faults \/ faults' = faults + 1
  BY <1>2 DEF Hit
<1>4. faults \in Nat /\ (Hit => faults' # faults)
  BY FaultsAre DEF Hit
<1>5. ASSUME q' = q, Pending(f)' <= Pending(f)
      PROVE  Executions(q', f) + Pending(f)' <= Executions(q, f) + Pending(f)
  <2> DEFINE m == Executions(q, f)
  <2>1. m \in Nat /\ Executions(q', f) = m
    BY <1>1, <1>5
  <2> HIDE DEF m
  <2> QED BY <1>1, <1>5, <2>1
<1>6. ASSUME q' = q, panda' = panda \/ Strays(panda, panda') \/ panda'.state # "data received",
             writes' = writes, th'["send"].pc = "try" => th["send"].pc = "try",
             faults' = faults /\ th'["send"].pc = "try" /\ OnTrack => OnTrack'
      PROVE  Executions(q', f) + Pending(f)' <= Allowed(f)'
  <2>1. Pending(f)' <= Pending(f)
    BY <1>6, StraysPending
  <2>2. Executions(q', f) + Pending(f)' <= Executions(q, f) + Pending(f)
    BY <1>5, <1>6, <2>1
  <2> QED BY <1>0, <1>3, <1>6, <2>2, KeepsOnce
<1>7. CASE Irq
  BY <1>0, <1>7, IrqOnce
<1>8. CASE Arrive \/ BusSends
  <2>1. th' = th /\ turn' = turn /\ panda' = panda /\ writes' = writes
    BY <1>8 DEF Arrive, BusSends, host
  <2>2. OnTrack => OnTrack'
    BY <2>1 DEF OnTrack
  <2>3. Pending(f)' = Pending(f)
    BY <2>1 DEF Pending
  <2>4. Executions(q', f) <= Executions(q, f)
    BY <1>8, BusExecutes
  <2>5. Executions(q', f) + Pending(f)' <= Executions(q, f) + Pending(f)
    BY <1>1, <2>3, <2>4
  <2> QED BY <1>0, <1>3, <2>1, <2>2, <2>5, KeepsOnce
<1>9. ASSUME NEW t \in Threads, Lock(t) PROVE Executions(q', f) + Pending(f)' <= Allowed(f)'
  <2>1. turn.by = "free" /\ UNCHANGED <<q, panda, th, writes>>
    BY <1>9, LockDoes DEF host
  <2>2. ~OnTrack
    BY <2>1 DEF OnTrack
  <2> QED BY <1>6, <2>1, <2>2
<1>10. ASSUME NEW t \in Threads, SendHeader(t)
       PROVE  Executions(q', f) + Pending(f)' <= Allowed(f)'
  <2>1. Moved(t, "header", "header", {Got(th[t].req), Got(GARBAGE)}, {"hack"})
    BY <1>10, SendHeaderDoes
  <2>2. ~OnTrack
    BY <2>1 DEF Moved, OnTrack
  <2>3. q' = q /\ th' = th /\ writes' = writes
    BY <2>1 DEF Moved, host
  <2>4. \A r : Got(r).state # "data received"
    BY DEF Got, In
  <2>5. Strays(panda, panda') \/ panda'.state # "data received"
    BY <2>1, <2>4 DEF Moved
  <2> QED BY <1>6, <2>2, <2>3, <2>5
<1>11. ASSUME NEW t \in Threads, PollHeader(t)
       PROVE  Executions(q', f) + Pending(f)' <= Allowed(f)'
  <2>1. Moved(t, "hack", "ack", {In("data", panda.req)}, {"hack", "data", "fail"})
    BY <1>11, PollHeaderDoes
  <2>2. ~OnTrack
    BY <2>1 DEF Moved, OnTrack
  <2>3. q' = q /\ th' = th /\ writes' = writes
    BY <2>1 DEF Moved, host
  <2>4. In("data", panda.req).state # "data received"
    BY DEF In
  <2>5. Strays(panda, panda') \/ panda'.state # "data received"
    BY <2>1, <2>4 DEF Moved
  <2> QED BY <1>6, <2>2, <2>3, <2>5
<1>12. ASSUME NEW t \in Threads, SendData(t)
       PROVE  Executions(q', f) + Pending(f)' <= Allowed(f)'
  <2>1. /\ turn.by = t /\ turn.phase = "data" /\ turn'.by = t /\ turn'.phase = "dack"
        /\ q' = q /\ th' = th /\ writes' = writes
        /\ \/ panda.state = "data" /\ Fits(t) /\ panda' = Data(t)
           \/ panda.state = "data" /\ panda' = Got(GARBAGE)
           \/ Strays(panda, panda')
    BY <1>12, SendDataDoes DEF host
  <2>2. ~OnTrack
    BY <2>1 DEF OnTrack
  <2>3. CASE panda' = Got(GARBAGE) \/ Strays(panda, panda')
    <3>1. Got(GARBAGE).state # "data received"
      BY DEF Got, In
    <3> QED BY <1>6, <2>1, <2>2, <2>3, <3>1
  <2>4. CASE panda.state = "data" /\ Fits(t) /\ panda' = Data(t)
    <3>1. panda'.state = "data received" /\ panda'.req.frames = th[t].req.frames
      BY <2>4, DataType
    <3>2. Pending(f) = 0
      BY <2>4 DEF Pending, One
    <3>3. Pending(f)' = One(Names(th[t].req.frames, f))
      BY <3>1 DEF Pending, One
    <3>4. Executions(q, f) + Pending(f) <= Allowed(f)
      BY DEF OnceInv
    <3>5. CASE ~Names(th[t].req.frames, f)
      <4>1. Pending(f)' = 0
        BY <3>3, <3>5 DEF One
      <4>2. Pending(f)' <= Pending(f)
        BY <3>2, <4>1
      <4>3. Executions(q', f) + Pending(f)' <= Executions(q, f) + Pending(f)
        BY <1>5, <2>1, <4>2
      <4> QED BY <1>0, <1>3, <2>1, <2>2, <4>3, KeepsOnce
    <3>6. CASE Names(th[t].req.frames, f)
      <4>1. t = "send"
        <5>1. th["main"].req.frames = <<>>
          BY DEF AskInv
        <5>2. ~Names(<<>>, f)
          BY DEF Names
        <5> QED BY <1>0, <3>6, <5>1, <5>2
      <4>2. th["send"].pc = "try"
        BY <2>1, <4>1 DEF LinkInv, Threads
      <4>3. writes \in 1..Len(Batches) /\ th["send"].req.frames = Batches[writes]
        BY <4>2, Asks DEF AskInv
      <4>4. Names(Batches[writes], f) /\ Current(f) /\ Current(f)'
        BY <2>1, <3>6, <4>1, <4>2, <4>3 DEF Current
      <4>5. Begun(f) /\ Begun(f)'
        <5>1. writes \in 1..writes /\ writes' = writes
          BY <2>1, <4>3
        <5> QED BY <4>4, <5>1 DEF Begun
      <4>6. OnTrack'
        BY <2>1, <3>1, <4>1 DEF OnTrack
      <4>7. Allowed(f) = faults /\ Allowed(f)' = faults' + 1
        <5>1. One(Current(f) => OnTrack) = 0 /\ One(Current(f)' => OnTrack') = 1
          BY <2>2, <4>4, <4>6 DEF One
        <5>2. Allowed(f) = faults + One(Current(f) => OnTrack)
              /\ Allowed(f)' = faults' + One(Current(f)' => OnTrack')
          BY <4>5 DEF Allowed
        <5> QED BY <1>4, <5>1, <5>2
      <4>8. Pending(f)' = 1
        BY <3>3, <3>6 DEF One
      <4>9. Executions(q', f) = Executions(q, f)
        BY <2>1
      <4> QED BY <1>1, <1>3, <1>4, <3>2, <3>4, <4>7, <4>8, <4>9
    <3> QED BY <3>5, <3>6
  <2> QED BY <2>1, <2>3, <2>4
<1>13. ASSUME NEW t \in Threads, PollData(t)
       PROVE  Executions(q', f) + Pending(f)' <= Allowed(f)'
  <2> DEFINE y == [panda EXCEPT !.state = "read"]
  <2>1. Moved(t, "dack", "answer", {y}, {"dack", "read", "fail"})
    BY <1>13, PollDataDoes
  <2>2. y.state = "read"
    BY DEF TypeOK, Panda
  <2>3. q' = q /\ th' = th /\ writes' = writes /\ turn.by = t /\ turn'.by = t /\ turn.phase = "dack"
        /\ (IF panda.state = "answer" THEN panda' = y ELSE Strays(panda, panda'))
    BY <2>1 DEF Moved, host
  <2>4. Strays(panda, panda') \/ panda'.state # "data received"
    BY <2>2, <2>3
  <2>5. ASSUME faults' = faults, OnTrack PROVE OnTrack'
    <3>1. ~Hit /\ Poll(t, "dack", "answer", y, "DACK", "read")
      BY <1>4, <1>13, <2>5 DEF PollData
    <3>2. \E byte \in FirstBytes :
            turn'.phase = IF byte = "DACK" THEN "read" ELSE IF byte = "NACK" THEN "fail" ELSE "dack"
      <4>1. "dack" \in Phases /\ "read" \in Phases
        BY DEF Phases
      <4> HIDE DEF y
      <4> QED BY <3>1, <4>1, PollHears
    <3>3. t = "send" /\ panda.state \in {"data received", "answer"}
      BY <2>3, <2>5 DEF OnTrack
    <3>4. CASE panda.state = "data received"
      <4>1. turn'.phase = "dack"
        BY <3>2, <3>4, Bytes
      <4>2. panda' = panda
        BY <2>3, <3>4 DEF Strays
      <4> QED BY <2>3, <3>3, <3>4, <4>1, <4>2 DEF OnTrack
    <3>5. CASE panda.state = "answer"
      <4>1. turn'.phase = "read"
        BY <3>2, <3>5, Bytes
      <4> QED BY <2>2, <2>3, <3>3, <3>5, <4>1 DEF OnTrack
    <3> QED BY <3>3, <3>4, <3>5
  <2> HIDE DEF y
  <2> QED BY <1>6, <2>3, <2>4, <2>5
<1>14. ASSUME NEW t \in Threads, ReadAnswer(t)
       PROVE  Executions(q', f) + Pending(f)' <= Allowed(f)'
  <2>1. /\ turn.by = t /\ panda' = READY /\ Done(t, panda.answer) /\ q' = q /\ writes' = writes
    BY <1>14, ReadAnswerDoes
  <2>2. panda'.state # "data received"
    BY <2>1 DEF READY, In
  <2>3. CASE t = "send"
    <3>1. th["send"].pc = "try"
      BY <2>1, <2>3 DEF LinkInv, Threads
    <3>2. th["send"].req.op = "write"
      BY <3>1, Asks DEF AskInv
    <3>3. th'["send"] = IDLE
      BY <2>1, <2>3, <3>2 DEF Done
    <3>4. th'["send"].pc # "try"
      BY <3>3, ThreadTypes
    <3> QED BY <1>6, <2>1, <2>2, <3>4
  <2>4. CASE t = "main"
    <3>1. th'["send"] = IDLE \/ th'["send"] = th["send"]
      BY <1>0, <2>1, <2>4 DEF Done
    <3>2. th'["send"].pc = "try" => th["send"].pc = "try"
      BY <3>1, ThreadTypes
    <3>3. ~OnTrack
      BY <2>1, <2>4 DEF OnTrack
    <3> QED BY <1>6, <2>1, <2>2, <3>2, <3>3
  <2> QED BY <1>0, <2>3, <2>4
<1>15. ASSUME NEW t \in Threads, BadAnswer(t)
       PROVE  Executions(q', f) + Pending(f)' <= Allowed(f)'
  <2>1. turn.phase = "read" /\ q' = q /\ th' = th /\ writes' = writes
        /\ (panda' = panda \/ Strays(panda, panda'))
    BY <1>15, BadAnswerDoes DEF host
  <2>2. OnTrack => Hit
    BY <1>15, <2>1 DEF OnTrack, BadAnswer, Bad
  <2> QED BY <1>4, <1>6, <2>1, <2>2
<1>16. ASSUME NEW t \in Threads, Fails(t)
       PROVE  Executions(q', f) + Pending(f)' <= Allowed(f)'
  <2>1. /\ turn.phase = "fail" /\ Strays(panda, panda') /\ q' = q /\ writes' = writes
        /\ th' = th \/ (/\ \A u \in Threads : u # t => th'[u] = th[u]
                        /\ th'[t].pc = th[t].pc \/ th'[t] = IDLE)
    BY <1>16, FailsDoes DEF host
  <2>2. th'["send"].pc = "try" => th["send"].pc = "try"
    BY <1>0, <2>1, ThreadTypes
  <2>3. ~OnTrack
    BY <2>1 DEF OnTrack
  <2> QED BY <1>6, <2>1, <2>2, <2>3
<1>17. ASSUME NEW t \in Threads, Timeout(t)
       PROVE  Executions(q', f) + Pending(f)' <= Allowed(f)'
  <2>1. panda' = panda /\ q' = q /\ th' = th /\ writes' = writes /\ Hit
    BY <1>17, TimeoutDoes DEF host, Timeout
  <2> QED BY <1>4, <1>6, <2>1
<1>18. CASE Pandad \/ UNCHANGED vars
  <2>1. /\ panda' = panda /\ q' = q /\ writes' = writes /\ turn' = turn
        /\ th'["send"] = th["send"]
    BY <1>18, ConnectDoes, ReceiveDoes, UnpackDoes DEF Pandad, vars, host
  <2>2. OnTrack => OnTrack'
    BY <2>1 DEF OnTrack
  <2> QED BY <1>6, <2>1, <2>2
<1>19. CASE can_send_thread
  <2>1. /\ th["send"].pc = "idle" /\ writes' = writes + 1 /\ writes' \in 1..Len(Batches)
        /\ UNCHANGED <<q, panda, turn, faults>>
    BY <1>19, SendThreadDoes
  <2>2. Executions(q', f) = Executions(q, f) /\ Pending(f)' = Pending(f)
    BY <2>1 DEF Pending
  <2>3. Executions(q, f) + Pending(f) <= Allowed(f)
    BY DEF OnceInv
  <2>4. writes \in Nat /\ 1..writes' = (1..writes) \cup {writes'} /\ writes' \notin 1..writes
    BY <2>1 DEF TypeOK
  <2>5. CASE Begun(f)
    <3>1. PICK j \in 1..writes : Names(Batches[j], f)
      BY <2>5 DEF Begun
    <3>2. Begun(f)'
      BY <2>4, <3>1 DEF Begun
    <3>3. ~Names(Batches[writes'], f)
      <4>1. ASSUME Names(Batches[writes'], f) PROVE FALSE
        <5>1. PICK k \in 1..Len(Batches[j]) : Batches[j][k] = f
          BY <3>1 DEF Names
        <5>2. PICK n \in 1..Len(Batches[writes']) : Batches[writes'][n] = f
          BY <4>1 DEF Names
        <5>3. j \in 1..Len(Batches) /\ writes' \in 1..Len(Batches) /\ j # writes'
          BY <2>1, <2>4
        <5> QED BY <5>1, <5>2, <5>3, QueueConstants
      <4> QED BY <4>1
    <3>4. ~Current(f)'
      BY <3>3 DEF Current
    <3>5. ~Current(f)
      BY <2>1 DEF Current
    <3>6. Allowed(f)' = Allowed(f)
      <4>1. Allowed(f) = faults + 1
        BY <2>5, <3>5 DEF Allowed, One
      <4>2. Allowed(f)' = faults' + 1
        BY <3>2, <3>4 DEF Allowed, One
      <4> QED BY <2>1, <4>1, <4>2
    <3> QED BY <2>2, <2>3, <3>6
  <2>6. CASE ~Begun(f)
    <3>1. Allowed(f) = 0
      BY <2>6 DEF Allowed
    <3>2. Allowed(f)' \in Nat
      BY <1>4, <2>1, Ones DEF Allowed
    <3> QED BY <1>1, <2>2, <2>3, <3>1, <3>2
  <2> QED BY <2>5, <2>6
<1>20. CASE Crash \/ Reconnect
  <2>1. Anew
    BY <1>20, NewPandadDoes DEF Crash, Reconnect
  <2>2. th'["send"].pc # "try" /\ q' = q /\ panda' = panda /\ writes' = writes
    BY <1>0, <2>1, ThreadTypes DEF Anew
  <2> QED BY <1>6, <2>2
<1> QED BY <1>7, <1>8, <1>9, <1>10, <1>11, <1>12, <1>13, <1>14, <1>15, <1>16, <1>17, <1>18, <1>19,
           <1>20 DEF Next, Burst

LEMMA OnceAtFirst == Init => OnceInv
<1> SUFFICES ASSUME Init, NEW f \in Frames
             PROVE  Executions(q, f) + Pending(f) <= Allowed(f)
  BY DEF OnceInv
<1>1. q.tx = <<>> /\ q.sent[f] = 0 /\ panda.state = "header" /\ faults = 0
  BY DEF Init, Queues, READY, In
<1>2. OftenIn(<<>>, f) = 0
  <2>1. {i \in 1..Len(<<>>) : <<>>[i] = f} = {}
    OBVIOUS
  <2> QED BY <2>1, FS_EmptySet DEF OftenIn
<1>3. Executions(q, f) = 0 /\ Pending(f) = 0
  BY <1>1, <1>2 DEF Executions, Pending, One
<1>4. Allowed(f) \in Nat
  BY <1>1, Ones DEF Allowed
<1> QED BY <1>3, <1>4

\* A frame of the host goes to the bus once, and once more for each burst that is damaged,
\* answer that is late or crash of pandad at most, however often its transfer is refused and
\* retried; a frame that the tx hook blocks never does (spi_transfer_retry, spi_rx_done,
\* comms_can_write, can_send).
THEOREM SentOncePerFault == Spec => []OncePerFault
<1>1. TypeOK /\ LinkInv /\ AskInv /\ OnceInv /\ [Next]_vars
      => (TypeOK /\ LinkInv /\ AskInv /\ OnceInv)'
  BY TypeStep, LinkStep, AskStep, OnceStep
<1>2. Init => TypeOK /\ LinkInv /\ AskInv /\ OnceInv
  BY InitTypes, LinkAtFirst, AskAtFirst, OnceAtFirst
<1>3. TypeOK /\ OnceInv => OncePerFault
  <2> SUFFICES ASSUME TypeOK, OnceInv, NEW f \in Frames
               PROVE  q.sent[f] <= IF f \in Blocked THEN 0 ELSE 1 + faults
    BY DEF OncePerFault
  <2>1. Executions(q, f) + Pending(f) <= Allowed(f)
    BY DEF OnceInv
  <2>2. q.sent[f] \in Nat /\ OftenIn(q.tx, f) \in Nat /\ Executions(q, f) = q.sent[f] + OftenIn(q.tx, f)
    BY ExecutionsType DEF TypeOK, Executions
  <2>3. Pending(f) \in Nat
    BY Ones DEF Pending
  <2>4. q.sent[f] <= Allowed(f) /\ Allowed(f) \in Nat
    <3>1. Allowed(f) \in Nat
      BY FaultsAre, Ones DEF Allowed
    <3> QED BY <2>1, <2>2, <2>3, <3>1
  <2>5. CASE f \in Blocked
    <3>1. Allowed(f) = 0
      BY <2>5 DEF Allowed, Begun, Names
    <3> QED BY <2>4, <2>5, <3>1
  <2>6. CASE f \notin Blocked
    <3>1. Allowed(f) <= 1 + faults
      <4>1. One(Current(f) => OnTrack) \in {0, 1}
        BY Ones
      <4>2. Allowed(f) \in {0, faults + One(Current(f) => OnTrack)}
        BY DEF Allowed
      <4> QED BY <4>1, <4>2, FaultsAre
    <3> QED BY <2>2, <2>4, <2>6, <3>1, FaultsAre
  <2> QED BY <2>5, <2>6
<1> QED BY <1>1, <1>2, <1>3, PTL DEF Spec

---------------------------------------------------------------------------
(* Without a fault no frame is lost. *)

\* The units of the frames in the order in which they are queued, and a part of them
Nth(i) == <<(i + 1) \div 2, IF i % 2 = 1 THEN 1 ELSE 2>>
Run(s, lo, hi) == hi = lo + Len(s) /\ \A i \in 1..Len(s) : s[i] = Nth(lo + i)

LEMMA NthIs ==
  ASSUME NEW n \in Nat, NEW i \in Nat
  PROVE  Nth(2 * n + i) = <<n + (i + 1) \div 2, IF i % 2 = 1 THEN 1 ELSE 2>>
<1>1. (2 * n + i + 1) \div 2 = n + (i + 1) \div 2 /\ (2 * n + i) % 2 = i % 2
  BY Halves
<1> QED BY <1>1 DEF Nth

LEMMA RunEmpty ==
  ASSUME NEW lo \in Nat
  PROVE  Run(<<>>, lo, lo)
<1>1. Len(<<>>) = 0 /\ 1..0 = {}
  OBVIOUS
<1> QED BY <1>1 DEF Run

LEMMA RunNumbers ==
  ASSUME NEW s \in Seq(Unit), NEW lo \in Nat, NEW hi, Run(s, lo, hi)
  PROVE  hi \in Nat /\ Len(s) \in Nat /\ hi = lo + Len(s)
<1>1. Len(s) \in Nat /\ hi = lo + Len(s)
  BY DEF Run
<1> QED BY <1>1

LEMMA RunConcat ==
  ASSUME NEW s \in Seq(Unit), NEW t \in Seq(Unit), NEW lo \in Nat, NEW m, NEW hi,
         Run(s, lo, m), Run(t, m, hi)
  PROVE  s \o t \in Seq(Unit) /\ Run(s \o t, lo, hi)
<1> DEFINE k == Len(s)
           l == Len(t)
           u == s \o t
<1>1. k \in Nat /\ m = lo + k /\ m \in Nat /\ l \in Nat /\ hi = m + l
  BY RunNumbers
<1>2. /\ u \in Seq(Unit) /\ Len(u) = k + l
      /\ \A i \in 1..k + l : u[i] = IF i <= k THEN s[i] ELSE t[i - k]
  BY ConcatProperties
<1>3. /\ \A i \in 1..k : s[i] = Nth(lo + i)
      /\ \A i \in 1..l : t[i] = Nth(m + i)
  BY DEF Run
<1> HIDE DEF u, k, l
<1>4. ASSUME NEW i \in 1..k + l PROVE u[i] = Nth(lo + i)
  <2>1. CASE i <= k
    BY <1>1, <1>2, <1>3, <2>1
  <2>2. CASE ~(i <= k)
    <3>1. i - k \in 1..l /\ m + (i - k) = lo + i
      BY <1>1, <2>2
    <3>2. u[i] = t[i - k]
      BY <1>2, <2>2
    <3> QED BY <1>3, <3>1, <3>2
  <2> QED BY <2>1, <2>2
<1>5. hi = lo + (k + l)
  BY <1>1
<1> QED BY <1>2, <1>4, <1>5 DEF Run, u

LEMMA RunPart ==
  ASSUME NEW s \in Seq(Unit), NEW lo \in Nat, NEW hi, Run(s, lo, hi),
         NEW k \in 0..Len(s), NEW m \in k..Len(s)
  PROVE  SubSeq(s, k + 1, m) \in Seq(Unit) /\ Run(SubSeq(s, k + 1, m), lo + k, lo + m)
<1> DEFINE k1 == k + 1
           u == SubSeq(s, k1, m)
<1>1. Len(s) \in Nat /\ k \in Nat /\ m \in Nat /\ k <= m /\ m <= Len(s)
      /\ k1 \in Nat /\ k1 >= 1 /\ k1 = k + 1
  OBVIOUS
<1> HIDE DEF k1
<1>2. /\ u \in Seq(Unit) /\ Len(u) = (IF k1 <= m THEN m - k1 + 1 ELSE 0)
      /\ \A i \in 1..m - k1 + 1 : u[i] = s[k1 + i - 1]
  BY <1>1, SubSeqType
<1> HIDE DEF u
<1>3. Len(u) = m - k
  BY <1>1, <1>2
<1>4. ASSUME NEW i \in 1..m - k PROVE u[i] = Nth((lo + k) + i)
  <2>1. i \in 1..m - k1 + 1 /\ k1 + i - 1 = k + i /\ k + i \in 1..Len(s)
        /\ lo + (k + i) = (lo + k) + i
    BY <1>1
  <2>2. u[i] = s[k + i]
    BY <1>2, <2>1
  <2>3. s[k + i] = Nth(lo + (k + i))
    BY <2>1 DEF Run
  <2> QED BY <2>1, <2>2, <2>3
<1>5. lo + m = (lo + k) + (m - k)
  BY <1>1
<1>6. Run(u, lo + k, lo + m)
  BY <1>3, <1>4, <1>5 DEF Run
<1> QED BY <1>2, <1>6 DEF u, k1

LEMMA RunSame ==
  ASSUME NEW s \in Seq(Unit), NEW t \in Seq(Unit), NEW lo \in Nat, NEW hi,
         Run(s, lo, hi), Run(t, lo, hi)
  PROVE  s = t
<1>1. Len(s) = Len(t) /\ Len(s) \in Nat
  <2>1. Len(s) \in Nat /\ Len(t) \in Nat /\ hi = lo + Len(s) /\ hi = lo + Len(t)
    BY RunNumbers
  <2> QED BY <2>1
<1>2. \A i \in 1..Len(s) : s[i] = t[i]
  BY <1>1 DEF Run
<1> QED BY <1>1, <1>2, SeqEqual

\* What the numbers in order split into
LEMMA RunOfNumbers ==
  ASSUME NEW n \in Nat, NEW s \in Seq(Nat), Len(s) = n, \A i \in 1..n : s[i] = i
  PROVE  Units(s) \in Seq(Unit) /\ Run(Units(s), 0, 2 * n)
<1>1. /\ Units(s) \in Seq(Unit) /\ Len(Units(s)) = 2 * n
      /\ \A i \in 1..2 * n : Units(s)[i] = UnitAt(s, i) /\ (i + 1) \div 2 \in 1..n
  BY UnitsAre
<1>2. ASSUME NEW i \in 1..2 * n PROVE Units(s)[i] = Nth(0 + i)
  <2>1. s[(i + 1) \div 2] = (i + 1) \div 2
    BY <1>1
  <2>2. 0 + i = i
    OBVIOUS
  <2> QED BY <1>1, <2>1, <2>2 DEF UnitAt, Nth
<1>3. 2 * n = 0 + 2 * n
  OBVIOUS
<1> QED BY <1>1, <1>2, <1>3 DEF Run

\* A new frame goes on with the numbers.
LEMMA GrowsRun ==
  ASSUME NEW a \in Queue, NEW b \in Queue, Grows(a, b), NEW e \in Nat,
         Run(Units(a.rx), e, 2 * a.queued)
  PROVE  Run(Units(b.rx), e, 2 * b.queued)
<1> DEFINE u == Units(a.rx)
           v == Units(b.rx)
           k == Len(a.rx)
           l == Len(b.rx)
           x == a.queued
           y == b.queued
           g == x - k
<1>1. a.rx \in Seq(Nat) /\ b.rx \in Seq(Nat) /\ k \in Nat /\ l \in Nat /\ x \in Nat /\ y \in Nat
  BY QueueFields
<1>2. /\ y >= x /\ l = k + (y - x)
      /\ \A i \in 1..k : b.rx[i] = a.rx[i]
      /\ \A i \in 1..y - x : b.rx[k + i] = x + i
  BY DEF Grows
<1>3. /\ u \in Seq(Unit) /\ Len(u) = 2 * k
      /\ \A i \in 1..2 * k : u[i] = UnitAt(a.rx, i) /\ (i + 1) \div 2 \in 1..k
  BY <1>1, UnitsAre
<1>4. /\ v \in Seq(Unit) /\ Len(v) = 2 * l
      /\ \A i \in 1..2 * l : v[i] = UnitAt(b.rx, i) /\ (i + 1) \div 2 \in 1..l
  BY <1>1, UnitsAre
<1>5. 2 * x = e + 2 * k /\ \A i \in 1..2 * k : u[i] = Nth(e + i)
  BY <1>3 DEF Run
<1> HIDE DEF u, v, k, l, x, y
<1>6. g \in Nat /\ e = 2 * g
  BY <1>1, <1>5
<1>7. ASSUME NEW i \in 1..2 * l PROVE v[i] = Nth(e + i)
  <2> DEFINE h == (i + 1) \div 2
             p == IF i % 2 = 1 THEN 1 ELSE 2
             j == h - k
  <2>1. h \in Nat /\ i = 2 * h - (IF i % 2 = 1 THEN 1 ELSE 0) /\ h \in 1..l
    BY <1>4, Halves
  <2>2. v[i] = <<b.rx[h], p>>
    BY <1>4 DEF UnitAt
  <2>3. CASE h <= k
    <3>1. i \in 1..2 * k /\ h \in 1..k
      BY <1>1, <2>1, <2>3
    <3>2. b.rx[h] = a.rx[h]
      BY <1>2, <3>1
    <3>3. u[i] = <<a.rx[h], p>>
      BY <1>3, <3>1 DEF UnitAt
    <3> QED BY <1>5, <2>2, <3>1, <3>2, <3>3
  <2>4. CASE ~(h <= k)
    <3>0. i \in Nat
      BY <1>1
    <3>1. Nth(2 * g + i) = <<g + h, p>>
      BY <1>6, <3>0, NthIs
    <3> HIDE DEF h, p
    <3>2. j \in 1..y - x /\ k + j = h
      BY <1>1, <1>2, <2>1, <2>4
    <3>3. x + j = g + h
      BY <1>1, <2>1
    <3> HIDE DEF j, g
    <3>4. b.rx[h] = x + j
      BY <1>2, <3>2
    <3> QED BY <1>6, <2>2, <3>1, <3>3, <3>4
  <2> QED BY <2>3, <2>4
<1>8. 2 * y = e + 2 * l
  BY <1>1, <1>2, <1>5
<1>9. Run(v, e, 2 * y)
  BY <1>4, <1>7, <1>8 DEF Run
<1> QED BY <1>9 DEF v, y

\* What the panda holds in each phase of an attempt, as long as there is no fault
Resting(p) ==
  /\ p.state \in {"header", "part", "received", "nack"}
  /\ p.state = "received" => p.req = GARBAGE
Quiet(phase, p) ==
  /\ phase \in {"none", "header", "fail"} => Resting(p)
  /\ phase = "hack" => p.state \in {"header", "part", "received", "nack", "ack"}
  /\ phase = "data" => p.state = "data"
  /\ phase = "dack" => p.state \in {"data received", "answer", "nack"}
  /\ phase = "read" => p.state = "read"

\* The units of all frames are in their places, one after the other.
Flow(b, c, d, e) ==
  /\ Run(buf, 2 * Len(got), b) /\ Run(th["main"].data, b, c) /\ Run(OnTheWay, c, d)
  /\ Run(q.tail, d, e) /\ Run(Units(q.rx), e, 2 * q.queued)
Numbered == \A i \in 1..Len(got) : got[i][1] = i
Flowing == Numbered /\ \E b, c, d, e \in Nat : Flow(b, c, d, e)

\* Nothing is to be thrown away by a reset of the communication.
Resets == th["main"].pc = "off" \/ (th["main"].pc = "try" /\ th["main"].req.op = "reset")
Sound ==
  /\ healthy /\ ~turn.late /\ th["send"].timeouts = 0
  /\ turn.by = "free" => turn.phase = "none"
  /\ Quiet(turn.phase, panda)
  /\ Resets => q.tail = <<>>
FlowInv == faults = 0 => Sound /\ Flowing

\* A burst that a resting panda does not expect, or one that comes while it looks at another
LEMMA StrewnRests ==
  ASSUME NEW p \in Panda, NEW x \in StrewnLong(p),
         p.state \in {"header", "part", "received", "nack", "data received"}
  PROVE  x = p \/ Resting(x)
<1>0. /\ \A s \in {"header", "part", "received", "nack"} : Resting(In(s, GARBAGE))
      /\ Resting(READY) /\ Resting(Nacks) /\ Resting(Got(GARBAGE)) /\ Resting(ToGarbage)
  <2>1. \A s \in {"header", "part", "received", "nack"} : Resting(In(s, GARBAGE))
    BY DEF In, Resting
  <2> QED BY <2>1 DEF READY, Nacks, Got, ToGarbage
<1>1. CASE p.state \in {"received", "data received"}
  <2>1. /\ p.state \notin {"header", "part", "data"} /\ p.state # "nack" /\ p.state # "ack"
    BY <1>1
  <2>2. Strewn(p) = {p}
    BY <1>1, <2>1, Zenon DEF Strewn
  <2> QED BY <1>1, <2>2 DEF StrewnLong
<1>2. x \in Strewn(p) \/ x \in Resynced
  BY DEF StrewnLong
<1>3. \A y \in Resynced : Resting(y)
  BY <1>0 DEF Resynced
<1>4. CASE p.state \in {"header", "part"}
  <2>1. /\ p.state \notin {"received", "data received"} /\ p.state \in {"header", "part", "data"}
        /\ p.state # "nack" /\ p.state # "ack"
    BY <1>4
  <2>2. Strewn(p) = {In("part", GARBAGE), Got(GARBAGE)}
    BY <2>1, Zenon DEF Strewn
  <2> QED BY <1>0, <1>2, <1>3, <2>2
<1>5. CASE p.state = "nack"
  <2>1. /\ p.state \notin {"received", "data received"} /\ p.state \notin {"header", "part", "data"}
        /\ p.state # "ack"
    BY <1>5
  <2>2. Strewn(p) = {READY, In("part", GARBAGE)}
    BY <1>5, <2>1, Zenon DEF Strewn
  <2> QED BY <1>0, <1>2, <1>3, <2>2
<1> QED BY <1>1, <1>4, <1>5

LEMMA AfterRests ==
  ASSUME NEW state, NEW next, panda \in Panda, NEW x \in AfterLong(state, next) \cup After(state, next),
         panda.state \in {"header", "part", "received", "nack", "data received"}
                         \/ panda.state = state
  PROVE  IF panda.state = state THEN x = next ELSE x = panda \/ Resting(x)
<1>1. panda.state = state => x = next
  BY DEF After, AfterLong
<1>2. ASSUME panda.state # state PROVE x = panda \/ Resting(x)
  <2>1. x \in StrewnLong(panda)
    BY <1>2 DEF After, AfterLong, StrewnLong
  <2> QED BY <1>2, <2>1, StrewnRests
<1> QED BY <1>1, <1>2

\* Steps that move no units
LEMMA WayEmpty ==
  ASSUME NEW p \in Panda, p.state \notin {"answer", "read"} \/ p.req.op # "read"
  PROVE  (IF p.state \in {"answer", "read"} /\ p.req.op = "read" THEN p.answer ELSE <<>>) = <<>>
  OBVIOUS

LEMMA WayType == TypeOK => OnTheWay \in Seq(Unit)
  BY DEF TypeOK, Panda, OnTheWay

LEMMA StillFlowing ==
  ASSUME Flowing, q' = q, got' = got, buf' = buf, th'["main"].data = th["main"].data,
         OnTheWay' = OnTheWay
  PROVE  Flowing'
<1>1. PICK b \in Nat, c \in Nat, d \in Nat, e \in Nat : Flow(b, c, d, e)
  BY DEF Flowing
<1>2. Flow(b, c, d, e)'
  BY <1>1 DEF Flow
<1> QED BY <1>2 DEF Flowing, Numbered

LEMMA MakeFlow ==
  ASSUME NEW b \in Nat, NEW c \in Nat, NEW d \in Nat, NEW e \in Nat, Numbered',
         Run(buf', 2 * Len(got'), b), Run(th'["main"].data, b, c), Run(OnTheWay', c, d),
         Run(q'.tail, d, e), Run(Units(q'.rx), e, 2 * q'.queued)
  PROVE  Flowing'
<1>1. Flow(b, c, d, e)'
  BY DEF Flow
<1> QED BY <1>1 DEF Flowing

LEMMA MoreFlowing ==
  ASSUME Flowing, q \in Queue, q' \in Queue, Grows(q, q'), got' = got, buf' = buf,
         th'["main"].data = th["main"].data, OnTheWay' = OnTheWay
  PROVE  Flowing'
<1>1. PICK b \in Nat, c \in Nat, d \in Nat, e \in Nat : Flow(b, c, d, e)
  BY DEF Flowing
<1>2. Run(Units(q'.rx), e, 2 * q'.queued)
  BY <1>1, GrowsRun DEF Flow
<1>3. Run(q'.tail, d, e)
  BY <1>1 DEF Flow, Grows
<1>4. /\ Run(buf', 2 * Len(got'), b) /\ Run(th'["main"].data, b, c) /\ Run(OnTheWay', c, d)
      /\ Numbered'
  BY <1>1 DEF Flow, Flowing, Numbered
<1> QED BY <1>2, <1>3, <1>4, MakeFlow

LEMMA FlowTypes ==
  ASSUME TypeOK
  PROVE  /\ buf \in Seq(Unit) /\ th["main"].data \in Seq(Unit) /\ OnTheWay \in Seq(Unit)
         /\ q.tail \in Seq(Unit) /\ Units(q.rx) \in Seq(Unit) /\ got \in Seq(Nat \X Nat)
         /\ q \in Queue /\ Len(q.tail) <= 1 /\ q.queued \in Nat /\ panda \in Panda
         /\ th \in [Threads -> Thread] /\ "main" \in Threads /\ "send" \in Threads
         /\ turn \in Turn /\ turn.by \in Threads \cup {"free"} /\ panda.req \in Req
         /\ panda.answer \in Seq(Unit)
<1>1. panda \in Panda /\ th \in [Threads -> Thread] /\ turn \in Turn
  BY DEF TypeOK
<1>2. panda.req \in Req /\ turn.by \in Threads \cup {"free"}
  BY <1>1 DEF Panda, Turn
<1>3. "main" \in Threads /\ "send" \in Threads
  BY DEF Threads
<1> QED BY <1>1, <1>2, <1>3, Segments, WayType

\* The thread that holds the bus, and its request
LEMMA HolderAsks ==
  ASSUME TypeOK, LinkInv, AskInv, NEW t \in Threads, turn.by = t
  PROVE  /\ th[t].pc = "try" /\ Tracks(turn.phase, panda, th[t].req, ran)
         /\ th["main"].pc # "off"
         /\ t = "send" => th[t].req.op = "write"
         /\ t = "main" => th[t].req.op \in {"reset", "read"}
<1>1. th[t].pc = "try" /\ Tracks(turn.phase, panda, th[t].req, ran)
  BY DEF LinkInv
<1>2. th["main"].pc # "off"
  BY DEF LinkInv, Threads
<1>3. ASSUME t = "send" PROVE th[t].req.op = "write"
  <2>1. th["send"].req = Write(Batches[writes])
    BY <1>1, <1>3 DEF AskInv
  <2> QED BY <1>3, <2>1, Asks
<1>4. t = "main" => th[t].req.op \in {"reset", "read"}
  BY DEF AskInv
<1> QED BY <1>1, <1>2, <1>3, <1>4

\* The panda executes what the thread that waits for its answer has asked for.
LEMMA ExecutesFor ==
  ASSUME TypeOK, LinkInv, AskInv, Sound, panda.state = "data received"
  PROVE  /\ turn.phase = "dack" /\ OnTheWay = <<>> /\ panda.req \in HostReq
         /\ panda.req.op = "read" => ~Resets
         /\ panda.req.op = "reset" => Resets
<1>1. turn.phase \in Phases
  BY DEF TypeOK, Turn
<1>2. turn.phase = "dack"
  BY <1>1 DEF Sound, Quiet, Resting, Phases
<1>3. PICK t \in Threads : turn.by = t
  BY <1>2, FlowTypes DEF Sound
<1>4. /\ th[t].pc = "try" /\ Tracks(turn.phase, panda, th[t].req, ran)
      /\ t = "send" => th[t].req.op = "write"
      /\ t = "main" => th[t].req.op \in {"reset", "read"}
  BY <1>3, HolderAsks
<1>5. panda.req = th[t].req
  BY <1>2, <1>4 DEF Tracks, Answering
<1>6. th[t].req \in HostReq
  BY FlowTypes DEF Thread
<1>7. t \in {"main", "send"}
  BY DEF Threads
<1>8. OnTheWay = <<>>
  BY DEF OnTheWay
<1> QED BY <1>2, <1>4, <1>5, <1>6, <1>7, <1>8 DEF Resets

\* A step of the panda or the bus: what pandad holds stays, and so does what may be lost.
LEMMA PandaSound ==
  ASSUME Sound, turn' = turn, UNCHANGED host, Quiet(turn.phase, panda'),
         q'.tail = q.tail \/ q'.tail = <<>> \/ ~Resets
  PROVE  Sound'
<1>1. /\ healthy' = healthy /\ th' = th
  BY DEF host
<1>2. Resets' <=> Resets
  BY <1>1 DEF Resets
<1>3. Quiet(turn'.phase, panda')
  OBVIOUS
<1>4. Resets' => q'.tail = <<>>
  BY <1>2 DEF Sound
<1> QED BY <1>1, <1>3, <1>4 DEF Sound

LEMMA IrqQuiet ==
  ASSUME TypeOK, Sound, Handled
  PROVE  Quiet(turn.phase, panda')
<1>1. turn.phase \in Phases
  BY DEF TypeOK, Turn
<1>2. /\ Nacks.state = "nack" /\ In("ack", panda.req).state = "ack"
  BY DEF Nacks, In
<1>3. Quiet(turn.phase, panda)
  BY DEF Sound
<1>4. CASE panda.state = "received"
  <2>1. turn.phase \in {"none", "header", "fail", "hack"}
    BY <1>1, <1>3, <1>4 DEF Quiet, Phases
  <2>2. panda' = IF panda.req = GARBAGE THEN Nacks ELSE In("ack", panda.req)
    BY <1>4 DEF Handled
  <2>3. panda'.state \in {"nack", "ack"} /\ (panda.req = GARBAGE => panda'.state = "nack")
    BY <1>2, <2>2
  <2>4. turn.phase # "hack" => panda.req = GARBAGE
    BY <1>3, <1>4, <2>1 DEF Quiet, Resting
  <2> QED BY <2>1, <2>3, <2>4 DEF Quiet, Resting
<1>5. CASE panda.state = "data received"
  <2>1. turn.phase = "dack"
    BY <1>1, <1>3, <1>5 DEF Quiet, Phases, Resting
  <2>2. panda'.state \in {"answer", "nack"}
    BY <1>2, <1>5 DEF Handled
  <2> QED BY <2>1, <2>2 DEF Quiet
<1> QED BY <1>4, <1>5 DEF Handled

LEMMA ReadFlows ==
  ASSUME TypeOK, LinkInv, AskInv, Sound, Flowing, CanRead, UNCHANGED host
  PROVE  Flowing'
<1> DEFINE max == panda.req.max
           all == q.tail \o Units(q.rx)
           x == Answer(q, max)
<1>1. /\ panda.state = "data received" /\ panda.req.op = "read"
      /\ q' = AfterRead(q, max) /\ panda' = Answers(panda.req, x)
  BY DEF CanRead, Asked, Executes
<1>2. max \in Nat /\ OnTheWay = <<>> /\ panda.req \in Req
  BY <1>1, ExecutesFor, FlowTypes DEF HostReq
<1>3. /\ all \in Seq(Unit) /\ x \in Seq(Unit) /\ q'.queued = q.queued
      /\ \E k \in 0..Len(all) : \E m \in k..Len(all) :
           /\ x = SubSeq(all, 1, k) /\ q'.tail = SubSeq(all, k + 1, m)
           /\ Units(q'.rx) = SubSeq(all, m + 1, Len(all))
  <2>1. q \in Queue /\ Len(q.tail) <= 1
    BY FlowTypes
  <2> HIDE DEF max
  <2> QED BY <1>1, <1>2, <2>1, ReadDoes
<1>4. PICK b \in Nat, c \in Nat, d \in Nat, e \in Nat : Flow(b, c, d, e)
  BY DEF Flowing
<1>5. d = c
  BY <1>2, <1>4, RunNumbers, FlowTypes DEF Flow, Run
<1>6. Run(all, c, 2 * q.queued)
  <2>1. Run(q.tail, c, e) /\ Run(Units(q.rx), e, 2 * q.queued)
    BY <1>4, <1>5 DEF Flow
  <2> QED BY <2>1, FlowTypes, RunConcat
<1>7. OnTheWay' = x
  <2>1. panda'.state = "answer" /\ panda'.req = panda.req /\ panda'.answer = x
    BY <1>1, <1>2, <1>3, AnswersIs
  <2> HIDE DEF x
  <2> QED BY <1>1, <2>1 DEF OnTheWay
<1> HIDE DEF all, x
<1>7a. PICK k \in 0..Len(all) : \E m \in k..Len(all) :
        /\ x = SubSeq(all, 1, k) /\ q'.tail = SubSeq(all, k + 1, m)
        /\ Units(q'.rx) = SubSeq(all, m + 1, Len(all))
  BY <1>3
<1>8. PICK m \in k..Len(all) :
        /\ x = SubSeq(all, 1, k) /\ q'.tail = SubSeq(all, k + 1, m)
        /\ Units(q'.rx) = SubSeq(all, m + 1, Len(all))
  BY <1>7a
<1>9. /\ Len(all) \in Nat /\ k \in Nat /\ m \in Nat /\ 0 \in 0..Len(all) /\ k \in 0..Len(all)
      /\ m \in 0..Len(all) /\ Len(all) \in m..Len(all) /\ m \in k..Len(all) /\ k \in 0..Len(all)
  BY <1>3
<1>10. /\ Run(SubSeq(all, 0 + 1, k), c + 0, c + k) /\ Run(SubSeq(all, k + 1, m), c + k, c + m)
       /\ Run(SubSeq(all, m + 1, Len(all)), c + m, c + Len(all))
  BY <1>3, <1>6, <1>9, RunPart
<1>11. c + Len(all) = 2 * q.queued
  BY <1>3, <1>6, RunNumbers
<1>12. /\ Run(OnTheWay', c, c + k) /\ Run(q'.tail, c + k, c + m)
       /\ Run(Units(q'.rx), c + m, 2 * q'.queued)
  <2>1. 0 + 1 = 1 /\ c + 0 = c
    OBVIOUS
  <2> QED BY <1>3, <1>7, <1>8, <1>10, <1>11, <2>1
<1>13. Run(buf', 2 * Len(got'), b) /\ Run(th'["main"].data, b, c) /\ Numbered'
  BY <1>4 DEF Flow, Flowing, Numbered, host
<1>14. c + k \in Nat /\ c + m \in Nat
  BY <1>9
<1> QED BY <1>12, <1>13, <1>14, MakeFlow

LEMMA IrqFlow ==
  ASSUME TypeOK, TypeOK', LinkInv, AskInv, Sound, Flowing, Irq
  PROVE  Sound' /\ Flowing'
<1>1. turn' = turn /\ UNCHANGED host /\ Quiet(turn.phase, panda')
  BY IrqDoes, IrqQuiet DEF Irq
<1>2. got' = got /\ buf' = buf /\ th' = th
  BY <1>1 DEF host
<1>3. q \in Queue /\ q' \in Queue
  BY DEF TypeOK
<1>4. CASE CanRead
  <2>1. panda.state = "data received" /\ panda.req.op = "read"
    BY <1>4 DEF CanRead, Asked
  <2>2. ~Resets
    BY <2>1, ExecutesFor
  <2> QED BY <1>1, <1>4, <2>2, PandaSound, ReadFlows
<1>5. ASSUME \/ q' = q
             \/ q'.tail = <<>> /\ q'.rx = q.rx /\ q'.queued = q.queued /\ Resets
             \/ Grows(q, q'),
             OnTheWay' = OnTheWay
      PROVE  Sound' /\ Flowing'
  <2>1. Resets => q.tail = <<>>
    BY DEF Sound
  <2>2. Grows(q, q')
    BY <1>3, <1>5, <2>1, GrowsNot
  <2>3. q'.tail = q.tail
    BY <2>2 DEF Grows
  <2> QED BY <1>1, <1>2, <1>3, <1>5, <2>2, <2>3, PandaSound, MoreFlowing
<1>6. CASE Header
  <2>1. q' = q /\ panda.state = "received" /\ panda'.state \in {"nack", "ack"}
    <3>1. /\ Nacks.state = "nack" /\ In("ack", panda.req).state = "ack"
      BY DEF Nacks, In
    <3> QED BY <1>6, <3>1 DEF Header, ToGarbage
  <2>2. panda.state \notin {"answer", "read"} /\ panda'.state \notin {"answer", "read"}
    BY <2>1
  <2>3. OnTheWay' = OnTheWay
    BY <2>2 DEF OnTheWay
  <2> QED BY <1>5, <2>1, <2>3
<1>7. CASE CanNack
  <2>1. q' = q /\ panda.state = "data received" /\ panda'.state = "nack"
    BY <1>7, CalmOnes DEF CanNack, Asked
  <2>2. panda.state \notin {"answer", "read"} /\ panda'.state \notin {"answer", "read"}
    BY <2>1
  <2>3. OnTheWay' = OnTheWay
    BY <2>2 DEF OnTheWay
  <2> QED BY <1>5, <2>1, <2>3
<1>8. ASSUME NEW queues, Executes(queues, <<>>), panda.state = "data received"
      PROVE  q' = queues /\ OnTheWay' = OnTheWay
  <2>1. q' = queues /\ panda' = Answers(panda.req, <<>>)
    BY <1>8 DEF Executes
  <2>2. <<>> \in Seq(Unit)
    OBVIOUS
  <2>3. panda'.answer = <<>>
    BY <2>1, <2>2, AnswersIs, FlowTypes
  <2>4. OnTheWay = <<>> /\ OnTheWay' = <<>>
    BY <1>8, <2>3 DEF OnTheWay
  <2> QED BY <2>1, <2>4
<1>9. CASE ControlHandler
  <2>1. /\ panda.state = "data received" /\ panda.req.op = "reset"
        /\ Executes(comms_can_reset(q), <<>>)
    BY <1>9 DEF ControlHandler, Asked
  <2>2. Resets
    BY <2>1, ExecutesFor
  <2>3. q' = comms_can_reset(q) /\ OnTheWay' = OnTheWay
    BY <1>8, <2>1
  <2>4. q'.tail = <<>> /\ q'.rx = q.rx /\ q'.queued = q.queued
    BY <1>3, <2>3, ResetDoes
  <2> QED BY <1>5, <2>2, <2>3, <2>4
<1>10. CASE CanWrite
  <2> DEFINE a == [q EXCEPT !.ready = FALSE]
             b == comms_can_write(a, panda.req.frames)
  <2>1. panda.state = "data received" /\ Executes(b, <<>>)
    BY <1>10 DEF CanWrite, Asked
  <2>2. panda.req.frames \in Seq(Frames)
    <3>1. panda.req \in HostReq
      BY <2>1, ExecutesFor
    <3>2. GARBAGE \notin HostReq
      BY DEF GARBAGE, Request, HostReq
    <3> QED BY <3>1, <3>2, FramesOf DEF Req
  <2>3. a \in Queue /\ Grows(q, a)
    BY <1>3, UnreadyIs
  <2> HIDE DEF a
  <2>4. b \in Queue /\ Grows(a, b)
    BY <2>2, <2>3, WriteDoes
  <2> HIDE DEF b
  <2>5. q' = b /\ OnTheWay' = OnTheWay
    BY <1>8, <2>1
  <2>6. Grows(q, b)
    BY <1>3, <2>3, <2>4, GrowsOn
  <2> QED BY <1>5, <2>5, <2>6
<1> QED BY <1>4, <1>6, <1>7, <1>9, <1>10 DEF Irq

\* A step of the thread that holds the bus: what pandad holds stays.
LEMMA HolderFlows ==
  ASSUME Sound, Flowing, turn'.by # "free", turn'.late = turn.late, q' = q, UNCHANGED host,
         OnTheWay' = OnTheWay, Quiet(turn'.phase, panda')
  PROVE  Sound' /\ Flowing'
<1>1. got' = got /\ buf' = buf /\ th' = th /\ healthy' = healthy
  BY DEF host
<1>2. Sound'
  <2>1. Resets' => q'.tail = <<>>
    BY <1>1 DEF Sound, Resets
  <2> QED BY <1>1, <2>1 DEF Sound
<1>3. Flowing'
  BY <1>1, StillFlowing
<1> QED BY <1>2, <1>3

LEMMA NotFree == \A t \in Threads : t # "free"
  BY DEF Threads

LEMMA RestsAway ==
  ASSUME panda.state \notin {"answer", "read"}, panda'.state \notin {"answer", "read"}
  PROVE  OnTheWay = <<>> /\ OnTheWay' = OnTheWay
  BY DEF OnTheWay

LEMMA SendHeaderFlow ==
  ASSUME TypeOK, Sound, Flowing, NEW t \in Threads, SendHeader(t), ~Hit
  PROVE  Sound' /\ Flowing'
<1> DEFINE next == Got(th[t].req)
<1>1. /\ turn.by = t /\ turn.phase = "header" /\ Goes("hack") /\ UNCHANGED host /\ OfHost
      /\ panda' \in AfterLong("header", next)
  BY DEF SendHeader, At
<1>2. panda \in Panda /\ turn \in Turn
  BY DEF TypeOK
<1>3. Resting(panda)
  BY <1>1 DEF Sound, Quiet
<1>4. panda.state \in {"header", "part", "received", "nack"}
  BY <1>3 DEF Resting
<1>5. IF panda.state = "header" THEN panda' = next ELSE panda' = panda \/ Resting(panda')
  <2>1. panda' \in AfterLong("header", next) \cup After("header", next)
    BY <1>1
  <2> HIDE DEF next
  <2> QED BY <1>2, <1>4, <2>1, AfterRests
<1>6. next.state = "received"
  BY DEF Got, In
<1> HIDE DEF next
<1>7. panda'.state \in {"header", "part", "received", "nack"}
  BY <1>4, <1>5, <1>6 DEF Resting
<1>8. turn'.by = t /\ turn'.late = turn.late /\ turn'.phase = "hack"
  BY <1>1, <1>2 DEF Goes, Turn
<1>9. Quiet(turn'.phase, panda')
  BY <1>7, <1>8 DEF Quiet
<1>10. OnTheWay' = OnTheWay
  BY <1>4, <1>7, RestsAway
<1>11. q' = q
  BY <1>1 DEF OfHost
<1> QED BY <1>1, <1>8, <1>9, <1>10, <1>11, HolderFlows, NotFree

LEMMA PollHeaderFlow ==
  ASSUME TypeOK, Sound, Flowing, NEW t \in Threads, PollHeader(t), ~Hit
  PROVE  Sound' /\ Flowing'
<1> DEFINE next == In("data", panda.req)
<1>1. Poll(t, "hack", "ack", next, "HACK", "data")
  BY DEF PollHeader
<1>2. /\ turn.phase = "hack" /\ UNCHANGED host /\ OfHost /\ panda' \in After("ack", next)
  BY <1>1 DEF Poll, At
<1>3. /\ turn'.by = t /\ turn'.late = turn.late
      /\ \E byte \in FirstBytes :
           turn'.phase = IF byte = "HACK" THEN "data" ELSE IF byte = "NACK" THEN "fail" ELSE "hack"
  <2>1. "hack" \in Phases /\ "data" \in Phases
    BY DEF Phases
  <2> HIDE DEF next
  <2> QED BY <1>1, <2>1, PollHears
<1>4. panda.state \in {"header", "part", "received", "nack", "ack"} /\ panda \in Panda
  BY <1>2 DEF Sound, Quiet, TypeOK
<1>5. IF panda.state = "ack" THEN panda' = next ELSE panda' = panda \/ Resting(panda')
  BY <1>2, <1>4, AfterRests
<1>6. next.state = "data"
  BY DEF In
<1> HIDE DEF next
<1>7. panda'.state \notin {"answer", "read"} /\ Quiet(turn'.phase, panda')
  <2>1. CASE panda.state = "ack"
    <3>1. FirstBytes = {"HACK"}
      BY <2>1, Bytes
    <3>2. turn'.phase = "data"
      BY <1>3, <3>1
    <3> QED BY <1>5, <1>6, <2>1, <3>2 DEF Quiet
  <2>2. CASE panda.state = "nack"
    <3>1. FirstBytes = {"NACK"}
      BY <2>2, Bytes
    <3>2. turn'.phase = "fail"
      BY <1>3, <3>1
    <3>3. Resting(panda')
      BY <1>5, <2>2 DEF Resting
    <3> QED BY <3>2, <3>3 DEF Quiet, Resting
  <2>3. CASE panda.state \in {"header", "part", "received"}
    <3>1. FirstBytes = {"other"}
      BY <2>3, Bytes
    <3>2. turn'.phase = "hack"
      BY <1>3, <3>1
    <3>3. panda'.state \in {"header", "part", "received", "nack"}
      BY <1>5, <2>3 DEF Resting
    <3> QED BY <3>2, <3>3 DEF Quiet
  <2> QED BY <1>4, <2>1, <2>2, <2>3
<1>8. OnTheWay' = OnTheWay
  <2>1. panda.state \notin {"answer", "read"}
    BY <1>4
  <2> QED BY <1>7, <2>1, RestsAway
<1>9. q' = q
  BY <1>2 DEF OfHost
<1> QED BY <1>2, <1>3, <1>7, <1>8, <1>9, HolderFlows, NotFree

LEMMA SendDataFlow ==
  ASSUME TypeOK, LinkInv, AskInv, Sound, Flowing, NEW t \in Threads, SendData(t), ~Hit
  PROVE  Sound' /\ Flowing'
<1>1. /\ turn.by = t /\ turn.phase = "data" /\ Goes("dack") /\ UNCHANGED host /\ OfHost
      /\ panda' \in (IF Fits(t) THEN AfterLong("data", Data(t)) ELSE StrewnLong(panda))
  BY DEF SendData, At
<1>2. panda.state = "data"
  BY <1>1 DEF Sound, Quiet
<1>3. panda.req = th[t].req
  BY <1>1, <1>2, HolderAsks DEF Tracks
<1>4. Fits(t)
  BY <1>3 DEF Fits
<1>5. panda' = Data(t) /\ Data(t).state = "data received"
  BY <1>1, <1>2, <1>4, DataType DEF AfterLong
<1>6. turn'.by = t /\ turn'.late = turn.late /\ turn'.phase = "dack"
  BY <1>1 DEF Goes, Turn, TypeOK
<1>7. panda'.state = "data received"
  BY <1>5
<1>8. Quiet(turn'.phase, panda')
  BY <1>6, <1>7 DEF Quiet
<1>9. OnTheWay' = OnTheWay
  <2>1. panda.state \notin {"answer", "read"} /\ panda'.state \notin {"answer", "read"}
    BY <1>2, <1>7
  <2> QED BY <2>1, RestsAway
<1>10. q' = q
  BY <1>1 DEF OfHost
<1> QED BY <1>1, <1>6, <1>8, <1>9, <1>10, HolderFlows, NotFree

LEMMA PollDataFlow ==
  ASSUME TypeOK, Sound, Flowing, NEW t \in Threads, PollData(t), ~Hit
  PROVE  Sound' /\ Flowing'
<1> DEFINE next == [panda EXCEPT !.state = "read"]
<1>1. Poll(t, "dack", "answer", next, "DACK", "read")
  BY DEF PollData
<1>2. /\ turn.phase = "dack" /\ UNCHANGED host /\ OfHost /\ panda' \in After("answer", next)
  BY <1>1 DEF Poll, At
<1>3. /\ turn'.by = t /\ turn'.late = turn.late
      /\ \E byte \in FirstBytes :
           turn'.phase = IF byte = "DACK" THEN "read" ELSE IF byte = "NACK" THEN "fail" ELSE "dack"
  <2>1. "dack" \in Phases /\ "read" \in Phases
    BY DEF Phases
  <2> HIDE DEF next
  <2> QED BY <1>1, <2>1, PollHears
<1>4. panda.state \in {"data received", "answer", "nack"} /\ panda \in Panda
  BY <1>2 DEF Sound, Quiet, TypeOK
<1>5. next.state = "read" /\ next.req = panda.req /\ next.answer = panda.answer
  BY <1>4 DEF Panda
<1>6. IF panda.state = "answer" THEN panda' = next ELSE panda' = panda \/ Resting(panda')
  BY <1>2, <1>4, AfterRests
<1>7. IF panda.state = "answer" THEN panda' = next ELSE Strays(panda, panda')
  <2>1. panda' \in AfterLong("answer", next) \cup After("answer", next)
    BY <1>2
  <2> HIDE DEF next
  <2> QED BY <1>4, <2>1, AfterIs
<1> HIDE DEF next
<1>8. Quiet(turn'.phase, panda') /\ OnTheWay' = OnTheWay
  <2>1. CASE panda.state = "answer"
    <3>1. FirstBytes = {"DACK"}
      BY <2>1, Bytes
    <3>2. turn'.phase = "read"
      BY <1>3, <3>1
    <3>3. panda'.state = "read" /\ panda'.req = panda.req /\ panda'.answer = panda.answer
      BY <1>5, <1>6, <2>1
    <3>4. OnTheWay' = OnTheWay
      BY <2>1, <3>3 DEF OnTheWay
    <3> QED BY <3>2, <3>3, <3>4 DEF Quiet
  <2>2. CASE panda.state = "nack"
    <3>1. FirstBytes = {"NACK"}
      BY <2>2, Bytes
    <3>2. turn'.phase = "fail"
      BY <1>3, <3>1
    <3>3. Resting(panda')
      BY <1>6, <2>2 DEF Resting
    <3>4. panda.state \notin {"answer", "read"} /\ panda'.state \notin {"answer", "read"}
      BY <2>2, <3>3 DEF Resting
    <3> QED BY <3>2, <3>3, <3>4, RestsAway DEF Quiet
  <2>3. CASE panda.state = "data received"
    <3>1. FirstBytes = {"other"}
      BY <2>3, Bytes
    <3>2. turn'.phase = "dack"
      BY <1>3, <3>1
    <3>3. panda' = panda
      BY <1>7, <2>3 DEF Strays
    <3>4. OnTheWay' = OnTheWay
      BY <3>3 DEF OnTheWay
    <3> QED BY <2>3, <3>2, <3>3, <3>4 DEF Quiet
  <2> QED BY <1>4, <2>1, <2>2, <2>3
<1>9. q' = q
  BY <1>2 DEF OfHost
<1> QED BY <1>2, <1>3, <1>8, <1>9, HolderFlows, NotFree

LEMMA ReadAnswerFlow ==
  ASSUME TypeOK, LinkInv, AskInv, Sound, Flowing, NEW t \in Threads, ReadAnswer(t)
  PROVE  Sound' /\ Flowing'
<1>1. /\ turn.by = t /\ turn.phase = "read" /\ panda.state = "read"
      /\ turn' = FREE /\ panda' = READY /\ Done(t, panda.answer)
      /\ q' = q /\ buf' = buf /\ got' = got /\ healthy' = healthy
  BY ReadAnswerDoes
<1>2. /\ th[t].pc = "try" /\ th["main"].pc # "off" /\ panda.req = th[t].req
      /\ t = "send" => th[t].req.op = "write"
      /\ t = "main" => th[t].req.op \in {"reset", "read"}
  BY <1>1, HolderAsks DEF Tracks, Answering
<1>3. /\ FREE.late = FALSE /\ FREE.by = "free" /\ FREE.phase = "none" /\ IDLE.timeouts = 0
      /\ READY.state = "header"
  BY DEF FREE, IDLE, OFF, READY, In
<1>4. Quiet(turn'.phase, panda')
  BY <1>1, <1>3 DEF Quiet, Resting
<1>5. OnTheWay' = <<>>
  BY <1>1, <1>3 DEF OnTheWay
<1>6. \A u \in Threads : u # t => th'[u] = IF th[u].pc = "off" THEN IDLE ELSE th[u]
  BY <1>1 DEF Done
<1>7. OnTheWay = IF panda.req.op = "read" THEN panda.answer ELSE <<>>
  BY <1>1 DEF OnTheWay
<1>8. CASE t = "send"
  <2>1. th["send"].req.op = "write" /\ OnTheWay = <<>>
    BY <1>2, <1>7, <1>8
  <2>2. th'["send"] = IDLE
    BY <1>1, <1>8, <2>1 DEF Done
  <2>3. th'["main"] = th["main"]
    BY <1>2, <1>6, <1>8, FlowTypes
  <2>4. Resets' => q'.tail = <<>>
    BY <1>1, <2>3 DEF Sound, Resets
  <2>5. Sound'
    BY <1>1, <1>3, <1>4, <2>2, <2>4 DEF Sound
  <2> QED BY <1>1, <1>5, <2>1, <2>3, <2>5, StillFlowing
<1>9. CASE t = "main"
  <2>1. th'["send"].timeouts = 0
    <3>1. th'["send"] = IF th["send"].pc = "off" THEN IDLE ELSE th["send"]
      BY <1>6, <1>9, FlowTypes
    <3> QED BY <1>3, <3>1 DEF Sound
  <2>2. ~Resets'
    <3>1. th \in [Threads -> Thread] /\ Succeeds("main", panda.answer)
      BY <1>9, FlowTypes DEF ReadAnswer
    <3>2. /\ th'["main"] = IDLE \/ th'["main"].pc = "unpack"
             \/ (th'["main"].pc = "try" /\ th'["main"].req.op = "read")
      BY <3>1, SucceedsAsks
    <3> QED BY <3>2, ThreadTypes DEF Resets
  <2>3. Sound'
    BY <1>1, <1>3, <1>4, <2>1, <2>2 DEF Sound
  <2>4. CASE th["main"].req.op = "reset"
    <3>1. th["main"].data = <<>> /\ th'["main"] = IDLE /\ OnTheWay = <<>>
      BY <1>1, <1>2, <1>7, <1>9, <2>4 DEF AskInv, Done
    <3>2. th'["main"].data = th["main"].data
      BY <3>1, ThreadTypes
    <3> QED BY <1>1, <1>5, <2>3, <3>1, <3>2, StillFlowing
  <2>5. CASE th["main"].req.op = "read"
    <3>1. th'["main"].data = th["main"].data \o OnTheWay
      BY <1>1, <1>2, <1>7, <1>9, <2>5 DEF Done
    <3>2. PICK b \in Nat, c \in Nat, d \in Nat, e \in Nat : Flow(b, c, d, e)
      BY DEF Flowing
    <3>3. Run(th'["main"].data, b, d)
      BY <3>1, <3>2, FlowTypes, RunConcat DEF Flow
    <3>4. Run(OnTheWay', d, d)
      BY <1>5, RunEmpty
    <3>5. /\ Run(buf', 2 * Len(got'), b) /\ Run(q'.tail, d, e)
          /\ Run(Units(q'.rx), e, 2 * q'.queued) /\ Numbered'
      BY <1>1, <3>2 DEF Flow, Flowing, Numbered
    <3> QED BY <2>3, <3>3, <3>4, <3>5, MakeFlow
  <2> QED BY <1>2, <1>9, <2>4, <2>5
<1> QED BY <1>8, <1>9 DEF Threads

\* A failed attempt changes nothing of what pandad holds, as long as no answer was late.
LEMMA FailsFlow ==
  ASSUME TypeOK, Sound, Flowing, NEW t \in Threads, Fails(t)
  PROVE  Sound' /\ Flowing'
<1>1. /\ turn.by = t /\ turn.phase = "fail" /\ panda' \in StrewnLong(panda) /\ OfHost
  BY DEF Fails, At
<1>2. panda \in Panda /\ turn \in Turn /\ th \in [Threads -> Thread]
  BY DEF TypeOK
<1>3. Resting(panda)
  BY <1>1 DEF Sound, Quiet
<1>4. Resting(panda')
  <2>1. panda.state \in {"header", "part", "received", "nack", "data received"}
    BY <1>3 DEF Resting
  <2> QED BY <1>1, <1>2, <1>3, <2>1, StrewnRests
<1>5. /\ turn'.late = FALSE
      /\ \/ turn'.by = t /\ turn'.phase = "fail"
         \/ turn'.by = "free" /\ turn'.phase = "none"
  <2>1. turn' = FREE \/ \E n : turn' = [turn EXCEPT !.nacks = n]
    BY DEF Fails
  <2>2. FREE.late = FALSE /\ FREE.by = "free" /\ FREE.phase = "none"
    BY DEF FREE
  <2>3. turn.late = FALSE
    BY <1>2 DEF Sound, Turn
  <2>4. ASSUME NEW n, turn' = [turn EXCEPT !.nacks = n]
        PROVE  turn'.late = turn.late /\ turn'.by = turn.by /\ turn'.phase = turn.phase
    BY <1>2, <2>4 DEF Turn
  <2> QED BY <1>1, <2>1, <2>2, <2>3, <2>4
<1>6. /\ buf' = buf /\ got' = got /\ healthy' = healthy /\ \A u \in Threads : th'[u] = th[u]
  <2>1. CASE turn'.by = t
    <3>1. UNCHANGED host
      BY <2>1 DEF Fails
    <3> QED BY <3>1 DEF host
  <2>2. CASE turn'.by # t
    <3> DEFINE timed_out == t = "send" /\ th[t].timeouts > TIMEOUTS
               late == turn.late /\ t = "send"
               after == [th[t] EXCEPT !.timeouts = IF late THEN @ + 1 ELSE @]
               y == IF timed_out THEN IDLE ELSE after
    <3>1. /\ th' = [th EXCEPT ![t] = y] /\ healthy' = (healthy /\ ~timed_out)
          /\ buf' = buf /\ got' = got
      BY <2>2, Zenon DEF Fails
    <3>2. ~timed_out
      <4>1. t = "send" => th[t].timeouts = 0
        BY DEF Sound
      <4> QED BY <4>1, Slots
    <3>3. ~late
      BY DEF Sound
    <3>4. healthy' = healthy
      <4>1. healthy /\ healthy'
        BY <3>1, <3>2 DEF Sound
      <4>2. healthy \in BOOLEAN /\ healthy' \in BOOLEAN
        BY <3>1 DEF TypeOK
      <4> QED BY <4>1, <4>2
    <3> HIDE DEF timed_out, late
    <3>5. after = th[t]
      <4>1. after = [th[t] EXCEPT !.timeouts = th[t].timeouts]
        BY <3>3
      <4>2. th[t] \in Thread
        BY <1>2
      <4> HIDE DEF after
      <4> QED BY <4>1, <4>2 DEF Thread
    <3> HIDE DEF after
    <3>6. y = th[t]
      BY <3>2, <3>5
    <3> HIDE DEF y
    <3>7. \A u \in Threads : th'[u] = th[u]
      BY <1>2, <3>1, <3>6
    <3> QED BY <3>1, <3>4, <3>7
  <2> QED BY <2>1, <2>2
<1>7. th'["main"] = th["main"] /\ th'["send"] = th["send"]
  BY <1>6, FlowTypes
<1>8. OnTheWay' = OnTheWay
  <2>1. panda.state \notin {"answer", "read"} /\ panda'.state \notin {"answer", "read"}
    BY <1>3, <1>4 DEF Resting
  <2> QED BY <2>1, RestsAway
<1>9. q' = q
  BY <1>1 DEF OfHost
<1>10. Quiet(turn'.phase, panda')
  BY <1>4, <1>5 DEF Quiet
<1>11. turn'.by = "free" => turn'.phase = "none"
  BY <1>5, NotFree
<1>12. Resets' => q'.tail = <<>>
  BY <1>7, <1>9 DEF Sound, Resets
<1>13. Sound'
  BY <1>5, <1>6, <1>7, <1>10, <1>11, <1>12 DEF Sound
<1>14. Flowing'
  BY <1>6, <1>7, <1>8, <1>9, StillFlowing
<1> QED BY <1>13, <1>14

\* New frames come after the others.
LEMMA BusFlow ==
  ASSUME TypeOK, TypeOK', Sound, Flowing, Arrive \/ BusSends
  PROVE  Sound' /\ Flowing'
<1>1. q \in Queue /\ q' \in Queue
  BY DEF TypeOK
<1>2. panda' = panda /\ turn' = turn /\ UNCHANGED host
  BY DEF Arrive, BusSends
<1>3. Grows(q, q')
  <2>1. CASE Arrive
    <3> DEFINE forward == arrived' \in Forwarded
    <3>1. forward \in BOOLEAN /\ q' = can_rx(q, forward)
      BY <2>1 DEF Arrive
    <3> HIDE DEF forward
    <3> QED BY <1>1, <3>1, CanRxDoes
  <2>2. CASE BusSends
    <3>1. q.hw > 0 /\ q' = TxDone(q)
      BY <2>2 DEF BusSends
    <3> QED BY <1>1, <3>1, TxDoneDoes
  <2> QED BY <2>1, <2>2
<1>4. q'.tail = q.tail
  BY <1>3 DEF Grows
<1>5. Quiet(turn.phase, panda')
  BY <1>2 DEF Sound
<1>6. OnTheWay' = OnTheWay
  BY <1>2 DEF OnTheWay
<1>7. got' = got /\ buf' = buf /\ th' = th
  BY <1>2 DEF host
<1>8. Sound'
  BY <1>2, <1>4, <1>5, PandaSound
<1>9. Flowing'
  BY <1>1, <1>3, <1>6, <1>7, MoreFlowing
<1> QED BY <1>8, <1>9

LEMMA LockFlow ==
  ASSUME TypeOK, Sound, Flowing, NEW t \in Threads, Lock(t)
  PROVE  Sound' /\ Flowing'
<1>1. /\ turn.by = "free" /\ turn' = [FREE EXCEPT !.by = t, !.phase = "header"]
      /\ q' = q /\ panda' = panda /\ UNCHANGED host
  BY DEF Lock
<1>2. /\ turn'.late = FALSE /\ turn'.by = t /\ turn'.phase = "header"
  BY <1>1 DEF FREE
<1>3. turn.late = FALSE
  BY DEF Sound, TypeOK, Turn
<1>4. Quiet(turn'.phase, panda')
  <2>1. Resting(panda)
    BY <1>1 DEF Sound, Quiet
  <2> QED BY <1>1, <1>2, <2>1 DEF Quiet
<1>5. OnTheWay' = OnTheWay
  BY <1>1 DEF OnTheWay
<1> QED BY <1>1, <1>2, <1>3, <1>4, <1>5, HolderFlows, NotFree

\* A step of pandad that moves no units
LEMMA PandadFlow ==
  ASSUME Sound, Flowing, UNCHANGED <<q, panda, turn, buf, got, healthy>>,
         th'["main"].data = th["main"].data, th'["send"].timeouts = 0, Resets' => Resets
  PROVE  Sound' /\ Flowing'
<1>1. OnTheWay' = OnTheWay
  BY DEF OnTheWay
<1>2. Sound'
  BY DEF Sound
<1> QED BY <1>1, <1>2, StillFlowing

\* In order, two units make a frame, and one that is left over is a first one.
LEMMA FramesOfRun ==
  ASSUME NEW u \in Seq(Unit), NEW g \in Nat, NEW hi, Run(u, 2 * g, hi), NEW i \in Nat
  PROVE  /\ 2 * i + 1 <= Len(u) => u[2 * i + 1] = <<g + i + 1, 1>>
         /\ 2 * i + 2 <= Len(u) => u[2 * i + 2] = <<g + i + 1, 2>> /\ Whole(u, i + 1)
<1>1. Len(u) \in Nat /\ \A j \in 1..Len(u) : u[j] = Nth(2 * g + j)
  BY DEF Run
<1> DEFINE x == 2 * i + 1
           y == 2 * i + 2
<1>2. Nth(2 * g + x) = <<g + i + 1, 1>> /\ Nth(2 * g + y) = <<g + i + 1, 2>>
  <2>1. x \in Nat /\ y \in Nat
    OBVIOUS
  <2>2. /\ g + (x + 1) \div 2 = g + i + 1 /\ x % 2 = 1
        /\ g + (y + 1) \div 2 = g + i + 1 /\ y % 2 = 0
    OBVIOUS
  <2>3. /\ Nth(2 * g + x) = <<g + (x + 1) \div 2, IF x % 2 = 1 THEN 1 ELSE 2>>
        /\ Nth(2 * g + y) = <<g + (y + 1) \div 2, IF y % 2 = 1 THEN 1 ELSE 2>>
    <3> HIDE DEF x, y
    <3> QED BY <2>1, NthIs
  <2> HIDE DEF x, y
  <2> QED BY <2>2, <2>3
<1>3. x <= Len(u) => u[x] = <<g + i + 1, 1>>
  BY <1>1, <1>2
<1>4. y <= Len(u) => u[y] = <<g + i + 1, 2>>
  BY <1>1, <1>2
<1>5. ASSUME y <= Len(u) PROVE Whole(u, i + 1)
  <2>1. 2 * (i + 1) = y /\ 2 * (i + 1) - 1 = x /\ x <= Len(u)
    BY <1>1, <1>5
  <2>2. u[x] = <<g + i + 1, 1>> /\ u[y] = <<g + i + 1, 2>>
    BY <1>3, <1>4, <1>5, <2>1
  <2> HIDE DEF x, y
  <2> QED BY <1>5, <2>1, <2>2 DEF Whole
<1> QED BY <1>3, <1>4, <1>5

LEMMA UnpackFlow ==
  ASSUME TypeOK, AskInv, Sound, Flowing, Unpack
  PROVE  Sound' /\ Flowing'
<1>1. /\ th["main"].pc = "unpack" /\ UNCHANGED <<q, panda, turn, healthy>>
  BY DEF Unpack, OfPandad
<1>2. ASSUME th' = [th EXCEPT !["main"] = IDLE]
      PROVE  /\ th'["main"].data = <<>> /\ th'["send"].timeouts = 0 /\ ~Resets' /\ Sound'
             /\ OnTheWay' = OnTheWay
  <2>1. th'["main"] = IDLE /\ th'["send"] = th["send"]
    BY <1>2, FlowTypes
  <2>2. th'["main"].data = <<>> /\ ~Resets' /\ th'["send"].timeouts = 0
    BY <2>1, ThreadTypes DEF Sound, Resets
  <2>3. Sound'
    BY <1>1, <2>2 DEF Sound
  <2>4. OnTheWay' = OnTheWay
    BY <1>1 DEF OnTheWay
  <2> QED BY <2>2, <2>3, <2>4
<1>3. CASE ~(healthy /\ th["main"].data # <<>>)
  <2>1. th' = [th EXCEPT !["main"] = IDLE] /\ buf' = buf /\ got' = got
    BY <1>3 DEF Unpack
  <2>2. th["main"].data = <<>>
    BY <1>3 DEF Sound
  <2>3. th'["main"].data = th["main"].data
    BY <1>2, <2>1, <2>2
  <2> QED BY <1>1, <1>2, <2>1, <2>3, StillFlowing
<1>4. CASE healthy /\ th["main"].data # <<>>
  <2> DEFINE u == buf \o th["main"].data
             Stop(k) == (\A i \in 1..k : Whole(u, i)) /\ ~Whole(u, k + 1)
             n == CHOOSE k \in 0..Len(u) : Stop(k)
             rest == SubSeq(u, 2 * n + 1, Len(u))
             new == [i \in 1..n |-> <<u[2 * i - 1][1], u[2 * i][1]>>]
             g == Len(got)
  <2>1. unpack_can_buffer
    BY <1>4 DEF Unpack
  <2>2. /\ got' = got \o new
        /\ \/ buf' = rest /\ th' = [th EXCEPT !["main"] = IDLE]
           \/ rest # <<>> /\ (Len(rest) = 1 => rest[1][2] = 2)
    BY <2>1, Zenon DEF unpack_can_buffer
  <2>3. PICK b \in Nat, c \in Nat, d \in Nat, e \in Nat : Flow(b, c, d, e)
    BY DEF Flowing
  <2>4. u \in Seq(Unit) /\ Run(u, 2 * g, c) /\ g \in Nat /\ got \in Seq(Nat \X Nat)
    <3>1. got \in Seq(Nat \X Nat) /\ g \in Nat
      BY FlowTypes
    <3>2. Run(buf, 2 * g, b) /\ Run(th["main"].data, b, c)
      BY <2>3 DEF Flow
    <3> HIDE DEF g
    <3>3. 2 * g \in Nat /\ buf \in Seq(Unit) /\ th["main"].data \in Seq(Unit)
      BY <3>1, FlowTypes
    <3>4. u \in Seq(Unit) /\ Run(u, 2 * g, c)
      BY <3>2, <3>3, RunConcat
    <3> QED BY <3>1, <3>4
  <2> HIDE DEF u
  <2>5. n \in 0..Len(u) /\ Stop(n)
    <3>1. \E k \in 0..Len(u) : Stop(k)
      BY <2>4, WholeEnds
    <3> QED BY <3>1, Zenon
  <2> HIDE DEF n
  <2>6. n \in Nat /\ Len(u) \in Nat /\ ~Whole(u, n + 1) /\ \A i \in 1..n : Whole(u, i)
    BY <2>4, <2>5
  <2>7. 2 * n <= Len(u)
    <3>1. CASE n # 0
      <4>1. n \in 1..n
        BY <2>6, <3>1
      <4> QED BY <2>6, <4>1 DEF Whole
    <3> QED BY <2>6, <3>1
  <2> HIDE DEF g
  <2>8. ~(2 * n + 2 <= Len(u)) /\ (2 * n + 1 <= Len(u) => u[2 * n + 1] = <<g + n + 1, 1>>)
    BY <2>4, <2>6, FramesOfRun
  <2>9. 2 * n \in 0..Len(u) /\ Len(u) \in 2 * n..Len(u)
    BY <2>6, <2>7
  <2>10. rest \in Seq(Unit) /\ Run(rest, 2 * g + 2 * n, 2 * g + Len(u))
    BY <2>4, <2>9, RunPart
  <2>11. buf' = rest /\ th' = [th EXCEPT !["main"] = IDLE]
    <3>1. CASE 2 * n = Len(u)
      <4>1. Len(rest) = 0
        BY <2>4, <2>6, <2>10, <3>1 DEF Run
      <4>2. rest = <<>>
        <5> HIDE DEF rest
        <5> QED BY <2>10, <4>1
      <4> QED BY <2>2, <4>2
    <3>2. CASE 2 * n + 1 = Len(u)
      <4>1. Len(rest) = 1 /\ rest[1] = u[2 * n + 1]
        <5> DEFINE m == 2 * n + 1
                   l == Len(u)
        <5>1. m \in Nat /\ l \in Nat /\ m >= 1 /\ l <= Len(u) /\ m = l /\ l - m + 1 = 1 /\ m + 1 - 1 = m
          BY <2>6, <3>2
        <5> HIDE DEF m, l
        <5>2. /\ Len(SubSeq(u, m, l)) = (IF m <= l THEN l - m + 1 ELSE 0)
              /\ \A i \in 1..l - m + 1 : SubSeq(u, m, l)[i] = u[m + i - 1]
          BY <2>4, <5>1, SubSeqType
        <5>3. Len(SubSeq(u, m, l)) = 1 /\ SubSeq(u, m, l)[1] = u[m]
          BY <5>1, <5>2
        <5> QED BY <5>3 DEF m, l
      <4>2. u[2 * n + 1][2] = 1
        <5>1. 2 * n + 1 <= Len(u)
          BY <2>6, <3>2
        <5>2. u[2 * n + 1] = <<g + n + 1, 1>>
          BY <2>8, <5>1
        <5> QED BY <5>2
      <4>3. Len(rest) = 1 /\ rest[1][2] = 1
        BY <4>1, <4>2
      <4> HIDE DEF rest
      <4> QED BY <2>2, <4>3
    <3> QED BY <2>6, <2>7, <2>8, <3>1, <3>2
  <2>12. /\ th'["main"].data = <<>> /\ Sound' /\ OnTheWay' = OnTheWay
    BY <1>2, <2>11
  <2>13. ASSUME NEW i \in 1..n PROVE new[i] = <<g + i, g + i>> /\ new[i] \in Nat \X Nat
    <3> DEFINE j == i - 1
    <3>1. j \in Nat /\ 2 * j + 2 <= Len(u) /\ 2 * j + 1 <= Len(u) /\ 2 * i - 1 = 2 * j + 1 /\ 2 * i = 2 * j + 2
          /\ g + j + 1 = g + i /\ g + i \in Nat
      BY <2>4, <2>6, <2>7
    <3> HIDE DEF j
    <3>2. u[2 * j + 1] = <<g + j + 1, 1>> /\ u[2 * j + 2] = <<g + j + 1, 2>>
      BY <2>4, <3>1, FramesOfRun
    <3>3. u[2 * i - 1] = <<g + i, 1>> /\ u[2 * i] = <<g + i, 2>>
      BY <3>1, <3>2
    <3>4. new[i] = <<u[2 * i - 1][1], u[2 * i][1]>>
      OBVIOUS
    <3> HIDE DEF new
    <3>5. new[i] = <<g + i, g + i>>
      BY <3>3, <3>4
    <3> QED BY <3>1, <3>5
  <2>14. new \in Seq(Nat \X Nat) /\ Len(new) = n
    <3>1. new = [i \in 1..n |-> new[i]]
      OBVIOUS
    <3> HIDE DEF new
    <3>2. new \in [1..n -> Nat \X Nat]
      BY <2>13, <3>1
    <3> QED BY <2>6, <3>2
  <2> HIDE DEF new, rest
  <2>15. Len(got) = g
    BY DEF g
  <2>16. /\ Len(got') = g + n
         /\ \A i \in 1..g + n : got'[i] = IF i <= g THEN got[i] ELSE new[i - g]
    BY <2>2, <2>4, <2>14, <2>15, ConcatProperties
  <2>17. Numbered'
    <3> SUFFICES ASSUME NEW i \in 1..g + n PROVE got'[i][1] = i
      BY <2>16 DEF Numbered
    <3>1. CASE i <= g
      <4>1. i \in 1..g /\ got'[i] = got[i]
        BY <2>4, <2>16, <3>1
      <4> QED BY <2>15, <4>1 DEF Flowing, Numbered
    <3>2. CASE ~(i <= g)
      <4>1. i - g \in 1..n /\ g + (i - g) = i /\ got'[i] = new[i - g]
        BY <2>4, <2>6, <2>16, <3>2
      <4>2. new[i - g] = <<g + (i - g), g + (i - g)>>
        BY <2>13, <4>1
      <4> QED BY <4>1, <4>2
    <3> QED BY <3>1, <3>2
  <2>18. 2 * g + Len(u) = c /\ 2 * g + 2 * n = 2 * Len(got')
    <3>1. c = 2 * g + Len(u)
      BY <2>4 DEF Run
    <3>2. 2 * g + 2 * n = 2 * (g + n)
      BY <2>4, <2>6
    <3> QED BY <2>16, <3>1, <3>2
  <2>19. Run(buf', 2 * Len(got'), c)
    BY <2>10, <2>11, <2>18
  <2>20. Run(th'["main"].data, c, c)
    BY <2>12, RunEmpty
  <2>21. Run(OnTheWay', c, d) /\ Run(q'.tail, d, e) /\ Run(Units(q'.rx), e, 2 * q'.queued)
    BY <1>1, <2>3, <2>12 DEF Flow
  <2> QED BY <2>12, <2>17, <2>19, <2>20, <2>21, MakeFlow
<1> QED BY <1>3, <1>4

\* As long as there is no fault, every step takes the units on.
LEMMA FlowStep == TypeOK /\ LinkInv /\ AskInv /\ FlowInv /\ [Next]_vars => FlowInv'
<1> SUFFICES ASSUME TypeOK, LinkInv, AskInv, FlowInv, [Next]_vars, faults' = 0
             PROVE  Sound' /\ Flowing'
  BY DEF FlowInv
<1>1. TypeOK' /\ "main" \in Threads /\ "send" \in Threads
  BY TypeStep DEF Threads
<1>2. ~Hit /\ faults = 0
  <2>1. faults \in Nat
    BY FaultsAre
  <2>2. Hit => faults' = faults + 1
    BY DEF Hit
  <2>3. ~Hit
    BY <2>1, <2>2
  <2>4. faults' = faults
    BY <2>3, FaultsGrow
  <2> QED BY <2>3, <2>4
<1>3. Sound /\ Flowing
  BY <1>2 DEF FlowInv
<1>4. ASSUME NEW x \in Thread, NEW t \in Threads, th' = [th EXCEPT ![t] = x],
             UNCHANGED <<q, panda, turn, buf, got, healthy>>,
             IF t = "main" THEN x.data = th["main"].data /\ (Resets' => Resets)
             ELSE x.timeouts = 0
      PROVE  Sound' /\ Flowing'
  <2>1. th'[t] = x /\ \A v \in Threads : v # t => th'[v] = th[v]
    BY <1>4, FlowTypes
  <2>2. CASE t = "main"
    <3>1. th'["main"].data = th["main"].data /\ th'["send"] = th["send"]
      BY <1>1, <1>4, <2>1, <2>2
    <3>2. th'["send"].timeouts = 0
      BY <1>3, <3>1 DEF Sound
    <3> QED BY <1>3, <1>4, <2>2, <3>1, <3>2, PandadFlow
  <2>3. CASE t # "main"
    <3>1. t = "send"
      BY <2>3 DEF Threads
    <3>2. th'["main"] = th["main"] /\ th'["send"].timeouts = 0
      BY <1>1, <1>4, <2>1, <2>3, <3>1
    <3>3. Resets' => Resets
      BY <3>2 DEF Resets
    <3> QED BY <1>3, <1>4, <3>2, <3>3, PandadFlow
  <2> QED BY <2>2, <2>3
<1>5. CASE Irq
  BY <1>1, <1>3, <1>5, IrqFlow
<1>6. CASE Arrive \/ BusSends
  BY <1>1, <1>3, <1>6, BusFlow
<1>7. ASSUME NEW t \in Threads, Lock(t) PROVE Sound' /\ Flowing'
  BY <1>3, <1>7, LockFlow
<1>8. ASSUME NEW t \in Threads, Burst(t) PROVE Sound' /\ Flowing'
  <2>1. CASE SendHeader(t)
    BY <1>2, <1>3, <2>1, SendHeaderFlow
  <2>2. CASE PollHeader(t)
    BY <1>2, <1>3, <2>2, PollHeaderFlow
  <2>3. CASE SendData(t)
    BY <1>2, <1>3, <2>3, SendDataFlow
  <2>4. CASE PollData(t)
    BY <1>2, <1>3, <2>4, PollDataFlow
  <2>5. CASE ReadAnswer(t)
    BY <1>3, <2>5, ReadAnswerFlow
  <2>6. CASE BadAnswer(t)
    <3>1. turn.phase = "read" /\ (panda.state = "read" => Hit)
      BY <2>6 DEF BadAnswer, Bad, At
    <3> QED BY <1>2, <1>3, <3>1 DEF Sound, Quiet
  <2>7. CASE Fails(t)
    BY <1>3, <2>7, FailsFlow
  <2> QED BY <1>8, <2>1, <2>2, <2>3, <2>4, <2>5, <2>6, <2>7 DEF Burst
<1>9. ASSUME NEW t \in Threads, Timeout(t) PROVE Sound' /\ Flowing'
  BY <1>2, <1>9 DEF Timeout
<1>10. CASE Connect
  <2>1. /\ th["main"].pc = "off" /\ th' = [th EXCEPT !["main"] = Trying(RESET)]
        /\ UNCHANGED <<q, panda, turn, buf, got, healthy>>
    BY <1>10 DEF Connect, OfPandad
  <2>2. Trying(RESET) \in Thread /\ Trying(RESET).data = <<>> /\ th["main"].data = <<>>
    BY <2>1, Requests, ThreadTypes DEF AskInv
  <2>3. Resets
    BY <2>1 DEF Resets
  <2>4. Trying(RESET).data = th["main"].data
    BY <2>2
  <2> QED BY <1>1, <1>4, <2>1, <2>2, <2>3, <2>4
<1>11. CASE can_receive
  <2>1. /\ th["main"].pc = "idle" /\ th' = [th EXCEPT !["main"] = Trying(Read(RECV))]
        /\ UNCHANGED <<q, panda, turn, buf, got, healthy>>
    BY <1>11 DEF can_receive, OfPandad
  <2>2. /\ Trying(Read(RECV)) \in Thread /\ Trying(Read(RECV)).data = <<>>
        /\ Trying(Read(RECV)).pc = "try" /\ Trying(Read(RECV)).req.op = "read"
    BY Slots, Requests, ThreadTypes, Asks
  <2>3. th["main"].data = <<>>
    BY <2>1 DEF AskInv
  <2>4. th'["main"] = Trying(Read(RECV))
    BY <1>1, <2>1, FlowTypes
  <2>5. ~Resets'
    BY <2>2, <2>4 DEF Resets
  <2>6. Trying(Read(RECV)).data = th["main"].data
    BY <2>2, <2>3
  <2> QED BY <1>1, <1>4, <2>1, <2>2, <2>5, <2>6
<1>12. CASE can_send_thread
  <2>1. /\ th' = [th EXCEPT !["send"] = Trying(Write(Batches[writes']))]
        /\ UNCHANGED <<q, panda, turn, buf, got, healthy>>
    BY <1>12 DEF can_send_thread, OfPandad
  <2>2. Trying(Write(Batches[writes'])) \in Thread
    <3>1. th'["send"] \in Thread
      BY <1>1 DEF TypeOK
    <3>2. th'["send"] = Trying(Write(Batches[writes']))
      BY <1>1, <2>1, FlowTypes
    <3> QED BY <3>1, <3>2
  <2>3. Trying(Write(Batches[writes'])).timeouts = 0
    BY DEF Trying, OFF
  <2>4. "send" # "main"
    OBVIOUS
  <2> QED BY <1>1, <1>4, <2>1, <2>2, <2>3, <2>4
<1>13. CASE Unpack
  BY <1>3, <1>13, UnpackFlow
<1>14. CASE Crash
  BY <1>2, <1>14 DEF Crash
<1>15. CASE Reconnect
  BY <1>3, <1>15 DEF Reconnect, Sound
<1>16. CASE UNCHANGED vars
  <2>1. UNCHANGED <<q, panda, turn, buf, got, healthy, th>>
    BY <1>16 DEF vars, host
  <2>2. th'["send"].timeouts = 0 /\ (Resets' => Resets)
    BY <1>3, <2>1 DEF Sound, Resets
  <2> QED BY <1>3, <2>1, <2>2, PandadFlow
<1> QED BY <1>5, <1>6, <1>7, <1>8, <1>9, <1>10, <1>11, <1>12, <1>13, <1>14, <1>15, <1>16
     DEF Next, Pandad

LEMMA FlowAtFirst == Init => FlowInv
<1> SUFFICES ASSUME Init PROVE Sound /\ Flowing
  BY DEF FlowInv
<1>1. /\ got = <<>> /\ buf = <<>> /\ q.tail = <<>> /\ q.rx = <<>> /\ q.queued = 0
      /\ panda = READY /\ turn = FREE /\ healthy = TRUE
  BY DEF Init, Queues
<1>2. th["main"] = OFF /\ th["send"] = OFF
  BY DEF Init, Threads
<1>3. /\ OFF.data = <<>> /\ OFF.timeouts = 0 /\ READY.state = "header"
      /\ FREE.late = FALSE /\ FREE.by = "free" /\ FREE.phase = "none"
  BY DEF OFF, READY, In, FREE
<1>4. Sound
  BY <1>1, <1>2, <1>3 DEF Sound, Quiet, Resting
<1>5. OnTheWay = <<>>
  BY <1>1, <1>3 DEF OnTheWay
<1>6. Len(got) = 0 /\ 2 * Len(got) = 0 /\ 2 * q.queued = 0
  BY <1>1
<1>7. Units(q.rx) = <<>>
  <2>1. q.rx \in Seq(Nat) /\ Len(q.rx) = 0
    BY <1>1
  <2>2. Units(q.rx) \in Seq(Unit) /\ Len(Units(q.rx)) = 0
    BY <2>1, UnitsAre
  <2> QED BY <2>2
<1>8. Run(<<>>, 0, 0)
  BY RunEmpty
<1>9. Flow(0, 0, 0, 0)
  BY <1>1, <1>2, <1>3, <1>5, <1>6, <1>7, <1>8 DEF Flow
<1>10. Numbered
  BY <1>6 DEF Numbered
<1> QED BY <1>4, <1>9, <1>10 DEF Flowing

LEMMA FlowingIsAll == TypeOK /\ FlowInv => NothingLost
<1> SUFFICES ASSUME TypeOK, FlowInv, faults = 0
             PROVE  Units([i \in 1..q.queued |-> i]) =
                      Units([i \in 1..Len(got) |-> got[i][1]]) \o buf \o th["main"].data
                        \o OnTheWay \o q.tail \o Units(q.rx)
  BY DEF NothingLost
<1> DEFINE all == [i \in 1..q.queued |-> i]
           out == [i \in 1..Len(got) |-> got[i][1]]
           n == q.queued
           m == Len(got)
<1>1. PICK b \in Nat, c \in Nat, d \in Nat, e \in Nat : Flow(b, c, d, e) /\ Numbered
  BY DEF FlowInv, Flowing
<1>2. n \in Nat /\ m \in Nat
  BY FlowTypes
<1>3. all \in Seq(Nat) /\ Len(all) = n /\ \A i \in 1..n : all[i] = i
  <2> HIDE DEF n
  <2>1. all = [i \in 1..n |-> i]
    BY DEF n
  <2> HIDE DEF all
  <2> QED BY <1>2, <2>1
<1>4. out \in Seq(Nat) /\ Len(out) = m /\ \A i \in 1..m : out[i] = i
  <2>1. \A i \in 1..m : out[i] = i
    BY <1>1 DEF Numbered
  <2>2. out = [i \in 1..m |-> out[i]]
    OBVIOUS
  <2> HIDE DEF out, m
  <2>3. out \in [1..m -> Nat]
    BY <1>2, <2>1, <2>2
  <2> QED BY <1>2, <2>1, <2>3
<1>5. /\ Run(buf, 2 * m, b) /\ Run(th["main"].data, b, c) /\ Run(OnTheWay, c, d)
      /\ Run(q.tail, d, e) /\ Run(Units(q.rx), e, 2 * n)
  BY <1>1 DEF Flow
<1> HIDE DEF all, out, n, m
<1>6. /\ Units(all) \in Seq(Unit) /\ Run(Units(all), 0, 2 * n)
      /\ Units(out) \in Seq(Unit) /\ Run(Units(out), 0, 2 * m)
  BY <1>2, <1>3, <1>4, RunOfNumbers
<1> DEFINE s1 == Units(out) \o buf
           s2 == s1 \o th["main"].data
           s3 == s2 \o OnTheWay
           s4 == s3 \o q.tail
           s5 == s4 \o Units(q.rx)
<1>7. s1 \in Seq(Unit) /\ Run(s1, 0, b)
  BY <1>5, <1>6, FlowTypes, RunConcat
<1> HIDE DEF s1
<1>8. s2 \in Seq(Unit) /\ Run(s2, 0, c)
  BY <1>5, <1>7, FlowTypes, RunConcat
<1> HIDE DEF s2
<1>9. s3 \in Seq(Unit) /\ Run(s3, 0, d)
  BY <1>5, <1>8, FlowTypes, RunConcat
<1> HIDE DEF s3
<1>10. s4 \in Seq(Unit) /\ Run(s4, 0, e)
  BY <1>5, <1>9, FlowTypes, RunConcat
<1> HIDE DEF s4
<1>11. s5 \in Seq(Unit) /\ Run(s5, 0, 2 * n)
  BY <1>5, <1>10, FlowTypes, RunConcat
<1> HIDE DEF s5
<1>12. Units(all) = s5
  BY <1>6, <1>11, RunSame
<1> QED BY <1>12 DEF s5, s4, s3, s2, s1, all, out

\* As long as nothing is damaged, late or restarted, no frame that the panda has queued is
\* lost, doubled or overtaken on its way through can_rx_q, can_read_buffer, the answer,
\* the data of a bulk transfer and receive_buffer, wherever transfers cut frames in two and
\* however often writes are refused.
THEOREM NoFrameIsLost == Spec => []NothingLost
<1>1. TypeOK /\ LinkInv /\ AskInv /\ FlowInv /\ [Next]_vars
      => (TypeOK /\ LinkInv /\ AskInv /\ FlowInv)'
  BY TypeStep, LinkStep, AskStep, FlowStep
<1>2. Init => TypeOK /\ LinkInv /\ AskInv /\ FlowInv
  BY InitTypes, LinkAtFirst, AskAtFirst, FlowAtFirst
<1> QED BY <1>1, <1>2, FlowingIsAll, PTL DEF Spec
==============================================================================
