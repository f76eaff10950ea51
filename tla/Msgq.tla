------------------------------- MODULE Msgq -------------------------------
(***************************************************************************)
(* The shared-memory queue of msgq.cc. Every load and store of the shared  *)
(* memory is a step of its own, in the order of the code; a step may do    *)
(* thread-local work as well. The atomics are sequentially consistent and  *)
(* memcpy copies word by word.                                             *)
(*                                                                         *)
(* The buffer is an array of SIZE 8-byte words: a size tag, the wrap tag,  *)
(* or a word of the data of a message. A message of n words takes n + 1.   *)
(* Cursors are records of a cycle and a position, which the code packs     *)
(* into 64 bits. A uid is its process: a subscriber draws a new one each   *)
(* time it connects, but is never in two slots.                            *)
(*                                                                         *)
(* msgq_msg_ready is msgq_msg_recv up to the comparison of the cursors, and*)
(* msgq_poll repeats it; the signals only shorten its sleep, which ends    *)
(* after 100 ms or the caller's timeout anyway. Both are left out.         *)
(*                                                                         *)
(* The queue is not safe in three windows, and Overlap, Overrun and Rivals *)
(* say whether the model opens them. Overlap: num_readers is set to zero,  *)
(* by a publisher that starts or a subscriber that evicts, while a         *)
(* subscriber is in a call and goes on to use its slot; or a publisher dies*)
(* between that and clearing the slots. Overrun: a reset stops between     *)
(* loading the write pointer and storing it, and the publisher overwrites  *)
(* that position. Rivals: a publisher starts while another is starting or  *)
(* sending, which looks at write_uid only before a message: both write at  *)
(* one position, and the slower moves the write pointer back.              *)
(***************************************************************************)
EXTENDS Integers, Sequences

CONSTANTS Readers,
          Publishers,     \* numbers, in the order they start
          Queues,
          Overlap,        \* whether the slots may change hands during other readers' calls
          Overrun,        \* whether a reset may be stalled for a whole lap of the buffer
          Rivals          \* whether two publishers may be at work at once

VARIABLES queue,          \* what does not change: what the queue is like, and who uses it
          mem, write_pointer, write_uid, num_readers,
          slots,          \* read_pointers, read_valids and read_uids
          pub, rd,        \* local state of the processes
          count           \* messages whose sending began
header == <<write_uid, num_readers, slots>>
shared == <<queue, mem, write_pointer, header>>
OnlySlots == UNCHANGED <<queue, mem, write_pointer, write_uid, num_readers, count>>
vars == <<shared, pub, rd, count>>

NUM_READERS == queue.num_readers      \* slots for subscribers
SIZE        == queue.size             \* words of the buffer
Sizes       == queue.sizes            \* words of a message
MAX_MSGS    == queue.max_msgs         \* bound: messages sent

Slots == 0..NUM_READERS - 1
NOBODY == 0                    \* uid 0

ASSUME MsgqConstants ==
  /\ \A q \in Queues :
       /\ q.num_readers \in Nat \ {0} /\ q.size \in Nat \ {0} /\ q.max_msgs \in Nat
       /\ q.sizes \subseteq Nat \ {0}
       /\ \A n \in q.sizes : 3 * (n + 1) <= q.size      \* asserted by msgq_msg_send
       /\ q.readers \subseteq Readers /\ q.publishers \subseteq Publishers
  /\ {Overlap, Overrun, Rivals} \subseteq BOOLEAN
  /\ Publishers \subseteq Nat
  /\ NOBODY \notin Readers \cup Publishers

SizeTag(n) == <<"size", n>>
WrapTag    == <<"size", -1>>
Data(id, n) == <<"data", id, n>>
Cursor(c, p) == [c |-> c, p |-> p]

---------------------------------------------------------------------------
(* The publisher *)
NoPub == [pc |-> "off", i |-> 0, num |-> 0, n |-> 0, id |-> 0, at |-> Cursor(0, 0)]
PubAt(p, pc) == pub[p].pc = pc
PubGoes(p, pc) == pub' = [pub EXCEPT ![p].pc = pc]
PubRests(p, pc) == pub' = [pub EXCEPT ![p] = [NoPub EXCEPT !.pc = pc]]
PubLoops(p, pc) == pub' = [pub EXCEPT ![p].pc = pc, ![p].i = 0]
PubNextSlot(p, pc) == pub' = [pub EXCEPT ![p].pc = pc, ![p].i = @ + 1]

\* Whether num_readers may be reset, and whether a subscriber may begin a call.
Changing(pc) == pc \in {"forgetValid", "forgetUid", "evictValid", "evictUid"}
MidCall(r) == rd[r].pc \notin {"off", "idle", "claim"}
SlotsMayChange == Overlap \/ \A r \in Readers : ~MidCall(r)
SlotsSettled ==
  Overlap \/ /\ \A p \in Publishers : ~Changing(pub[p].pc)
             /\ \A r \in Readers : ~Changing(rd[r].pc)

\* msgq_init_publisher, which looks at nobody: unless Rivals, the others have died, or are
\* between two messages.
TakeOver(p) ==
  /\ PubAt(p, "off") /\ p \in queue.publishers
  /\ \A q \in Publishers : PubAt(q, "off") => q >= p
  /\ Rivals \/ \A q \in Publishers : pub[q].pc \in {"off", "idle", "dead"}
  /\ write_uid' = p
  /\ PubGoes(p, "forgetReaders")
  /\ UNCHANGED <<queue, mem, write_pointer, num_readers, slots, rd, count>>

ForgetReaders(p) ==
  /\ PubAt(p, "forgetReaders") /\ SlotsMayChange
  /\ num_readers' = 0
  /\ PubLoops(p, "forgetValid")
  /\ UNCHANGED <<queue, mem, write_pointer, write_uid, slots, rd, count>>

ForgetValid(p) ==
  /\ PubAt(p, "forgetValid")
  /\ slots' = [slots EXCEPT ![pub[p].i].valid = FALSE]
  /\ PubGoes(p, "forgetUid")
  /\ OnlySlots /\ UNCHANGED rd

ForgetUid(p) ==
  /\ PubAt(p, "forgetUid")
  /\ slots' = [slots EXCEPT ![pub[p].i].uid = NOBODY]
  /\ IF pub[p].i + 1 \in Slots THEN PubNextSlot(p, "forgetValid") ELSE PubRests(p, "idle")
  /\ OnlySlots /\ UNCHANGED rd

\* A publisher that dies between two messages is one that sends no more.
PubCrash(p) ==
  /\ pub[p].pc \notin {"off", "idle", "dead"} /\ (Overlap \/ ~Changing(pub[p].pc))
  /\ \E q \in queue.publishers : PubAt(q, "off")      \* bound: as many crashes as successors
  /\ PubRests(p, "dead")
  /\ UNCHANGED <<shared, rd, count>>

\* msgq_msg_send
CheckUid(p, n) ==
  /\ PubAt(p, "idle") /\ count < MAX_MSGS
  /\ IF write_uid = p
     THEN /\ pub' = [pub EXCEPT ![p].pc = "look", ![p].n = n, ![p].id = count + 1]
          /\ count' = count + 1
     ELSE PubRests(p, "dead") /\ UNCHANGED count
  /\ UNCHANGED <<shared, rd>>

\* No reset has loaded a position that this message overwrites in a later cycle.
MayWrite(p, at) ==
  Overrun \/ \A r \in Readers :
    rd[r].pc = "resetStore" /\ rd[r].to.c < at.c => rd[r].to.p >= at.p + pub[p].n + 1

NeedsWrapLate(p) == SIZE - write_pointer.p - (pub[p].n + 1) < 0

\* "Always leave space for a wraparound tag for the next message"
NeedsWrap(p) == SIZE - write_pointer.p - (pub[p].n + 1) - 1 <= 0

\* From here on the publisher goes by its copy of the write pointer.
Look(p) ==
  /\ PubAt(p, "look") /\ (NeedsWrap(p) \/ MayWrite(p, write_pointer))
  /\ pub' = [pub EXCEPT ![p].num = num_readers, ![p].at = write_pointer, ![p].i = 0,
                        ![p].pc = IF NeedsWrap(p) THEN "tag" ELSE "overlap"]
  /\ UNCHANGED <<shared, rd, count>>

WriteWrapTag(p) ==
  /\ PubAt(p, "tag")
  /\ mem' = [mem EXCEPT ![pub[p].at.p] = WrapTag]
  /\ PubGoes(p, "beyond")
  /\ UNCHANGED <<queue, write_pointer, header, rd, count>>

MoreSlots(p) == pub[p].i < pub[p].num

HitsBeyond(p) ==
  LET at == slots[pub[p].i].pointer IN at.p > pub[p].at.p /\ at.c # pub[p].at.c
HitsOverlap(p) ==
  LET at == slots[pub[p].i].pointer
  IN  /\ at.p >= pub[p].at.p /\ at.p < pub[p].at.p + pub[p].n + 1
      /\ at.c # pub[p].at.c

\* Loads a read pointer, and stores the flag in the next step if it is hit.
LookAtReader(p) ==
  /\ MoreSlots(p)
  /\ \/ PubAt(p, "beyond") /\ IF HitsBeyond(p) THEN PubGoes(p, "dropBeyond")
                              ELSE PubNextSlot(p, "beyond")
     \/ PubAt(p, "overlap") /\ IF HitsOverlap(p) THEN PubGoes(p, "dropOverlap")
                               ELSE PubNextSlot(p, "overlap")
  /\ UNCHANGED <<shared, rd, count>>

DropReader(p) ==
  /\ \/ PubAt(p, "dropBeyond") /\ PubNextSlot(p, "beyond")
     \/ PubAt(p, "dropOverlap") /\ PubNextSlot(p, "overlap")
  /\ slots' = [slots EXCEPT ![pub[p].i].valid = FALSE]
  /\ OnlySlots /\ UNCHANGED rd

NextLap(p) == Cursor(pub[p].at.c + 1, 0)
WrapAround(p) ==
  /\ PubAt(p, "beyond") /\ ~MoreSlots(p) /\ MayWrite(p, NextLap(p))
  /\ write_pointer' = NextLap(p)
  /\ pub' = [pub EXCEPT ![p].pc = "overlap", ![p].i = 0, ![p].at = NextLap(p)]
  /\ UNCHANGED <<queue, mem, header, rd, count>>

WriteSize(p) ==
  /\ PubAt(p, "overlap") /\ ~MoreSlots(p)
  /\ mem' = [mem EXCEPT ![pub[p].at.p] = SizeTag(pub[p].n)]
  /\ pub' = [pub EXCEPT ![p].pc = "data", ![p].i = 1]
  /\ UNCHANGED <<queue, write_pointer, header, rd, count>>

WriteData(p) ==
  /\ PubAt(p, "data")
  /\ mem' = [mem EXCEPT ![pub[p].at.p + pub[p].i] = Data(pub[p].id, pub[p].n)]
  /\ PubNextSlot(p, IF pub[p].i = pub[p].n THEN "publish" ELSE "data")
  /\ UNCHANGED <<queue, write_pointer, header, rd, count>>

Publish(p) ==
  /\ PubAt(p, "publish")
  /\ write_pointer' = Cursor(pub[p].at.c, pub[p].at.p + pub[p].n + 1)
  /\ PubRests(p, "idle")
  /\ UNCHANGED <<queue, mem, header, rd, count>>

---------------------------------------------------------------------------
(* A subscriber *)
NoReader == [pc |-> "off", conflate |-> FALSE, slot |-> 0, i |-> 0, calls |-> FALSE,
             at |-> Cursor(0, 0), to |-> Cursor(0, 0), size |-> SizeTag(0),
             copy |-> <<>>, got |-> <<>>]
At(r, pc) == rd[r].pc = pc
Goes(r, pc) == rd' = [rd EXCEPT ![r].pc = pc]
Position(r) == rd[r].at.p

\* msgq_init_subscriber: the loop around the compare-and-swap is one step, which
\* adds to num_readers or, with all the slots taken, evicts every subscriber.
Claim(r) ==
  /\ At(r, "claim")
  /\ IF num_readers + 1 > NUM_READERS
     THEN /\ SlotsMayChange
          /\ num_readers' = 0
          /\ rd' = [rd EXCEPT ![r].pc = "evictValid", ![r].i = 0]
     ELSE /\ num_readers' = num_readers + 1
          /\ rd' = [rd EXCEPT ![r].pc = "initValid", ![r].slot = num_readers]
  /\ UNCHANGED <<queue, mem, write_pointer, write_uid, slots, pub, count>>

EvictValid(r) ==
  /\ At(r, "evictValid")
  /\ slots' = [slots EXCEPT ![rd[r].i].valid = FALSE]
  /\ Goes(r, "evictUid")
  /\ OnlySlots /\ UNCHANGED pub

EvictKeepsUid(r) ==
  /\ At(r, "evictUid")
  /\ rd' = [rd EXCEPT ![r].i = @ + 1,
                      ![r].pc = IF rd[r].i + 1 \in Slots THEN "evictValid" ELSE "claim"]
  /\ UNCHANGED <<shared, pub, count>>

EvictUid(r) ==
  /\ At(r, "evictUid")
  /\ slots' = [slots EXCEPT ![rd[r].i].uid = NOBODY]
  /\ rd' = [rd EXCEPT ![r].i = @ + 1,
                      ![r].pc = IF rd[r].i + 1 \in Slots THEN "evictValid" ELSE "claim"]
  /\ OnlySlots /\ UNCHANGED pub

\* A store to the subscriber's own slot.
Mine(r) == slots[rd[r].slot]
Stores(r, mine, pc) ==
  /\ slots' = [slots EXCEPT ![rd[r].slot] = mine]
  /\ Goes(r, pc)
  /\ OnlySlots /\ UNCHANGED pub
StoreValid(r, b, pc) == Stores(r, [Mine(r) EXCEPT !.valid = b], pc)
StorePointer(r, at, pc) == Stores(r, [Mine(r) EXCEPT !.pointer = at], pc)

InitSlot(r) ==
  \/ At(r, "initValid")   /\ StoreValid(r, FALSE, "initPointer")
  \/ At(r, "initPointer") /\ StorePointer(r, Cursor(0, 0), "initUid")
  \/ At(r, "initUid")     /\ Stores(r, [Mine(r) EXCEPT !.uid = r], "resetValid")

\* msgq_reset_reader
ResetToStart(r) ==
  /\ At(r, "resetLoad")
  /\ rd' = [rd EXCEPT ![r].pc = "resetStore", ![r].to = Cursor(write_pointer.c, 0)]
  /\ UNCHANGED <<shared, pub, count>>
ResetLoad(r) ==
  /\ At(r, "resetLoad")
  /\ rd' = [rd EXCEPT ![r].pc = "resetStore", ![r].to = write_pointer]
  /\ UNCHANGED <<shared, pub, count>>
ResetPointerOnly(r) ==
  \/ At(r, "resetValid") /\ Goes(r, "resetLoad") /\ UNCHANGED <<shared, pub, count>>
  \/ ResetLoad(r)
  \/ At(r, "resetStore") /\ StorePointer(r, rd[r].to, IF rd[r].calls THEN "uid" ELSE "idle")
ResetReader(r) ==
  \/ At(r, "resetValid") /\ StoreValid(r, TRUE, "resetLoad")
  \/ ResetLoad(r)
  \/ At(r, "resetStore") /\ StorePointer(r, rd[r].to, IF rd[r].calls THEN "uid" ELSE "idle")

---------------------------------------------------------------------------
(* msgq_msg_recv *)
Loads(r, changes) == rd' = [rd EXCEPT ![r] = changes] /\ UNCHANGED <<shared, pub, count>>

\* bound: what the call leaves in its local variables is forgotten
Returned(r, got) ==
  [NoReader EXCEPT !.pc = "idle", !.conflate = rd[r].conflate, !.slot = rd[r].slot, !.got = got]

Call(r) ==
  /\ At(r, "idle") /\ SlotsSettled
  /\ Loads(r, [rd[r] EXCEPT !.pc = "uid", !.calls = TRUE])

CheckReaderUid(r) ==
  /\ At(r, "uid")
  /\ Loads(r, [rd[r] EXCEPT !.pc = IF Mine(r).uid = r THEN "valid" ELSE "claim"])

CheckValid(r) ==
  \/ At(r, "valid") /\ Loads(r, [rd[r] EXCEPT
       !.pc = IF Mine(r).valid THEN "at" ELSE "resetValid"])
  \/ At(r, "recheck") /\ Loads(r, [rd[r] EXCEPT
       !.pc = IF ~Mine(r).valid THEN "resetValid"
              ELSE IF rd[r].size = WrapTag THEN "wrap"
              ELSE IF rd[r].size \notin {SizeTag(n) : n \in Sizes} THEN "garbage"
              ELSE IF rd[r].conflate
                      /\ Position(r) + rd[r].size[2] + 1 # rd[r].to.p THEN "skip" ELSE "copy"])

LoadPointers(r) ==
  \/ At(r, "at") /\ Loads(r, [rd[r] EXCEPT !.pc = "to", !.at = Mine(r).pointer])
  \/ At(r, "to") /\ Loads(r, IF Position(r) = write_pointer.p THEN Returned(r, rd[r].got)
                              ELSE [rd[r] EXCEPT !.pc = "size", !.to = write_pointer])

LoadSize(r) ==
  /\ At(r, "size")
  /\ Loads(r, [rd[r] EXCEPT !.pc = "recheck", !.size = mem[Position(r)], !.copy = <<>>])

ReadWrap(r) == At(r, "wrap") /\ StorePointer(r, Cursor(rd[r].at.c + 1, 0), "uid")

AfterMessage(r) == Cursor(rd[r].at.c, Position(r) + rd[r].size[2] + 1)
Skip(r) == At(r, "skip") /\ StorePointer(r, AfterMessage(r), "uid")

CopyWord(r) ==
  /\ At(r, "copy")
  /\ LET words == Append(rd[r].copy, mem[Position(r) + Len(rd[r].copy) + 1])
     IN  Loads(r, [rd[r] EXCEPT !.copy = words,
                                !.pc = IF Len(words) = rd[r].size[2] THEN "advance" ELSE "copy"])

Advance(r) == At(r, "advance") /\ StorePointer(r, AfterMessage(r), "final")

TrustCopy(r) == At(r, "final") /\ Loads(r, Returned(r, rd[r].copy))

Return(r) ==
  /\ At(r, "final")
  /\ IF Mine(r).valid
     THEN Loads(r, Returned(r, rd[r].copy))
     ELSE Loads(r, [rd[r] EXCEPT !.pc = "resetValid", !.copy = <<>>])

Subscribe(r) ==
  /\ At(r, "off") /\ r \in queue.readers
  /\ \E conflate \in BOOLEAN : Loads(r, [rd[r] EXCEPT !.pc = "claim", !.conflate = conflate])

ReaderStep(r) ==
  \/ Claim(r) \/ EvictValid(r) \/ EvictUid(r) \/ InitSlot(r) \/ ResetReader(r)
  \/ CheckReaderUid(r) \/ CheckValid(r) \/ LoadPointers(r) \/ LoadSize(r)
  \/ ReadWrap(r) \/ Skip(r) \/ CopyWord(r) \/ Advance(r) \/ Return(r)

PubStep(p) ==
  \/ ForgetReaders(p) \/ ForgetValid(p) \/ ForgetUid(p) \/ Look(p) \/ WriteWrapTag(p)
  \/ LookAtReader(p) \/ DropReader(p) \/ WrapAround(p) \/ WriteSize(p) \/ WriteData(p)
  \/ Publish(p)

---------------------------------------------------------------------------
\* msgq_new_queue: a file of zeros.
Init ==
  /\ queue \in Queues
  /\ mem = [w \in 0..SIZE - 1 |-> SizeTag(0)]
  /\ write_pointer = Cursor(0, 0) /\ write_uid = NOBODY /\ num_readers = 0
  /\ slots = [s \in Slots |-> [pointer |-> Cursor(0, 0), valid |-> FALSE, uid |-> NOBODY]]
  /\ pub = [p \in Publishers |-> NoPub]
  /\ rd = [r \in Readers |-> NoReader]
  /\ count = 0

Next ==
  \/ \E p \in Publishers : TakeOver(p) \/ PubCrash(p) \/ PubStep(p)
                           \/ \E n \in Sizes : CheckUid(p, n)
  \/ \E r \in Readers : Subscribe(r) \/ Call(r) \/ ReaderStep(r)

\* A publisher or subscriber that runs is scheduled; whether a publisher sends, or a
\* subscriber calls, is up to its process.
Fairness == /\ \A r \in Readers : WF_vars(ReaderStep(r))
            /\ \A p \in Publishers : WF_vars(PubStep(p))
Spec == Init /\ [][Next]_vars /\ Fairness

---------------------------------------------------------------------------
(* Properties *)

Messages == {[k \in 1..n |-> Data(id, n)] : id \in 1..MAX_MSGS, n \in Sizes}

\* What a subscriber is given is one whole message as it was sent, and it never takes
\* a word of data, or a tag of another cycle, for the size of a message; and there is
\* always space for the next tag: "there always needs to be 8 bytes of empty space at
\* the end" (README).
ReturnedWhole ==
  /\ write_pointer.p < SIZE
  /\ \A r \in Readers :
       /\ rd[r].pc # "garbage"
       /\ rd[r].got # <<>> => rd[r].got \in Messages

\* The subscriber takes its slot to be its own.
Holds(r) ==
  /\ rd[r].pc \notin {"off", "claim"} /\ ~Changing(rd[r].pc)
  /\ rd[r].pc \in {"idle", "uid"} => Mine(r).uid = r

\* A slot that a subscriber holds is one of the num_readers whose pointers the
\* publisher looks at, and no two subscribers hold the same, although slots are lost
\* to new publishers and to evictions.
SlotsAreCounted ==
  SlotsSettled => \A r \in Readers : Holds(r) =>
    /\ rd[r].slot < num_readers
    /\ \A q \in Readers \ {r} : Holds(q) => rd[q].slot # rd[r].slot

\* A subscriber never gets a message that is not newer than the one before.
InOrder ==
  [][ \A r \in Readers : rd[r].got # <<>> /\ rd'[r].got # rd[r].got
                           => rd'[r].got[1][2] > rd[r].got[1][2] ]_vars
=============================================================================
