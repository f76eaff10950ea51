----------------------------- MODULE Msgq_proofs -----------------------------
(***************************************************************************)
(* The queue of msgq.cc, for any number of slots, subscribers, publishers  *)
(* and messages of any sizes, outside its windows. In three parts:         *)
(*   - who holds which slot, up to HeldSlotsCount;                         *)
(*   - the buffer, as a record of what a World is: lemmas about any two    *)
(*     such records, one before and one after a store, a wrap, a message,  *)
(*     and about the variables of a subscriber that relies on its flag;    *)
(*   - the steps of the processes, each of which is one of those, up to    *)
(*     MessagesAreWhole and MessagesInOrder.                               *)
(***************************************************************************)
EXTENDS Msgq, TLAPS

---------------------------------------------------------------------------
(* Types, as far as control goes *)

IsReader(x) ==
  x = [pc |-> x.pc, conflate |-> x.conflate, slot |-> x.slot, i |-> x.i, calls |-> x.calls,
       at |-> x.at, to |-> x.to, size |-> x.size, copy |-> x.copy, got |-> x.got]
IsSlot(y) == y = [pointer |-> y.pointer, valid |-> y.valid, uid |-> y.uid]

PubPC == {"off", "idle", "dead", "forgetReaders", "forgetValid", "forgetUid", "look", "tag",
          "beyond", "dropBeyond", "overlap", "dropOverlap", "data", "publish"}
ReaderPC == {"off", "claim", "evictValid", "evictUid", "initValid", "initPointer", "initUid",
             "resetValid", "resetLoad", "resetStore", "idle", "uid", "valid", "at", "to",
             "size", "recheck", "wrap", "garbage", "skip", "copy", "advance", "final"}
Cursors == [c : Nat, p : Nat]
PubType == [pc : PubPC, i : Nat, num : 0..NUM_READERS, n : Sizes \cup {0}, id : Nat,
            at : Cursors]

GoodReader(x) == /\ IsReader(x) /\ x.pc \in ReaderPC /\ x.slot \in Slots
                 /\ Changing(x.pc) => x.i \in Slots
Control ==
  /\ queue \in Queues
  /\ num_readers \in 0..NUM_READERS /\ write_pointer \in Cursors
  /\ slots = [s \in Slots |-> slots[s]] /\ \A s \in Slots : IsSlot(slots[s])
  /\ rd = [r \in Readers |-> rd[r]] /\ \A r \in Readers : GoodReader(rd[r])
  /\ pub \in [Publishers -> PubType]
  /\ \A p \in Publishers : Changing(pub[p].pc) => pub[p].i \in Slots
  /\ count \in Nat

\* The constants of a queue
LEMMA QueueIs ==
  ASSUME queue \in Queues
  PROVE  /\ NUM_READERS \in Nat \ {0} /\ SIZE \in Nat \ {0} /\ MAX_MSGS \in Nat
         /\ Sizes \subseteq Nat \ {0} /\ \A n \in Sizes : 3 * (n + 1) <= SIZE
         /\ 0 \in Slots /\ Slots \subseteq Nat
         /\ NOBODY \notin Readers /\ Publishers \subseteq Nat
  BY MsgqConstants DEF NUM_READERS, SIZE, MAX_MSGS, Sizes, Slots

---------------------------------------------------------------------------
(* What a step of a subscriber may touch, and what each does *)

OnlyReader(r) ==
  /\ rd' = [rd EXCEPT ![r] = rd'[r]] /\ GoodReader(rd'[r])
  /\ UNCHANGED <<queue, mem, write_pointer, write_uid, pub, count>>

\* It keeps its slot and is not among those who clear slots.
Quiet(r) ==
  /\ OnlyReader(r) /\ num_readers' = num_readers /\ rd'[r].slot = rd[r].slot
  /\ ~Changing(rd[r].pc) /\ ~Changing(rd'[r].pc)
  /\ At(r, "idle") => SlotsSettled
Local(r) == Quiet(r) /\ slots' = slots

\* It stores into its slot.
Stored(r, valid, pointer) ==
  /\ Quiet(r) /\ ~At(r, "idle")
  /\ slots' = [slots EXCEPT ![rd[r].slot] = slots'[rd[r].slot]]
  /\ IsSlot(slots'[rd[r].slot])
  /\ slots'[rd[r].slot].valid = valid /\ slots'[rd[r].slot].pointer = pointer

\* A subscriber's variables but for its label
SameData(r) ==
  /\ rd'[r].conflate = rd[r].conflate /\ rd'[r].calls = rd[r].calls /\ rd'[r].at = rd[r].at
  /\ rd'[r].to = rd[r].to /\ rd'[r].size = rd[r].size /\ rd'[r].copy = rd[r].copy
  /\ rd'[r].got = rd[r].got

LEMMA OneReader ==
  ASSUME Control, NEW r \in Readers, NEW x, rd' = [rd EXCEPT ![r] = x]
  PROVE  /\ rd'[r] = x /\ rd' = [rd EXCEPT ![r] = rd'[r]]
         /\ IsReader(rd[r]) /\ rd[r].pc \in ReaderPC /\ rd[r].slot \in Slots
         /\ \A q \in Readers \ {r} : rd'[q] = rd[q]
  BY DEF Control, GoodReader

\* A step that only goes on, or loads into local variables
LEMMA LoadsDoes ==
  ASSUME Control, NEW r \in Readers, NEW x, Loads(r, x), IsReader(x), x.slot = rd[r].slot,
         x.pc \in ReaderPC, ~Changing(rd[r].pc), ~Changing(x.pc), At(r, "idle") => SlotsSettled
  PROVE  Local(r) /\ rd'[r] = x
<1>1. rd' = [rd EXCEPT ![r] = x] /\ UNCHANGED <<shared, pub, count>>
  BY DEF Loads
<1>2. /\ rd'[r] = x /\ rd' = [rd EXCEPT ![r] = rd'[r]]
      /\ IsReader(rd[r]) /\ rd[r].pc \in ReaderPC /\ rd[r].slot \in Slots
  BY <1>1, OneReader
<1> QED BY <1>1, <1>2 DEF Local, Quiet, OnlyReader, GoodReader, shared, header

LEMMA SetPc ==
  ASSUME Control, NEW r \in Readers, NEW v
  PROVE  LET x == [rd[r] EXCEPT !.pc = v]
         IN  /\ IsReader(x) /\ x.pc = v /\ x.slot = rd[r].slot /\ x.conflate = rd[r].conflate
             /\ x.calls = rd[r].calls /\ x.at = rd[r].at /\ x.to = rd[r].to
             /\ x.size = rd[r].size /\ x.copy = rd[r].copy /\ x.got = rd[r].got
<1>0. PICK z : z = rd[r]
  OBVIOUS
<1>1. PICK x : x = [z EXCEPT !.pc = v]
  OBVIOUS
<1>2. IsReader(z)
  BY <1>0 DEF Control, GoodReader
<1>3. /\ IsReader(x) /\ x.pc = v /\ x.slot = z.slot /\ x.conflate = z.conflate
      /\ x.calls = z.calls /\ x.at = z.at /\ x.to = z.to /\ x.size = z.size
      /\ x.copy = z.copy /\ x.got = z.got
  BY <1>1, <1>2 DEF IsReader
<1> QED BY <1>0, <1>1, <1>3, Zenon

LEMMA GoesOn ==
  ASSUME Control, NEW r \in Readers, NEW v \in ReaderPC, Loads(r, [rd[r] EXCEPT !.pc = v]),
         ~Changing(rd[r].pc), ~Changing(v), ~At(r, "idle")
  PROVE  Local(r) /\ rd'[r].pc = v /\ SameData(r)
<1> DEFINE x == [rd[r] EXCEPT !.pc = v]
<1>1. /\ IsReader(x) /\ x.pc = v /\ x.slot = rd[r].slot /\ x.conflate = rd[r].conflate
      /\ x.calls = rd[r].calls /\ x.at = rd[r].at /\ x.to = rd[r].to
      /\ x.size = rd[r].size /\ x.copy = rd[r].copy /\ x.got = rd[r].got
  BY SetPc, Zenon
<1>2. Loads(r, x)
  OBVIOUS
<1> HIDE DEF x
<1>3. Local(r) /\ rd'[r] = x
  BY <1>1, <1>2, LoadsDoes
<1> QED BY <1>1, <1>3 DEF SameData

LEMMA StoresDoes ==
  ASSUME Control, NEW r \in Readers, NEW mine, NEW v \in ReaderPC, Stores(r, mine, v),
         IsSlot(mine), ~Changing(rd[r].pc), ~Changing(v), ~At(r, "idle")
  PROVE  /\ Stored(r, mine.valid, mine.pointer) /\ rd'[r].pc = v /\ SameData(r)
         /\ slots'[rd[r].slot] = mine
<1> DEFINE x == [rd[r] EXCEPT !.pc = v]
<1>1. /\ IsReader(x) /\ x.pc = v /\ x.slot = rd[r].slot /\ x.conflate = rd[r].conflate
      /\ x.calls = rd[r].calls /\ x.at = rd[r].at /\ x.to = rd[r].to
      /\ x.size = rd[r].size /\ x.copy = rd[r].copy /\ x.got = rd[r].got
  BY SetPc, Zenon
<1>2. rd' = [rd EXCEPT ![r] = x]
  BY DEF Stores, Goes
<1>3. /\ slots' = [slots EXCEPT ![rd[r].slot] = mine]
      /\ UNCHANGED <<queue, mem, write_pointer, write_uid, num_readers, count, pub>>
  BY DEF Stores, OnlySlots
<1> HIDE DEF x
<1>4. /\ rd'[r] = x /\ rd' = [rd EXCEPT ![r] = rd'[r]]
      /\ rd[r].slot \in Slots /\ slots = [s \in Slots |-> slots[s]]
  BY <1>2, OneReader DEF Control
<1>5. slots'[rd[r].slot] = mine /\ slots' = [slots EXCEPT ![rd[r].slot] = slots'[rd[r].slot]]
  BY <1>3, <1>4
<1>6. Quiet(r)
  BY <1>1, <1>3, <1>4 DEF Quiet, OnlyReader, GoodReader
<1> QED BY <1>1, <1>4, <1>5, <1>6 DEF Stored, SameData

LEMMA MineIs ==
  ASSUME Control, NEW r \in Readers
  PROVE  /\ IsSlot(Mine(r)) /\ IsReader(rd[r]) /\ rd[r].slot \in Slots
         /\ rd[r].pc \in ReaderPC
  BY DEF Control, GoodReader, Mine

LEMMA StoreValidDoes ==
  ASSUME Control, NEW r \in Readers, NEW b, NEW v \in ReaderPC, StoreValid(r, b, v),
         ~Changing(rd[r].pc), ~Changing(v), ~At(r, "idle")
  PROVE  /\ Stored(r, b, Mine(r).pointer) /\ rd'[r].pc = v /\ SameData(r)
         /\ slots'[rd[r].slot].uid = Mine(r).uid
<1>0. PICK z : z = Mine(r)
  OBVIOUS
<1>1. PICK y : y = [z EXCEPT !.valid = b]
  OBVIOUS
<1>2. IsSlot(z)
  BY <1>0, MineIs
<1>3. IsSlot(y) /\ y.valid = b /\ y.pointer = z.pointer /\ y.uid = z.uid
  BY <1>1, <1>2 DEF IsSlot
<1>4. Stores(r, y, v)
  BY <1>0, <1>1 DEF StoreValid
<1> QED BY <1>0, <1>3, <1>4, StoresDoes

LEMMA StorePointerDoes ==
  ASSUME Control, NEW r \in Readers, NEW at, NEW v \in ReaderPC, StorePointer(r, at, v),
         ~Changing(rd[r].pc), ~Changing(v), ~At(r, "idle")
  PROVE  /\ Stored(r, Mine(r).valid, at) /\ rd'[r].pc = v /\ SameData(r)
         /\ slots'[rd[r].slot].uid = Mine(r).uid
<1>0. PICK z : z = Mine(r)
  OBVIOUS
<1>1. PICK y : y = [z EXCEPT !.pointer = at]
  OBVIOUS
<1>2. IsSlot(z)
  BY <1>0, MineIs
<1>3. IsSlot(y) /\ y.valid = z.valid /\ y.pointer = at /\ y.uid = z.uid
  BY <1>1, <1>2 DEF IsSlot
<1>4. Stores(r, y, v)
  BY <1>0, <1>1 DEF StorePointer
<1> QED BY <1>0, <1>3, <1>4, StoresDoes

LEMMA SubscribeDoes ==
  ASSUME Control, NEW r \in Readers, Subscribe(r)
  PROVE  Local(r) /\ rd[r].pc = "off" /\ rd'[r].pc = "claim" /\ rd'[r].got = rd[r].got
<1>0. PICK z : z = rd[r]
  OBVIOUS
<1>1. PICK c \in BOOLEAN : Loads(r, [z EXCEPT !.pc = "claim", !.conflate = c])
  BY <1>0 DEF Subscribe
<1>2. IsReader(z) /\ z.pc = "off"
  BY <1>0 DEF Control, GoodReader, Subscribe, At
<1>3. PICK x : x = [z EXCEPT !.pc = "claim", !.conflate = c]
  OBVIOUS
<1>4. IsReader(x) /\ x.pc = "claim" /\ x.slot = z.slot /\ x.got = z.got
  BY <1>2, <1>3 DEF IsReader
<1>5. x.pc \in ReaderPC /\ ~Changing(x.pc) /\ ~Changing(rd[r].pc) /\ ~At(r, "idle")
  BY <1>0, <1>2, <1>4 DEF Changing, ReaderPC, At
<1>6. Local(r) /\ rd'[r] = x
  BY <1>0, <1>1, <1>3, <1>4, <1>5, LoadsDoes
<1> QED BY <1>0, <1>2, <1>4, <1>6

LEMMA CallDoes ==
  ASSUME Control, NEW r \in Readers, Call(r)
  PROVE  /\ Local(r) /\ rd[r].pc = "idle" /\ rd'[r].pc = "uid"
         /\ rd'[r].got = rd[r].got
<1>0. PICK z : z = rd[r]
  OBVIOUS
<1>1. PICK x : x = [z EXCEPT !.pc = "uid", !.calls = TRUE]
  OBVIOUS
<1>2. IsReader(z) /\ z.pc = "idle"
  BY <1>0 DEF Control, GoodReader, Call, At
<1>3. IsReader(x) /\ x.pc = "uid" /\ x.slot = z.slot
  BY <1>1, <1>2 DEF IsReader
<1>4. x.got = z.got
  BY <1>0, <1>1, <1>2 DEF IsReader
<1>5. Loads(r, x) /\ SlotsSettled
  BY <1>0, <1>1 DEF Call, Loads, At
<1>6. Local(r) /\ rd'[r] = x
  BY <1>0, <1>2, <1>3, <1>5, LoadsDoes DEF Changing, ReaderPC, At
<1> QED BY <1>0, <1>2, <1>3, <1>4, <1>6

LEMMA CheckReaderUidDoes ==
  ASSUME Control, NEW r \in Readers, CheckReaderUid(r)
  PROVE  /\ Local(r) /\ SameData(r) /\ rd[r].pc = "uid"
         /\ rd'[r].pc = IF Mine(r).uid = r THEN "valid" ELSE "claim"
<1> DEFINE v == IF Mine(r).uid = r THEN "valid" ELSE "claim"
<1>1. rd[r].pc = "uid" /\ Loads(r, [rd[r] EXCEPT !.pc = v])
  BY MineIs DEF CheckReaderUid, At
<1>2. v \in {"valid", "claim"}
  BY Zenon
<1> HIDE DEF v
<1>3. Local(r) /\ rd'[r].pc = v /\ SameData(r)
  BY <1>1, <1>2, GoesOn DEF Changing, ReaderPC, At
<1> QED BY <1>1, <1>3 DEF v

Rechecked(r) ==
  IF ~Mine(r).valid THEN "resetValid"
  ELSE IF rd[r].size = WrapTag THEN "wrap"
  ELSE IF rd[r].size \notin {SizeTag(n) : n \in Sizes} THEN "garbage"
  ELSE IF rd[r].conflate /\ Position(r) + rd[r].size[2] + 1 # rd[r].to.p THEN "skip" ELSE "copy"

LEMMA CheckValidDoes ==
  ASSUME Control, NEW r \in Readers, CheckValid(r)
  PROVE  /\ Local(r) /\ SameData(r)
         /\ \/ /\ rd[r].pc = "valid"
               /\ rd'[r].pc = IF Mine(r).valid THEN "at" ELSE "resetValid"
            \/ /\ rd[r].pc = "recheck"
               /\ rd'[r].pc = Rechecked(r)
<1>1. CASE At(r, "valid") /\ Loads(r, [rd[r] EXCEPT !.pc = IF Mine(r).valid THEN "at" ELSE "resetValid"])
  <2> DEFINE v == IF Mine(r).valid THEN "at" ELSE "resetValid"
  <2>1. rd[r].pc = "valid" /\ Loads(r, [rd[r] EXCEPT !.pc = v])
    BY <1>1 DEF At
  <2>2. v \in {"at", "resetValid"}
    BY Zenon
  <2> HIDE DEF v
  <2>3. Local(r) /\ rd'[r].pc = v /\ SameData(r)
    BY <2>1, <2>2, GoesOn DEF Changing, ReaderPC, At
  <2> QED BY <2>1, <2>3 DEF v
<1>2. CASE At(r, "recheck") /\ Loads(r, [rd[r] EXCEPT !.pc = Rechecked(r)])
  <2> DEFINE v == Rechecked(r)
  <2>1. rd[r].pc = "recheck" /\ Loads(r, [rd[r] EXCEPT !.pc = v])
    BY <1>2 DEF At
  <2>2. v \in {"resetValid", "wrap", "garbage", "skip", "copy"}
    BY Zenon DEF Rechecked
  <2> HIDE DEF v
  <2>3. Local(r) /\ rd'[r].pc = v /\ SameData(r)
    BY <2>1, <2>2, GoesOn DEF Changing, ReaderPC, At
  <2> QED BY <2>1, <2>3 DEF v
<1> QED BY <1>1, <1>2, Zenon DEF CheckValid, Rechecked

LoadAt(r) == At(r, "at") /\ Loads(r, [rd[r] EXCEPT !.pc = "to", !.at = Mine(r).pointer])
LoadTo(r) == At(r, "to") /\ Loads(r, [rd[r] EXCEPT !.pc = "size", !.to = write_pointer])
NoMessage(r) == At(r, "to") /\ Position(r) = write_pointer.p /\ Loads(r, Returned(r, rd[r].got))

LEMMA LoadPointersIs ==
  ASSUME NEW r, LoadPointers(r)
  PROVE  LoadAt(r) \/ (LoadTo(r) /\ Position(r) # write_pointer.p) \/ NoMessage(r)
  BY Zenon DEF LoadPointers, LoadAt, LoadTo, NoMessage

LEMMA LoadAtDoes ==
  ASSUME Control, NEW r \in Readers, LoadAt(r)
  PROVE  /\ Local(r) /\ rd[r].pc = "at" /\ rd'[r].pc = "to"
         /\ rd'[r].conflate = rd[r].conflate /\ rd'[r].got = rd[r].got /\ rd'[r].at = Mine(r).pointer
<1>0. PICK z : z = rd[r]
  OBVIOUS
<1>1. PICK x : x = [z EXCEPT !.pc = "to", !.at = Mine(r).pointer]
  OBVIOUS
<1>2. IsReader(z) /\ z.pc = "at"
  BY <1>0 DEF Control, GoodReader, LoadAt, At
<1>3. IsReader(x) /\ x.pc = "to" /\ x.slot = z.slot
  BY <1>1, <1>2 DEF IsReader
<1>4. x.conflate = z.conflate /\ x.got = z.got /\ x.at = Mine(r).pointer
  BY <1>0, <1>1, <1>2 DEF IsReader
<1>5. Loads(r, x)
  BY <1>0, <1>1 DEF LoadAt
<1>6. Local(r) /\ rd'[r] = x
  BY <1>0, <1>2, <1>3, <1>5, LoadsDoes DEF Changing, ReaderPC, At
<1> QED BY <1>0, <1>2, <1>3, <1>4, <1>6

LEMMA LoadToDoes ==
  ASSUME Control, NEW r \in Readers, LoadTo(r)
  PROVE  /\ Local(r) /\ rd[r].pc = "to" /\ rd'[r].pc = "size"
         /\ rd'[r].conflate = rd[r].conflate /\ rd'[r].got = rd[r].got /\ rd'[r].at = rd[r].at /\ rd'[r].to = write_pointer
<1>0. PICK z : z = rd[r]
  OBVIOUS
<1>1. PICK x : x = [z EXCEPT !.pc = "size", !.to = write_pointer]
  OBVIOUS
<1>2. IsReader(z) /\ z.pc = "to"
  BY <1>0 DEF Control, GoodReader, LoadTo, At
<1>3. IsReader(x) /\ x.pc = "size" /\ x.slot = z.slot
  BY <1>1, <1>2 DEF IsReader
<1>4. x.conflate = z.conflate /\ x.got = z.got /\ x.at = z.at /\ x.to = write_pointer
  BY <1>0, <1>1, <1>2 DEF IsReader
<1>5. Loads(r, x)
  BY <1>0, <1>1 DEF LoadTo
<1>6. Local(r) /\ rd'[r] = x
  BY <1>0, <1>2, <1>3, <1>5, LoadsDoes DEF Changing, ReaderPC, At
<1> QED BY <1>0, <1>2, <1>3, <1>4, <1>6

LEMMA LoadSizeDoes ==
  ASSUME Control, NEW r \in Readers, LoadSize(r)
  PROVE  /\ Local(r) /\ rd[r].pc = "size" /\ rd'[r].pc = "recheck"
         /\ rd'[r].conflate = rd[r].conflate /\ rd'[r].got = rd[r].got /\ rd'[r].at = rd[r].at /\ rd'[r].to = rd[r].to
         /\ rd'[r].size = mem[Position(r)] /\ rd'[r].copy = <<>>
<1>0. PICK z : z = rd[r]
  OBVIOUS
<1>1. PICK x : x = [z EXCEPT !.pc = "recheck", !.size = mem[Position(r)], !.copy = <<>>]
  OBVIOUS
<1>2. IsReader(z) /\ z.pc = "size"
  BY <1>0 DEF Control, GoodReader, LoadSize, At
<1>3. IsReader(x) /\ x.pc = "recheck" /\ x.slot = z.slot
  BY <1>1, <1>2 DEF IsReader
<1>4. x.conflate = z.conflate /\ x.got = z.got /\ x.at = z.at /\ x.to = z.to
      /\ x.size = mem[Position(r)] /\ x.copy = <<>>
  BY <1>0, <1>1, <1>2 DEF IsReader
<1>5. Loads(r, x)
  BY <1>0, <1>1 DEF LoadSize
<1>6. Local(r) /\ rd'[r] = x
  BY <1>0, <1>2, <1>3, <1>5, LoadsDoes DEF Changing, ReaderPC, At
<1> QED BY <1>0, <1>2, <1>3, <1>4, <1>6

LEMMA ResetLoadDoes ==
  ASSUME Control, NEW r \in Readers, ResetLoad(r)
  PROVE  /\ Local(r) /\ rd[r].pc = "resetLoad" /\ rd'[r].pc = "resetStore"
         /\ rd'[r].conflate = rd[r].conflate /\ rd'[r].got = rd[r].got /\ rd'[r].calls = rd[r].calls /\ rd'[r].to = write_pointer
<1>0. PICK z : z = rd[r]
  OBVIOUS
<1>1. PICK x : x = [z EXCEPT !.pc = "resetStore", !.to = write_pointer]
  OBVIOUS
<1>2. IsReader(z) /\ z.pc = "resetLoad"
  BY <1>0 DEF Control, GoodReader, ResetLoad, At
<1>3. IsReader(x) /\ x.pc = "resetStore" /\ x.slot = z.slot
  BY <1>1, <1>2 DEF IsReader
<1>4. x.conflate = z.conflate /\ x.got = z.got /\ x.calls = z.calls /\ x.to = write_pointer
  BY <1>0, <1>1, <1>2 DEF IsReader
<1>5. Loads(r, x)
  BY <1>0, <1>1 DEF ResetLoad, Loads
<1>6. Local(r) /\ rd'[r] = x
  BY <1>0, <1>2, <1>3, <1>5, LoadsDoes DEF Changing, ReaderPC, At
<1> QED BY <1>0, <1>2, <1>3, <1>4, <1>6

\* Returning forgets what the call has loaded.
LEMMA ReturnedIs ==
  ASSUME Control, NEW r \in Readers, NEW m
  PROVE  LET x == Returned(r, m)
         IN  /\ IsReader(x) /\ x.pc = "idle" /\ x.slot = rd[r].slot /\ x.conflate = rd[r].conflate
             /\ x.got = m
<1>1. PICK z : z = NoReader
  OBVIOUS
<1>2. IsReader(z)
  BY <1>1 DEF IsReader, NoReader
<1>3. PICK c, s : c = rd[r].conflate /\ s = rd[r].slot
  OBVIOUS
<1>4. PICK x : x = [z EXCEPT !.pc = "idle", !.conflate = c, !.slot = s, !.got = m]
  OBVIOUS
<1>5. IsReader(x) /\ x.pc = "idle" /\ x.slot = s /\ x.conflate = c /\ x.got = m
  BY <1>2, <1>4 DEF IsReader
<1>6. x = Returned(r, m)
  BY <1>1, <1>3, <1>4 DEF Returned
<1> QED BY <1>3, <1>5, <1>6

LEMMA ReturnsDoes ==
  ASSUME Control, NEW r \in Readers, NEW m, Loads(r, Returned(r, m)), ~Changing(rd[r].pc),
         ~At(r, "idle")
  PROVE  Local(r) /\ rd'[r].pc = "idle" /\ rd'[r].got = m /\ rd'[r].conflate = rd[r].conflate
<1> DEFINE x == Returned(r, m)
<1>1. IsReader(x) /\ x.pc = "idle" /\ x.slot = rd[r].slot /\ x.conflate = rd[r].conflate /\ x.got = m
  BY ReturnedIs
<1>2. Loads(r, x)
  OBVIOUS
<1> HIDE DEF x
<1>3. Local(r) /\ rd'[r] = x
  BY <1>1, <1>2, LoadsDoes DEF Changing, ReaderPC
<1> QED BY <1>1, <1>3

LEMMA NoMessageDoes ==
  ASSUME Control, NEW r \in Readers, NoMessage(r)
  PROVE  Local(r) /\ rd[r].pc = "to" /\ rd'[r].pc = "idle" /\ rd'[r].got = rd[r].got
<1>1. rd[r].pc = "to" /\ Loads(r, Returned(r, rd[r].got))
  BY DEF NoMessage, At
<1> QED BY <1>1, ReturnsDoes DEF Changing, At

LEMMA CopyWordDoes ==
  ASSUME Control, NEW r \in Readers, CopyWord(r)
  PROVE  LET words == Append(rd[r].copy, mem[Position(r) + Len(rd[r].copy) + 1])
         IN  /\ Local(r) /\ rd[r].pc = "copy"
             /\ rd'[r].pc = IF Len(words) = rd[r].size[2] THEN "advance" ELSE "copy"
             /\ rd'[r].copy = words /\ rd'[r].at = rd[r].at /\ rd'[r].size = rd[r].size
             /\ rd'[r].got = rd[r].got /\ rd'[r].to = rd[r].to
<1>0. PICK z : z = rd[r]
  OBVIOUS
<1>1. PICK words : words = Append(rd[r].copy, mem[Position(r) + Len(rd[r].copy) + 1])
  OBVIOUS
<1>2. PICK v : v = IF Len(words) = rd[r].size[2] THEN "advance" ELSE "copy"
  OBVIOUS
<1>3. PICK x : x = [z EXCEPT !.copy = words, !.pc = v]
  OBVIOUS
<1>4. IsReader(z) /\ z.pc = "copy" /\ v \in {"advance", "copy"}
  BY <1>0, <1>2 DEF Control, GoodReader, CopyWord, At
<1>5. /\ IsReader(x) /\ x.pc = v /\ x.slot = z.slot /\ x.copy = words /\ x.at = z.at
      /\ x.size = z.size /\ x.got = z.got /\ x.to = z.to
  BY <1>3, <1>4 DEF IsReader
<1>6. Loads(r, x)
  BY <1>0, <1>1, <1>2, <1>3, Zenon DEF CopyWord
<1>7. Local(r) /\ rd'[r] = x
  BY <1>0, <1>4, <1>5, <1>6, LoadsDoes DEF Changing, ReaderPC, At
<1> QED BY <1>0, <1>1, <1>2, <1>4, <1>5, <1>7

Succeeds(r) == At(r, "final") /\ Mine(r).valid /\ Loads(r, Returned(r, rd[r].copy))
Fails(r) == At(r, "final") /\ ~Mine(r).valid
            /\ Loads(r, [rd[r] EXCEPT !.pc = "resetValid", !.copy = <<>>])

LEMMA ReturnIs == \A r : Return(r) => Succeeds(r) \/ Fails(r)
  BY Zenon DEF Return, Succeeds, Fails

LEMMA SucceedsDoes ==
  ASSUME Control, NEW r \in Readers, Succeeds(r)
  PROVE  /\ Local(r) /\ rd[r].pc = "final" /\ rd'[r].pc = "idle" /\ rd'[r].got = rd[r].copy
         /\ Mine(r).valid
<1>1. rd[r].pc = "final" /\ Loads(r, Returned(r, rd[r].copy)) /\ Mine(r).valid
  BY DEF Succeeds, At
<1> QED BY <1>1, ReturnsDoes DEF Changing, At

LEMMA FailsDoes ==
  ASSUME Control, NEW r \in Readers, Fails(r)
  PROVE  /\ Local(r) /\ rd[r].pc = "final" /\ rd'[r].pc = "resetValid"
         /\ rd'[r].conflate = rd[r].conflate /\ rd'[r].got = rd[r].got /\ rd'[r].calls = rd[r].calls
<1>0. PICK z : z = rd[r]
  OBVIOUS
<1>1. PICK x : x = [z EXCEPT !.pc = "resetValid", !.copy = <<>>]
  OBVIOUS
<1>2. IsReader(z) /\ z.pc = "final"
  BY <1>0 DEF Control, GoodReader, Fails, At
<1>3. IsReader(x) /\ x.pc = "resetValid" /\ x.slot = z.slot
  BY <1>1, <1>2 DEF IsReader
<1>4. x.conflate = z.conflate /\ x.got = z.got /\ x.calls = z.calls
  BY <1>0, <1>1, <1>2 DEF IsReader
<1>5. Loads(r, x)
  BY <1>0, <1>1 DEF Fails
<1>6. Local(r) /\ rd'[r] = x
  BY <1>0, <1>2, <1>3, <1>5, LoadsDoes DEF Changing, ReaderPC, At
<1> QED BY <1>0, <1>2, <1>3, <1>4, <1>6

\* A new subscriber's slot
LEMMA InitSlotDoes ==
  ASSUME Control, NEW r \in Readers, InitSlot(r)
  PROVE  /\ SameData(r)
         /\ \/ /\ rd[r].pc = "initValid" /\ rd'[r].pc = "initPointer"
               /\ Stored(r, FALSE, Mine(r).pointer) /\ slots'[rd[r].slot].uid = Mine(r).uid
            \/ /\ rd[r].pc = "initPointer" /\ rd'[r].pc = "initUid"
               /\ Stored(r, Mine(r).valid, Cursor(0, 0)) /\ slots'[rd[r].slot].uid = Mine(r).uid
            \/ /\ rd[r].pc = "initUid" /\ rd'[r].pc = "resetValid"
               /\ Stored(r, Mine(r).valid, Mine(r).pointer) /\ slots'[rd[r].slot].uid = r
<1>1. CASE At(r, "initValid") /\ StoreValid(r, FALSE, "initPointer")
  <2>1. rd[r].pc = "initValid"
    BY <1>1 DEF At
  <2> QED BY <1>1, <2>1, StoreValidDoes DEF Changing, At, ReaderPC
<1>2. CASE At(r, "initPointer") /\ StorePointer(r, Cursor(0, 0), "initUid")
  <2>1. rd[r].pc = "initPointer"
    BY <1>2 DEF At
  <2> QED BY <1>2, <2>1, StorePointerDoes DEF Changing, At, ReaderPC
<1>3. CASE At(r, "initUid") /\ Stores(r, [Mine(r) EXCEPT !.uid = r], "resetValid")
  <2>0. PICK z : z = Mine(r)
    OBVIOUS
  <2>1. PICK y : y = [z EXCEPT !.uid = r]
    OBVIOUS
  <2>2. IsSlot(z) /\ rd[r].pc = "initUid"
    BY <1>3, <2>0, MineIs DEF At
  <2>3. IsSlot(y) /\ y.valid = z.valid /\ y.pointer = z.pointer /\ y.uid = r
    BY <2>1, <2>2 DEF IsSlot
  <2>4. Stores(r, y, "resetValid")
    BY <1>3, <2>0, <2>1
  <2>5. /\ Stored(r, y.valid, y.pointer) /\ rd'[r].pc = "resetValid" /\ SameData(r)
        /\ slots'[rd[r].slot] = y
    BY <2>2, <2>3, <2>4, StoresDoes DEF Changing, At, ReaderPC
  <2> QED BY <2>0, <2>2, <2>3, <2>5
<1> QED BY <1>1, <1>2, <1>3 DEF InitSlot

StoreReset(r) == /\ At(r, "resetStore")
                 /\ StorePointer(r, rd[r].to, IF rd[r].calls THEN "uid" ELSE "idle")

LEMMA ResetReaderDoes ==
  ASSUME Control, NEW r \in Readers, ResetReader(r)
  PROVE  \/ /\ rd[r].pc = "resetValid" /\ rd'[r].pc = "resetLoad" /\ SameData(r)
            /\ Stored(r, TRUE, Mine(r).pointer) /\ slots'[rd[r].slot].uid = Mine(r).uid
         \/ ResetLoad(r)
         \/ /\ rd[r].pc = "resetStore" /\ rd'[r].pc \in {"uid", "idle"} /\ SameData(r)
            /\ Stored(r, Mine(r).valid, rd[r].to) /\ slots'[rd[r].slot].uid = Mine(r).uid
<1>1. CASE At(r, "resetValid") /\ StoreValid(r, TRUE, "resetLoad")
  <2>1. rd[r].pc = "resetValid"
    BY <1>1 DEF At
  <2> QED BY <1>1, <2>1, StoreValidDoes DEF Changing, At, ReaderPC
<1>2. CASE StoreReset(r)
  <2> DEFINE v == IF rd[r].calls THEN "uid" ELSE "idle"
  <2>1. rd[r].pc = "resetStore" /\ StorePointer(r, rd[r].to, v)
    BY <1>2 DEF StoreReset, At
  <2>2. v \in {"uid", "idle"}
    BY Zenon
  <2> HIDE DEF v
  <2> QED BY <2>1, <2>2, StorePointerDoes DEF Changing, At, ReaderPC
<1> QED BY <1>1, <1>2 DEF ResetReader, StoreReset

LEMMA MovesOnDoes ==
  ASSUME Control, NEW r \in Readers, NEW from, NEW to, NEW at, At(r, from),
         StorePointer(r, at, to), <<from, to>> \in {<<"wrap", "uid">>, <<"skip", "uid">>, <<"advance", "final">>}
  PROVE  /\ SameData(r) /\ rd[r].pc = from /\ rd'[r].pc = to
         /\ Stored(r, Mine(r).valid, at) /\ slots'[rd[r].slot].uid = Mine(r).uid
<1>1. rd[r].pc = from /\ from \in {"wrap", "skip", "advance"} /\ to \in {"uid", "final"}
  BY DEF At
<1> QED BY <1>1, StorePointerDoes DEF Changing, At, ReaderPC
\* Joining: the next slot, or, when all are taken, the first after everybody is evicted
ClaimNext(r) ==
  /\ At(r, "claim") /\ num_readers + 1 <= NUM_READERS
  /\ num_readers' = num_readers + 1
  /\ rd' = [rd EXCEPT ![r].pc = "initValid", ![r].slot = num_readers]
  /\ UNCHANGED <<queue, mem, write_pointer, write_uid, slots, pub, count>>
EvictAll(r) ==
  /\ At(r, "claim") /\ num_readers + 1 > NUM_READERS /\ SlotsMayChange
  /\ num_readers' = 0
  /\ rd' = [rd EXCEPT ![r].pc = "evictValid", ![r].i = 0]
  /\ UNCHANGED <<queue, mem, write_pointer, write_uid, slots, pub, count>>

LEMMA ClaimIs ==
  ASSUME Control, NEW r \in Readers, Claim(r)
  PROVE  ClaimNext(r) \/ EvictAll(r)
<1>1. NUM_READERS \in Nat /\ num_readers \in Nat
  BY QueueIs DEF Control
<1> QED BY <1>1 DEF Claim, ClaimNext, EvictAll

LEMMA ClaimNextDoes ==
  ASSUME Control, NEW r \in Readers, ClaimNext(r)
  PROVE  /\ OnlyReader(r) /\ slots' = slots /\ num_readers' = num_readers + 1
         /\ num_readers \in Slots /\ rd[r].pc = "claim"
         /\ rd'[r].pc = "initValid" /\ rd'[r].slot = num_readers /\ rd'[r].got = rd[r].got
<1>0. PICK z : z = rd[r]
  OBVIOUS
<1>1. PICK x : x = [z EXCEPT !.pc = "initValid", !.slot = num_readers]
  OBVIOUS
<1>2. IsReader(z) /\ z.pc = "claim"
  BY <1>0 DEF Control, GoodReader, ClaimNext, At
<1>3. IsReader(x) /\ x.pc = "initValid" /\ x.slot = num_readers /\ x.got = z.got
  BY <1>1, <1>2 DEF IsReader
<1>4. rd' = [rd EXCEPT ![r] = x]
  BY <1>0, <1>1 DEF ClaimNext
<1>5. num_readers \in Slots
  BY QueueIs DEF Control, ClaimNext, Slots
<1>6. rd'[r] = x /\ rd' = [rd EXCEPT ![r] = rd'[r]]
  BY <1>4, OneReader
<1>7. /\ num_readers' = num_readers + 1
      /\ UNCHANGED <<queue, mem, write_pointer, write_uid, slots, pub, count>>
  BY DEF ClaimNext
<1>8. GoodReader(x)
  BY <1>3, <1>5 DEF GoodReader, ReaderPC, Changing
<1> QED BY <1>0, <1>2, <1>3, <1>5, <1>6, <1>7, <1>8 DEF OnlyReader

LEMMA EvictAllDoes ==
  ASSUME Control, NEW r \in Readers, EvictAll(r)
  PROVE  /\ OnlyReader(r) /\ slots' = slots /\ num_readers' = 0 /\ SlotsMayChange
         /\ rd[r].pc = "claim" /\ rd'[r].slot = rd[r].slot /\ rd'[r].got = rd[r].got
         /\ rd'[r].pc = "evictValid" /\ rd'[r].i = 0
<1>0. PICK z : z = rd[r]
  OBVIOUS
<1>1. PICK x : x = [z EXCEPT !.pc = "evictValid", !.i = 0]
  OBVIOUS
<1>2. IsReader(z) /\ z.pc = "claim" /\ z.slot \in Slots
  BY <1>0 DEF Control, GoodReader, EvictAll, At
<1>3. IsReader(x) /\ x.pc = "evictValid" /\ x.i = 0 /\ x.slot = z.slot /\ x.got = z.got
  BY <1>1, <1>2 DEF IsReader
<1>4. rd' = [rd EXCEPT ![r] = x]
  BY <1>0, <1>1 DEF EvictAll
<1>5. 0 \in Slots
  BY QueueIs DEF Control
<1>6. rd'[r] = x /\ rd' = [rd EXCEPT ![r] = rd'[r]]
  BY <1>4, OneReader
<1>7. /\ num_readers' = 0 /\ SlotsMayChange
      /\ UNCHANGED <<queue, mem, write_pointer, write_uid, slots, pub, count>>
  BY DEF EvictAll
<1>8. GoodReader(x)
  BY <1>2, <1>3, <1>5 DEF GoodReader, ReaderPC, Changing
<1> QED BY <1>0, <1>2, <1>3, <1>5, <1>6, <1>7, <1>8 DEF OnlyReader

LEMMA EvictValidDoes ==
  ASSUME Control, NEW r \in Readers, EvictValid(r)
  PROVE  /\ OnlyReader(r) /\ num_readers' = num_readers /\ rd[r].i \in Slots
         /\ rd[r].pc = "evictValid" /\ rd'[r].pc = "evictUid" /\ rd'[r].slot = rd[r].slot
         /\ rd'[r].i = rd[r].i /\ rd'[r].got = rd[r].got
         /\ slots' = [slots EXCEPT ![rd[r].i].valid = FALSE]
<1>0. PICK z : z = rd[r]
  OBVIOUS
<1>1. PICK x : x = [z EXCEPT !.pc = "evictUid"]
  OBVIOUS
<1>2. IsReader(z) /\ z.pc = "evictValid" /\ z.slot \in Slots /\ z.i \in Slots
  BY <1>0 DEF Control, GoodReader, EvictValid, At, Changing
<1>3. IsReader(x) /\ x.pc = "evictUid" /\ x.i = z.i /\ x.slot = z.slot /\ x.got = z.got
  BY <1>1, <1>2 DEF IsReader
<1>4. rd' = [rd EXCEPT ![r] = x]
  BY <1>0, <1>1 DEF EvictValid, Goes
<1>6. rd'[r] = x /\ rd' = [rd EXCEPT ![r] = rd'[r]]
  BY <1>4, OneReader
<1>7. /\ UNCHANGED <<queue, mem, write_pointer, write_uid, num_readers, pub, count>>
      /\ slots' = [slots EXCEPT ![rd[r].i].valid = FALSE]
  BY DEF EvictValid, OnlySlots
<1>8. GoodReader(x)
  BY <1>2, <1>3 DEF GoodReader, ReaderPC, Changing
<1> QED BY <1>0, <1>2, <1>3, <1>6, <1>7, <1>8 DEF OnlyReader

LEMMA EvictUidDoes ==
  ASSUME Control, NEW r \in Readers, EvictUid(r)
  PROVE  /\ OnlyReader(r) /\ num_readers' = num_readers /\ rd[r].i \in Slots
         /\ rd[r].pc = "evictUid" /\ rd'[r].slot = rd[r].slot /\ rd'[r].got = rd[r].got
         /\ rd'[r].i = rd[r].i + 1
         /\ rd'[r].pc = IF rd[r].i + 1 \in Slots THEN "evictValid" ELSE "claim"
         /\ slots' = [slots EXCEPT ![rd[r].i].uid = NOBODY]
<1>0. PICK z : z = rd[r]
  OBVIOUS
<1>5. PICK v : v = IF rd[r].i + 1 \in Slots THEN "evictValid" ELSE "claim"
  OBVIOUS
<1>1. PICK x : x = [z EXCEPT !.i = z.i + 1, !.pc = v]
  OBVIOUS
<1>2. IsReader(z) /\ z.pc = "evictUid" /\ z.slot \in Slots /\ z.i \in Slots
  BY <1>0 DEF Control, GoodReader, EvictUid, At, Changing
<1>3. IsReader(x) /\ x.pc = v /\ x.i = z.i + 1 /\ x.slot = z.slot /\ x.got = z.got
  BY <1>1, <1>2 DEF IsReader
<1>4. rd' = [rd EXCEPT ![r] = x]
  <2>1. rd' = [rd EXCEPT ![r].i = rd[r].i + 1, ![r].pc = v]
    BY <1>5, Zenon DEF EvictUid
  <2> QED BY <1>0, <1>1, <2>1
<1>6. rd'[r] = x /\ rd' = [rd EXCEPT ![r] = rd'[r]]
  BY <1>4, OneReader
<1>7. /\ UNCHANGED <<queue, mem, write_pointer, write_uid, num_readers, pub, count>>
      /\ slots' = [slots EXCEPT ![rd[r].i].uid = NOBODY]
  BY DEF EvictUid, OnlySlots
<1>8. GoodReader(x)
  <2>1. v \in {"evictValid", "claim"} /\ (v = "evictValid" => z.i + 1 \in Slots)
    BY <1>0, <1>5
  <2> QED BY <1>2, <1>3, <2>1 DEF GoodReader, ReaderPC, Changing
<1> QED BY <1>0, <1>5, <1>2, <1>3, <1>6, <1>7, <1>8 DEF OnlyReader

---------------------------------------------------------------------------
(* What each step of a publisher does *)

OnlyPub(p) ==
  /\ pub' = [pub EXCEPT ![p] = pub'[p]] /\ pub'[p] \in PubType
  /\ Changing(pub'[p].pc) => pub'[p].i \in Slots
  /\ UNCHANGED <<queue, rd>>
SameJob(p) == pub'[p].n = pub[p].n /\ pub'[p].id = pub[p].id
Sends(p) == OnlyPub(p) /\ ~Changing(pub[p].pc) /\ ~Changing(pub'[p].pc)
            /\ num_readers' = num_readers

LEMMA PubIs ==
  ASSUME Control, NEW p \in Publishers
  PROVE  pub[p] \in PubType /\ pub \in [Publishers -> PubType] /\ NoPub \in PubType
<1>1. 0 \in 0..NUM_READERS /\ Cursor(0, 0) \in Cursors
  BY QueueIs DEF Control, Cursor, Cursors
<1> QED BY <1>1 DEF Control, NoPub, PubType, PubPC

LEMMA PubGoesDoes ==
  ASSUME Control, NEW p \in Publishers, NEW v \in PubPC, PubGoes(p, v)
  PROVE  /\ pub' = [pub EXCEPT ![p] = pub'[p]] /\ pub'[p] \in PubType
         /\ pub'[p].pc = v /\ pub'[p].i = pub[p].i /\ pub'[p].num = pub[p].num /\ SameJob(p)
         /\ pub'[p].at = pub[p].at
<1>1. pub[p] \in PubType /\ pub \in [Publishers -> PubType]
  BY PubIs
<1> QED BY <1>1 DEF PubGoes, PubType, SameJob

LEMMA PubLoopsDoes ==
  ASSUME Control, NEW p \in Publishers, NEW v \in PubPC, PubLoops(p, v)
  PROVE  /\ pub' = [pub EXCEPT ![p] = pub'[p]] /\ pub'[p] \in PubType
         /\ pub'[p].pc = v /\ pub'[p].i = 0 /\ pub'[p].num = pub[p].num /\ SameJob(p)
<1>1. pub[p] \in PubType /\ pub \in [Publishers -> PubType]
  BY PubIs
<1> QED BY <1>1 DEF PubLoops, PubType, SameJob

LEMMA PubNextSlotDoes ==
  ASSUME Control, NEW p \in Publishers, NEW v \in PubPC, PubNextSlot(p, v)
  PROVE  /\ pub' = [pub EXCEPT ![p] = pub'[p]] /\ pub'[p] \in PubType
         /\ pub'[p].pc = v /\ pub'[p].i = pub[p].i + 1 /\ pub'[p].num = pub[p].num /\ SameJob(p)
         /\ pub'[p].at = pub[p].at
<1>1. pub[p] \in PubType /\ pub \in [Publishers -> PubType]
  BY PubIs
<1>2. pub[p].i + 1 \in Nat
  BY <1>1 DEF PubType
<1>3. pub' = [pub EXCEPT ![p].pc = v, ![p].i = pub[p].i + 1]
  BY <1>1 DEF PubNextSlot
<1> QED BY <1>1, <1>2, <1>3 DEF PubType, SameJob

LEMMA PubRestsDoes ==
  ASSUME Control, NEW p \in Publishers, NEW v \in PubPC, PubRests(p, v)
  PROVE  /\ pub' = [pub EXCEPT ![p] = pub'[p]] /\ pub'[p] \in PubType
         /\ pub'[p].pc = v
<1>1. pub \in [Publishers -> PubType] /\ NoPub \in PubType
  BY PubIs
<1>2. [NoPub EXCEPT !.pc = v] \in PubType /\ [NoPub EXCEPT !.pc = v].pc = v
  BY <1>1 DEF PubType
<1> QED BY <1>1, <1>2 DEF PubRests

LEMMA TakeOverDoes ==
  ASSUME Control, NEW p \in Publishers, TakeOver(p)
  PROVE  /\ Sends(p) /\ pub[p].pc = "off" /\ pub'[p].pc = "forgetReaders" /\ slots' = slots
         /\ UNCHANGED <<mem, write_pointer, count>>
         /\ write_uid' = p
<1>1. PubGoes(p, "forgetReaders") /\ pub[p].pc = "off" /\ write_uid' = p
      /\ UNCHANGED <<queue, mem, write_pointer, num_readers, slots, rd, count>>
  BY DEF TakeOver, PubAt
<1> QED BY <1>1, PubGoesDoes DEF PubPC, Sends, OnlyPub, Changing

LEMMA ForgetReadersDoes ==
  ASSUME Control, NEW p \in Publishers, ForgetReaders(p)
  PROVE  /\ OnlyPub(p) /\ pub[p].pc = "forgetReaders" /\ pub'[p].pc = "forgetValid"
         /\ pub'[p].i = 0 /\ num_readers' = 0 /\ slots' = slots /\ SlotsMayChange
         /\ UNCHANGED <<mem, write_pointer, write_uid, count>>
<1>1. /\ PubLoops(p, "forgetValid") /\ pub[p].pc = "forgetReaders" /\ num_readers' = 0
      /\ SlotsMayChange /\ UNCHANGED <<queue, mem, write_pointer, write_uid, slots, rd, count>>
  BY DEF ForgetReaders, PubAt
<1>2. 0 \in Slots
  BY QueueIs DEF Control
<1> QED BY <1>1, <1>2, PubLoopsDoes DEF PubPC, OnlyPub

LEMMA ForgetValidDoes ==
  ASSUME Control, NEW p \in Publishers, ForgetValid(p)
  PROVE  /\ OnlyPub(p) /\ pub[p].pc = "forgetValid" /\ pub'[p].pc = "forgetUid"
         /\ pub[p].i \in Slots /\ pub'[p].i = pub[p].i /\ num_readers' = num_readers
         /\ slots' = [slots EXCEPT ![pub[p].i].valid = FALSE]
         /\ UNCHANGED <<mem, write_pointer, write_uid, count>>
<1>1. /\ PubGoes(p, "forgetUid") /\ pub[p].pc = "forgetValid"
      /\ slots' = [slots EXCEPT ![pub[p].i].valid = FALSE]
      /\ UNCHANGED <<queue, mem, write_pointer, write_uid, num_readers, rd, count>>
  BY DEF ForgetValid, PubAt, OnlySlots
<1>2. pub[p].i \in Slots
  BY <1>1 DEF Control, Changing
<1> QED BY <1>1, <1>2, PubGoesDoes DEF PubPC, OnlyPub

LEMMA ForgetUidDoes ==
  ASSUME Control, NEW p \in Publishers, ForgetUid(p)
  PROVE  /\ OnlyPub(p) /\ pub[p].pc = "forgetUid" /\ pub[p].i \in Slots
         /\ num_readers' = num_readers
         /\ slots' = [slots EXCEPT ![pub[p].i].uid = NOBODY]
         /\ \/ pub[p].i + 1 \in Slots /\ pub'[p].pc = "forgetValid" /\ pub'[p].i = pub[p].i + 1
            \/ pub[p].i + 1 \notin Slots /\ pub'[p].pc = "idle"
         /\ UNCHANGED <<mem, write_pointer, write_uid, count>>
<1>1. /\ pub[p].pc = "forgetUid" /\ slots' = [slots EXCEPT ![pub[p].i].uid = NOBODY]
      /\ UNCHANGED <<queue, mem, write_pointer, write_uid, num_readers, rd, count>>
  BY DEF ForgetUid, PubAt, OnlySlots
<1>2. pub[p].i \in Slots
  BY <1>1 DEF Control, Changing
<1>3. CASE pub[p].i + 1 \in Slots
  <2>1. PubNextSlot(p, "forgetValid")
    BY <1>3 DEF ForgetUid
  <2> QED BY <1>1, <1>2, <1>3, <2>1, PubNextSlotDoes DEF PubPC, OnlyPub
<1>4. CASE pub[p].i + 1 \notin Slots
  <2>1. PubRests(p, "idle")
    BY <1>4 DEF ForgetUid
  <2> QED BY <1>1, <1>2, <1>4, <2>1, PubRestsDoes DEF PubPC, OnlyPub, Changing
<1> QED BY <1>3, <1>4

LEMMA PubCrashDoes ==
  ASSUME Control, ~Overlap, NEW p \in Publishers, PubCrash(p)
  PROVE  /\ Sends(p) /\ pub'[p].pc = "dead" /\ slots' = slots
         /\ UNCHANGED <<mem, write_pointer, write_uid, count>>
<1>1. PubRests(p, "dead") /\ ~Changing(pub[p].pc) /\ UNCHANGED <<shared, rd, count>>
  BY DEF PubCrash
<1> QED BY <1>1, PubRestsDoes DEF PubPC, Sends, OnlyPub, Changing, shared, header

LEMMA CheckUidDoes ==
  ASSUME Control, NEW p \in Publishers, NEW n \in Sizes, CheckUid(p, n)
  PROVE  /\ Sends(p) /\ pub[p].pc = "idle" /\ slots' = slots
         /\ UNCHANGED <<mem, write_pointer, write_uid>>
         /\ \/ /\ pub'[p].pc = "look" /\ pub'[p].n = n /\ pub'[p].id = count + 1
               /\ count' = count + 1 /\ count < MAX_MSGS
            \/ pub'[p].pc = "dead" /\ count' = count
<1>1. pub[p].pc = "idle" /\ UNCHANGED <<shared, rd>> /\ count < MAX_MSGS
  BY DEF CheckUid, PubAt
<1>2. CASE write_uid = p
  <2>1. /\ pub' = [pub EXCEPT ![p].pc = "look", ![p].n = n, ![p].id = count + 1]
        /\ count' = count + 1
    BY <1>2 DEF CheckUid
  <2>2. pub \in [Publishers -> PubType] /\ count + 1 \in Nat
    BY PubIs DEF Control
  <2>3. /\ pub' = [pub EXCEPT ![p] = pub'[p]] /\ pub'[p] \in PubType
        /\ pub'[p].pc = "look" /\ pub'[p].n = n /\ pub'[p].id = count + 1
    BY <2>1, <2>2 DEF PubType, PubPC
  <2> QED BY <1>1, <2>1, <2>3 DEF Sends, OnlyPub, Changing, shared, header
<1>3. CASE write_uid # p
  <2>1. PubRests(p, "dead") /\ count' = count
    BY <1>3 DEF CheckUid
  <2> QED BY <1>1, <2>1, PubRestsDoes DEF PubPC, Sends, OnlyPub, Changing, shared, header
<1> QED BY <1>2, <1>3

LEMMA LookDoes ==
  ASSUME Control, NEW p \in Publishers, Look(p)
  PROVE  /\ Sends(p) /\ SameJob(p) /\ pub[p].pc = "look" /\ pub'[p].i = 0
         /\ pub'[p].num = num_readers /\ pub'[p].at = write_pointer
         /\ \/ NeedsWrap(p) /\ pub'[p].pc = "tag"
            \/ ~NeedsWrap(p) /\ pub'[p].pc = "overlap" /\ MayWrite(p, write_pointer)
         /\ UNCHANGED <<slots, mem, write_pointer, write_uid, count>>
<1>0. PICK v : v = IF NeedsWrap(p) THEN "tag" ELSE "overlap"
  OBVIOUS
<1>1. /\ pub[p].pc = "look" /\ UNCHANGED <<shared, rd, count>>
      /\ NeedsWrap(p) \/ MayWrite(p, write_pointer)
  BY DEF Look, PubAt
<1>2. pub' = [pub EXCEPT ![p].num = num_readers, ![p].at = write_pointer, ![p].i = 0,
                        ![p].pc = v]
  BY <1>0, Zenon DEF Look
<1>3. /\ v \in PubPC /\ num_readers \in 0..NUM_READERS /\ v \in {"tag", "overlap"}
      /\ write_pointer \in Cursors
  BY <1>0 DEF PubPC, Control
<1>4. pub[p] \in PubType /\ pub \in [Publishers -> PubType]
  BY PubIs
<1>5. /\ pub' = [pub EXCEPT ![p] = pub'[p]] /\ pub'[p] \in PubType /\ pub'[p].pc = v
      /\ pub'[p].i = 0 /\ pub'[p].num = num_readers /\ pub'[p].at = write_pointer /\ SameJob(p)
  BY <1>2, <1>3, <1>4 DEF PubType, SameJob
<1> QED BY <1>0, <1>1, <1>3, <1>5 DEF Sends, OnlyPub, Changing, shared, header

LEMMA WriteWrapTagDoes ==
  ASSUME Control, NEW p \in Publishers, WriteWrapTag(p)
  PROVE  /\ Sends(p) /\ SameJob(p) /\ pub[p].pc = "tag" /\ pub'[p].pc = "beyond"
         /\ pub'[p].i = pub[p].i /\ pub'[p].num = pub[p].num /\ pub'[p].at = pub[p].at
         /\ mem' = [mem EXCEPT ![pub[p].at.p] = WrapTag]
         /\ UNCHANGED <<slots, write_pointer, write_uid, count>>
<1>1. /\ pub[p].pc = "tag" /\ PubGoes(p, "beyond")
      /\ mem' = [mem EXCEPT ![pub[p].at.p] = WrapTag]
      /\ UNCHANGED <<queue, write_pointer, header, rd, count>>
  BY DEF WriteWrapTag, PubAt
<1> QED BY <1>1, PubGoesDoes DEF PubPC, Sends, OnlyPub, Changing, header

LEMMA LookAtReaderDoes ==
  ASSUME Control, NEW p \in Publishers, LookAtReader(p)
  PROVE  /\ Sends(p) /\ SameJob(p) /\ pub[p].i < pub[p].num /\ pub'[p].num = pub[p].num
         /\ pub'[p].at = pub[p].at
         /\ \/ /\ pub[p].pc = "beyond" /\ HitsBeyond(p) /\ pub'[p].pc = "dropBeyond"
               /\ pub'[p].i = pub[p].i
            \/ /\ pub[p].pc = "beyond" /\ ~HitsBeyond(p) /\ pub'[p].pc = "beyond"
               /\ pub'[p].i = pub[p].i + 1
            \/ /\ pub[p].pc = "overlap" /\ HitsOverlap(p) /\ pub'[p].pc = "dropOverlap"
               /\ pub'[p].i = pub[p].i
            \/ /\ pub[p].pc = "overlap" /\ ~HitsOverlap(p) /\ pub'[p].pc = "overlap"
               /\ pub'[p].i = pub[p].i + 1
         /\ UNCHANGED <<slots, mem, write_pointer, write_uid, count>>
<1>1. pub[p].i < pub[p].num /\ UNCHANGED <<shared, rd, count>>
  BY DEF LookAtReader, MoreSlots
<1> DEFINE Frame(v, k) ==
      /\ pub' = [pub EXCEPT ![p] = pub'[p]] /\ pub'[p] \in PubType /\ pub'[p].pc = v
      /\ pub'[p].i = k /\ pub'[p].num = pub[p].num /\ SameJob(p)
      /\ pub'[p].at = pub[p].at
<1>2. \/ pub[p].pc = "beyond" /\ HitsBeyond(p) /\ Frame("dropBeyond", pub[p].i)
      \/ pub[p].pc = "beyond" /\ ~HitsBeyond(p) /\ Frame("beyond", pub[p].i + 1)
      \/ pub[p].pc = "overlap" /\ HitsOverlap(p) /\ Frame("dropOverlap", pub[p].i)
      \/ pub[p].pc = "overlap" /\ ~HitsOverlap(p) /\ Frame("overlap", pub[p].i + 1)
  <2>1. \/ pub[p].pc = "beyond" /\ HitsBeyond(p) /\ PubGoes(p, "dropBeyond")
        \/ pub[p].pc = "beyond" /\ ~HitsBeyond(p) /\ PubNextSlot(p, "beyond")
        \/ pub[p].pc = "overlap" /\ HitsOverlap(p) /\ PubGoes(p, "dropOverlap")
        \/ pub[p].pc = "overlap" /\ ~HitsOverlap(p) /\ PubNextSlot(p, "overlap")
    BY Zenon DEF LookAtReader, PubAt
  <2> QED BY <2>1, PubGoesDoes, PubNextSlotDoes DEF PubPC
<1> QED BY <1>1, <1>2 DEF Sends, OnlyPub, Changing, shared, header

LEMMA DropReaderDoes ==
  ASSUME Control, NEW p \in Publishers, DropReader(p)
  PROVE  /\ Sends(p) /\ SameJob(p) /\ pub'[p].num = pub[p].num /\ pub'[p].i = pub[p].i + 1
         /\ pub'[p].at = pub[p].at
         /\ \/ pub[p].pc = "dropBeyond" /\ pub'[p].pc = "beyond"
            \/ pub[p].pc = "dropOverlap" /\ pub'[p].pc = "overlap"
         /\ slots' = [slots EXCEPT ![pub[p].i].valid = FALSE]
         /\ UNCHANGED <<mem, write_pointer, write_uid, count>>
<1>1. /\ slots' = [slots EXCEPT ![pub[p].i].valid = FALSE]
      /\ UNCHANGED <<queue, mem, write_pointer, write_uid, num_readers, rd, count>>
      /\ \/ pub[p].pc = "dropBeyond" /\ PubNextSlot(p, "beyond")
         \/ pub[p].pc = "dropOverlap" /\ PubNextSlot(p, "overlap")
  BY DEF DropReader, PubAt, OnlySlots
<1> QED BY <1>1, PubNextSlotDoes DEF PubPC, Sends, OnlyPub, Changing

LEMMA WrapAroundDoes ==
  ASSUME Control, NEW p \in Publishers, WrapAround(p)
  PROVE  /\ Sends(p) /\ SameJob(p) /\ pub'[p].num = pub[p].num /\ pub'[p].i = 0
         /\ pub[p].pc = "beyond" /\ pub'[p].pc = "overlap" /\ ~(pub[p].i < pub[p].num)
         /\ MayWrite(p, NextLap(p)) /\ NextLap(p) \in Cursors
         /\ write_pointer' = NextLap(p) /\ pub'[p].at = NextLap(p)
         /\ UNCHANGED <<slots, mem, write_uid, count>>
<1>0. PICK a : a = NextLap(p)
  OBVIOUS
<1>1. /\ pub[p].pc = "beyond" /\ ~(pub[p].i < pub[p].num)
      /\ MayWrite(p, a) /\ write_pointer' = a
      /\ pub' = [pub EXCEPT ![p].pc = "overlap", ![p].i = 0, ![p].at = a]
      /\ UNCHANGED <<queue, mem, header, rd, count>>
  BY <1>0 DEF WrapAround, PubAt, MoreSlots
<1>2. pub[p] \in PubType /\ pub \in [Publishers -> PubType]
  BY PubIs
<1>3. a \in Cursors
  BY <1>0, <1>2 DEF NextLap, Cursor, Cursors, PubType
<1>4. /\ pub' = [pub EXCEPT ![p] = pub'[p]] /\ pub'[p] \in PubType /\ pub'[p].pc = "overlap"
      /\ pub'[p].i = 0 /\ pub'[p].num = pub[p].num /\ pub'[p].at = a /\ SameJob(p)
  BY <1>1, <1>2, <1>3 DEF PubType, PubPC, SameJob
<1> QED BY <1>0, <1>1, <1>3, <1>4 DEF Sends, OnlyPub, Changing, header

LEMMA WriteSizeDoes ==
  ASSUME Control, NEW p \in Publishers, WriteSize(p)
  PROVE  /\ Sends(p) /\ SameJob(p) /\ pub'[p].i = 1 /\ pub'[p].at = pub[p].at
         /\ pub[p].pc = "overlap" /\ pub'[p].pc = "data" /\ ~(pub[p].i < pub[p].num)
         /\ mem' = [mem EXCEPT ![pub[p].at.p] = SizeTag(pub[p].n)]
         /\ UNCHANGED <<slots, write_pointer, write_uid, count>>
<1>1. /\ pub[p].pc = "overlap" /\ ~(pub[p].i < pub[p].num)
      /\ mem' = [mem EXCEPT ![pub[p].at.p] = SizeTag(pub[p].n)]
      /\ pub' = [pub EXCEPT ![p].pc = "data", ![p].i = 1]
      /\ UNCHANGED <<queue, write_pointer, header, rd, count>>
  BY DEF WriteSize, PubAt, MoreSlots
<1>2. pub[p] \in PubType /\ pub \in [Publishers -> PubType]
  BY PubIs
<1>3. /\ pub' = [pub EXCEPT ![p] = pub'[p]] /\ pub'[p] \in PubType /\ pub'[p].pc = "data"
      /\ pub'[p].i = 1 /\ pub'[p].at = pub[p].at /\ SameJob(p)
  BY <1>1, <1>2 DEF PubType, PubPC, SameJob
<1> QED BY <1>1, <1>3 DEF Sends, OnlyPub, Changing, header

LEMMA WriteDataDoes ==
  ASSUME Control, NEW p \in Publishers, WriteData(p)
  PROVE  /\ Sends(p) /\ SameJob(p) /\ pub[p].pc = "data" /\ pub'[p].i = pub[p].i + 1
         /\ pub'[p].at = pub[p].at
         /\ pub'[p].pc = IF pub[p].i = pub[p].n THEN "publish" ELSE "data"
         /\ mem' = [mem EXCEPT ![pub[p].at.p + pub[p].i] = Data(pub[p].id, pub[p].n)]
         /\ UNCHANGED <<slots, write_pointer, write_uid, count>>
<1>0. PICK v : v = IF pub[p].i = pub[p].n THEN "publish" ELSE "data"
  OBVIOUS
<1>1. /\ pub[p].pc = "data" /\ PubNextSlot(p, v)
      /\ mem' = [mem EXCEPT ![pub[p].at.p + pub[p].i] = Data(pub[p].id, pub[p].n)]
      /\ UNCHANGED <<queue, write_pointer, header, rd, count>>
  BY <1>0, Zenon DEF WriteData, PubAt
<1>2. v \in {"publish", "data"}
  BY <1>0
<1> QED BY <1>0, <1>1, <1>2, PubNextSlotDoes DEF PubPC, Sends, OnlyPub, Changing, header

LEMMA PublishDoes ==
  ASSUME Control, NEW p \in Publishers, Publish(p)
  PROVE  /\ Sends(p) /\ pub[p].pc = "publish" /\ pub'[p].pc = "idle"
         /\ write_pointer' = Cursor(pub[p].at.c, pub[p].at.p + pub[p].n + 1)
         /\ write_pointer' \in Cursors
         /\ UNCHANGED <<slots, mem, write_uid, count>>
<1>1. /\ pub[p].pc = "publish" /\ PubRests(p, "idle")
      /\ write_pointer' = Cursor(pub[p].at.c, pub[p].at.p + pub[p].n + 1)
      /\ UNCHANGED <<queue, mem, header, rd, count>>
  BY DEF Publish, PubAt
<1>2. Cursor(pub[p].at.c, pub[p].at.p + pub[p].n + 1) \in Cursors
  <2>1. pub[p].n \in Nat /\ pub[p].at \in Cursors
    BY PubIs, QueueIs DEF PubType, Control
  <2> QED BY <2>1 DEF Cursor, Cursors
<1> QED BY <1>1, <1>2, PubRestsDoes DEF PubPC, Sends, OnlyPub, Changing, header

---------------------------------------------------------------------------
(* Which slots are held *)

\* Somebody has yet to clear slot s.
Clears(s) == \/ \E p \in Publishers : Changing(pub[p].pc) /\ pub[p].i <= s
             \/ \E e \in Readers : Changing(rd[e].pc) /\ rd[e].i <= s

\* A slot is held for good unless it is about to be cleared between two calls.
Solid(r) == Holds(r) /\ ~(At(r, "idle") /\ Clears(rd[r].slot))
Counted == \A r \in Readers : Solid(r) =>
             /\ rd[r].slot < num_readers
             /\ \A q \in Readers \ {r} : Solid(q) => rd[q].slot # rd[r].slot

KeepsUids ==
  /\ slots' = [s \in Slots |-> slots'[s]]
  /\ \A s \in Slots : IsSlot(slots'[s]) /\ slots'[s].uid = slots[s].uid

\* Steps that change nothing of who holds which slot
Keeps(r) == Quiet(r) /\ KeepsUids /\ (Holds(r)' => Holds(r))

LEMMA LocalKeepsUids ==
  ASSUME Control, slots' = slots
  PROVE  KeepsUids
  BY DEF Control, KeepsUids

LEMMA StoredKeepsUids ==
  ASSUME Control, NEW s \in Slots, slots' = [slots EXCEPT ![s] = slots'[s]],
         IsSlot(slots'[s]), slots'[s].uid = slots[s].uid
  PROVE  KeepsUids
  BY DEF Control, KeepsUids

LEMMA InvalidKeepsUids ==
  ASSUME Control, NEW s, slots' = [slots EXCEPT ![s].valid = FALSE]
  PROVE  KeepsUids /\ \A k \in Slots : slots'[k].pointer = slots[k].pointer
         /\ slots'[k].valid = IF k = s THEN FALSE ELSE slots[k].valid
<1>1. slots = [k \in Slots |-> slots[k]]
  BY DEF Control
<1>2. slots' = [k \in Slots |-> slots'[k]]
  BY <1>1
<1>3. ASSUME NEW k \in Slots
      PROVE  /\ IsSlot(slots'[k]) /\ slots'[k].uid = slots[k].uid
             /\ slots'[k].pointer = slots[k].pointer
             /\ slots'[k].valid = IF k = s THEN FALSE ELSE slots[k].valid
  <2>0. PICK z : z = slots[k]
    OBVIOUS
  <2>1. IsSlot(z)
    BY <2>0 DEF Control
  <2>2. CASE k # s
    <3>1. slots'[k] = slots[k]
      BY <1>1, <2>2
    <3> QED BY <2>0, <2>1, <2>2, <3>1
  <2>3. CASE k = s
    <3>0. PICK y : y = [z EXCEPT !.valid = FALSE]
      OBVIOUS
    <3>1. slots'[k] = y
      BY <1>1, <2>0, <2>3, <3>0
    <3>2. IsSlot(y) /\ y.valid = FALSE /\ y.pointer = z.pointer /\ y.uid = z.uid
      BY <2>1, <3>0 DEF IsSlot
    <3> QED BY <2>0, <2>3, <3>1, <3>2
  <2> QED BY <2>2, <2>3
<1> QED BY <1>2, <1>3 DEF KeepsUids

LEMMA ClearedSlot ==
  ASSUME Control, NEW s \in Slots, slots' = [slots EXCEPT ![s].uid = NOBODY]
  PROVE  /\ slots' = [k \in Slots |-> slots'[k]]
         /\ \A k \in Slots : /\ IsSlot(slots'[k]) /\ slots'[k].pointer = slots[k].pointer
                             /\ slots'[k].valid = slots[k].valid
                             /\ slots'[k].uid = IF k = s THEN NOBODY ELSE slots[k].uid
<1>1. slots = [k \in Slots |-> slots[k]]
  BY DEF Control
<1>2. slots' = [k \in Slots |-> slots'[k]]
  BY <1>1
<1>3. ASSUME NEW k \in Slots
      PROVE  /\ IsSlot(slots'[k]) /\ slots'[k].pointer = slots[k].pointer
             /\ slots'[k].valid = slots[k].valid
             /\ slots'[k].uid = IF k = s THEN NOBODY ELSE slots[k].uid
  <2>0. PICK z : z = slots[k]
    OBVIOUS
  <2>1. IsSlot(z)
    BY <2>0 DEF Control
  <2>2. CASE k # s
    <3>1. slots'[k] = slots[k]
      BY <1>1, <2>2
    <3> QED BY <2>0, <2>1, <2>2, <3>1
  <2>3. CASE k = s
    <3>0. PICK y : y = [z EXCEPT !.uid = NOBODY]
      OBVIOUS
    <3>1. slots'[k] = y
      BY <1>1, <2>0, <2>3, <3>0
    <3>2. IsSlot(y) /\ y.valid = z.valid /\ y.pointer = z.pointer /\ y.uid = NOBODY
      BY <2>1, <3>0 DEF IsSlot
    <3> QED BY <2>0, <2>3, <3>1, <3>2
  <2> QED BY <2>2, <2>3
<1> QED BY <1>2, <1>3

LEMMA KeepsUid ==
  ASSUME Control, NEW r \in Readers, Quiet(r), KeepsUids
  PROVE  Mine(r)'.uid = Mine(r).uid
  BY DEF Control, GoodReader, Quiet, KeepsUids, Mine

\* From within a call or a connection
LEMMA InsideKeeps ==
  ASSUME Control, NEW r \in Readers, Quiet(r), KeepsUids,
         rd[r].pc \notin {"off", "claim", "idle", "uid"}
  PROVE  Keeps(r)
  BY DEF Quiet, Keeps, Holds

InitSlotKeepsUid(r) == InitSlot(r) /\ rd[r].pc # "initUid"

LEMMA ReaderKeeps ==
  ASSUME Control, NEW r \in Readers,
         \/ Subscribe(r) \/ Call(r) \/ InitSlotKeepsUid(r) \/ ResetReader(r)
         \/ CheckReaderUid(r) \/ CheckValid(r) \/ LoadPointers(r) \/ LoadSize(r)
         \/ ReadWrap(r) \/ Skip(r) \/ CopyWord(r) \/ Advance(r) \/ Return(r)
  PROVE  Keeps(r)
<1>0. rd[r].slot \in Slots
  BY MineIs
<1>1. CASE Subscribe(r)
  <2>1. Local(r) /\ rd'[r].pc = "claim"
    BY <1>1, SubscribeDoes
  <2> QED BY <2>1, LocalKeepsUids DEF Local, Keeps, Holds
<1>2. CASE Call(r)
  <2>1. Local(r) /\ rd[r].pc = "idle" /\ rd'[r].pc = "uid"
    BY <1>2, CallDoes
  <2>2. Quiet(r) /\ KeepsUids
    BY <2>1, LocalKeepsUids DEF Local
  <2> QED BY <2>1, <2>2, KeepsUid DEF Keeps, Holds, Changing
<1>3. CASE CheckReaderUid(r)
  <2>1. /\ Local(r) /\ rd[r].pc = "uid"
        /\ rd'[r].pc = IF Mine(r).uid = r THEN "valid" ELSE "claim"
    BY <1>3, CheckReaderUidDoes
  <2>2. Quiet(r) /\ KeepsUids
    BY <2>1, LocalKeepsUids DEF Local
  <2> QED BY <2>1, <2>2 DEF Keeps, Holds, Changing
<1>4. CASE CheckValid(r)
  <2>1. Local(r) /\ rd[r].pc \in {"valid", "recheck"}
    BY <1>4, CheckValidDoes
  <2> QED BY <2>1, LocalKeepsUids, InsideKeeps DEF Local
<1>5. CASE LoadPointers(r)
  <2>1. Local(r) /\ rd[r].pc \in {"at", "to"}
    BY <1>5, LoadPointersIs, LoadAtDoes, LoadToDoes, NoMessageDoes
  <2> QED BY <2>1, LocalKeepsUids, InsideKeeps DEF Local
<1>6. CASE LoadSize(r)
  <2>1. Local(r) /\ rd[r].pc = "size"
    BY <1>6, LoadSizeDoes
  <2> QED BY <2>1, LocalKeepsUids, InsideKeeps DEF Local
<1>7. CASE CopyWord(r)
  <2>1. Local(r) /\ rd[r].pc = "copy"
    BY <1>7, CopyWordDoes
  <2> QED BY <2>1, LocalKeepsUids, InsideKeeps DEF Local
<1>8. CASE Return(r)
  <2>1. Local(r) /\ rd[r].pc = "final"
    BY <1>8, ReturnIs, SucceedsDoes, FailsDoes
  <2> QED BY <2>1, LocalKeepsUids, InsideKeeps DEF Local
<1>9. ASSUME NEW b, NEW at, Stored(r, b, at), slots'[rd[r].slot].uid = Mine(r).uid,
             rd[r].pc \notin {"off", "claim", "idle", "uid"}
      PROVE  Keeps(r)
  <2>1. KeepsUids
    BY <1>0, <1>9, StoredKeepsUids DEF Stored, Mine
  <2> QED BY <1>9, <2>1, InsideKeeps DEF Stored
<1>10. CASE InitSlotKeepsUid(r)
  <2>1. InitSlot(r) /\ rd[r].pc # "initUid"
    BY <1>10 DEF InitSlotKeepsUid
  <2>2. \E b, at : /\ Stored(r, b, at) /\ slots'[rd[r].slot].uid = Mine(r).uid
                   /\ rd[r].pc \in {"initValid", "initPointer"}
    BY <2>1, InitSlotDoes
  <2> QED BY <1>9, <2>2
<1>11. CASE ResetReader(r)
  <2>1. CASE ResetLoad(r)
    <3>1. Local(r) /\ rd[r].pc = "resetLoad"
      BY <2>1, ResetLoadDoes
    <3> QED BY <3>1, LocalKeepsUids, InsideKeeps DEF Local
  <2>2. CASE ~ResetLoad(r)
    <3>1. \E b, at : /\ Stored(r, b, at) /\ slots'[rd[r].slot].uid = Mine(r).uid
                     /\ rd[r].pc \in {"resetValid", "resetStore"}
      BY <1>11, <2>2, ResetReaderDoes
    <3> QED BY <1>9, <3>1
  <2> QED BY <2>1, <2>2
<1>12. CASE ReadWrap(r) \/ Skip(r) \/ Advance(r)
  <2>1. \/ At(r, "wrap") /\ StorePointer(r, Cursor(rd[r].at.c + 1, 0), "uid")
        \/ At(r, "skip") /\ StorePointer(r, AfterMessage(r), "uid")
        \/ At(r, "advance") /\ StorePointer(r, AfterMessage(r), "final")
    BY <1>12 DEF ReadWrap, Skip, Advance
  <2>2. \E b, at : /\ Stored(r, b, at) /\ slots'[rd[r].slot].uid = Mine(r).uid
                   /\ rd[r].pc \in {"wrap", "skip", "advance"}
    BY <2>1, MovesOnDoes
  <2> QED BY <1>9, <2>2
<1> QED BY <1>1, <1>2, <1>3, <1>4, <1>5, <1>6, <1>7, <1>8, <1>10, <1>11, <1>12

LEMMA OthersStay ==
  ASSUME Control, NEW r \in Readers, OnlyReader(r)
  PROVE  \A q \in Readers \ {r} : rd'[q] = rd[q]
  BY DEF Control, OnlyReader

LEMMA SettledClears ==
  ASSUME ~Overlap, SlotsSettled
  PROVE  \A s : ~Clears(s)
  BY DEF SlotsSettled, Clears

\* What the others hold, as long as no slot is given a new uid
LEMMA OthersHold ==
  ASSUME Control, NEW q \in Readers, rd'[q] = rd[q], KeepsUids
  PROVE  Holds(q)' = Holds(q) /\ rd'[q].slot = rd[q].slot /\ At(q, "idle")' = At(q, "idle")
<1>1. rd[q].slot \in Slots
  BY DEF Control, GoodReader
<1>2. Mine(q)'.uid = Mine(q).uid
  BY <1>1 DEF KeepsUids, Mine
<1>3. Holds(q)' <=> Holds(q)
  BY <1>2 DEF Holds
<1>4. At(q, "idle")' <=> At(q, "idle")
  BY DEF At
<1>5. Holds(q) \in BOOLEAN /\ Holds(q)' \in BOOLEAN
  BY DEF Holds
<1>6. At(q, "idle") \in BOOLEAN /\ At(q, "idle")' \in BOOLEAN
  BY DEF At
<1> QED BY <1>3, <1>4, <1>5, <1>6

\* Only who has just claimed a slot holds one that was not held for good before.
Shrinks == \A q \in Readers : Solid(q)' => \/ rd'[q].pc = "initValid"
                                           \/ Solid(q) /\ rd'[q].slot = rd[q].slot

LEMMA FewerSolid ==
  ASSUME Control, Counted, num_readers' = num_readers,
         \A q \in Readers : Solid(q)' => Solid(q) /\ rd'[q].slot = rd[q].slot
  PROVE  Counted' /\ Shrinks
  BY DEF Counted, Shrinks

LEMMA KeepsCounted ==
  ASSUME Control, Counted, ~Overlap, NEW r \in Readers, Keeps(r)
  PROVE  Counted' /\ Shrinks
<1>1. /\ OnlyReader(r) /\ num_readers' = num_readers /\ rd'[r].slot = rd[r].slot /\ KeepsUids
      /\ ~Changing(rd[r].pc) /\ ~Changing(rd'[r].pc) /\ (At(r, "idle") => SlotsSettled)
      /\ (Holds(r)' => Holds(r)) /\ pub' = pub
  BY DEF Keeps, Quiet, OnlyReader
<1>2. \A q \in Readers \ {r} : rd'[q] = rd[q]
  BY <1>1, OthersStay
<1>3. \A s : Clears(s)' <=> Clears(s)
  BY <1>1, <1>2 DEF Clears
<1>4. ASSUME NEW q \in Readers, Solid(q)' PROVE Solid(q) /\ rd'[q].slot = rd[q].slot
  <2>1. CASE q # r
    <3>1. Holds(q)' = Holds(q) /\ rd'[q].slot = rd[q].slot /\ At(q, "idle")' = At(q, "idle")
      BY <1>1, <1>2, <2>1, OthersHold
    <3> QED BY <1>3, <1>4, <3>1, Zenon DEF Solid
  <2>2. CASE q = r
    <3>1. Holds(q)
      BY <1>1, <1>4, <2>2 DEF Solid
    <3>2. At(q, "idle") => ~Clears(rd[q].slot)
      BY <1>1, <2>2, SettledClears
    <3> QED BY <1>1, <2>2, <3>1, <3>2 DEF Solid
  <2> QED BY <2>1, <2>2
<1> QED BY <1>1, <1>4, FewerSolid

\* The new uid of a slot is that of a subscriber who holds it already.
LEMMA InitUidCounted ==
  ASSUME Control, Counted, NEW r \in Readers, InitSlot(r), rd[r].pc = "initUid"
  PROVE  Counted' /\ Shrinks
<1>0. /\ rd'[r].pc = "resetValid" /\ slots'[rd[r].slot].uid = r
      /\ Stored(r, Mine(r).valid, Mine(r).pointer)
  BY InitSlotDoes
<1>1. /\ OnlyReader(r) /\ num_readers' = num_readers /\ rd'[r].slot = rd[r].slot
      /\ pub' = pub /\ slots' = [slots EXCEPT ![rd[r].slot] = slots'[rd[r].slot]]
      /\ ~Changing(rd[r].pc) /\ ~Changing(rd'[r].pc)
  BY <1>0 DEF Stored, Quiet, OnlyReader
<1>2. \A q \in Readers \ {r} : rd'[q] = rd[q]
  BY <1>1, OthersStay
<1>3. \A s : Clears(s)' <=> Clears(s)
  BY <1>1, <1>2 DEF Clears
<1>4. ASSUME NEW q \in Readers, Solid(q)' PROVE Solid(q) /\ rd'[q].slot = rd[q].slot
  <2>1. CASE q # r
    <3>1. rd'[q] = rd[q] /\ rd[q].slot \in Slots
      BY <1>2, <2>1, MineIs
    <3>2. Mine(q)'.uid = q => Mine(q).uid = q
      BY <1>0, <1>1, <2>1, <3>1 DEF Mine, Control
    <3>3. Holds(q)' => Holds(q)
      BY <3>1, <3>2 DEF Holds
    <3> QED BY <1>3, <1>4, <3>1, <3>3 DEF Solid, At
  <2>2. CASE q = r
    <3>1. Holds(r) /\ ~At(r, "idle")
      BY DEF Holds, Changing, At
    <3> QED BY <1>1, <2>2, <3>1 DEF Solid
  <2> QED BY <2>1, <2>2
<1> QED BY <1>1, <1>4, FewerSolid

\* The next slot is counted by taking it, and nobody else holds it for good.
LEMMA ClaimNextCounted ==
  ASSUME Control, Counted, NEW r \in Readers, ClaimNext(r)
  PROVE  Counted' /\ Shrinks
<1>0. /\ OnlyReader(r) /\ slots' = slots /\ num_readers' = num_readers + 1
      /\ rd[r].pc = "claim" /\ rd'[r].pc = "initValid" /\ rd'[r].slot = num_readers
  BY ClaimNextDoes
<1>1. /\ num_readers \in Nat /\ \A q \in Readers : rd[q].slot \in Nat
  BY QueueIs, MineIs DEF Control
<1>2. \A q \in Readers \ {r} : rd'[q] = rd[q]
  BY <1>0, OthersStay
<1>3. \A s : Clears(s)' <=> Clears(s)
  BY <1>0, <1>2 DEF Clears, OnlyReader, Changing
<1>4. ASSUME NEW q \in Readers \ {r}, Solid(q)'
      PROVE  /\ Solid(q) /\ rd'[q].slot = rd[q].slot /\ rd[q].slot < num_readers
             /\ \A k \in Readers \ {q} : Solid(k) => rd[k].slot # rd[q].slot
  <2>1. Holds(q)' = Holds(q) /\ rd'[q].slot = rd[q].slot /\ At(q, "idle")' = At(q, "idle")
    BY <1>0, <1>2, OthersHold, LocalKeepsUids
  <2>2. Solid(q)
    BY <1>3, <1>4, <2>1, Zenon DEF Solid
  <2> QED BY <2>1, <2>2 DEF Counted
<1>5. ASSUME NEW q \in Readers, Solid(q)'
      PROVE  /\ rd'[q].slot < num_readers'
             /\ \A k \in Readers \ {q} : Solid(k)' => rd'[k].slot # rd'[q].slot
  <2>1. CASE q # r
    <3>1. rd'[q].slot = rd[q].slot /\ rd[q].slot < num_readers
      BY <1>4, <1>5, <2>1
    <3>2. ASSUME NEW k \in Readers \ {q}, Solid(k)' PROVE rd'[k].slot # rd'[q].slot
      <4>1. CASE k = r
        BY <1>0, <1>1, <3>1, <4>1
      <4>2. CASE k # r
        BY <1>4, <1>5, <2>1, <3>2, <4>2
      <4> QED BY <4>1, <4>2
    <3> QED BY <1>0, <1>1, <3>1, <3>2
  <2>2. CASE q = r
    <3>1. ASSUME NEW k \in Readers \ {q}, Solid(k)' PROVE rd'[k].slot # rd'[q].slot
      BY <1>0, <1>1, <1>4, <2>2, <3>1
    <3> QED BY <1>0, <1>1, <2>2, <3>1
  <2> QED BY <2>1, <2>2
<1> QED BY <1>0, <1>4, <1>5 DEF Counted, Shrinks

\* Nobody in a call or a connection: every slot is held between two calls, and about to be
\* cleared from the first on.
LEMMA NoneSolid ==
  ASSUME Control, ~Overlap, SlotsMayChange, KeepsUids,
         \A q \in Readers : rd'[q] = rd[q] \/ Changing(rd'[q].pc),
         \A s \in Slots : Clears(s)'
  PROVE  Counted' /\ Shrinks
<1>1. ASSUME NEW q \in Readers, Solid(q)' PROVE FALSE
  <2>1. Holds(q)'
    BY <1>1 DEF Solid
  <2>2. rd'[q] = rd[q]
    BY <2>1 DEF Holds
  <2>3. rd[q].pc \in {"off", "idle", "claim"} /\ rd[q].slot \in Slots
    BY MineIs DEF SlotsMayChange, MidCall
  <2>4. rd'[q].pc = "idle"
    BY <2>1, <2>2, <2>3 DEF Holds
  <2> QED BY <1>1, <2>2, <2>3, <2>4 DEF Solid, At
<1> QED BY <1>1 DEF Counted, Shrinks

LEMMA EvictAllCounted ==
  ASSUME Control, ~Overlap, NEW r \in Readers, EvictAll(r)
  PROVE  Counted' /\ Shrinks
<1>1. /\ OnlyReader(r) /\ slots' = slots /\ SlotsMayChange
      /\ rd'[r].pc = "evictValid" /\ rd'[r].i = 0
  BY EvictAllDoes
<1>2. \A q \in Readers : rd'[q] = rd[q] \/ Changing(rd'[q].pc)
  BY <1>1, OthersStay DEF Changing
<1>3. Slots \subseteq Nat
  BY QueueIs DEF Control
<1>4. \A s \in Slots : 0 <= s
  BY <1>3
<1>5. \A s \in Slots : Clears(s)'
  BY <1>1, <1>4 DEF Clears, Changing
<1> QED BY <1>1, <1>2, <1>5, NoneSolid, LocalKeepsUids

LEMMA ForgetReadersCounted ==
  ASSUME Control, ~Overlap, NEW p \in Publishers, ForgetReaders(p)
  PROVE  Counted' /\ Shrinks
<1>1. /\ OnlyPub(p) /\ slots' = slots /\ SlotsMayChange
      /\ pub'[p].pc = "forgetValid" /\ pub'[p].i = 0
  BY ForgetReadersDoes
<1>2. \A q \in Readers : rd'[q] = rd[q] \/ Changing(rd'[q].pc)
  BY <1>1 DEF OnlyPub
<1>3. Slots \subseteq Nat
  BY QueueIs DEF Control
<1>4. \A s \in Slots : 0 <= s
  BY <1>3
<1>5. \A s \in Slots : Clears(s)'
  BY <1>1, <1>4 DEF Clears, Changing
<1> QED BY <1>1, <1>2, <1>5, NoneSolid, LocalKeepsUids

\* Who clears slots goes on with the same one, or has just cleared it.
LEMMA ClearingCounted ==
  ASSUME Control, Counted, num_readers' = num_readers,
         \A q \in Readers : rd'[q] = rd[q] \/ Changing(rd[q].pc),
         \A q \in Readers : rd'[q].slot = rd[q].slot,
         \A q \in Readers : rd'[q] = rd[q] \/ Changing(rd'[q].pc) \/ rd'[q].pc = "claim",
         NEW k \in Slots \cup {NUM_READERS},
         \A s \in Slots : slots'[s].uid = IF s = k THEN NOBODY ELSE slots[s].uid,
         \A s \in Slots : s # k /\ Clears(s) => Clears(s)'
  PROVE  Counted' /\ Shrinks
<1>1. ASSUME NEW q \in Readers, Solid(q)' PROVE Solid(q)
  <2>1. Holds(q)' /\ ~(At(q, "idle")' /\ Clears(rd[q].slot)')
    BY <1>1 DEF Solid
  <2>2. rd'[q] = rd[q] /\ rd[q].slot \in Slots
    BY <2>1, MineIs DEF Holds
  <2>3. Mine(q)'.uid = IF rd[q].slot = k THEN NOBODY ELSE Mine(q).uid
    BY <2>2 DEF Mine
  <2>4. q # NOBODY
    BY QueueIs DEF Control
  <2>5. Holds(q)
    BY <2>1, <2>2, <2>3, <2>4 DEF Holds
  <2>6. At(q, "idle") => rd[q].slot # k
    BY <2>1, <2>2, <2>3, <2>4 DEF Holds, At
  <2> QED BY <2>1, <2>2, <2>5, <2>6 DEF Solid, At
<1> QED BY <1>1, FewerSolid

LEMMA InvalidUids ==
  ASSUME Control, NEW s, slots' = [slots EXCEPT ![s].valid = FALSE]
  PROVE  \A k \in Slots : slots'[k].uid = IF k = NUM_READERS THEN NOBODY ELSE slots[k].uid
<1>1. KeepsUids
  BY InvalidKeepsUids
<1>2. \A k \in Slots : k # NUM_READERS
  BY QueueIs DEF Control, Slots
<1> QED BY <1>1, <1>2 DEF KeepsUids

LEMMA EvictValidCounted ==
  ASSUME Control, Counted, NEW r \in Readers, EvictValid(r)
  PROVE  Counted' /\ Shrinks
<1>1. /\ OnlyReader(r) /\ num_readers' = num_readers /\ pub' = pub
      /\ rd[r].pc = "evictValid" /\ rd'[r].pc = "evictUid" /\ rd'[r].slot = rd[r].slot
      /\ rd'[r].i = rd[r].i /\ slots' = [slots EXCEPT ![rd[r].i].valid = FALSE]
  BY EvictValidDoes DEF OnlyReader
<1>2. \A q \in Readers \ {r} : rd'[q] = rd[q]
  BY <1>1, OthersStay
<1>3. Changing(rd[r].pc) /\ Changing(rd'[r].pc)
  BY <1>1 DEF Changing
<1>4. \A s : Clears(s) => Clears(s)'
  BY <1>1, <1>2, <1>3 DEF Clears
<1>5. \A s \in Slots : slots'[s].uid = IF s = NUM_READERS THEN NOBODY ELSE slots[s].uid
  BY <1>1, InvalidUids
<1> QED BY <1>1, <1>2, <1>3, <1>4, <1>5, ClearingCounted

\* The slot after one that is before another
LEMMA NextSlot ==
  ASSUME Control, NEW s \in Slots, NEW i \in Slots, i <= s, i # s
  PROVE  i + 1 \in Slots /\ i + 1 <= s
<1>1. NUM_READERS \in Nat
  BY QueueIs DEF Control
<1> QED BY <1>1 DEF Slots

LEMMA EvictUidCounted ==
  ASSUME Control, Counted, NEW r \in Readers, EvictUid(r)
  PROVE  Counted' /\ Shrinks
<1>1. /\ OnlyReader(r) /\ num_readers' = num_readers /\ pub' = pub /\ rd[r].i \in Slots
      /\ rd[r].pc = "evictUid" /\ rd'[r].slot = rd[r].slot /\ rd'[r].i = rd[r].i + 1
      /\ rd'[r].pc = IF rd[r].i + 1 \in Slots THEN "evictValid" ELSE "claim"
      /\ slots' = [slots EXCEPT ![rd[r].i].uid = NOBODY]
  BY EvictUidDoes DEF OnlyReader
<1>2. \A q \in Readers \ {r} : rd'[q] = rd[q]
  BY <1>1, OthersStay
<1>3. Changing(rd[r].pc) /\ (Changing(rd'[r].pc) \/ rd'[r].pc = "claim")
  BY <1>1 DEF Changing
<1>4. ASSUME NEW s \in Slots, s # rd[r].i, Clears(s) PROVE Clears(s)'
  <2>1. CASE rd[r].i <= s
    <3>1. rd[r].i + 1 \in Slots /\ rd[r].i + 1 <= s
      BY <1>1, <1>4, <2>1, NextSlot
    <3>2. Changing(rd'[r].pc)
      BY <1>1, <3>1 DEF Changing
    <3> QED BY <1>1, <3>1, <3>2 DEF Clears
  <2>2. CASE ~(rd[r].i <= s)
    BY <1>1, <1>2, <1>4, <2>2 DEF Clears
  <2> QED BY <2>1, <2>2
<1>5. \A s \in Slots : slots'[s].uid = IF s = rd[r].i THEN NOBODY ELSE slots[s].uid
  BY <1>1, ClearedSlot
<1> QED BY <1>1, <1>2, <1>3, <1>4, <1>5, ClearingCounted

LEMMA OthersPublish ==
  ASSUME Control, NEW p \in Publishers, OnlyPub(p)
  PROVE  \A q \in Publishers \ {p} : pub'[q] = pub[q]
  BY DEF Control, OnlyPub

LEMMA ForgetValidCounted ==
  ASSUME Control, Counted, NEW p \in Publishers, ForgetValid(p)
  PROVE  Counted' /\ Shrinks
<1>1. /\ OnlyPub(p) /\ num_readers' = num_readers /\ rd' = rd
      /\ pub[p].pc = "forgetValid" /\ pub'[p].pc = "forgetUid"
      /\ pub'[p].i = pub[p].i /\ slots' = [slots EXCEPT ![pub[p].i].valid = FALSE]
  BY ForgetValidDoes DEF OnlyPub
<1>2. \A q \in Publishers \ {p} : pub'[q] = pub[q]
  BY <1>1, OthersPublish
<1>3. Changing(pub[p].pc) /\ Changing(pub'[p].pc)
  BY <1>1 DEF Changing
<1>4. \A s : Clears(s) => Clears(s)'
  BY <1>1, <1>2, <1>3 DEF Clears
<1>5. \A s \in Slots : slots'[s].uid = IF s = NUM_READERS THEN NOBODY ELSE slots[s].uid
  BY <1>1, InvalidUids
<1> QED BY <1>1, <1>4, <1>5, ClearingCounted

LEMMA ForgetUidCounted ==
  ASSUME Control, Counted, NEW p \in Publishers, ForgetUid(p)
  PROVE  Counted' /\ Shrinks
<1>1. /\ OnlyPub(p) /\ num_readers' = num_readers /\ rd' = rd
      /\ pub[p].pc = "forgetUid" /\ pub[p].i \in Slots
      /\ slots' = [slots EXCEPT ![pub[p].i].uid = NOBODY]
      /\ \/ pub[p].i + 1 \in Slots /\ pub'[p].pc = "forgetValid" /\ pub'[p].i = pub[p].i + 1
         \/ pub[p].i + 1 \notin Slots /\ pub'[p].pc = "idle"
  BY ForgetUidDoes DEF OnlyPub
<1>2. \A q \in Publishers \ {p} : pub'[q] = pub[q]
  BY <1>1, OthersPublish
<1>4. ASSUME NEW s \in Slots, s # pub[p].i, Clears(s) PROVE Clears(s)'
  <2>1. CASE pub[p].i <= s
    <3>1. pub[p].i + 1 \in Slots /\ pub[p].i + 1 <= s
      BY <1>1, <1>4, <2>1, NextSlot
    <3>2. Changing(pub'[p].pc) /\ pub'[p].i <= s
      BY <1>1, <3>1 DEF Changing
    <3> QED BY <3>2 DEF Clears
  <2>2. CASE ~(pub[p].i <= s)
    BY <1>1, <1>2, <1>4, <2>2 DEF Clears
  <2> QED BY <2>1, <2>2
<1>5. \A s \in Slots : slots'[s].uid = IF s = pub[p].i THEN NOBODY ELSE slots[s].uid
  BY <1>1, ClearedSlot
<1> QED BY <1>1, <1>4, <1>5, ClearingCounted

LEMMA SendsCounted ==
  ASSUME Control, Counted, NEW p \in Publishers, Sends(p), KeepsUids
  PROVE  Counted' /\ Shrinks
<1>1. /\ OnlyPub(p) /\ num_readers' = num_readers /\ rd' = rd
      /\ ~Changing(pub[p].pc) /\ ~Changing(pub'[p].pc)
  BY DEF Sends, OnlyPub
<1>2. \A q \in Publishers \ {p} : pub'[q] = pub[q]
  BY <1>1, OthersPublish
<1>3. \A s : Clears(s)' <=> Clears(s)
  BY <1>1, <1>2 DEF Clears
<1>4. ASSUME NEW q \in Readers, Solid(q)' PROVE Solid(q) /\ rd'[q].slot = rd[q].slot
  <2>1. Holds(q)' = Holds(q) /\ rd'[q].slot = rd[q].slot /\ At(q, "idle")' = At(q, "idle")
    BY <1>1, OthersHold
  <2> QED BY <1>1, <1>3, <1>4, <2>1, Zenon DEF Solid
<1> QED BY <1>1, <1>4, FewerSolid

\* A publisher's steps that clear no slots
Sending(p) ==
  \/ TakeOver(p) \/ PubCrash(p) \/ Look(p) \/ WriteWrapTag(p) \/ LookAtReader(p)
  \/ DropReader(p) \/ WrapAround(p) \/ WriteSize(p) \/ WriteData(p) \/ Publish(p)
  \/ \E n \in Sizes : CheckUid(p, n)

LEMMA SendingSends ==
  ASSUME Control, ~Overlap, NEW p \in Publishers, Sending(p)
  PROVE  Sends(p) /\ KeepsUids /\ count' \in Nat /\ write_pointer' \in Cursors
<1>0. count \in Nat /\ count + 1 \in Nat /\ write_pointer \in Cursors
  BY DEF Control
<1>1. CASE TakeOver(p)
  BY <1>0, <1>1, TakeOverDoes, LocalKeepsUids
<1>2. CASE PubCrash(p)
  BY <1>0, <1>2, PubCrashDoes, LocalKeepsUids
<1>3. CASE Look(p)
  BY <1>0, <1>3, LookDoes, LocalKeepsUids
<1>4. CASE WriteWrapTag(p)
  BY <1>0, <1>4, WriteWrapTagDoes, LocalKeepsUids
<1>5. CASE LookAtReader(p)
  BY <1>0, <1>5, LookAtReaderDoes, LocalKeepsUids
<1>6. CASE DropReader(p)
  BY <1>0, <1>6, DropReaderDoes, InvalidKeepsUids
<1>7. CASE WrapAround(p)
  BY <1>0, <1>7, WrapAroundDoes, LocalKeepsUids
<1>8. CASE WriteSize(p)
  BY <1>0, <1>8, WriteSizeDoes, LocalKeepsUids
<1>9. CASE WriteData(p)
  BY <1>0, <1>9, WriteDataDoes, LocalKeepsUids
<1>10. CASE Publish(p)
  BY <1>0, <1>10, PublishDoes, LocalKeepsUids
<1>11. CASE \E n \in Sizes : CheckUid(p, n)
  <2>1. PICK n \in Sizes : CheckUid(p, n)
    BY <1>11
  <2> QED BY <1>0, <2>1, CheckUidDoes, LocalKeepsUids
<1> QED BY <1>1, <1>2, <1>3, <1>4, <1>5, <1>6, <1>7, <1>8, <1>9, <1>10, <1>11 DEF Sending

---------------------------------------------------------------------------
(* The control types are kept. *)

SlotsStay == slots' = [s \in Slots |-> slots'[s]] /\ \A s \in Slots : IsSlot(slots'[s])

LEMMA ReaderControl ==
  ASSUME Control, NEW r \in Readers, OnlyReader(r), SlotsStay, num_readers' \in 0..NUM_READERS
  PROVE  Control'
<1>1. /\ rd' = [rd EXCEPT ![r] = rd'[r]] /\ GoodReader(rd'[r])
      /\ UNCHANGED <<queue, write_pointer, pub, count>>
  BY DEF OnlyReader
<1>2. Slots' = Slots /\ NUM_READERS' = NUM_READERS /\ PubType' = PubType
  BY <1>1 DEF Slots, NUM_READERS, PubType, Sizes
<1>3. rd' = [q \in Readers |-> rd'[q]] /\ \A q \in Readers : GoodReader(rd[q])'
  <2>1. rd = [q \in Readers |-> rd[q]] /\ \A q \in Readers : GoodReader(rd[q])
    BY DEF Control
  <2>2. rd' = [q \in Readers |-> rd'[q]]
    BY <1>1, <2>1
  <2>3. \A q \in Readers : GoodReader(rd'[q])
    BY <1>1, <2>1, OthersStay
  <2> QED BY <1>2, <2>2, <2>3 DEF GoodReader, IsReader
<1> QED BY <1>1, <1>2, <1>3 DEF Control, SlotsStay, IsSlot

LEMMA PubControl ==
  ASSUME Control, NEW p \in Publishers, OnlyPub(p), SlotsStay, num_readers' \in 0..NUM_READERS,
         count' \in Nat, write_pointer' \in Cursors
  PROVE  Control'
<1>1. /\ pub' = [pub EXCEPT ![p] = pub'[p]] /\ pub'[p] \in PubType
      /\ Changing(pub'[p].pc) => pub'[p].i \in Slots
      /\ UNCHANGED <<queue, rd>>
  BY DEF OnlyPub
<1>2. Slots' = Slots /\ NUM_READERS' = NUM_READERS /\ PubType' = PubType
  BY <1>1 DEF Slots, NUM_READERS, PubType, Sizes
<1>3. pub' \in [Publishers -> PubType]
  BY <1>1 DEF Control
<1>4. \A q \in Publishers : Changing(pub'[q].pc) => pub'[q].i \in Slots
  BY <1>1, OthersPublish DEF Control
<1>5. rd = [q \in Readers |-> rd[q]] /\ \A q \in Readers : GoodReader(rd[q])
  BY DEF Control
<1>6. \A q \in Readers : GoodReader(rd[q])'
  BY <1>1, <1>2, <1>5 DEF GoodReader, IsReader
<1> QED BY <1>1, <1>2, <1>3, <1>4, <1>5, <1>6 DEF Control, SlotsStay, IsSlot

LEMMA Bounds ==
  ASSUME Control
  PROVE  /\ num_readers \in 0..NUM_READERS /\ 0 \in 0..NUM_READERS
         /\ num_readers \in Slots => num_readers + 1 \in 0..NUM_READERS
  BY QueueIs DEF Control, Slots

Safe == Control /\ Counted

\* A subscriber's step
LEMMA ReaderSafe ==
  ASSUME Safe, ~Overlap, NEW r \in Readers, Subscribe(r) \/ Call(r) \/ ReaderStep(r)
  PROVE  Safe' /\ Shrinks
<1>0. Control /\ Counted
  BY DEF Safe
<1>1. CASE Keeps(r)
  <2>1. OnlyReader(r) /\ num_readers' = num_readers /\ SlotsStay
    BY <1>1 DEF Keeps, Quiet, KeepsUids, SlotsStay
  <2>2. Control'
    BY <1>0, <2>1, ReaderControl, Bounds
  <2> QED BY <1>0, <1>1, <2>2, KeepsCounted DEF Safe
<1>2. CASE InitSlot(r) /\ rd[r].pc = "initUid"
  <2>1. Stored(r, Mine(r).valid, Mine(r).pointer) /\ rd[r].slot \in Slots
    BY <1>0, <1>2, InitSlotDoes, MineIs
  <2>2. /\ OnlyReader(r) /\ num_readers' = num_readers /\ IsSlot(slots'[rd[r].slot])
        /\ slots' = [slots EXCEPT ![rd[r].slot] = slots'[rd[r].slot]]
    BY <2>1 DEF Stored, Quiet
  <2>3. SlotsStay
    BY <1>0, <2>1, <2>2 DEF Control, SlotsStay
  <2>4. Control'
    BY <1>0, <2>2, <2>3, ReaderControl, Bounds
  <2> QED BY <1>0, <1>2, <2>4, InitUidCounted DEF Safe
<1>3. CASE Claim(r)
  <2>1. SlotsStay /\ OnlyReader(r) /\ num_readers' \in 0..NUM_READERS
    BY <1>0, <1>3, ClaimIs, ClaimNextDoes, EvictAllDoes, LocalKeepsUids, Bounds
      DEF KeepsUids, SlotsStay
  <2>2. Control'
    BY <1>0, <2>1, ReaderControl
  <2> QED BY <1>0, <1>3, <2>2, ClaimIs, ClaimNextCounted, EvictAllCounted DEF Safe
<1>4. CASE EvictValid(r)
  <2>1. SlotsStay /\ OnlyReader(r) /\ num_readers' = num_readers
    BY <1>0, <1>4, EvictValidDoes, InvalidKeepsUids DEF KeepsUids, SlotsStay
  <2>2. Control'
    BY <1>0, <2>1, ReaderControl, Bounds
  <2> QED BY <1>0, <1>4, <2>2, EvictValidCounted DEF Safe
<1>5. CASE EvictUid(r)
  <2>1. SlotsStay /\ OnlyReader(r) /\ num_readers' = num_readers
    BY <1>0, <1>5, EvictUidDoes, ClearedSlot DEF SlotsStay
  <2>2. Control'
    BY <1>0, <2>1, ReaderControl, Bounds
  <2> QED BY <1>0, <1>5, <2>2, EvictUidCounted DEF Safe
<1> QED
  <2>1. \/ Claim(r) \/ EvictValid(r) \/ EvictUid(r) \/ (InitSlot(r) /\ rd[r].pc = "initUid")
        \/ Subscribe(r) \/ Call(r) \/ InitSlotKeepsUid(r) \/ ResetReader(r)
        \/ CheckReaderUid(r) \/ CheckValid(r) \/ LoadPointers(r) \/ LoadSize(r)
        \/ ReadWrap(r) \/ Skip(r) \/ CopyWord(r) \/ Advance(r) \/ Return(r)
    BY Zenon DEF ReaderStep, InitSlotKeepsUid
  <2> QED BY <1>0, <1>1, <1>2, <1>3, <1>4, <1>5, <2>1, ReaderKeeps

\* A publisher's step
LEMMA PubSafe ==
  ASSUME Safe, ~Overlap, NEW p \in Publishers,
         TakeOver(p) \/ PubCrash(p) \/ PubStep(p) \/ \E n \in Sizes : CheckUid(p, n)
  PROVE  Safe' /\ Shrinks
<1>0. Control /\ Counted /\ count \in Nat /\ write_pointer \in Cursors
  BY DEF Safe, Control
<1>1. CASE Sending(p)
  <2>1. Sends(p) /\ KeepsUids /\ count' \in Nat /\ write_pointer' \in Cursors
    BY <1>0, <1>1, SendingSends
  <2>2. OnlyPub(p) /\ num_readers' = num_readers /\ SlotsStay
    BY <2>1 DEF Sends, KeepsUids, SlotsStay
  <2>3. Control'
    BY <1>0, <2>1, <2>2, PubControl, Bounds
  <2> QED BY <1>0, <2>1, <2>3, SendsCounted DEF Safe
<1>2. CASE ForgetReaders(p)
  <2>1. OnlyPub(p) /\ num_readers' = 0 /\ SlotsStay /\ UNCHANGED <<write_pointer, count>>
    BY <1>0, <1>2, ForgetReadersDoes, LocalKeepsUids DEF KeepsUids, SlotsStay
  <2>2. Control'
    BY <1>0, <2>1, PubControl, Bounds
  <2> QED BY <1>0, <1>2, <2>2, ForgetReadersCounted DEF Safe
<1>3. CASE ForgetValid(p)
  <2>1. OnlyPub(p) /\ num_readers' = num_readers /\ SlotsStay /\ UNCHANGED <<write_pointer, count>>
    BY <1>0, <1>3, ForgetValidDoes, InvalidKeepsUids DEF KeepsUids, SlotsStay
  <2>2. Control'
    BY <1>0, <2>1, PubControl, Bounds
  <2> QED BY <1>0, <1>3, <2>2, ForgetValidCounted DEF Safe
<1>4. CASE ForgetUid(p)
  <2>1. OnlyPub(p) /\ num_readers' = num_readers /\ SlotsStay /\ UNCHANGED <<write_pointer, count>>
    BY <1>0, <1>4, ForgetUidDoes, ClearedSlot DEF SlotsStay
  <2>2. Control'
    BY <1>0, <2>1, PubControl, Bounds
  <2> QED BY <1>0, <1>4, <2>2, ForgetUidCounted DEF Safe
<1> QED
  <2>1. Sending(p) \/ ForgetReaders(p) \/ ForgetValid(p) \/ ForgetUid(p)
    BY Zenon DEF PubStep, Sending
  <2> QED BY <1>1, <1>2, <1>3, <1>4, <2>1

LEMMA StutterSafe ==
  ASSUME Safe, UNCHANGED vars
  PROVE  Safe'
<1>1. UNCHANGED <<queue, write_pointer, num_readers, slots, pub, rd, count>>
  BY DEF vars, shared, header
<1>2. Slots' = Slots /\ NUM_READERS' = NUM_READERS /\ PubType' = PubType
  BY <1>1 DEF Slots, NUM_READERS, PubType, Sizes
<1>3. \A q \in Readers : GoodReader(rd[q])'
  BY <1>1, <1>2 DEF Safe, Control, GoodReader, IsReader
<1>4. Control'
  BY <1>1, <1>2, <1>3 DEF Safe, Control, IsSlot
<1>5. \A q \in Readers : Solid(q)' <=> Solid(q)
  BY <1>1 DEF Solid, Holds, Clears, Mine, At
<1>6. Counted'
  BY <1>1, <1>5 DEF Safe, Counted
<1> QED BY <1>4, <1>6 DEF Safe

LEMMA InitSafe ==
  ASSUME Init
  PROVE  Safe
<1>1. /\ queue \in Queues /\ num_readers = 0 /\ count = 0 /\ write_pointer = Cursor(0, 0)
      /\ slots = [s \in Slots |-> [pointer |-> Cursor(0, 0), valid |-> FALSE, uid |-> NOBODY]]
      /\ pub = [p \in Publishers |-> NoPub] /\ rd = [r \in Readers |-> NoReader]
  BY DEF Init
<1>2. 0 \in Slots /\ 0 \in 0..NUM_READERS /\ Cursor(0, 0) \in Cursors
  BY <1>1, QueueIs DEF Cursor, Cursors
<1>3. NoPub \in PubType /\ NoPub.pc = "off"
  BY <1>2 DEF NoPub, PubType, PubPC
<1>4. GoodReader(NoReader) /\ NoReader.pc = "off"
  BY <1>2 DEF GoodReader, IsReader, NoReader, ReaderPC, Changing
<1>5. Control
  <2>1. slots = [s \in Slots |-> slots[s]] /\ \A s \in Slots : IsSlot(slots[s])
    BY <1>1 DEF IsSlot
  <2>2. rd = [r \in Readers |-> rd[r]] /\ \A r \in Readers : GoodReader(rd[r])
    BY <1>1, <1>4
  <2>3. /\ pub \in [Publishers -> PubType]
        /\ \A p \in Publishers : Changing(pub[p].pc) => pub[p].i \in Slots
    BY <1>1, <1>3 DEF Changing
  <2> QED BY <1>1, <1>2, <2>1, <2>2, <2>3 DEF Control
<1>6. \A r \in Readers : ~Solid(r)
  BY <1>1, <1>4 DEF Solid, Holds
<1> QED BY <1>5, <1>6 DEF Safe, Counted

LEMMA SettledCounted ==
  ASSUME Safe, ~Overlap
  PROVE  SlotsAreCounted
<1> SUFFICES ASSUME SlotsSettled PROVE \A r \in Readers : Holds(r) =>
      /\ rd[r].slot < num_readers
      /\ \A q \in Readers \ {r} : Holds(q) => rd[q].slot # rd[r].slot
  BY DEF SlotsAreCounted
<1>1. \A r \in Readers : Holds(r) => Solid(r)
  BY SettledClears DEF Solid
<1> QED BY <1>1 DEF Safe, Counted

\* Every slot a subscriber holds is one of the num_readers whose pointers msgq_msg_send
\* looks at, and no two hold the same, however subscribers come, evict one another and
\* lose their slots to new publishers; unless the slots change hands during a call.
THEOREM HeldSlotsCount == ~Overlap /\ Spec => []SlotsAreCounted
<1>1. Init => Safe
  BY InitSafe
<1>2. ~Overlap /\ Safe /\ [Next]_vars => Safe'
  <2> SUFFICES ASSUME ~Overlap, Safe, [Next]_vars PROVE Safe'
    OBVIOUS
  <2>1. CASE UNCHANGED vars
    BY <2>1, StutterSafe
  <2>2. CASE \E p \in Publishers : TakeOver(p) \/ PubCrash(p) \/ PubStep(p)
                                   \/ \E n \in Sizes : CheckUid(p, n)
    BY <2>2, PubSafe
  <2>3. CASE \E r \in Readers : Subscribe(r) \/ Call(r) \/ ReaderStep(r)
    BY <2>3, ReaderSafe
  <2> QED BY <2>1, <2>2, <2>3, Zenon DEF Next
<1>3. ~Overlap /\ Safe => SlotsAreCounted
  BY SettledCounted
<1>4. ~Overlap => []~Overlap
  <2>1. ~Overlap => (~Overlap)'
    OBVIOUS
  <2> QED BY <2>1, PTL
<1> QED BY <1>1, <1>2, <1>3, <1>4, PTL DEF Spec

---------------------------------------------------------------------------
(* The buffer: where messages start, and what a reader finds there *)

RestPC == {"idle", "uid", "valid", "at", "to", "final"}
ReadPC == {"size", "recheck", "wrap", "skip", "copy", "advance"}
SendPC == {"look", "tag", "beyond", "dropBeyond", "overlap", "dropOverlap", "data", "publish"}
WrapPC == {"tag", "beyond", "dropBeyond"}
OverPC == {"overlap", "dropOverlap", "data", "publish"}
FillPC == {"data", "publish"}

\* The ids of the messages that have been published
Old == {id \in 0..count : \A p \in Publishers : pub[p].pc \in SendPC => id < pub[p].id}

\* What the positions B of the buffer mean, which are those where messages start
World(B) == [mem |-> mem, w |-> write_pointer.p, lap |-> write_pointer.c, starts |-> B,
             old |-> Old, size |-> SIZE, sizes |-> Sizes, max |-> MAX_MSGS]

Size(G, b) == G.mem[b][2]
Id(G, b) == G.mem[b + 1][2]
Words(G, b, n, id) == \A k \in 1..n : G.mem[b + k] = Data(id, n)
IsMessage(G, b) ==
  /\ Size(G, b) \in G.sizes /\ G.mem[b] = SizeTag(Size(G, b)) /\ Id(G, b) \in 1..G.max
  /\ Words(G, b, Size(G, b), Id(G, b))

\* Who stands at p has only messages newer than id before it.
Above(G, id) == \A b \in G.starts : b < G.w => Id(G, b) > id
Ahead(G, p, id) == /\ id \in G.old
                   /\ p # G.w /\ G.mem[p] # WrapTag => Id(G, p) > id
                   /\ p > G.w => Above(G, id)

\* After the message id of n words at a comes another, or the write pointer.
Follows(G, a, n, id) == /\ a + n + 1 \in G.starts /\ (a < G.w => a + n + 1 <= G.w)
                        /\ Ahead(G, a + n + 1, id)

\* Messages start there, of this lap or an earlier one.
Shaped(G) ==
  /\ G.w \in G.starts /\ 0 \in G.starts /\ G.starts \subseteq 0..G.size - 1
  /\ G.size \in Nat /\ G.lap \in Nat /\ G.max \in Nat /\ G.old \subseteq Nat
  /\ G.sizes \subseteq Nat \ {0} /\ G.mem = [j \in 0..G.size - 1 |-> G.mem[j]]
Laid(G) ==
  /\ Shaped(G)
  /\ \A b \in G.starts \ {G.w} : \/ G.mem[b] = WrapTag /\ b > G.w
                                 \/ IsMessage(G, b) /\ Follows(G, b, Size(G, b), Id(G, b))

---------------------------------------------------------------------------
(* Words of the buffer *)

LEMMA Tags ==
  /\ \A n : SizeTag(n)[2] = n
  /\ \A n \in Nat : SizeTag(n) # WrapTag
  /\ \A id, n : Data(id, n)[2] = id
  /\ \A id1, n1, id2, n2 : Data(id1, n1) = Data(id2, n2) => id1 = id2 /\ n1 = n2
  BY DEF SizeTag, WrapTag, Data

LEMMA ShapedIs ==
  ASSUME NEW G, Shaped(G)
  PROVE  /\ G.w \in Nat /\ G.w < G.size /\ G.w \in G.starts /\ G.starts \subseteq Nat /\ G.lap \in Nat
         /\ G.size \in Nat /\ G.sizes \subseteq Nat /\ 0 \notin G.sizes
  BY DEF Shaped

\* A message ends before the write pointer, or begins after it.
LEMMA MessageEnds ==
  ASSUME NEW G, Laid(G), NEW b \in G.starts, b # G.w, G.mem[b] # WrapTag
  PROVE  /\ IsMessage(G, b) /\ Follows(G, b, Size(G, b), Id(G, b))
         /\ Size(G, b) \in Nat /\ Size(G, b) >= 1
         /\ b < G.w => b + Size(G, b) + 1 <= G.w
<1>1. IsMessage(G, b) /\ Follows(G, b, Size(G, b), Id(G, b)) /\ Shaped(G)
  BY Zenon DEF Laid
<1>2. Size(G, b) \in G.sizes
  BY <1>1 DEF IsMessage
<1>3. Size(G, b) \in Nat /\ Size(G, b) >= 1
  BY <1>1, <1>2, ShapedIs
<1> QED BY <1>1, <1>3 DEF Follows

LEMMA MessageBehind ==
  ASSUME NEW G, Laid(G), NEW b \in G.starts, b < G.w
  PROVE  /\ b # G.w /\ G.mem[b] # WrapTag
         /\ IsMessage(G, b) /\ Follows(G, b, Size(G, b), Id(G, b))
         /\ Size(G, b) \in Nat /\ Size(G, b) >= 1 /\ b + Size(G, b) + 1 <= G.w
<1>1. G.w \in Nat /\ b \in Nat /\ Shaped(G)
  BY ShapedIs DEF Laid
<1>2. b \in G.starts \ {G.w} /\ ~(b > G.w)
  BY <1>1
<1>3. IsMessage(G, b)
  BY <1>2, Zenon DEF Laid
<1>4. Size(G, b) \in G.sizes /\ G.mem[b] = SizeTag(Size(G, b))
  BY <1>3 DEF IsMessage
<1>5. G.mem[b] # WrapTag
  BY <1>1, <1>4, Tags, ShapedIs
<1> QED BY <1>2, <1>5, MessageEnds

---------------------------------------------------------------------------
(* A step that stores between the write pointer and F, one that wraps, and *)
(* one that publishes                                                      *)

Same(G, H) == /\ H.size = G.size /\ H.sizes = G.sizes /\ H.max = G.max
              /\ G.old \subseteq H.old /\ H.old \subseteq Nat
Writes(G, H, F) ==
  /\ Same(G, H) /\ H.w = G.w /\ H.lap = G.lap
  /\ H.mem = [j \in 0..G.size - 1 |-> H.mem[j]]
  /\ F \in Nat /\ F > G.w /\ \A j \in 0..G.size - 1 : j < G.w \/ j >= F => H.mem[j] = G.mem[j]
  /\ H.starts = {b \in G.starts : b <= G.w \/ b >= F}
Wraps(G, H) ==
  /\ Same(G, H) /\ H.w = 0 /\ H.lap = G.lap + 1 /\ H.mem = G.mem /\ H.starts = G.starts
  /\ G.mem[G.w] = WrapTag /\ G.w > 0
Publishes(G, H, n, id) ==
  /\ Same(G, H) /\ H.w = G.w + n + 1 /\ H.lap = G.lap /\ H.mem = G.mem
  /\ H.starts = G.starts \cup {H.w} /\ H.w < G.size
  /\ n \in G.sizes /\ id \in 1..G.max /\ G.mem[G.w] = SizeTag(n) /\ Words(G, G.w, n, id)
  /\ id \in H.old /\ \A o \in G.old : o < id
  /\ \A b \in G.starts : ~(G.w < b /\ b < H.w)

\* What stands at p still stands there, and what is read there still comes.
Kept(G, H, p) ==
  /\ p \in H.starts
  /\ \A id : Ahead(G, p, id) => Ahead(H, p, id)
  /\ \A c \in Nat : c <= G.lap /\ (p > G.w => c < G.lap) => c <= H.lap /\ (p > H.w => c < H.lap)
ReadKept(G, H, p) ==
  /\ H.mem[p] = G.mem[p] \/ H.mem[p] = WrapTag
  /\ \A n \in G.sizes : \A id : Follows(G, p, n, id) =>
       Follows(H, p, n, id) /\ (Words(G, p, n, id) => Words(H, p, n, id))
  /\ \A c \in Nat : c <= G.lap /\ (c < G.lap \/ p < G.w) => c < H.lap \/ p < H.w
  /\ \A id \in G.old : (p >= G.w => Above(G, id)) => (p >= H.w => Above(H, id))
  /\ p >= G.w => p >= H.w

---------------------------------------------------------------------------
(* A store *)

\* The words of a message that is not in between stay.
LEMMA WordsStay ==
  ASSUME NEW G, Laid(G), NEW H, NEW F, Writes(G, H, F), NEW a \in G.starts, NEW n \in Nat,
         a + n + 1 \in G.starts, (a < G.w /\ a + n + 1 <= G.w) \/ a + 1 >= F
  PROVE  \A k \in 1..n : H.mem[a + k] = G.mem[a + k]
<1>1. Shaped(G)
  BY DEF Laid
<1>2. /\ a \in Nat /\ G.w \in Nat /\ F \in Nat /\ G.size \in Nat /\ F > G.w
      /\ a + n + 1 \in Nat
  BY <1>1, ShapedIs DEF Writes
<1>3. a + n + 1 <= G.size - 1
  BY <1>1, <1>2 DEF Shaped
<1>4. ASSUME NEW k \in 1..n PROVE H.mem[a + k] = G.mem[a + k]
  <2>1. a + k \in 0..G.size - 1 /\ (a + k < G.w \/ a + k >= F)
    BY <1>2, <1>3
  <2> QED BY <2>1 DEF Writes
<1> QED BY <1>4

LEMMA MessageStays ==
  ASSUME NEW G, Laid(G), NEW H, NEW F, Writes(G, H, F), NEW b \in G.starts, G.mem[b] # WrapTag,
         b < G.w \/ b >= F
  PROVE  /\ IsMessage(H, b) /\ H.mem[b] = G.mem[b] /\ Size(H, b) = Size(G, b)
         /\ Id(H, b) = Id(G, b)
<1>1. Shaped(G) /\ F \in Nat /\ F > G.w
  BY DEF Laid, Writes
<1>2. b \in Nat /\ G.w \in Nat /\ b # G.w
  BY <1>1, ShapedIs
<1>3. PICK n : n = Size(G, b)
  OBVIOUS
<1>4. PICK i : i = Id(G, b)
  OBVIOUS
<1>5. /\ IsMessage(G, b) /\ Follows(G, b, n, i) /\ n \in Nat /\ n >= 1
      /\ b < G.w => b + n + 1 <= G.w
  BY <1>2, <1>3, <1>4, MessageEnds
<1>6. H.mem[b] = G.mem[b]
  BY <1>1, <1>2 DEF Writes, Shaped
<1>7. b + n + 1 \in G.starts
  BY <1>5 DEF Follows
<1>12. (b < G.w /\ b + n + 1 <= G.w) \/ b + 1 >= F
  BY <1>1, <1>2, <1>5
<1>8. \A k \in 1..n : H.mem[b + k] = G.mem[b + k]
  BY <1>5, <1>7, <1>12, WordsStay
<1>9. Size(H, b) = n /\ Id(H, b) = i
  BY <1>3, <1>4, <1>5, <1>6, <1>8 DEF Size, Id
<1>10. n \in G.sizes /\ G.mem[b] = SizeTag(n) /\ i \in 1..G.max /\ Words(G, b, n, i)
  BY <1>3, <1>4, <1>5 DEF IsMessage
<1>11. Words(H, b, n, i)
  BY <1>8, <1>10 DEF Words
<1> QED BY <1>3, <1>4, <1>6, <1>9, <1>10, <1>11 DEF IsMessage, Writes, Same

LEMMA AheadStays ==
  ASSUME NEW G, Laid(G), NEW H, NEW F, Writes(G, H, F), NEW p \in H.starts, NEW id,
         Ahead(G, p, id)
  PROVE  Ahead(H, p, id)
<1>1. /\ Shaped(G) /\ H.w = G.w /\ F \in Nat /\ F > G.w /\ G.old \subseteq H.old
      /\ H.starts = {b \in G.starts : b <= G.w \/ b >= F}
  BY DEF Laid, Writes, Same
<1>2. p \in Nat /\ G.w \in Nat /\ p \in G.starts /\ (p <= G.w \/ p >= F)
  BY <1>1, ShapedIs
<1>3. ASSUME p # H.w, H.mem[p] # WrapTag PROVE Id(H, p) > id
  <2>1. p < G.w \/ p >= F
    BY <1>1, <1>2, <1>3
  <2>2. H.mem[p] = G.mem[p]
    BY <1>1, <1>2, <2>1 DEF Writes, Shaped
  <2>3. Id(H, p) = Id(G, p)
    BY <1>2, <1>3, <2>1, <2>2, MessageStays
  <2> QED BY <1>1, <1>3, <2>2, <2>3 DEF Ahead
<1>4. ASSUME p > H.w, NEW b \in H.starts, b < H.w PROVE Id(H, b) > id
  <2>1. b \in G.starts /\ b < G.w
    BY <1>1, <1>4
  <2>2. Id(G, b) > id
    BY <1>1, <1>4, <2>1 DEF Ahead, Above
  <2>3. G.mem[b] # WrapTag
    BY <2>1, MessageBehind
  <2> QED BY <2>1, <2>2, <2>3, MessageStays
<1> QED BY <1>1, <1>3, <1>4 DEF Ahead, Above

LEMMA FollowsStays ==
  ASSUME NEW G, Laid(G), NEW H, NEW F, Writes(G, H, F), NEW a \in Nat, NEW n \in Nat, NEW id,
         Follows(G, a, n, id), a < G.w \/ a + 1 >= F
  PROVE  Follows(H, a, n, id)
<1>1. /\ Shaped(G) /\ H.w = G.w /\ F \in Nat /\ F > G.w
      /\ H.starts = {b \in G.starts : b <= G.w \/ b >= F}
  BY DEF Laid, Writes
<1>2. /\ a + n + 1 \in G.starts /\ (a < G.w => a + n + 1 <= G.w) /\ G.w \in Nat
      /\ Ahead(G, a + n + 1, id)
  BY <1>1, ShapedIs DEF Follows
<1>3. a + n + 1 <= G.w \/ a + n + 1 >= F
  BY <1>1, <1>2
<1>4. a + n + 1 \in H.starts
  BY <1>1, <1>2, <1>3
<1>5. Ahead(H, a + n + 1, id)
  BY <1>2, <1>4, AheadStays
<1> QED BY <1>1, <1>2, <1>4, <1>5 DEF Follows

LEMMA LaidStays ==
  ASSUME NEW G, Laid(G), NEW H, NEW F, Writes(G, H, F)
  PROVE  Laid(H)
<1>1. /\ Shaped(G) /\ H.w = G.w /\ H.lap = G.lap /\ F \in Nat /\ F > G.w /\ Same(G, H)
      /\ H.starts = {b \in G.starts : b <= G.w \/ b >= F}
      /\ H.mem = [j \in 0..G.size - 1 |-> H.mem[j]]
  BY DEF Laid, Writes
<1>2. G.starts \subseteq Nat /\ G.w \in Nat
  BY <1>1, ShapedIs
<1>3. Shaped(H)
  BY <1>1, <1>2 DEF Shaped, Same
<1>4. ASSUME NEW b \in H.starts \ {H.w}
      PROVE  \/ H.mem[b] = WrapTag /\ b > H.w
             \/ IsMessage(H, b) /\ Follows(H, b, Size(H, b), Id(H, b))
  <2>1. b \in G.starts /\ (b < G.w \/ b >= F) /\ b # G.w /\ b \in Nat
    BY <1>1, <1>2
  <2>2. CASE G.mem[b] = WrapTag
    <3>1. ~(b < G.w)
      BY <2>1, <2>2, MessageBehind
    <3>2. b > G.w
      BY <1>2, <2>1, <3>1
    <3>3. H.mem[b] = G.mem[b]
      BY <1>1, <2>1 DEF Writes, Shaped
    <3> QED BY <1>1, <2>2, <3>2, <3>3
  <2>3. CASE G.mem[b] # WrapTag
    <3>1. IsMessage(H, b) /\ Size(H, b) = Size(G, b) /\ Id(H, b) = Id(G, b)
      BY <2>1, <2>3, MessageStays
    <3>2. Follows(G, b, Size(G, b), Id(G, b)) /\ Size(G, b) \in Nat
      BY <2>1, <2>3, MessageEnds
    <3>3. b < G.w \/ b + 1 >= F
      BY <1>1, <2>1
    <3>4. Follows(H, b, Size(G, b), Id(G, b))
      BY <2>1, <3>2, <3>3, FollowsStays
    <3> QED BY <3>1, <3>4
  <2> QED BY <2>2, <2>3
<1> QED BY <1>3, <1>4, Zenon DEF Laid

LEMMA KeptStays ==
  ASSUME NEW G, Laid(G), NEW H, NEW F, Writes(G, H, F), NEW p \in G.starts, p <= G.w \/ p >= F
  PROVE  /\ Kept(G, H, p)
         /\ (p # G.w \/ (F = G.w + 1 /\ H.mem[p] \in {G.mem[p], WrapTag})) => ReadKept(G, H, p)
<1>1. /\ Shaped(G) /\ H.w = G.w /\ H.lap = G.lap /\ F \in Nat /\ F > G.w /\ Same(G, H)
      /\ H.starts = {b \in G.starts : b <= G.w \/ b >= F}
  BY DEF Laid, Writes
<1>2. p \in Nat /\ G.w \in Nat /\ p \in H.starts
  BY <1>1, ShapedIs
<1>3. Kept(G, H, p)
  <2>1. \A id : Ahead(G, p, id) => Ahead(H, p, id)
    BY <1>2, AheadStays
  <2> QED BY <1>1, <1>2, <2>1 DEF Kept
<1>4. ASSUME p # G.w \/ (F = G.w + 1 /\ H.mem[p] \in {G.mem[p], WrapTag})
      PROVE  ReadKept(G, H, p)
  <2>1. p < G.w \/ p + 1 >= F
    BY <1>1, <1>2, <1>4
  <2>2. H.mem[p] = G.mem[p] \/ H.mem[p] = WrapTag
    <3>1. CASE p # G.w
      <4>1. p < G.w \/ p >= F
        BY <1>2, <3>1
      <4> QED BY <1>1, <4>1 DEF Writes, Shaped
    <3> QED BY <1>4, <3>1
  <2>3. ASSUME NEW n \in G.sizes, NEW id, Follows(G, p, n, id)
        PROVE  Follows(H, p, n, id) /\ (Words(G, p, n, id) => Words(H, p, n, id))
    <3>1. n \in Nat /\ p + n + 1 \in G.starts /\ (p < G.w => p + n + 1 <= G.w)
      BY <1>1, <2>3, ShapedIs DEF Follows
    <3>2. Follows(H, p, n, id)
      BY <1>2, <2>1, <2>3, <3>1, FollowsStays
    <3>3. \A k \in 1..n : H.mem[p + k] = G.mem[p + k]
      BY <2>1, <3>1, WordsStay
    <3> QED BY <3>2, <3>3 DEF Words
  <2>4. ASSUME NEW id, Above(G, id) PROVE Above(H, id)
    <3> SUFFICES ASSUME NEW b \in H.starts, b < H.w PROVE Id(H, b) > id
      BY DEF Above
    <3>1. b \in G.starts /\ b < G.w
      BY <1>1
    <3>2. Id(G, b) > id /\ G.mem[b] # WrapTag
      BY <2>4, <3>1, MessageBehind DEF Above
    <3> QED BY <3>1, <3>2, MessageStays
  <2> QED BY <1>1, <2>2, <2>3, <2>4 DEF ReadKept
<1> QED BY <1>3, <1>4

---------------------------------------------------------------------------
(* The write pointer goes back to the start. *)

LEMMA WrapsKept ==
  ASSUME NEW G, Laid(G), NEW H, Wraps(G, H), NEW p \in G.starts
  PROVE  Kept(G, H, p) /\ ReadKept(G, H, p)
<1>1. /\ Shaped(G) /\ H.w = 0 /\ H.lap = G.lap + 1 /\ Same(G, H) /\ H.mem = G.mem
      /\ H.starts = G.starts /\ G.mem[G.w] = WrapTag /\ G.w > 0
  BY DEF Laid, Wraps
<1>2. G.w \in Nat /\ G.lap \in Nat /\ G.starts \subseteq Nat /\ p \in Nat
  BY <1>1, ShapedIs
<1>3. \A id : Above(H, id)
  BY <1>1, <1>2 DEF Above
<1>4. ASSUME NEW b \in G.starts, NEW id, Ahead(G, b, id) PROVE Ahead(H, b, id)
  <2>1. b # H.w /\ H.mem[b] # WrapTag => Id(H, b) > id
    BY <1>1, <1>4 DEF Ahead, Id
  <2> QED BY <1>1, <1>3, <1>4, <2>1 DEF Ahead, Same
<1>5. Kept(G, H, p)
  <2>1. \A c \in Nat : c <= G.lap /\ (p > G.w => c < G.lap) => c <= H.lap /\ (p > H.w => c < H.lap)
    BY <1>1, <1>2
  <2> QED BY <1>1, <1>4, <2>1 DEF Kept
<1>6. ASSUME NEW n \in G.sizes, NEW id, Follows(G, p, n, id)
      PROVE  Follows(H, p, n, id) /\ (Words(G, p, n, id) => Words(H, p, n, id))
  <2>1. p + n + 1 \in G.starts /\ Ahead(H, p + n + 1, id)
    BY <1>4, <1>6 DEF Follows
  <2>2. ~(p < H.w)
    BY <1>1, <1>2
  <2> QED BY <1>1, <2>1, <2>2 DEF Follows, Words
<1>7. /\ \A c \in Nat : c <= G.lap /\ (c < G.lap \/ p < G.w) => c < H.lap \/ p < H.w
      /\ p >= H.w
  BY <1>1, <1>2
<1>8. ReadKept(G, H, p)
  BY <1>1, <1>3, <1>6, <1>7 DEF ReadKept
<1> QED BY <1>5, <1>8

LEMMA WrapsLaid ==
  ASSUME NEW G, Laid(G), NEW H, Wraps(G, H)
  PROVE  Laid(H)
<1>1. /\ Shaped(G) /\ H.w = 0 /\ H.lap = G.lap + 1 /\ Same(G, H) /\ H.mem = G.mem
      /\ H.starts = G.starts /\ G.mem[G.w] = WrapTag /\ G.w > 0
  BY DEF Laid, Wraps
<1>2. Shaped(H)
  BY <1>1 DEF Shaped, Same
<1>3. G.w \in Nat /\ G.starts \subseteq Nat
  BY <1>1, ShapedIs
<1>4. ASSUME NEW b \in H.starts \ {H.w}
      PROVE  \/ H.mem[b] = WrapTag /\ b > H.w
             \/ IsMessage(H, b) /\ Follows(H, b, Size(H, b), Id(H, b))
  <2>1. b \in G.starts /\ b > H.w
    BY <1>1, <1>3
  <2>2. CASE G.mem[b] = WrapTag
    BY <1>1, <2>1, <2>2
  <2>3. CASE G.mem[b] # WrapTag
    <3>1. IsMessage(G, b) /\ Follows(G, b, Size(G, b), Id(G, b))
      BY <1>1, <2>1, <2>3, MessageEnds
    <3>2. Size(G, b) \in G.sizes
      BY <3>1 DEF IsMessage
    <3>3. Follows(H, b, Size(G, b), Id(G, b))
      BY <2>1, <3>1, <3>2, WrapsKept DEF ReadKept
    <3> QED BY <1>1, <3>1, <3>3 DEF IsMessage, Size, Id, Words, Same
  <2> QED BY <2>2, <2>3
<1> QED BY <1>2, <1>4, Zenon DEF Laid

---------------------------------------------------------------------------
(* The write pointer goes past a message. *)

LEMMA PublishesIs ==
  ASSUME NEW G, Laid(G), NEW H, NEW n, NEW id, Publishes(G, H, n, id)
  PROVE  /\ Shaped(G) /\ Shaped(H) /\ H.w = G.w + n + 1 /\ H.lap = G.lap /\ H.mem = G.mem
         /\ G.w \in Nat /\ n \in Nat /\ n >= 1 /\ H.w \in Nat /\ G.starts \subseteq Nat
         /\ H.starts = G.starts \cup {H.w}
         /\ Size(G, G.w) = n /\ Id(G, G.w) = id /\ IsMessage(G, G.w) /\ id \in H.old
<1>1. /\ Shaped(G) /\ H.w = G.w + n + 1 /\ H.lap = G.lap /\ H.mem = G.mem /\ Same(G, H)
      /\ H.starts = G.starts \cup {H.w} /\ H.w < G.size /\ n \in G.sizes /\ id \in 1..G.max
      /\ G.mem[G.w] = SizeTag(n) /\ Words(G, G.w, n, id) /\ id \in H.old
  BY DEF Laid, Publishes
<1>2. G.w \in Nat /\ n \in Nat /\ n >= 1 /\ G.starts \subseteq Nat /\ H.w \in Nat
  BY <1>1, ShapedIs
<1>3. Shaped(H)
  <2>1. H.starts \subseteq 0..G.size - 1 /\ H.w \in H.starts /\ 0 \in H.starts
    BY <1>1, <1>2 DEF Shaped
  <2>2. H.size = G.size /\ H.max = G.max /\ H.sizes = G.sizes /\ H.old \subseteq Nat
    BY <1>1 DEF Same
  <2> QED BY <1>1, <2>1, <2>2 DEF Shaped
<1>4. G.mem[G.w + 1] = Data(id, n)
  BY <1>1, <1>2 DEF Words
<1>5. Size(G, G.w) = n /\ Id(G, G.w) = id
  BY <1>1, <1>4, Tags DEF Size, Id
<1>6. IsMessage(G, G.w)
  BY <1>1, <1>5 DEF IsMessage
<1> QED BY <1>1, <1>2, <1>3, <1>5, <1>6

LEMMA PublishesAbove ==
  ASSUME NEW G, Laid(G), NEW H, NEW n, NEW id, Publishes(G, H, n, id), NEW last \in G.old, Above(G, last)
  PROVE  Above(H, last)
<1>1. /\ H.w = G.w + n + 1 /\ H.starts = G.starts \cup {H.w} /\ H.mem = G.mem
      /\ G.w \in Nat /\ n \in Nat /\ G.starts \subseteq Nat /\ Id(G, G.w) = id
  BY PublishesIs
<1>2. \A b \in G.starts : ~(G.w < b /\ b < H.w)
  BY DEF Publishes
<1> SUFFICES ASSUME NEW b \in H.starts, b < H.w PROVE Id(H, b) > last
  BY DEF Above
<1>3. b \in G.starts /\ (b < G.w \/ b = G.w)
  BY <1>1, <1>2
<1>4. CASE b < G.w
  BY <1>1, <1>3, <1>4 DEF Above, Id
<1>5. CASE b = G.w
  <2>1. last < id /\ last \in Nat /\ id \in Nat
    BY DEF Publishes, Laid, Shaped
  <2>2. id > last
    BY <2>1
  <2>3. Id(H, b) = Id(G, G.w)
    BY <1>1, <1>5 DEF Id
  <2> QED BY <1>1, <2>2, <2>3
<1> QED BY <1>3, <1>4, <1>5

LEMMA PublishesAhead ==
  ASSUME NEW G, Laid(G), NEW H, NEW n, NEW id, Publishes(G, H, n, id), NEW p \in G.starts, NEW last,
         Ahead(G, p, last)
  PROVE  Ahead(H, p, last)
<1>1. /\ H.w = G.w + n + 1 /\ H.starts = G.starts \cup {H.w} /\ H.mem = G.mem
      /\ G.w \in Nat /\ n \in Nat /\ G.starts \subseteq Nat /\ p \in Nat /\ Id(G, G.w) = id
      /\ Same(G, H)
  BY PublishesIs DEF Publishes
<1>2. last \in G.old /\ last \in H.old
  BY <1>1 DEF Ahead, Same
<1>3. ASSUME p # H.w, H.mem[p] # WrapTag PROVE Id(H, p) > last
  <2>1. CASE p = G.w
    <3>1. last < id /\ last \in Nat /\ id \in Nat
      BY <1>2 DEF Publishes, Laid, Shaped
    <3>2. Id(H, p) = Id(G, G.w)
      BY <1>1, <2>1 DEF Id
    <3> QED BY <1>1, <3>1, <3>2
  <2>2. CASE p # G.w
    BY <1>1, <1>3, <2>2 DEF Ahead, Id
  <2> QED BY <2>1, <2>2
<1>4. p > H.w => Above(H, last)
  <2>1. p > H.w => Above(G, last)
    BY <1>1 DEF Ahead
  <2> QED BY <1>2, <2>1, PublishesAbove
<1> QED BY <1>2, <1>3, <1>4 DEF Ahead

LEMMA PublishesKept ==
  ASSUME NEW G, Laid(G), NEW H, NEW n, NEW id, Publishes(G, H, n, id), NEW p \in G.starts
  PROVE  Kept(G, H, p) /\ (p # G.w => ReadKept(G, H, p))
<1>1. /\ H.w = G.w + n + 1 /\ H.starts = G.starts \cup {H.w} /\ H.mem = G.mem /\ H.lap = G.lap
      /\ G.w \in Nat /\ n \in Nat /\ H.w \in Nat /\ G.starts \subseteq Nat /\ p \in Nat
      /\ G.lap \in Nat /\ Shaped(G)
  BY PublishesIs, ShapedIs
<1>2. ~(G.w < p /\ p < H.w)
  BY DEF Publishes
<1>3. \A c \in Nat : c <= G.lap /\ (p > G.w => c < G.lap) => c <= H.lap /\ (p > H.w => c < H.lap)
  BY <1>1
<1>4. Kept(G, H, p)
  BY <1>1, <1>3, PublishesAhead DEF Kept
<1>5. ASSUME p # G.w PROVE ReadKept(G, H, p)
  <2>1. ASSUME NEW k \in G.sizes, NEW last, Follows(G, p, k, last)
        PROVE  Follows(H, p, k, last) /\ (Words(G, p, k, last) => Words(H, p, k, last))
    <3>1. /\ p + k + 1 \in G.starts /\ (p < G.w => p + k + 1 <= G.w) /\ Ahead(G, p + k + 1, last)
          /\ k \in Nat
      BY <1>1, <2>1, ShapedIs DEF Follows
    <3>2. p < H.w => p + k + 1 <= H.w
      BY <1>1, <1>2, <1>5, <3>1
    <3>3. Ahead(H, p + k + 1, last)
      BY <3>1, PublishesAhead
    <3> QED BY <1>1, <3>1, <3>2, <3>3 DEF Follows, Words
  <2>2. /\ \A c \in Nat : c <= G.lap /\ (c < G.lap \/ p < G.w) => c < H.lap \/ p < H.w
        /\ p >= G.w => p >= H.w
    BY <1>1, <1>2, <1>5
  <2>3. \A last \in G.old : (p >= G.w => Above(G, last)) => (p >= H.w => Above(H, last))
    <3>1. p >= H.w => p >= G.w
      BY <1>1
    <3> QED BY <3>1, PublishesAbove
  <2> QED BY <1>1, <2>1, <2>2, <2>3 DEF ReadKept
<1> QED BY <1>4, <1>5

LEMMA PublishesLaid ==
  ASSUME NEW G, Laid(G), NEW H, NEW n, NEW id, Publishes(G, H, n, id)
  PROVE  Laid(H)
<1>1. /\ Shaped(H) /\ H.w = G.w + n + 1 /\ H.starts = G.starts \cup {H.w} /\ H.mem = G.mem
      /\ G.w \in Nat /\ n \in Nat /\ H.w \in Nat /\ G.starts \subseteq Nat /\ Same(G, H)
      /\ Size(G, G.w) = n /\ Id(G, G.w) = id /\ IsMessage(G, G.w) /\ id \in H.old
  BY PublishesIs DEF Publishes
<1>2. \A b \in G.starts : ~(G.w < b /\ b < H.w)
  BY DEF Publishes
<1>3. ASSUME NEW b \in H.starts \ {H.w}
      PROVE  \/ H.mem[b] = WrapTag /\ b > H.w
             \/ IsMessage(H, b) /\ Follows(H, b, Size(H, b), Id(H, b))
  <2>0. b \in G.starts /\ b \in Nat /\ ~(G.w < b /\ b < H.w) /\ b # H.w
    BY <1>1, <1>2
  <2>9. /\ Size(H, b) = Size(G, b) /\ Id(H, b) = Id(G, b) /\ (IsMessage(G, b) => IsMessage(H, b))
    BY <1>1 DEF IsMessage, Size, Id, Words, Same
  <2>1. CASE b = G.w
    <3>1. b + n + 1 = H.w /\ H.w \in H.starts
      BY <1>1, <2>1
    <3>2. Ahead(H, H.w, id)
      BY <1>1 DEF Ahead
    <3>3. Follows(H, b, n, id)
      BY <1>1, <3>1, <3>2 DEF Follows
    <3> QED BY <1>1, <2>1, <2>9, <3>3
  <2>2. CASE b # G.w /\ G.mem[b] = WrapTag
    <3>1. ~(b < G.w)
      BY <2>0, <2>2, MessageBehind
    <3>2. b > H.w
      BY <1>1, <2>0, <2>2, <3>1
    <3> QED BY <1>1, <2>2, <3>2
  <2>3. CASE b # G.w /\ G.mem[b] # WrapTag
    <3>1. IsMessage(G, b) /\ Follows(G, b, Size(G, b), Id(G, b))
      BY <2>0, <2>3, MessageEnds
    <3>2. Size(G, b) \in G.sizes
      BY <3>1 DEF IsMessage
    <3>3. Follows(H, b, Size(G, b), Id(G, b))
      BY <2>0, <2>3, <3>1, <3>2, PublishesKept DEF ReadKept
    <3> QED BY <2>9, <3>1, <3>3
  <2> QED BY <2>1, <2>2, <2>3
<1> QED BY <1>1, <1>3, Zenon DEF Laid

---------------------------------------------------------------------------
(* What a subscriber that trusts its flag relies on: x are its variables, *)
(* y its slot                                                              *)

Sent(G) == {[k \in 1..n |-> Data(id, n)] : id \in 1..G.max, n \in G.sizes}
LastId(m) == IF m = <<>> THEN 0 ELSE m[1][2]
Latest(x) == IF x.pc = "final" THEN x.copy ELSE x.got

Trusts(x, y) == x.pc = "resetStore" \/ (y.valid /\ x.pc \in RestPC \cup ReadPC)
Spot(x, y) == IF x.pc = "resetStore" THEN x.to ELSE y.pointer

Place(G, at, id) == /\ at.c \in Nat /\ at.p \in G.starts
                    /\ at.c <= G.lap /\ (at.p > G.w => at.c < G.lap)
                    /\ Ahead(G, at.p, id)

Turning(x) == x.pc = "wrap" \/ (x.pc = "recheck" /\ x.size = WrapTag)
Found(G, a, last) ==
  \/ G.mem[a] = WrapTag
  \/ IsMessage(G, a) /\ Id(G, a) > last /\ Follows(G, a, Size(G, a), Id(G, a))
Copied(G, x, a, last, n, id, m) ==
  /\ n \in G.sizes /\ x.size = SizeTag(n) /\ id \in 1..G.max /\ m \in 0..n
  /\ id > last /\ Follows(G, a, n, id) /\ Words(G, a, n, id)
  /\ x.copy = [k \in 1..m |-> Data(id, n)]
  /\ x.pc = "advance" <=> m = n
Reads(G, x, a, last) ==
  /\ x.at.c < G.lap \/ a < G.w
  /\ a >= G.w => Above(G, last)
  /\ x.pc = "size" => Found(G, a, last)
  /\ Turning(x) => a >= G.w
  /\ x.pc # "size" /\ ~Turning(x) => \E n, id, m : Copied(G, x, a, last, n, id, m)

Fine(G, x, y) ==
  Trusts(x, y) =>
    /\ Place(G, Spot(x, y), LastId(Latest(x)))
    /\ x.pc \in ReadPC \cup {"to"} => x.at = y.pointer
    /\ x.pc \in ReadPC => Reads(G, x, x.at.p, LastId(x.got))
    /\ x.pc = "final" => x.copy \in Sent(G) /\ LastId(x.copy) > LastId(x.got)

Got(G, x) == (x.got = <<>> \/ x.got \in Sent(G)) /\ LastId(x.got) \in G.old /\ x.pc # "garbage"

\* It is not where a publisher that has looked at it is about to write.
Seen(z, x) == x.slot < z.i \/ x.slot >= z.num \/ z.pc \in FillPC \/ x.pc = "resetStore"
Avoids(G, z, x, y) ==
  Trusts(x, y) =>
    /\ z.pc \in WrapPC /\ x.slot >= z.num => Spot(x, y).p = G.w /\ x.pc \notin ReadPC
    /\ z.pc \in OverPC /\ Seen(z, x) =>
         /\ ~(G.w < Spot(x, y).p /\ Spot(x, y).p < G.w + z.n + 1)
         /\ x.pc \in ReadPC => Spot(x, y).p # G.w

---------------------------------------------------------------------------
(* It can go on relying on it. *)

LEMMA IdIs ==
  ASSUME NEW G, NEW a, NEW n \in Nat, n >= 1, NEW id, Words(G, a, n, id)
  PROVE  Id(G, a) = id
<1>1. G.mem[a + 1] = Data(id, n)
  BY DEF Words
<1> QED BY <1>1, Tags DEF Id

LEMMA ReadsStays ==
  ASSUME NEW G, Shaped(G), NEW H, Same(G, H), NEW x, NEW a, NEW last \in G.old,
         x.at.c \in Nat, x.at.c <= G.lap, ReadKept(G, H, a), Reads(G, x, a, last)
  PROVE  Reads(H, x, a, last)
<1>1. G.sizes \subseteq Nat /\ 0 \notin G.sizes /\ H.sizes = G.sizes /\ H.max = G.max
  BY ShapedIs DEF Same
<1>2. /\ x.at.c < H.lap \/ a < H.w
      /\ a >= H.w => Above(H, last)
      /\ Turning(x) => a >= H.w
  BY DEF Reads, ReadKept
<1>3. ASSUME Found(G, a, last) PROVE Found(H, a, last)
  <2>1. CASE H.mem[a] = WrapTag
    BY <2>1 DEF Found
  <2>2. CASE H.mem[a] # WrapTag
    <3>1. H.mem[a] = G.mem[a] /\ G.mem[a] # WrapTag
      BY <2>2 DEF ReadKept
    <3>2. PICK n : n = Size(G, a)
      OBVIOUS
    <3>3. PICK i : i = Id(G, a)
      OBVIOUS
    <3>4. IsMessage(G, a) /\ i > last /\ Follows(G, a, n, i)
      BY <1>3, <3>1, <3>2, <3>3 DEF Found
    <3>5. n \in G.sizes /\ G.mem[a] = SizeTag(n) /\ i \in 1..G.max /\ Words(G, a, n, i)
      BY <3>2, <3>3, <3>4 DEF IsMessage
    <3>6. Follows(H, a, n, i) /\ Words(H, a, n, i)
      BY <3>4, <3>5 DEF ReadKept
    <3>7. n \in Nat /\ n >= 1
      BY <1>1, <3>5
    <3>8. Size(H, a) = n /\ Id(H, a) = i
      BY <3>1, <3>2, <3>6, <3>7, IdIs DEF Size
    <3>9. IsMessage(H, a)
      BY <1>1, <3>1, <3>5, <3>6, <3>8 DEF IsMessage
    <3> QED BY <3>4, <3>6, <3>8, <3>9 DEF Found
  <2> QED BY <2>1, <2>2
<1>4. ASSUME NEW n, NEW id, NEW m, Copied(G, x, a, last, n, id, m) PROVE Copied(H, x, a, last, n, id, m)
  <2>1. n \in G.sizes /\ Follows(G, a, n, id) /\ Words(G, a, n, id)
    BY <1>4 DEF Copied
  <2>2. Follows(H, a, n, id) /\ Words(H, a, n, id)
    BY <2>1 DEF ReadKept
  <2> QED BY <1>1, <1>4, <2>2 DEF Copied
<1> QED BY <1>2, <1>3, <1>4 DEF Reads

LEMMA FineStays ==
  ASSUME NEW G, Shaped(G), NEW H, Same(G, H), NEW x, NEW y, Fine(G, x, y),
         Trusts(x, y) => /\ Kept(G, H, Spot(x, y).p)
                         /\ x.pc \in ReadPC => ReadKept(G, H, Spot(x, y).p)
  PROVE  Fine(H, x, y)
<1> SUFFICES ASSUME Trusts(x, y)
             PROVE  /\ Place(H, Spot(x, y), LastId(Latest(x)))
                    /\ x.pc \in ReadPC \cup {"to"} => x.at = y.pointer
                    /\ x.pc \in ReadPC => Reads(H, x, x.at.p, LastId(x.got))
                    /\ x.pc = "final" => x.copy \in Sent(H) /\ LastId(x.copy) > LastId(x.got)
  BY DEF Fine
<1>1. /\ Place(G, Spot(x, y), LastId(Latest(x)))
      /\ x.pc \in ReadPC \cup {"to"} => x.at = y.pointer
      /\ x.pc \in ReadPC => Reads(G, x, x.at.p, LastId(x.got))
      /\ x.pc = "final" => x.copy \in Sent(G) /\ LastId(x.copy) > LastId(x.got)
      /\ Kept(G, H, Spot(x, y).p) /\ (x.pc \in ReadPC => ReadKept(G, H, Spot(x, y).p))
  BY DEF Fine
<1>2. Place(H, Spot(x, y), LastId(Latest(x)))
  BY <1>1 DEF Place, Kept
<1>3. Sent(H) = Sent(G)
  BY DEF Sent, Same
<1>4. ASSUME x.pc \in ReadPC PROVE Reads(H, x, x.at.p, LastId(x.got))
  <2>1. x.at = y.pointer /\ Spot(x, y) = y.pointer /\ Latest(x) = x.got
    BY <1>1, <1>4 DEF ReadPC, Spot, Latest
  <2>2. PICK last : last = LastId(x.got)
    OBVIOUS
  <2>3. Place(G, x.at, last) /\ Reads(G, x, x.at.p, last) /\ ReadKept(G, H, x.at.p)
    BY <1>1, <1>4, <2>1, <2>2
  <2>4. last \in G.old /\ x.at.c \in Nat /\ x.at.c <= G.lap
    BY <2>3 DEF Place, Ahead
  <2> QED BY <2>2, <2>3, <2>4, ReadsStays
<1> QED BY <1>1, <1>2, <1>3, <1>4

---------------------------------------------------------------------------
(* The steps of a subscriber *)

\* An older id is behind too.
LEMMA OlderAhead ==
  ASSUME NEW G, Laid(G), NEW p \in G.starts, NEW id \in Nat, NEW last \in G.old, id > last,
         Ahead(G, p, id)
  PROVE  Ahead(G, p, last)
<1>1. Shaped(G) /\ last \in Nat /\ G.w \in Nat /\ G.max \in Nat
  BY ShapedIs DEF Laid, Shaped
<1>2. ASSUME p # G.w, G.mem[p] # WrapTag PROVE Id(G, p) > last
  <2>1. Id(G, p) \in 1..G.max
    BY <1>2, MessageEnds DEF IsMessage
  <2>2. Id(G, p) > id
    BY <1>2 DEF Ahead
  <2> QED BY <1>1, <2>1, <2>2
<1>3. ASSUME p > G.w, NEW b \in G.starts, b < G.w PROVE Id(G, b) > last
  <2>1. Id(G, b) \in 1..G.max
    BY <1>3, MessageBehind DEF IsMessage
  <2>2. Id(G, b) > id
    BY <1>3 DEF Ahead, Above
  <2> QED BY <1>1, <2>1, <2>2
<1> QED BY <1>2, <1>3 DEF Ahead, Above

\* Between two calls, or before it has loaded the write pointer
LEMMA RestsFine ==
  ASSUME NEW G, NEW x, NEW y, NEW x2, NEW y2, Fine(G, x, y),
         x.pc \in RestPC \ {"final"}, x2.pc \in RestPC \ {"final"}, x2.slot = x.slot,
         x2.got = x.got, y2.valid => y.valid, y2.pointer = y.pointer,
         x2.pc = "to" => x2.at = y.pointer
  PROVE  Fine(G, x2, y2) /\ \A z : Avoids(G, z, x, y) => Avoids(G, z, x2, y2)
<1>1. /\ x.pc \notin ReadPC /\ x2.pc \notin ReadPC /\ x.pc # "resetStore" /\ x2.pc # "resetStore"
      /\ x.pc # "final" /\ x2.pc # "final"
  BY DEF RestPC, ReadPC
<1>2. Trusts(x2, y2) => Trusts(x, y)
  BY <1>1 DEF Trusts
<1>3. Spot(x2, y2) = Spot(x, y) /\ Latest(x2) = Latest(x)
  BY <1>1 DEF Spot, Latest
<1>4. Fine(G, x2, y2)
  BY <1>1, <1>2, <1>3 DEF Fine, Spot
<1>5. \A z : Seen(z, x2) => Seen(z, x)
  BY <1>1 DEF Seen
<1> QED BY <1>1, <1>2, <1>3, <1>4, <1>5 DEF Avoids

LEMMA LoadsResetFine ==
  ASSUME NEW G, Laid(G), NEW x2, NEW y2, x2.pc = "resetStore", LastId(x2.got) \in G.old,
         x2.to = Cursor(G.lap, G.w)
  PROVE  Fine(G, x2, y2) /\ \A z : Avoids(G, z, x2, y2)
<1>1. G.w \in Nat /\ G.w \in G.starts /\ G.lap \in Nat
  BY ShapedIs DEF Laid
<1>2. x2.to.p = G.w /\ x2.to.c = G.lap
  BY DEF Cursor
<1>3. Spot(x2, y2) = x2.to /\ Latest(x2) = x2.got /\ x2.pc \notin ReadPC \cup {"to", "final"}
  BY DEF Spot, Latest, ReadPC
<1>4. Ahead(G, G.w, LastId(x2.got))
  BY <1>1 DEF Ahead
<1>5. Place(G, x2.to, LastId(x2.got))
  BY <1>1, <1>2, <1>4 DEF Place
<1>6. ~(G.w < G.w)
  BY <1>1
<1> QED BY <1>2, <1>3, <1>5, <1>6 DEF Fine, Avoids

LEMMA StoresResetFine ==
  ASSUME NEW G, NEW x, NEW y, NEW x2, NEW y2, Fine(G, x, y), x.pc = "resetStore",
         x2.pc \in {"idle", "uid"}, x2.slot = x.slot, x2.got = x.got, y2.pointer = x.to
  PROVE  Fine(G, x2, y2) /\ \A z : Avoids(G, z, x, y) => Avoids(G, z, x2, y2)
<1>1. /\ x2.pc \notin ReadPC \cup {"to", "final", "resetStore"} /\ Trusts(x, y)
      /\ x.pc # "final"
  BY DEF ReadPC, Trusts
<1>2. Spot(x2, y2) = Spot(x, y) /\ Latest(x2) = Latest(x)
  BY <1>1 DEF Spot, Latest
<1>3. \A z : Seen(z, x)
  BY DEF Seen
<1> QED BY <1>1, <1>2, <1>3 DEF Fine, Avoids

\* It finds that there is a message.
LEMMA LoadsToFine ==
  ASSUME NEW G, Laid(G), NEW x, NEW y, NEW x2, Fine(G, x, y), x.pc = "to", x2.pc = "size",
         x2.slot = x.slot, x2.got = x.got, x2.at = x.at, x.at.p # G.w
  PROVE  Fine(G, x2, y) /\ \A z : Avoids(G, z, x, y) => Avoids(G, z, x2, y)
<1>1. /\ x.pc \in RestPC /\ x2.pc \in ReadPC /\ Spot(x, y) = y.pointer /\ Spot(x2, y) = y.pointer
      /\ Latest(x) = x.got /\ Latest(x2) = x.got /\ ~Turning(x2)
  BY DEF RestPC, ReadPC, Spot, Latest, Turning
<1> SUFFICES ASSUME Trusts(x2, y)
             PROVE  Fine(G, x2, y) /\ \A z : Avoids(G, z, x, y) => Avoids(G, z, x2, y)
  BY DEF Fine, Avoids
<1>2. Trusts(x, y)
  BY <1>1 DEF Trusts
<1>3. Place(G, x.at, LastId(x.got)) /\ x.at = y.pointer
  BY <1>1, <1>2 DEF Fine
<1>4. PICK a : a = x.at.p
  OBVIOUS
<1>5. /\ a \in G.starts /\ x.at.c <= G.lap /\ (a > G.w => x.at.c < G.lap)
      /\ Ahead(G, a, LastId(x.got)) /\ a # G.w /\ x.at.c \in Nat
  BY <1>3, <1>4 DEF Place
<1>6. a \in Nat /\ G.w \in Nat
  BY <1>5, ShapedIs DEF Laid
<1>7. a < G.w \/ a > G.w
  BY <1>5, <1>6
<1>8. Found(G, a, LastId(x.got))
  <2>1. CASE G.mem[a] = WrapTag
    BY <2>1 DEF Found
  <2>2. CASE G.mem[a] # WrapTag
    <3>1. IsMessage(G, a) /\ Follows(G, a, Size(G, a), Id(G, a))
      BY <1>5, <2>2, MessageEnds
    <3> QED BY <1>5, <2>2, <3>1 DEF Found, Ahead
  <2> QED BY <2>1, <2>2
<1>9. Reads(G, x2, a, LastId(x.got))
  <2>1. a >= G.w => a > G.w
    BY <1>6, <1>7
  <2>2. a >= G.w => Above(G, LastId(x.got))
    BY <1>5, <2>1 DEF Ahead
  <2>3. x2.at.c < G.lap \/ a < G.w
    BY <1>5, <1>7
  <2> QED BY <1>1, <1>8, <2>2, <2>3 DEF Reads
<1>10. Fine(G, x2, y)
  BY <1>1, <1>3, <1>4, <1>9 DEF Fine
<1>11. ASSUME NEW z, Avoids(G, z, x, y) PROVE Avoids(G, z, x2, y)
  <2>1. /\ z.pc \in WrapPC /\ x.slot >= z.num => Spot(x, y).p = G.w
        /\ z.pc \in OverPC /\ Seen(z, x) =>
             ~(G.w < Spot(x, y).p /\ Spot(x, y).p < G.w + z.n + 1)
    BY <1>2, <1>11 DEF Avoids
  <2>2. Seen(z, x2) => Seen(z, x)
    BY DEF Seen
  <2>3. Spot(x, y).p = a /\ Spot(x2, y).p = a
    BY <1>1, <1>3, <1>4
  <2> QED BY <1>5, <2>1, <2>2, <2>3 DEF Avoids
<1> QED BY <1>10, <1>11

\* From one step of reading to the next
LEMMA ReadsOnAvoids ==
  ASSUME NEW G, NEW x, NEW y, NEW x2, x.pc \in ReadPC, x2.pc \in ReadPC, x2.slot = x.slot
  PROVE  /\ Trusts(x2, y) => Trusts(x, y)
         /\ \A z : Avoids(G, z, x, y) => Avoids(G, z, x2, y)
<1>1. x.pc # "resetStore" /\ x2.pc # "resetStore"
  BY DEF ReadPC
<1>2. Trusts(x2, y) => Trusts(x, y)
  BY <1>1 DEF Trusts
<1>3. Spot(x2, y) = Spot(x, y) /\ \A z : Seen(z, x2) => Seen(z, x)
  BY <1>1 DEF Spot, Seen
<1> QED BY <1>2, <1>3 DEF Avoids

LEMMA ReadsOnFine ==
  ASSUME NEW G, NEW x, NEW y, NEW x2, Fine(G, x, y), x.pc \in ReadPC, x2.pc \in ReadPC,
         x2.slot = x.slot, x2.got = x.got, x2.at = x.at,
         /\ Place(G, x.at, LastId(x.got)) /\ Reads(G, x, x.at.p, LastId(x.got))
         => Reads(G, x2, x.at.p, LastId(x.got))
  PROVE  Fine(G, x2, y)
<1> SUFFICES ASSUME Trusts(x2, y) PROVE Fine(G, x2, y)
  BY DEF Fine
<1>1. /\ x.pc \notin {"resetStore", "final"} /\ x2.pc \notin {"resetStore", "final"}
  BY DEF ReadPC
<1>2. Trusts(x, y)
  BY ReadsOnAvoids
<1>3. Spot(x2, y) = Spot(x, y) /\ Latest(x2) = Latest(x)
  BY <1>1 DEF Spot, Latest
<1>4. /\ Place(G, Spot(x, y), LastId(Latest(x))) /\ x.at = y.pointer
      /\ Reads(G, x, x.at.p, LastId(x.got))
  BY <1>2 DEF Fine
<1>5. x2.pc # "final" /\ Spot(x, y) = x.at /\ Latest(x) = x.got
  BY <1>1, <1>4 DEF Spot, Latest
<1> QED BY <1>3, <1>4, <1>5 DEF Fine

LEMMA LoadsSizeFine ==
  ASSUME NEW G, Laid(G), NEW x, NEW y, NEW x2, Fine(G, x, y), x.pc = "size", x2.pc = "recheck",
         x2.slot = x.slot, x2.got = x.got, x2.at = x.at, x2.size = G.mem[x.at.p], x2.copy = <<>>
  PROVE  Fine(G, x2, y)
<1>1. PICK last : last = LastId(x.got)
  OBVIOUS
<1>2. PICK a : a = x.at.p
  OBVIOUS
<1>3. ASSUME Place(G, x.at, last), Reads(G, x, a, last) PROVE Reads(G, x2, a, last)
  <2>1. a \in G.starts /\ Shaped(G) /\ G.w \in Nat /\ a \in Nat
    BY <1>2, <1>3, ShapedIs DEF Place, Laid
  <2>2. (x.at.c < G.lap \/ a < G.w) /\ (a >= G.w => Above(G, last)) /\ Found(G, a, last)
    BY <1>3 DEF Reads
  <2>3. CASE G.mem[a] = WrapTag
    <3>1. Turning(x2) /\ ~(a < G.w)
      BY <1>2, <2>1, <2>3, MessageBehind DEF Turning
    <3>2. a >= G.w
      BY <2>1, <3>1
    <3> QED BY <2>2, <3>1, <3>2 DEF Reads
  <2>4. CASE G.mem[a] # WrapTag
    <3>1. PICK n : n = Size(G, a)
      OBVIOUS
    <3>2. PICK i : i = Id(G, a)
      OBVIOUS
    <3>3. IsMessage(G, a) /\ i > last /\ Follows(G, a, n, i)
      BY <2>2, <2>4, <3>1, <3>2 DEF Found
    <3>4. n \in G.sizes /\ G.mem[a] = SizeTag(n) /\ i \in 1..G.max /\ Words(G, a, n, i)
      BY <3>1, <3>2, <3>3 DEF IsMessage
    <3>5. 0 \in 0..n /\ 0 # n
      BY <2>1, <3>4, ShapedIs
    <3>6. x2.copy = [k \in 1..0 |-> Data(i, n)]
      OBVIOUS
    <3>7. Copied(G, x2, a, last, n, i, 0)
      BY <1>2, <3>3, <3>4, <3>5, <3>6 DEF Copied
    <3>8. ~Turning(x2)
      BY <1>2, <2>4 DEF Turning
    <3> QED BY <2>2, <3>7, <3>8 DEF Reads
  <2> QED BY <2>3, <2>4
<1> QED BY <1>1, <1>2, <1>3, ReadsOnFine DEF ReadPC

\* msgq_msg_recv has checked the flag again and goes by the size.
LEMMA RechecksFine ==
  ASSUME NEW G, Shaped(G), NEW x, NEW y, NEW x2, Fine(G, x, y), x.pc = "recheck", y.valid,
         x2.slot = x.slot, x2.got = x.got, x2.at = x.at, x2.size = x.size, x2.copy = x.copy,
         x.size = WrapTag => x2.pc = "wrap",
         x.size # WrapTag => x2.pc \in IF x.size \in {SizeTag(n) : n \in G.sizes} THEN {"skip", "copy"}
                                       ELSE {"garbage"}
  PROVE  Fine(G, x2, y) /\ x2.pc \in ReadPC
<1>1. PICK last : last = LastId(x.got)
  OBVIOUS
<1>2. PICK a : a = x.at.p
  OBVIOUS
<1>3. Trusts(x, y)
  BY DEF Trusts, ReadPC
<1>4. Reads(G, x, a, last)
  BY <1>1, <1>2, <1>3 DEF Fine, ReadPC
<1>5. CASE x.size = WrapTag
  <2>1. Turning(x2) /\ Turning(x) /\ x2.pc \in ReadPC /\ x2.pc # "size"
    BY <1>5 DEF Turning, ReadPC
  <2>2. Reads(G, x2, a, last)
    BY <1>4, <2>1 DEF Reads
  <2> QED BY <1>1, <1>2, <2>1, <2>2, ReadsOnFine DEF ReadPC
<1>6. CASE x.size # WrapTag
  <2>1. ~Turning(x)
    BY <1>6 DEF Turning
  <2>2. PICK n, id, m : Copied(G, x, a, last, n, id, m)
    BY <1>4, <2>1 DEF Reads
  <2>3. n \in G.sizes /\ x.size = SizeTag(n)
    BY <2>2 DEF Copied
  <2>4. x2.pc \in {"skip", "copy"}
    BY <1>6, <2>3, Zenon
  <2>5. x2.pc \in ReadPC /\ x2.pc # "size" /\ ~Turning(x2) /\ x2.pc # "advance"
    BY <2>4 DEF ReadPC, Turning
  <2>6. Copied(G, x2, a, last, n, id, m)
    BY <2>2, <2>5 DEF Copied
  <2>7. Reads(G, x2, a, last)
    BY <1>4, <2>5, <2>6 DEF Reads
  <2> QED BY <1>1, <1>2, <2>5, <2>7, ReadsOnFine DEF ReadPC
<1> QED BY <1>5, <1>6

LEMMA OneMore ==
  ASSUME NEW m \in Nat, NEW d, NEW c, c = [k \in 1..m |-> d]
  PROVE  /\ Len(c) = m /\ Append(c, d) = [k \in 1..m + 1 |-> d]
         /\ m >= 1 => c # <<>> /\ c[1] = d
<1>1. c \in Seq({d}) /\ Len(c) = m
  OBVIOUS
<1>2. Append(c, d) \in Seq({d}) /\ Len(Append(c, d)) = m + 1
  BY <1>1
<1>3. \A k \in 1..m + 1 : Append(c, d)[k] = d
  BY <1>2
<1>4. m >= 1 => c # <<>> /\ c[1] = d
  BY <1>1
<1> QED BY <1>1, <1>2, <1>3, <1>4

LEMMA CopiesFine ==
  ASSUME NEW G, Shaped(G), NEW x, NEW y, NEW x2, Fine(G, x, y), x.pc = "copy",
         x2.slot = x.slot, x2.got = x.got, x2.at = x.at, x2.size = x.size,
         x2.copy = Append(x.copy, G.mem[x.at.p + Len(x.copy) + 1]),
         x2.pc = IF Len(x2.copy) = x.size[2] THEN "advance" ELSE "copy"
  PROVE  Fine(G, x2, y) /\ x2.pc \in ReadPC
<1>1. PICK last : last = LastId(x.got)
  OBVIOUS
<1>2. PICK a : a = x.at.p
  OBVIOUS
<1>3. x2.pc \in {"advance", "copy"}
  BY Zenon
<1>4. x2.pc \in ReadPC /\ ~Turning(x2) /\ ~Turning(x) /\ x2.pc # "size"
  BY <1>3 DEF ReadPC, Turning
<1>5. ASSUME Place(G, x.at, last), Reads(G, x, a, last) PROVE Reads(G, x2, a, last)
  <2>1. PICK n, id, m : Copied(G, x, a, last, n, id, m)
    BY <1>4, <1>5 DEF Reads
  <2>2. /\ n \in Nat /\ m \in 0..n /\ m # n /\ x.copy = [k \in 1..m |-> Data(id, n)]
        /\ x.size[2] = n /\ Words(G, a, n, id)
    BY <2>1, ShapedIs, Tags DEF Copied
  <2>3. m \in Nat /\ m + 1 \in 1..n /\ a + m + 1 = a + (m + 1)
    <3>1. a \in Nat
      BY <1>2, <1>5, ShapedIs DEF Place
    <3> QED BY <2>2, <3>1
  <2>4. G.mem[a + (m + 1)] = Data(id, n)
    BY <2>2, <2>3 DEF Words
  <2>5. Len(x.copy) = m
    BY <2>2, <2>3, OneMore
  <2>6. x2.copy = Append(x.copy, Data(id, n))
    BY <1>2, <2>3, <2>4, <2>5
  <2>7. x2.copy = [k \in 1..m + 1 |-> Data(id, n)]
    BY <2>2, <2>3, <2>6, OneMore
  <2>8. Len(x2.copy) = m + 1
    BY <2>3, <2>7, OneMore
  <2>9. x2.pc = "advance" <=> m + 1 = n
    BY <2>2, <2>8, Zenon
  <2>10. Copied(G, x2, a, last, n, id, m + 1)
    BY <2>1, <2>3, <2>7, <2>9 DEF Copied
  <2> QED BY <1>4, <1>5, <2>10 DEF Reads
<1> QED BY <1>1, <1>2, <1>4, <1>5, ReadsOnFine DEF ReadPC

\* After the end of the buffer it goes on at the start.
LEMMA WrapsFine ==
  ASSUME NEW G, Laid(G), NEW x, NEW y, NEW x2, NEW y2, Fine(G, x, y), x.pc = "wrap",
         x2.pc = "uid", x2.slot = x.slot, x2.got = x.got, y2.valid = y.valid,
         y2.pointer = Cursor(x.at.c + 1, 0)
  PROVE  Fine(G, x2, y2) /\ \A z : Avoids(G, z, x, y) => Avoids(G, z, x2, y2)
<1>1. /\ x.pc \in ReadPC /\ Latest(x) = x.got /\ Latest(x2) = x.got /\ Spot(x2, y2) = y2.pointer
      /\ x2.pc \notin ReadPC \cup {"resetStore", "to", "final"} /\ Spot(x, y) = y.pointer
  BY DEF ReadPC, Latest, Spot
<1> SUFFICES ASSUME Trusts(x2, y2)
             PROVE  Fine(G, x2, y2) /\ \A z : Avoids(G, z, x, y) => Avoids(G, z, x2, y2)
  BY DEF Fine, Avoids
<1>2. Trusts(x, y)
  BY <1>1 DEF Trusts
<1>3. PICK last : last = LastId(x.got)
  OBVIOUS
<1>4. PICK a : a = x.at.p
  OBVIOUS
<1>5. Place(G, x.at, last) /\ Reads(G, x, a, last) /\ x.at = y.pointer
  BY <1>1, <1>2, <1>3, <1>4 DEF Fine
<1>6. /\ x.at.c \in Nat /\ last \in G.old /\ Shaped(G) /\ G.w \in Nat /\ G.lap \in Nat
      /\ 0 \in G.starts /\ a \in Nat
  BY <1>4, <1>5, ShapedIs DEF Place, Ahead, Laid, Shaped
<1>7. a >= G.w /\ Above(G, last) /\ x.at.c < G.lap
  BY <1>5, <1>6 DEF Reads, Turning
<1>8. y2.pointer.c = x.at.c + 1 /\ y2.pointer.p = 0
  BY DEF Cursor
<1>9. Ahead(G, 0, last)
  BY <1>6, <1>7 DEF Ahead, Above
<1>10. Place(G, y2.pointer, last)
  BY <1>6, <1>7, <1>8, <1>9 DEF Place
<1>11. Fine(G, x2, y2)
  BY <1>1, <1>3, <1>10 DEF Fine
<1>12. ASSUME NEW z, Avoids(G, z, x, y) PROVE Avoids(G, z, x2, y2)
  <2>1. z.pc \in WrapPC /\ x2.slot >= z.num => FALSE
    BY <1>1, <1>2, <1>12 DEF Avoids
  <2>2. ~(G.w < Spot(x2, y2).p)
    BY <1>1, <1>6, <1>8
  <2> QED BY <1>1, <2>1, <2>2 DEF Avoids
<1> QED BY <1>11, <1>12

\* It goes past a message, which it skips or gives to its caller.
LEMMA AdvancesFine ==
  ASSUME NEW G, Laid(G), NEW x, NEW y, NEW x2, NEW y2, Fine(G, x, y),
         <<x.pc, x2.pc>> \in {<<"skip", "uid">>, <<"advance", "final">>},
         x2.slot = x.slot, x2.got = x.got, x2.copy = x.copy, y2.valid = y.valid,
         y2.pointer = Cursor(x.at.c, x.at.p + x.size[2] + 1)
  PROVE  /\ Fine(G, x2, y2)
         /\ \A z : z.n \in Nat /\ Avoids(G, z, x, y) => Avoids(G, z, x2, y2)
<1>1. /\ x.pc \in ReadPC /\ Latest(x) = x.got /\ Spot(x2, y2) = y2.pointer
      /\ x2.pc \notin ReadPC \cup {"resetStore", "to"} /\ Spot(x, y) = y.pointer
      /\ x.pc # "size" /\ ~Turning(x) /\ x2.pc \in {"uid", "final"}
      /\ x2.pc = "final" => x.pc = "advance"
  BY DEF ReadPC, Latest, Spot, Turning
<1> SUFFICES ASSUME Trusts(x2, y2)
             PROVE  /\ Fine(G, x2, y2)
                    /\ \A z : z.n \in Nat /\ Avoids(G, z, x, y) => Avoids(G, z, x2, y2)
  BY DEF Fine, Avoids
<1>2. Trusts(x, y)
  BY <1>1 DEF Trusts
<1>3. PICK last : last = LastId(x.got)
  OBVIOUS
<1>4. PICK a : a = x.at.p
  OBVIOUS
<1>5. Place(G, x.at, last) /\ Reads(G, x, a, last) /\ x.at = y.pointer
  BY <1>1, <1>2, <1>3, <1>4 DEF Fine
<1>6. /\ x.at.c \in Nat /\ x.at.c <= G.lap /\ last \in G.old /\ Shaped(G) /\ G.w \in Nat /\ G.lap \in Nat
      /\ a \in Nat /\ last \in Nat
  BY <1>4, <1>5, ShapedIs DEF Place, Ahead, Laid, Shaped
<1>7. x.at.c < G.lap \/ a < G.w
  BY <1>5 DEF Reads
<1>8. PICK n, id, m : Copied(G, x, a, last, n, id, m)
  BY <1>1, <1>5 DEF Reads
<1>9. /\ n \in G.sizes /\ n \in Nat /\ n >= 1 /\ id \in 1..G.max /\ id \in Nat /\ id > last
      /\ x.size[2] = n /\ Follows(G, a, n, id) /\ x.copy = [k \in 1..m |-> Data(id, n)]
      /\ x.pc = "advance" <=> m = n
  BY <1>6, <1>8, ShapedIs, Tags DEF Copied
<1>10. PICK e : e = a + n + 1
  OBVIOUS
<1>11. e \in G.starts /\ (a < G.w => e <= G.w) /\ Ahead(G, e, id) /\ e \in Nat /\ e > a
  BY <1>6, <1>9, <1>10 DEF Follows
<1>12. y2.pointer.c = x.at.c /\ y2.pointer.p = e
  BY <1>4, <1>9, <1>10 DEF Cursor
<1>13. LastId(Latest(x2)) \in {last, id} /\ Ahead(G, e, LastId(Latest(x2)))
       /\ (x2.pc = "final" => x2.copy \in Sent(G) /\ LastId(x2.copy) > last)
  <2>1. Ahead(G, e, last)
    BY <1>6, <1>9, <1>11, OlderAhead
  <2>2. CASE x2.pc = "uid"
    <3>1. Latest(x2) = x.got
      BY <2>2 DEF Latest
    <3> QED BY <1>3, <2>1, <2>2, <3>1
  <2>3. CASE x2.pc = "final"
    <3>1. x2.copy = [k \in 1..n |-> Data(id, n)]
      BY <1>1, <1>9, <2>3
    <3>2. x2.copy \in Sent(G)
      BY <1>9, <3>1 DEF Sent
    <3>6. PICK d : d = Data(id, n)
      OBVIOUS
    <3>7. x2.copy = [k \in 1..n |-> d]
      BY <3>1, <3>6
    <3>8. n \in Nat /\ n >= 1
      BY <1>9
    <3>3. x2.copy # <<>> /\ x2.copy[1] = d
      BY <3>7, <3>8, OneMore
    <3>4. LastId(x2.copy) = id
      BY <3>3, <3>6, Tags DEF LastId
    <3>5. Latest(x2) = x2.copy
      BY <2>3 DEF Latest
    <3> QED BY <1>9, <1>11, <3>2, <3>4, <3>5
  <2> QED BY <1>1, <2>2, <2>3
<1>14. e > G.w => x.at.c < G.lap
  BY <1>6, <1>7, <1>11
<1>15. Place(G, y2.pointer, LastId(Latest(x2)))
  BY <1>6, <1>11, <1>12, <1>13, <1>14 DEF Place
<1>16. Fine(G, x2, y2)
  BY <1>1, <1>3, <1>13, <1>15 DEF Fine
<1>17. ASSUME NEW z, z.n \in Nat, Avoids(G, z, x, y) PROVE Avoids(G, z, x2, y2)
  <2>1. z.pc \in WrapPC /\ x2.slot >= z.num => FALSE
    BY <1>1, <1>2, <1>17 DEF Avoids
  <2>2. ASSUME z.pc \in OverPC, Seen(z, x2) PROVE ~(G.w < e /\ e < G.w + z.n + 1)
    <3>1. Seen(z, x)
      BY <1>1, <2>2 DEF Seen
    <3>2. ~(G.w < a /\ a < G.w + z.n + 1) /\ a # G.w
      BY <1>1, <1>2, <1>4, <1>5, <1>17, <2>2, <3>1 DEF Avoids
    <3>3. z.n \in Nat
      BY <1>17
    <3> QED BY <1>6, <1>11, <3>2, <3>3
  <2> QED BY <1>1, <1>12, <2>1, <2>2 DEF Avoids
<1> QED BY <1>16, <1>17

\* msgq_msg_recv has found the flag still set, and returns what it copied.
LEMMA ReturnsFine ==
  ASSUME NEW G, NEW x, NEW y, NEW x2, Fine(G, x, y), x.pc = "final", y.valid, x2.pc = "idle",
         x2.slot = x.slot, x2.got = x.copy
  PROVE  /\ Fine(G, x2, y) /\ Got(G, x2) /\ LastId(x2.got) > LastId(x.got)
         /\ \A z : Avoids(G, z, x, y) => Avoids(G, z, x2, y)
<1>1. Trusts(x, y) /\ Spot(x2, y) = Spot(x, y) /\ Latest(x2) = Latest(x) /\ Latest(x) = x2.got
      /\ x2.pc \notin ReadPC \cup {"to", "final", "resetStore"} /\ x.pc # "resetStore"
  BY DEF Trusts, RestPC, ReadPC, Spot, Latest
<1>2. /\ Place(G, Spot(x, y), LastId(x2.got)) /\ x.copy \in Sent(G)
      /\ LastId(x.copy) > LastId(x.got)
  BY <1>1 DEF Fine
<1>3. Fine(G, x2, y)
  BY <1>1, <1>2 DEF Fine
<1>4. Got(G, x2)
  BY <1>1, <1>2 DEF Got, Place, Ahead
<1>5. \A z : Seen(z, x2) => Seen(z, x)
  BY <1>1 DEF Seen
<1> QED BY <1>1, <1>2, <1>3, <1>4, <1>5 DEF Avoids

---------------------------------------------------------------------------
(* The whole queue *)

\* What a publisher has done so far of a message
Working(G, z) ==
  /\ z.pc \in SendPC => z.n \in G.sizes /\ z.id \in 1..G.max /\ \A o \in G.old : o < z.id
  /\ z.pc \in WrapPC \cup OverPC => z.at = Cursor(G.lap, G.w)
  /\ z.pc \in WrapPC => G.size - G.w - (z.n + 1) - 1 <= 0
  /\ z.pc \in {"beyond", "dropBeyond"} => G.mem[G.w] = WrapTag
  /\ z.pc \in OverPC => G.w + z.n + 1 <= G.size - 1
  /\ z.pc \in FillPC =>
       /\ z.i >= 1 /\ (z.pc = "data" => z.i <= z.n) /\ (z.pc = "publish" => z.i = z.n + 1)
       /\ G.mem[G.w] = SizeTag(z.n) /\ \A k \in 1..z.i - 1 : G.mem[G.w + k] = Data(z.id, z.n)
       /\ \A b \in G.starts : ~(G.w < b /\ b < G.w + z.n + 1)

\* One publisher at a time is at work.
Active(pc) == pc \notin {"off", "idle", "dead"}
Alone == \A p \in Publishers : /\ Active(pub[p].pc) => write_uid = p
                               /\ pub[p].pc \in SendPC => pub[p].id = count

Trusting(G, x, y) == Fine(G, x, y) /\ \A p \in Publishers : Avoids(G, pub[p], x, y)
Sound(G) ==
  /\ Laid(G) /\ write_pointer = Cursor(G.lap, G.w) /\ Alone
  /\ \A p \in Publishers : Working(G, pub[p])
  /\ \A r \in Readers : Got(G, rd[r])
  /\ \A r \in Readers : Solid(r) => Trusting(G, rd[r], Mine(r))
Whole == \E B : Sound(World(B))

LEMMA WorldIs ==
  ASSUME NEW B, NEW G, G = World(B)
  PROVE  /\ G.mem = mem /\ G.w = write_pointer.p /\ G.lap = write_pointer.c /\ G.starts = B
         /\ G.old = Old /\ G.size = SIZE /\ G.sizes = Sizes /\ G.max = MAX_MSGS
  BY DEF World

LEMMA NextWorldIs ==
  ASSUME NEW C, NEW H, H = World(C)', queue' = queue
  PROVE  /\ H.mem = mem' /\ H.w = write_pointer'.p /\ H.lap = write_pointer'.c /\ H.starts = C
         /\ H.old = Old' /\ H.size = SIZE /\ H.sizes = Sizes /\ H.max = MAX_MSGS
<1>1. SIZE' = SIZE /\ Sizes' = Sizes /\ MAX_MSGS' = MAX_MSGS
  BY DEF SIZE, Sizes, MAX_MSGS
<1> QED BY <1>1 DEF World

LEMMA OldGrows ==
  ASSUME Control, NEW p \in Publishers, OnlyPub(p), count' \in Nat, count' >= count,
         pub'[p].pc \in SendPC => \/ pub[p].pc \in SendPC /\ pub'[p].id = pub[p].id
                                  \/ pub'[p].id = count + 1
  PROVE  Old \subseteq Old' /\ Old' \subseteq Nat
<1>0. count \in Nat
  BY DEF Control
<1>1. ASSUME NEW id \in Old PROVE id \in Old'
  <2>1. id \in 0..count /\ id \in 0..count' /\ id < count + 1
    BY <1>0 DEF Old
  <2>2. ASSUME NEW q \in Publishers, pub'[q].pc \in SendPC PROVE id < pub'[q].id
    <3>1. CASE q = p
      BY <2>1, <2>2, <3>1 DEF Old
    <3>2. CASE q # p
      <4>1. pub'[q] = pub[q]
        BY <3>2, OthersPublish
      <4> QED BY <2>2, <4>1 DEF Old
    <3> QED BY <3>1, <3>2
  <2> QED BY <2>1, <2>2 DEF Old
<1>2. Old' \subseteq Nat
  BY DEF Old
<1> QED BY <1>1, <1>2

\* A slot whose flag may have been cleared
LEMMA LessTrusting ==
  ASSUME NEW G, NEW x, NEW y, NEW y2, y2.pointer = y.pointer, y2.valid => y.valid
  PROVE  /\ Trusts(x, y2) => Trusts(x, y)
         /\ Spot(x, y2) = Spot(x, y)
         /\ Fine(G, x, y) => Fine(G, x, y2)
         /\ \A z : Avoids(G, z, x, y) => Avoids(G, z, x, y2)
<1>1. Trusts(x, y2) => Trusts(x, y)
  BY DEF Trusts
<1>2. Spot(x, y2) = Spot(x, y)
  BY DEF Spot
<1> QED BY <1>1, <1>2 DEF Fine, Avoids

\* What a publisher's step has to show
PubKeeps(G, H, p, x, y) ==
  Trusts(x, y) => /\ Kept(G, H, Spot(x, y).p) /\ (x.pc \in ReadPC => ReadKept(G, H, Spot(x, y).p))
                  /\ Avoids(H, pub'[p], x, y)
FewerValid == \A s \in Slots : slots'[s].pointer = slots[s].pointer /\ (slots'[s].valid => slots[s].valid)
Advances(H, p) ==
  /\ \A q \in Publishers \ {p} : ~Active(pub[q].pc)
  /\ Active(pub'[p].pc) => write_uid' = p
  /\ pub'[p].pc \in SendPC => pub'[p].id = count'
  /\ write_pointer' = Cursor(H.lap, H.w)
  /\ Working(H, pub'[p])

LEMMA PubSound ==
  ASSUME Control, NEW p \in Publishers, OnlyPub(p), Shrinks, FewerValid,
         NEW G, Sound(G), NEW C, NEW H, H = World(C)', Laid(H), Same(G, H), Advances(H, p),
         \A r \in Readers : Solid(r) /\ Solid(r)' => PubKeeps(G, H, p, rd[r], Mine(r)')
  PROVE  Whole'
<1>1. /\ Laid(G) /\ Shaped(G) /\ rd' = rd
      /\ \A r \in Readers : Got(G, rd[r])
      /\ \A r \in Readers : Solid(r) => Trusting(G, rd[r], Mine(r))
  BY DEF Sound, Laid, OnlyPub
<1>2. \A q \in Publishers \ {p} : pub'[q] = pub[q] /\ ~Active(pub[q].pc)
  BY OthersPublish DEF Advances
<1>3. Alone'
  BY <1>2 DEF Alone, Advances, Active, SendPC
<1>4. ASSUME NEW q \in Publishers PROVE Working(H, pub'[q])
  <2>1. CASE q = p
    BY <2>1 DEF Advances
  <2>2. CASE q # p
    BY <1>2, <2>2 DEF Working, Active, SendPC, WrapPC, OverPC, FillPC
  <2> QED BY <2>1, <2>2
<1>5. ASSUME NEW r \in Readers PROVE Got(H, rd'[r])
  <2>1. Got(G, rd[r]) /\ Sent(H) = Sent(G) /\ G.old \subseteq H.old
    BY <1>1 DEF Same, Sent
  <2> QED BY <1>1, <2>1 DEF Got
<1>6. ASSUME NEW r \in Readers, Solid(r)'
      PROVE  Fine(H, rd'[r], Mine(r)') /\ \A q \in Publishers : Avoids(H, pub'[q], rd'[r], Mine(r)')
  <2>1. rd[r].pc = "initValid" \/ Solid(r)
    BY <1>1, <1>6 DEF Shrinks
  <2>2. rd'[r] = rd[r]
    BY <1>1
  <2>3. CASE rd[r].pc = "initValid"
    BY <2>2, <2>3 DEF Fine, Avoids, Trusts, RestPC, ReadPC
  <2>4. CASE Solid(r)
    <3>1. rd[r].slot \in Slots
      BY MineIs
    <3>2. PICK x : x = rd[r]
      OBVIOUS
    <3>3. PICK y : y = Mine(r)
      OBVIOUS
    <3>4. PICK y2 : y2 = Mine(r)'
      OBVIOUS
    <3>5. y2.pointer = y.pointer /\ (y2.valid => y.valid)
      BY <2>2, <3>1, <3>3, <3>4 DEF FewerValid, Mine
    <3>6. Fine(G, x, y) /\ \A q \in Publishers : Avoids(G, pub[q], x, y)
      BY <1>1, <2>4, <3>2, <3>3 DEF Trusting
    <3>7. PubKeeps(G, H, p, x, y2)
      BY <1>6, <2>4, <3>2, <3>4
    <3>8. Fine(G, x, y2)
      BY <3>5, <3>6, LessTrusting
    <3>9. Fine(H, x, y2)
      BY <1>1, <3>7, <3>8, FineStays DEF PubKeeps
    <3>10. ASSUME NEW q \in Publishers PROVE Avoids(H, pub'[q], x, y2)
      <4>1. CASE q = p
        BY <3>7, <4>1 DEF PubKeeps, Avoids
      <4>2. CASE q # p
        BY <1>2, <4>2 DEF Avoids, Active, WrapPC, OverPC
      <4> QED BY <4>1, <4>2
    <3> QED BY <2>2, <3>2, <3>4, <3>9, <3>10
  <2> QED BY <2>1, <2>3, <2>4
<1>7. Sound(World(C))'
  BY <1>3, <1>4, <1>5, <1>6 DEF Sound, Trusting, Advances
<1> QED BY <1>7 DEF Whole

---------------------------------------------------------------------------
(* The steps of a publisher *)

LEMMA SoundIs ==
  ASSUME Control, NEW B, NEW G, G = World(B), Sound(G)
  PROVE  /\ Laid(G) /\ Shaped(G) /\ G.w \in Nat /\ G.lap \in Nat /\ G.size \in Nat
         /\ G.w = write_pointer.p /\ G.lap = write_pointer.c
         /\ \A p, q \in Publishers : Active(pub[p].pc) /\ Active(pub[q].pc) => p = q
         /\ \A p \in Publishers : /\ Working(G, pub[p]) /\ (Active(pub[p].pc) => write_uid = p)
                                  /\ pub[p].pc \in SendPC => pub[p].id = count
         /\ \A p \in Publishers : pub[p].n \in Nat /\ pub[p].i \in Nat /\ pub[p].num \in Nat
<1>1. Laid(G) /\ Shaped(G) /\ Alone /\ \A p \in Publishers : Working(G, pub[p])
  BY DEF Sound, Laid
<1>2. \A p, q \in Publishers : Active(pub[p].pc) /\ Active(pub[q].pc) => p = q
  BY <1>1 DEF Alone
<1>3. \A p \in Publishers : pub[p].n \in Nat /\ pub[p].i \in Nat /\ pub[p].num \in Nat
  BY PubIs, QueueIs DEF PubType, Control
<1> QED BY <1>1, <1>2, <1>3, ShapedIs, WorldIs DEF Alone

\* Nobody has moved the write pointer since the publisher at work loaded it.
LEMMA AimIs ==
  ASSUME NEW B, Sound(World(B)), NEW p \in Publishers, pub[p].pc \in WrapPC \cup OverPC
  PROVE  pub[p].at = write_pointer
<1>1. PICK G : G = World(B)
  OBVIOUS
<1>2. Working(G, pub[p]) /\ write_pointer = Cursor(G.lap, G.w)
  BY <1>1 DEF Sound
<1> QED BY <1>2 DEF Working

\* Where a subscriber stands that trusts its flag
LEMMA SpotIs ==
  ASSUME Control, NEW B, NEW G, G = World(B), Sound(G), NEW r \in Readers, Solid(r), NEW y2,
         y2.pointer = Mine(r).pointer, y2.valid => Mine(r).valid, Trusts(rd[r], y2)
  PROVE  LET s == Spot(rd[r], y2)
         IN  /\ s.p \in G.starts /\ s.p \in Nat /\ s.c \in Nat /\ s.c <= G.lap
             /\ s.p > G.w => s.c < G.lap
             /\ rd[r].pc \in ReadPC => s.c < G.lap \/ s.p < G.w
             /\ \A p \in Publishers : Avoids(G, pub[p], rd[r], y2)
<1>1. PICK x : x = rd[r]
  OBVIOUS
<1>2. PICK y : y = Mine(r)
  OBVIOUS
<1>3. PICK s : s = Spot(x, y)
  OBVIOUS
<1>4. Fine(G, x, y) /\ \A p \in Publishers : Avoids(G, pub[p], x, y)
  BY <1>1, <1>2 DEF Sound, Trusting
<1>5. Trusts(x, y) /\ Spot(x, y2) = s /\ \A p \in Publishers : Avoids(G, pub[p], x, y2)
  BY <1>1, <1>2, <1>3, <1>4, LessTrusting
<1>6. \E id : Place(G, s, id)
  BY <1>3, <1>4, <1>5 DEF Fine
<1>7. s.p \in G.starts /\ s.c \in Nat /\ s.c <= G.lap /\ (s.p > G.w => s.c < G.lap)
  BY <1>6 DEF Place
<1>8. s.p \in Nat
  BY <1>7, SoundIs, ShapedIs
<1>9. x.pc \in ReadPC => s.c < G.lap \/ s.p < G.w
  <2> SUFFICES ASSUME x.pc \in ReadPC PROVE s.c < G.lap \/ s.p < G.w
    OBVIOUS
  <2>1. x.at = y.pointer /\ Reads(G, x, x.at.p, LastId(x.got)) /\ s = y.pointer
    BY <1>3, <1>4, <1>5 DEF Fine, Spot, ReadPC
  <2> QED BY <2>1 DEF Reads
<1> QED BY <1>1, <1>5, <1>7, <1>8, <1>9

LEMMA MineFewer ==
  ASSUME Control, NEW r \in Readers, FewerValid, rd' = rd
  PROVE  Mine(r)'.pointer = Mine(r).pointer /\ (Mine(r)'.valid => Mine(r).valid)
  BY MineIs DEF Mine, FewerValid

\* A step that stores nothing but perhaps the tag of the end of the buffer
LEMMA NearSound ==
  ASSUME Control, NEW p \in Publishers, OnlyPub(p), Shrinks, FewerValid,
         NEW B, NEW G, G = World(B), Sound(G), write_pointer' = write_pointer,
         mem' = mem \/ mem' = [mem EXCEPT ![write_pointer.p] = WrapTag],
         Old \subseteq Old', Old' \subseteq Nat,
         NEW H, H = World(B)', Advances(H, p),
         \A r \in Readers : Solid(r) => Avoids(H, pub'[p], rd[r], Mine(r)')
  PROVE  Whole'
<1>0. queue' = queue /\ rd' = rd
  BY DEF OnlyPub
<1>1. /\ G.mem = mem /\ G.w = write_pointer.p /\ G.lap = write_pointer.c /\ G.starts = B
      /\ G.old = Old /\ G.size = SIZE /\ G.sizes = Sizes /\ G.max = MAX_MSGS
  BY WorldIs
<1>2. /\ H.mem = mem' /\ H.w = G.w /\ H.lap = G.lap /\ H.starts = G.starts
      /\ H.old = Old' /\ H.size = SIZE /\ H.sizes = Sizes /\ H.max = MAX_MSGS
  BY <1>0, <1>1, NextWorldIs
<1>3. Laid(G) /\ Shaped(G) /\ G.w \in Nat /\ G.w \in 0..G.size - 1 /\ G.starts \subseteq Nat
  BY SoundIs, ShapedIs
<1>4. Same(G, H)
  BY <1>1, <1>2 DEF Same
<1>5. /\ H.mem = [j \in 0..G.size - 1 |-> H.mem[j]] /\ H.mem[G.w] \in {G.mem[G.w], WrapTag}
      /\ \A j \in 0..G.size - 1 : j # G.w => H.mem[j] = G.mem[j]
  BY <1>1, <1>2, <1>3 DEF Shaped
<1>6. Writes(G, H, G.w + 1)
  <2>1. H.starts = {b \in G.starts : b <= G.w \/ b >= G.w + 1}
    BY <1>2, <1>3
  <2>2. \A j \in 0..G.size - 1 : j < G.w \/ j >= G.w + 1 => H.mem[j] = G.mem[j]
    BY <1>3, <1>5
  <2>3. G.w + 1 \in Nat /\ G.w + 1 > G.w
    BY <1>3
  <2> QED BY <1>2, <1>4, <1>5, <2>1, <2>2, <2>3, Zenon DEF Writes
<1>7. Laid(H)
  BY <1>3, <1>6, LaidStays
<1>8. ASSUME NEW r \in Readers, Solid(r) PROVE PubKeeps(G, H, p, rd[r], Mine(r)')
  <2> SUFFICES ASSUME Trusts(rd[r], Mine(r)') PROVE PubKeeps(G, H, p, rd[r], Mine(r)')
    BY DEF PubKeeps
  <2>1. PICK s : s = Spot(rd[r], Mine(r)').p
    OBVIOUS
  <2>2. s \in G.starts /\ s \in Nat
    BY <1>0, <1>8, <2>1, SpotIs, MineFewer
  <2>3. s <= G.w \/ s >= G.w + 1
    BY <1>3, <2>2
  <2>4. Kept(G, H, s) /\ ReadKept(G, H, s)
    BY <1>3, <1>5, <1>6, <2>2, <2>3, KeptStays
  <2> QED BY <1>8, <2>1, <2>4 DEF PubKeeps
<1> QED BY <1>4, <1>7, <1>8, PubSound

\* A publisher that starts, gives up, or begins a message
LEMMA OutsideSound ==
  ASSUME Control, NEW p \in Publishers, OnlyPub(p), Shrinks, FewerValid,
         NEW B, NEW G, G = World(B), Sound(G), write_pointer' = write_pointer, mem' = mem,
         \A q \in Publishers \ {p} : ~Active(pub[q].pc),
         Active(pub'[p].pc) => write_uid' = p,
         pub'[p].pc \notin WrapPC \cup OverPC,
         \/ pub'[p].pc \notin SendPC /\ count' = count
         \/ /\ pub'[p].pc = "look" /\ pub'[p].n \in Sizes /\ pub'[p].id = count + 1
            /\ count' = count + 1 /\ count < MAX_MSGS
  PROVE  Whole'
<1>0. count \in Nat /\ queue' = queue /\ MAX_MSGS \in Nat
  BY QueueIs DEF Control, OnlyPub
<1>1. Old \subseteq Old' /\ Old' \subseteq Nat
  BY <1>0, OldGrows DEF SendPC
<1>2. PICK H : H = World(B)'
  OBVIOUS
<1>3. G.w = write_pointer.p /\ G.lap = write_pointer.c
  BY WorldIs
<1>4. /\ H.w = G.w /\ H.lap = G.lap /\ H.old = Old' /\ H.sizes = Sizes /\ H.max = MAX_MSGS
  BY <1>0, <1>2, <1>3, NextWorldIs
<1>5. Working(H, pub'[p])
  <2>1. CASE pub'[p].pc \notin SendPC
    BY <2>1 DEF Working, SendPC, WrapPC, OverPC, FillPC
  <2>2. CASE pub'[p].pc = "look"
    <3>1. /\ pub'[p].n \in H.sizes /\ pub'[p].id \in 1..H.max /\ pub'[p].id = count'
          /\ pub'[p].pc \in SendPC
      BY <1>0, <1>4, <2>2 DEF SendPC
    <3>2. \A o \in H.old : o < pub'[p].id
      BY <1>4, <3>1 DEF Old
    <3> QED BY <2>2, <3>1, <3>2 DEF Working, WrapPC, OverPC, FillPC
  <2> QED BY <2>1, <2>2
<1>6. write_pointer' = Cursor(H.lap, H.w)
  BY <1>3, <1>4 DEF Sound
<1>7. pub'[p].pc \in SendPC => pub'[p].id = count'
  OBVIOUS
<1>8. Advances(H, p)
  BY <1>5, <1>6, <1>7 DEF Advances
<1>9. \A r \in Readers : Avoids(H, pub'[p], rd[r], Mine(r)')
  BY DEF Avoids
<1> QED BY <1>1, <1>2, <1>8, <1>9, NearSound

LEMMA SlotsKept ==
  ASSUME slots' = slots
  PROVE  FewerValid
  BY DEF FewerValid

LEMMA FlagCleared ==
  ASSUME Control, NEW s, slots' = [slots EXCEPT ![s].valid = FALSE]
  PROVE  FewerValid
  BY InvalidKeepsUids DEF FewerValid

LEMMA UidCleared ==
  ASSUME Control, NEW s \in Slots, slots' = [slots EXCEPT ![s].uid = NOBODY]
  PROVE  FewerValid
  BY ClearedSlot DEF FewerValid

\* Who is at work is alone, and stays so.
LEMMA StaysAlone ==
  ASSUME Control, NEW B, NEW G, G = World(B), Sound(G), NEW p \in Publishers, Active(pub[p].pc),
         write_uid' = write_uid
  PROVE  /\ \A q \in Publishers \ {p} : ~Active(pub[q].pc)
         /\ write_uid' = p
  BY SoundIs

LEMMA TakeOverSound ==
  ASSUME Control, Shrinks, NEW B, Sound(World(B)), NEW p \in Publishers, ~Rivals, TakeOver(p)
  PROVE  Whole'
<1>1. PICK G : G = World(B)
  OBVIOUS
<1>2. /\ OnlyPub(p) /\ pub'[p].pc = "forgetReaders" /\ slots' = slots
      /\ UNCHANGED <<mem, write_pointer, count>> /\ write_uid' = p
  BY TakeOverDoes DEF Sends
<1>3. \A q \in Publishers \ {p} : ~Active(pub[q].pc)
  BY DEF TakeOver, Active, PubAt
<1>4. pub'[p].pc \notin WrapPC \cup OverPC \cup SendPC
  BY <1>2 DEF WrapPC, OverPC, SendPC
<1> QED BY <1>1, <1>2, <1>3, <1>4, SlotsKept, OutsideSound

LEMMA RestsSound ==
  ASSUME Control, Shrinks, NEW B, Sound(World(B)), NEW p \in Publishers, ~Overlap,
         PubCrash(p) \/ ForgetReaders(p) \/ ForgetValid(p) \/ ForgetUid(p)
  PROVE  Whole'
<1>1. PICK G : G = World(B)
  OBVIOUS
<1>2. /\ OnlyPub(p) /\ pub'[p].pc \in {"dead", "forgetValid", "forgetUid", "idle"}
      /\ UNCHANGED <<mem, write_pointer, write_uid, count>>
  BY PubCrashDoes, ForgetReadersDoes, ForgetValidDoes, ForgetUidDoes DEF Sends
<1>3. Active(pub[p].pc)
  BY DEF PubCrash, ForgetReaders, ForgetValid, ForgetUid, Active, PubAt
<1>4. pub'[p].pc \notin WrapPC \cup OverPC \cup SendPC
  BY <1>2 DEF WrapPC, OverPC, SendPC
<1>5. FewerValid
  BY PubCrashDoes, ForgetReadersDoes, ForgetValidDoes, ForgetUidDoes, SlotsKept, FlagCleared,
     UidCleared
<1>6. (\A q \in Publishers \ {p} : ~Active(pub[q].pc)) /\ write_uid' = p
  BY <1>1, <1>2, <1>3, StaysAlone
<1> QED BY <1>1, <1>2, <1>4, <1>5, <1>6, OutsideSound

\* A publisher finds that another has taken over.
LEMMA GivesUpSound ==
  ASSUME Control, Shrinks, NEW B, Sound(World(B)), NEW p \in Publishers, OnlyPub(p),
         pub[p].pc = "idle", pub'[p].pc = "dead",
         UNCHANGED <<mem, write_pointer, write_uid, slots, count>>
  PROVE  Whole'
<1>1. PICK G : G = World(B)
  OBVIOUS
<1>2. rd' = rd /\ queue' = queue /\ \A q \in Publishers \ {p} : pub'[q] = pub[q]
  BY OthersPublish DEF OnlyPub
<1>3. ~Active(pub'[p].pc) /\ pub'[p].pc \notin SendPC \cup WrapPC \cup OverPC /\ pub[p].pc \notin SendPC
  BY DEF Active, SendPC, WrapPC, OverPC
<1>4. Old' = Old
  <2>1. \A q \in Publishers : (pub'[q].pc \in SendPC <=> pub[q].pc \in SendPC)
                               /\ (pub[q].pc \in SendPC => pub'[q].id = pub[q].id)
    BY <1>2, <1>3
  <2> QED BY <2>1 DEF Old
<1>5. World(B)' = G
  BY <1>1, <1>2, <1>4 DEF World, SIZE, Sizes, MAX_MSGS
<1>6. /\ Laid(G) /\ write_pointer' = Cursor(G.lap, G.w) /\ Alone
      /\ \A q \in Publishers : Working(G, pub[q])
      /\ \A r \in Readers : Got(G, rd[r])
      /\ \A r \in Readers : Solid(r) => Trusting(G, rd[r], Mine(r))
  BY <1>1 DEF Sound
<1>7. Alone'
  BY <1>2, <1>3, <1>6 DEF Alone
<1>8. \A q \in Publishers : Working(G, pub'[q])
  <2>1. Working(G, pub'[p])
    BY <1>3 DEF Working, WrapPC, OverPC, FillPC
  <2> QED BY <1>2, <1>6, <2>1
<1>9. ASSUME NEW r \in Readers, Solid(r)'
      PROVE  Fine(G, rd'[r], Mine(r)') /\ \A q \in Publishers : Avoids(G, pub'[q], rd'[r], Mine(r)')
  <2>1. rd'[r] = rd[r] /\ Mine(r)' = Mine(r)
    BY <1>2 DEF Mine
  <2>2. rd[r].pc = "initValid" \/ Solid(r)
    BY <1>9, <2>1 DEF Shrinks
  <2>3. CASE rd[r].pc = "initValid"
    BY <2>1, <2>3 DEF Fine, Avoids, Trusts, RestPC, ReadPC
  <2>4. CASE Solid(r)
    <3>1. Fine(G, rd[r], Mine(r)) /\ \A q \in Publishers : Avoids(G, pub[q], rd[r], Mine(r))
      BY <1>6, <2>4 DEF Trusting
    <3>2. Avoids(G, pub'[p], rd'[r], Mine(r)')
      BY <1>3 DEF Avoids
    <3> QED BY <1>2, <2>1, <3>1, <3>2
  <2> QED BY <2>2, <2>3, <2>4
<1>10. Sound(World(B))'
  BY <1>2, <1>5, <1>6, <1>7, <1>8, <1>9 DEF Sound, Trusting
<1> QED BY <1>10 DEF Whole

LEMMA CheckUidSound ==
  ASSUME Control, Shrinks, NEW B, Sound(World(B)), NEW p \in Publishers, NEW n \in Sizes, CheckUid(p, n)
  PROVE  Whole'
<1>1. PICK G : G = World(B)
  OBVIOUS
<1>2. /\ OnlyPub(p) /\ slots' = slots /\ UNCHANGED <<mem, write_pointer, write_uid>>
      /\ \/ /\ pub'[p].pc = "look" /\ pub'[p].n = n /\ pub'[p].id = count + 1
            /\ count' = count + 1 /\ count < MAX_MSGS
         \/ pub'[p].pc = "dead" /\ count' = count
  BY CheckUidDoes DEF Sends
<1>3. CASE pub'[p].pc = "look"
  <2>1. write_uid = p
    <3>1. CASE write_uid # p
      <4>1. PubRests(p, "dead")
        BY <3>1 DEF CheckUid
      <4> QED BY <1>3, <4>1, PubRestsDoes DEF PubPC
    <3> QED BY <3>1
  <2>2. \A q \in Publishers \ {p} : ~Active(pub[q].pc)
    BY <1>1, <2>1, SoundIs
  <2>3. pub'[p].pc \notin WrapPC \cup OverPC
    BY <1>3 DEF WrapPC, OverPC
  <2> QED BY <1>1, <1>2, <1>3, <2>1, <2>2, <2>3, SlotsKept, OutsideSound
<1>4. CASE pub'[p].pc = "dead"
  BY <1>2, <1>4, GivesUpSound, CheckUidDoes
<1> QED BY <1>2, <1>3, <1>4

\* What the steps share that change neither the write pointer nor the count
LEMMA NearWorld ==
  ASSUME Control, NEW B, NEW G, G = World(B), Sound(G), NEW p \in Publishers, OnlyPub(p), SameJob(p),
         pub[p].pc \in SendPC, UNCHANGED <<write_pointer, write_uid, count>>, NEW H, H = World(B)'
  PROVE  /\ Old \subseteq Old' /\ Old' \subseteq Nat
         /\ H.w = G.w /\ H.lap = G.lap /\ H.size = G.size /\ H.sizes = G.sizes /\ H.max = G.max
         /\ H.mem = mem' /\ G.mem = mem /\ H.starts = B /\ H.size = SIZE /\ H.old = Old'
         /\ H.w = write_pointer.p /\ H.lap = write_pointer.c /\ Shaped(G)
         /\ \A q \in Publishers \ {p} : ~Active(pub[q].pc)
         /\ write_uid' = p /\ pub'[p].id = count' /\ write_pointer' = Cursor(H.lap, H.w)
         /\ pub'[p].n \in H.sizes /\ pub'[p].id \in 1..H.max
         /\ pub'[p].pc \in SendPC => \A o \in H.old : o < pub'[p].id
         /\ pub'[p].n = pub[p].n /\ pub[p].n \in Nat /\ H.w \in Nat /\ H.size \in Nat
<1>1. queue' = queue /\ count \in Nat /\ pub'[p].n = pub[p].n /\ pub'[p].id = pub[p].id
  BY DEF OnlyPub, Control, SameJob
<1>2. Old \subseteq Old' /\ Old' \subseteq Nat
  BY <1>1, OldGrows
<1>3. /\ G.mem = mem /\ G.w = write_pointer.p /\ G.lap = write_pointer.c /\ G.starts = B
      /\ G.old = Old /\ G.size = SIZE /\ G.sizes = Sizes /\ G.max = MAX_MSGS
  BY WorldIs
<1>4. /\ H.mem = mem' /\ H.w = G.w /\ H.lap = G.lap /\ H.starts = B
      /\ H.old = Old' /\ H.size = SIZE /\ H.sizes = Sizes /\ H.max = MAX_MSGS
  BY <1>1, <1>3, NextWorldIs
<1>5. Active(pub[p].pc) /\ Working(G, pub[p]) /\ pub[p].id = count
  BY SoundIs DEF Active, SendPC
<1>6. (\A q \in Publishers \ {p} : ~Active(pub[q].pc)) /\ write_uid' = p
  BY <1>5, StaysAlone
<1>7. pub'[p].n \in H.sizes /\ pub'[p].id \in 1..H.max
  BY <1>1, <1>3, <1>4, <1>5 DEF Working
<1>8. pub'[p].pc \in SendPC => \A o \in H.old : o < pub'[p].id
  BY <1>4 DEF Old
<1>9. write_pointer' = Cursor(H.lap, H.w)
  BY <1>3, <1>4 DEF Sound
<1>10. pub[p].n \in Nat /\ G.w \in Nat /\ G.size \in Nat /\ Shaped(G)
  BY SoundIs
<1> QED BY <1>1, <1>2, <1>3, <1>4, <1>5, <1>6, <1>7, <1>8, <1>9, <1>10

LEMMA LookSound ==
  ASSUME Safe, ~Overrun, Shrinks, NEW B, Sound(World(B)), NEW p \in Publishers, Look(p)
  PROVE  Whole'
<1>1. PICK G : G = World(B)
  OBVIOUS
<1>2. PICK H : H = World(B)'
  OBVIOUS
<1>3. PICK z : z = pub'[p]
  OBVIOUS
<1>4. /\ OnlyPub(p) /\ SameJob(p) /\ pub[p].pc = "look" /\ z.i = 0 /\ z.num = num_readers
      /\ z.at = write_pointer
      /\ \/ NeedsWrap(p) /\ z.pc = "tag"
         \/ ~NeedsWrap(p) /\ z.pc = "overlap" /\ MayWrite(p, write_pointer)
      /\ UNCHANGED <<slots, mem, write_pointer, write_uid, count>> /\ Control /\ Counted
      /\ num_readers \in Nat
  BY <1>3, LookDoes, QueueIs DEF Sends, Safe, Control
<1>5. pub[p].pc \in SendPC
  BY <1>4 DEF SendPC
<1>6. /\ Old \subseteq Old' /\ Old' \subseteq Nat
      /\ H.w = G.w /\ H.lap = G.lap /\ H.size = SIZE /\ H.w = write_pointer.p /\ H.lap = write_pointer.c
      /\ \A q \in Publishers \ {p} : ~Active(pub[q].pc)
      /\ write_uid' = p /\ z.id = count' /\ write_pointer' = Cursor(H.lap, H.w)
      /\ z.n \in H.sizes /\ z.id \in 1..H.max /\ (z.pc \in SendPC => \A o \in H.old : o < z.id)
      /\ z.n = pub[p].n /\ z.n \in Nat /\ H.w \in Nat /\ H.size \in Nat
  BY <1>1, <1>2, <1>3, <1>4, <1>5, NearWorld
<1>7. Working(H, z)
  <2>1. z.pc = "tag" => H.size - H.w - (z.n + 1) - 1 <= 0
    BY <1>4, <1>6 DEF NeedsWrap
  <2>2. z.pc = "overlap" => H.w + z.n + 1 <= H.size - 1
    <3>1. z.pc = "overlap" => ~(H.size - H.w - (z.n + 1) - 1 <= 0)
      BY <1>4, <1>6 DEF NeedsWrap
    <3> QED BY <1>6, <3>1
  <2>3. z.at = Cursor(H.lap, H.w)
    BY <1>4, <1>6
  <2> QED BY <1>4, <1>6, <2>1, <2>2, <2>3 DEF Working, WrapPC, OverPC, FillPC
<1>8. Advances(H, p)
  BY <1>3, <1>6, <1>7 DEF Advances
<1>9. ASSUME NEW r \in Readers, Solid(r) PROVE Avoids(H, z, rd[r], Mine(r)')
  <2> SUFFICES ASSUME Trusts(rd[r], Mine(r)') PROVE Avoids(H, z, rd[r], Mine(r)')
    BY DEF Avoids
  <2>1. Mine(r)' = Mine(r)
    BY <1>4 DEF OnlyPub, Mine
  <2>2. rd[r].slot < z.num /\ rd[r].slot \in Nat
    BY <1>4, <1>9, MineIs, QueueIs DEF Counted, Control
  <2>3. PICK s : s = Spot(rd[r], Mine(r)')
    OBVIOUS
  <2>4. s.p \in Nat /\ s.c \in Nat /\ (s.p > G.w => s.c < G.lap)
    BY <1>1, <1>4, <1>9, <2>1, <2>3, SpotIs
  <2>5. ~(rd[r].slot < 0) /\ ~(rd[r].slot >= z.num) /\ z.pc \notin FillPC
    BY <1>4, <2>2 DEF FillPC
  <2>6. ASSUME z.pc \in OverPC, Seen(z, rd[r])
        PROVE  ~(H.w < s.p /\ s.p < H.w + z.n + 1) /\ rd[r].pc \notin ReadPC
    <3>1. rd[r].pc = "resetStore"
      BY <1>4, <2>5, <2>6 DEF Seen
    <3>2. s = rd[r].to
      BY <2>3, <3>1 DEF Spot
    <3>3. MayWrite(p, write_pointer)
      BY <1>4, <2>6 DEF OverPC
    <3>4. s.c < write_pointer.c => s.p >= write_pointer.p + pub[p].n + 1
      BY <3>1, <3>2, <3>3 DEF MayWrite
    <3> QED BY <1>6, <2>4, <3>1, <3>4 DEF ReadPC
  <2>7. ~(z.pc \in WrapPC /\ rd[r].slot >= z.num)
    BY <2>5
  <2> QED BY <2>3, <2>6, <2>7 DEF Avoids
<1>10. FewerValid
  BY <1>4, SlotsKept
<1> QED BY <1>1, <1>2, <1>3, <1>4, <1>6, <1>8, <1>9, <1>10, NearSound

LEMMA WriteWrapTagSound ==
  ASSUME Control, Shrinks, NEW B, Sound(World(B)), NEW p \in Publishers, WriteWrapTag(p)
  PROVE  Whole'
<1>1. PICK G : G = World(B)
  OBVIOUS
<1>2. PICK H : H = World(B)'
  OBVIOUS
<1>3. PICK z : z = pub'[p]
  OBVIOUS
<1>4. /\ OnlyPub(p) /\ SameJob(p) /\ pub[p].pc = "tag" /\ z.pc = "beyond" /\ z.num = pub[p].num
      /\ mem' = [mem EXCEPT ![write_pointer.p] = WrapTag]
      /\ UNCHANGED <<slots, write_pointer, write_uid, count>>
      /\ z.at = write_pointer
  <2>1. /\ Sends(p) /\ SameJob(p) /\ pub[p].pc = "tag" /\ z.pc = "beyond" /\ z.num = pub[p].num
        /\ mem' = [mem EXCEPT ![pub[p].at.p] = WrapTag] /\ z.at = pub[p].at
        /\ UNCHANGED <<slots, write_pointer, write_uid, count>>
    BY <1>3, WriteWrapTagDoes
  <2>2. pub[p].at = write_pointer
    BY <2>1, AimIs DEF WrapPC
  <2> QED BY <2>1, <2>2 DEF Sends
<1>5. pub[p].pc \in SendPC
  BY <1>4 DEF SendPC
<1>11. /\ OnlyPub(p) /\ SameJob(p) /\ pub[p].pc \in SendPC
       /\ UNCHANGED <<write_pointer, write_uid, count>>
  BY <1>4, <1>5
<1>6. /\ Old \subseteq Old' /\ Old' \subseteq Nat
      /\ H.w = G.w /\ H.lap = G.lap /\ H.size = G.size /\ H.w = write_pointer.p
      /\ H.mem = mem' /\ G.mem = mem /\ Shaped(G)
      /\ \A q \in Publishers \ {p} : ~Active(pub[q].pc)
      /\ write_uid' = p /\ z.id = count' /\ write_pointer' = Cursor(H.lap, H.w)
      /\ z.n \in H.sizes /\ z.id \in 1..H.max /\ (z.pc \in SendPC => \A o \in H.old : o < z.id)
      /\ z.n = pub[p].n
  BY <1>1, <1>2, <1>3, <1>11, NearWorld
<1>7. Working(H, z)
  <2>1. Working(G, pub[p])
    BY <1>1 DEF Sound
  <2>2. G.size - G.w - (z.n + 1) - 1 <= 0
    BY <1>4, <1>6, <2>1 DEF Working, WrapPC
  <2>3. H.mem[H.w] = WrapTag
    <3>1. mem = [j \in 0..G.size - 1 |-> mem[j]] /\ write_pointer.p \in 0..G.size - 1
      BY <1>6 DEF Shaped
    <3> QED BY <1>4, <1>6, <3>1
  <2>4. z.at = Cursor(H.lap, H.w)
    BY <1>4, <1>6
  <2> QED BY <1>4, <1>6, <2>2, <2>3, <2>4 DEF Working, WrapPC, OverPC, FillPC
<1>8. Advances(H, p)
  BY <1>3, <1>6, <1>7 DEF Advances
<1>9. ASSUME NEW r \in Readers, Solid(r) PROVE Avoids(H, z, rd[r], Mine(r)')
  <2>1. Mine(r)' = Mine(r)
    BY <1>4 DEF OnlyPub, Mine
  <2>2. Avoids(G, pub[p], rd[r], Mine(r))
    BY <1>1, <1>9 DEF Sound, Trusting
  <2> QED BY <1>4, <1>6, <2>1, <2>2 DEF Avoids, WrapPC, OverPC
<1>10. FewerValid
  BY <1>4, SlotsKept
<1> QED BY <1>1, <1>2, <1>3, <1>4, <1>6, <1>8, <1>9, <1>10, NearSound

LEMMA LookAtReaderSound ==
  ASSUME Control, Shrinks, NEW B, Sound(World(B)), NEW p \in Publishers,
         LookAtReader(p) \/ DropReader(p)
  PROVE  Whole'
<1>1. PICK G : G = World(B)
  OBVIOUS
<1>2. PICK H : H = World(B)'
  OBVIOUS
<1>3. PICK z : z = pub'[p]
  OBVIOUS
<1>11. PICK u : u = pub[p]
  OBVIOUS
<1>4. /\ OnlyPub(p) /\ SameJob(p) /\ z.num = u.num /\ z.at = u.at /\ UNCHANGED <<mem, write_pointer, write_uid, count>>
      /\ \/ u.pc = "beyond" /\ z.pc \in {"beyond", "dropBeyond"}
         \/ u.pc = "dropBeyond" /\ z.pc = "beyond"
         \/ /\ u.pc = "overlap" /\ ~HitsOverlap(p) /\ z.pc = "overlap" /\ z.i = u.i + 1
         \/ /\ u.pc = "overlap" /\ z.pc = "dropOverlap" /\ z.i = u.i
         \/ /\ u.pc = "dropOverlap" /\ z.pc = "overlap" /\ z.i = u.i + 1
            /\ slots' = [slots EXCEPT ![u.i].valid = FALSE]
  BY <1>3, <1>11, LookAtReaderDoes, DropReaderDoes DEF Sends
<1>10. FewerValid
  BY LookAtReaderDoes, DropReaderDoes, SlotsKept, FlagCleared
<1>5. u.pc \in SendPC
  BY <1>4 DEF SendPC
<1>6. /\ Old \subseteq Old' /\ Old' \subseteq Nat
      /\ H.w = G.w /\ H.lap = G.lap /\ H.size = G.size /\ H.w = write_pointer.p /\ H.lap = write_pointer.c
      /\ H.mem = mem' /\ G.mem = mem /\ H.w \in Nat
      /\ \A q \in Publishers \ {p} : ~Active(pub[q].pc)
      /\ write_uid' = p /\ z.id = count' /\ write_pointer' = Cursor(H.lap, H.w)
      /\ z.n \in H.sizes /\ z.id \in 1..H.max /\ (z.pc \in SendPC => \A o \in H.old : o < z.id)
      /\ z.n = u.n /\ u.n \in Nat
  BY <1>1, <1>2, <1>3, <1>4, <1>5, <1>11, NearWorld
<1>7. Working(H, z)
  <2>1. Working(G, u)
    BY <1>1, <1>11 DEF Sound
  <2>2. /\ z.pc \in WrapPC <=> u.pc \in WrapPC
        /\ z.pc \in OverPC <=> u.pc \in OverPC
        /\ z.pc \in {"beyond", "dropBeyond"} <=> u.pc \in {"beyond", "dropBeyond"}
        /\ z.pc \notin FillPC
    BY <1>4 DEF WrapPC, OverPC, FillPC
  <2>3. u.pc \in WrapPC \cup OverPC => z.at = Cursor(H.lap, H.w)
    BY <1>4, <1>6, <2>1 DEF Working
  <2> QED BY <1>4, <1>6, <2>1, <2>2, <2>3 DEF Working
<1>8. Advances(H, p)
  BY <1>3, <1>6, <1>7 DEF Advances
<1>9. ASSUME NEW r \in Readers, Solid(r) PROVE Avoids(H, z, rd[r], Mine(r)')
  <2> SUFFICES ASSUME Trusts(rd[r], Mine(r)') PROVE Avoids(H, z, rd[r], Mine(r)')
    BY DEF Avoids
  <2>1. PICK x : x = rd[r]
    OBVIOUS
  <2>2. PICK y : y = Mine(r)'
    OBVIOUS
  <2>3. PICK s : s = Spot(x, y)
    OBVIOUS
  <2>4. rd' = rd /\ x.slot \in Slots /\ x.slot \in Nat /\ u.i \in Nat
    BY <1>1, <1>4, <1>11, <2>1, MineIs, QueueIs, SoundIs DEF OnlyPub, Control
  <2>5. /\ s.p \in Nat /\ s.c \in Nat /\ (s.p > G.w => s.c < G.lap)
        /\ x.pc \in ReadPC => s.c < G.lap \/ s.p < G.w
        /\ Avoids(G, u, x, y)
    BY <1>1, <1>9, <1>10, <1>11, <2>1, <2>2, <2>3, <2>4, SpotIs, MineFewer
  <2>6. /\ u.pc \in WrapPC /\ x.slot >= u.num => s.p = G.w /\ x.pc \notin ReadPC
        /\ u.pc \in OverPC /\ Seen(u, x) => /\ ~(G.w < s.p /\ s.p < G.w + u.n + 1)
                                            /\ x.pc \in ReadPC => s.p # G.w
    BY <2>1, <2>2, <2>3, <2>5 DEF Avoids
  <2>7. z.pc \in WrapPC /\ x.slot >= z.num => s.p = G.w /\ x.pc \notin ReadPC
    BY <1>4, <2>6 DEF WrapPC
  <2>8. ASSUME z.pc \in OverPC, Seen(z, x)
        PROVE  ~(G.w < s.p /\ s.p < G.w + u.n + 1) /\ (x.pc \in ReadPC => s.p # G.w)
    <3>1. u.pc \in OverPC /\ z.pc \notin FillPC
      BY <1>4, <2>8 DEF OverPC, FillPC
    <3>2. CASE Seen(u, x)
      BY <2>6, <3>1, <3>2
    <3>3. CASE ~Seen(u, x)
      <4>1. x.slot < z.i /\ ~(x.slot < u.i) /\ x.pc # "resetStore"
        BY <1>4, <2>8, <3>1, <3>3 DEF Seen
      <4>2. x.slot = u.i /\ (u.pc = "dropOverlap" => slots' = [slots EXCEPT ![u.i].valid = FALSE])
        <5>1. z.i = u.i \/ z.i = u.i + 1
          BY <1>4, <3>1 DEF OverPC
        <5>2. x.slot = u.i
          BY <2>4, <4>1, <5>1
        <5>3. u.pc = "dropOverlap" => slots' = [slots EXCEPT ![u.i].valid = FALSE]
          BY <1>4
        <5> QED BY <5>2, <5>3
      <4>3. y = slots'[u.i] /\ s = y.pointer /\ y.valid
        BY <2>1, <2>2, <2>3, <2>4, <4>1, <4>2 DEF Mine, Spot, Trusts
      <4>4. u.pc # "dropOverlap"
        <5>1. CASE slots' = [slots EXCEPT ![u.i].valid = FALSE]
          <6>1. slots'[u.i].valid = IF u.i = u.i THEN FALSE ELSE slots[u.i].valid
            BY <2>4, <4>2, <5>1, InvalidKeepsUids
          <6> QED BY <4>3, <6>1
        <5> QED BY <4>2, <5>1
      <4>5. ~HitsOverlap(p)
        BY <1>4, <3>1, <4>1, <4>4 DEF OverPC
      <4>6. s = slots[u.i].pointer
        BY <1>10, <2>4, <4>2, <4>3 DEF FewerValid
      <4>7. ~(s.p >= G.w /\ s.p < G.w + u.n + 1 /\ s.c # G.lap)
        <5>1. pub[p].at = write_pointer
          BY <1>11, <3>1, AimIs
        <5> QED BY <1>6, <1>11, <4>5, <4>6, <5>1 DEF HitsOverlap
      <4>8. ~(s.c < G.lap) \/ s.c # G.lap
        BY <1>6, <2>5, SoundIs, <1>1
      <4> QED BY <1>6, <2>5, <4>7, <4>8
    <3> QED BY <3>2, <3>3
  <2> QED BY <1>6, <2>1, <2>2, <2>3, <2>7, <2>8 DEF Avoids
<1> QED BY <1>1, <1>2, <1>3, <1>4, <1>6, <1>8, <1>9, <1>10, NearSound

LEMMA WrapAroundSound ==
  ASSUME Control, ~Overrun, Shrinks, NEW B, Sound(World(B)), NEW p \in Publishers, WrapAround(p)
  PROVE  Whole'
<1>1. PICK G : G = World(B)
  OBVIOUS
<1>2. PICK H : H = World(B)'
  OBVIOUS
<1>3. PICK z : z = pub'[p]
  OBVIOUS
<1>4. PICK u : u = pub[p]
  OBVIOUS
<1>5. /\ OnlyPub(p) /\ SameJob(p) /\ z.num = u.num /\ z.i = 0 /\ u.pc = "beyond" /\ z.pc = "overlap"
      /\ MayWrite(p, Cursor(write_pointer.c + 1, 0)) /\ z.at = write_pointer'
      /\ write_pointer' = Cursor(write_pointer.c + 1, 0)
      /\ UNCHANGED <<slots, mem, write_uid, count>> /\ u.n = z.n /\ u.id = z.id
      /\ queue' = queue /\ rd' = rd
  <2>1. u.pc = "beyond"
    BY <1>4, WrapAroundDoes
  <2>2. NextLap(p) = Cursor(write_pointer.c + 1, 0)
    BY <1>4, <2>1, AimIs DEF WrapPC, NextLap
  <2> QED BY <1>3, <1>4, <2>2, WrapAroundDoes DEF Sends, OnlyPub, SameJob
<1>6. u.pc \in SendPC /\ z.pc \in SendPC /\ u.pc \in WrapPC /\ Active(u.pc)
  BY <1>5 DEF SendPC, WrapPC, Active
<1>7. count \in Nat
  BY DEF Control
<1>8. Old \subseteq Old' /\ Old' \subseteq Nat
  BY <1>3, <1>4, <1>5, <1>6, <1>7, OldGrows
<1>9. /\ G.mem = mem /\ G.w = write_pointer.p /\ G.lap = write_pointer.c /\ G.starts = B
      /\ G.old = Old /\ G.size = SIZE /\ G.sizes = Sizes /\ G.max = MAX_MSGS
  BY <1>1, WorldIs
<1>10. write_pointer'.c = G.lap + 1 /\ write_pointer'.p = 0
  BY <1>5, <1>9 DEF Cursor
<1>11. /\ H.mem = mem /\ H.w = 0 /\ H.lap = G.lap + 1 /\ H.starts = B
       /\ H.old = Old' /\ H.size = G.size /\ H.sizes = Sizes /\ H.max = MAX_MSGS
  BY <1>2, <1>5, <1>9, <1>10, NextWorldIs
<1>12. Working(G, u) /\ u.id = count /\ Laid(G) /\ Shaped(G) /\ G.w \in Nat /\ G.lap \in Nat /\ G.size \in Nat
  BY <1>1, <1>4, <1>6, SoundIs
<1>13. /\ u.n \in Sizes /\ u.id \in 1..G.max /\ G.mem[G.w] = WrapTag
       /\ G.size - G.w - (u.n + 1) - 1 <= 0
  BY <1>5, <1>6, <1>9, <1>12 DEF Working
<1>14. u.n \in Nat /\ u.n >= 1 /\ 3 * (u.n + 1) <= G.size
  BY <1>9, <1>13, QueueIs DEF Control
<1>15. G.w >= u.n + 1 /\ G.w > 0 /\ u.n + 1 <= G.size - 1
  BY <1>12, <1>13, <1>14
<1>16. Wraps(G, H) /\ Same(G, H)
  BY <1>8, <1>9, <1>11, <1>13, <1>15 DEF Wraps, Same
<1>17. Laid(H)
  BY <1>12, <1>16, WrapsLaid
<1>18. Working(H, z)
  <2>1. \A o \in H.old : o < z.id
    BY <1>3, <1>6, <1>11 DEF Old
  <2>2. H.w + z.n + 1 <= H.size - 1
    BY <1>5, <1>11, <1>14, <1>15
  <2>3. z.at = Cursor(H.lap, H.w)
    BY <1>5, <1>9, <1>11
  <2> QED BY <1>5, <1>9, <1>11, <1>13, <2>1, <2>2, <2>3 DEF Working, WrapPC, OverPC, FillPC
<1>19. Advances(H, p)
  <2>1. (\A q \in Publishers \ {p} : ~Active(pub[q].pc)) /\ write_uid' = p
    BY <1>1, <1>4, <1>5, <1>6, StaysAlone
  <2> QED BY <1>3, <1>5, <1>9, <1>11, <1>12, <1>18, <2>1 DEF Advances
<1>20. FewerValid
  BY <1>5, SlotsKept
<1>21. ASSUME NEW r \in Readers, Solid(r) PROVE PubKeeps(G, H, p, rd[r], Mine(r)')
  <2> SUFFICES ASSUME Trusts(rd[r], Mine(r)') PROVE PubKeeps(G, H, p, rd[r], Mine(r)')
    BY DEF PubKeeps
  <2>1. PICK x : x = rd[r]
    OBVIOUS
  <2>2. PICK y : y = Mine(r)'
    OBVIOUS
  <2>3. PICK s : s = Spot(x, y)
    OBVIOUS
  <2>4. x.slot \in Nat
    BY <2>1, MineIs, QueueIs DEF Control
  <2>5. s.p \in G.starts /\ s.p \in Nat /\ s.c \in Nat /\ s.c <= G.lap /\ Avoids(G, u, x, y)
    BY <1>1, <1>4, <1>5, <1>20, <1>21, <2>1, <2>2, <2>3, SpotIs, MineFewer
  <2>6. Kept(G, H, s.p) /\ ReadKept(G, H, s.p)
    BY <1>12, <1>16, <2>5, WrapsKept
  <2>7. ASSUME z.pc \in OverPC, Seen(z, x)
        PROVE  ~(0 < s.p /\ s.p < z.n + 1) /\ x.pc \notin ReadPC
    <3>1. x.slot >= z.num \/ x.pc = "resetStore"
      BY <1>5, <2>4, <2>7 DEF Seen, FillPC
    <3>2. CASE x.slot >= z.num
      <4>1. s.p = G.w /\ x.pc \notin ReadPC
        BY <1>5, <1>6, <2>1, <2>2, <2>3, <2>5, <3>2 DEF Avoids
      <4> QED BY <1>5, <1>12, <1>14, <1>15, <4>1
    <3>3. CASE x.pc = "resetStore"
      <4>1. s = rd[r].to
        BY <2>1, <2>3, <3>3 DEF Spot
      <4>2. PICK at : at = Cursor(write_pointer.c + 1, 0)
        OBVIOUS
      <4>3. MayWrite(p, at) /\ at.c = G.lap + 1 /\ at.p = 0
        BY <1>5, <1>9, <4>2 DEF Cursor
      <4>4. s.c < at.c => s.p >= at.p + u.n + 1
        BY <1>4, <2>1, <3>3, <4>1, <4>3 DEF MayWrite
      <4>5. s.p >= u.n + 1
        BY <1>12, <1>14, <2>5, <4>3, <4>4
      <4> QED BY <1>5, <1>14, <2>5, <3>3, <4>5 DEF ReadPC
    <3> QED BY <3>1, <3>2, <3>3
  <2>8. 0 + z.n + 1 = z.n + 1
    BY <1>5, <1>14
  <2>9. Avoids(H, z, x, y)
    BY <1>5, <1>11, <2>3, <2>7, <2>8 DEF Avoids, WrapPC
  <2> QED BY <1>3, <2>1, <2>2, <2>3, <2>6, <2>9 DEF PubKeeps
<1> QED BY <1>1, <1>2, <1>5, <1>16, <1>17, <1>19, <1>20, <1>21, PubSound

\* A publisher stores the size, or the next word.
LEMMA FillsSound ==
  ASSUME Control, Shrinks, NEW B, Sound(World(B)), NEW p \in Publishers,
         WriteSize(p) \/ WriteData(p)
  PROVE  Whole'
<1>1. PICK G : G = World(B)
  OBVIOUS
<1>3. PICK z : z = pub'[p]
  OBVIOUS
<1>4. PICK u : u = pub[p]
  OBVIOUS
<1>5. /\ OnlyPub(p) /\ SameJob(p) /\ z.pc \in FillPC /\ u.n = z.n /\ u.id = z.id
      /\ z.at = write_pointer
      /\ UNCHANGED <<slots, write_pointer, write_uid, count>>
      /\ \/ /\ u.pc = "overlap" /\ z.pc = "data" /\ ~(u.i < u.num) /\ z.i = 1
            /\ mem' = [mem EXCEPT ![write_pointer.p] = SizeTag(u.n)]
         \/ /\ u.pc = "data" /\ z.i = u.i + 1 /\ z.pc = (IF u.i = u.n THEN "publish" ELSE "data")
            /\ mem' = [mem EXCEPT ![write_pointer.p + u.i] = Data(u.id, u.n)]
      /\ queue' = queue /\ rd' = rd
  <2>1. CASE WriteSize(p)
    <3>1. /\ Sends(p) /\ SameJob(p) /\ z.i = 1 /\ u.pc = "overlap" /\ z.pc = "data" /\ ~(u.i < u.num)
          /\ mem' = [mem EXCEPT ![u.at.p] = SizeTag(u.n)] /\ z.at = u.at
          /\ UNCHANGED <<slots, write_pointer, write_uid, count>>
      BY <1>3, <1>4, <2>1, WriteSizeDoes
    <3>2. u.at = write_pointer
      BY <1>4, <3>1, AimIs DEF OverPC
    <3> QED BY <1>3, <1>4, <3>1, <3>2 DEF Sends, OnlyPub, SameJob, FillPC
  <2>2. CASE WriteData(p)
    <3>1. /\ Sends(p) /\ SameJob(p) /\ u.pc = "data" /\ z.i = u.i + 1
          /\ z.pc = (IF u.i = u.n THEN "publish" ELSE "data")
          /\ mem' = [mem EXCEPT ![u.at.p + u.i] = Data(u.id, u.n)] /\ z.at = u.at
          /\ UNCHANGED <<slots, write_pointer, write_uid, count>>
      BY <1>3, <1>4, <2>2, WriteDataDoes
    <3>2. z.pc \in FillPC
      BY <3>1, Zenon DEF FillPC
    <3>3. u.at = write_pointer
      BY <1>4, <3>1, AimIs DEF OverPC
    <3> QED BY <1>3, <1>4, <3>1, <3>2, <3>3 DEF Sends, OnlyPub, SameJob
  <2> QED BY <2>1, <2>2
<1>6. u.pc \in {"overlap", "data"} /\ u.pc \in SendPC /\ u.pc \in OverPC /\ z.pc \in SendPC /\ Active(u.pc)
  BY <1>5 DEF SendPC, OverPC, Active, FillPC
<1>7. count \in Nat
  BY DEF Control
<1>8. Old \subseteq Old' /\ Old' \subseteq Nat
  BY <1>3, <1>4, <1>5, <1>6, <1>7, OldGrows
<1>9. /\ G.mem = mem /\ G.w = write_pointer.p /\ G.lap = write_pointer.c /\ G.starts = B
      /\ G.old = Old /\ G.size = SIZE /\ G.sizes = Sizes /\ G.max = MAX_MSGS
  BY <1>1, WorldIs
<1>10. PICK F : F = G.w + u.n + 1
  OBVIOUS
<1>11. PICK C : C = {b \in G.starts : b <= G.w \/ b >= F}
  OBVIOUS
<1>2. PICK H : H = World(C)'
  OBVIOUS
<1>12. /\ H.mem = mem' /\ H.w = G.w /\ H.lap = G.lap /\ H.starts = C
       /\ H.old = Old' /\ H.size = G.size /\ H.sizes = Sizes /\ H.max = MAX_MSGS
  BY <1>2, <1>5, <1>9, NextWorldIs
<1>13. /\ Working(G, u) /\ u.id = count /\ Laid(G) /\ Shaped(G) /\ G.w \in Nat /\ G.lap \in Nat
       /\ G.size \in Nat /\ u.n \in Nat /\ u.i \in Nat /\ u.num \in Nat
  BY <1>1, <1>4, <1>6, SoundIs
<1>14. /\ u.n \in Sizes /\ u.id \in 1..G.max /\ G.w + u.n + 1 <= G.size - 1
       /\ u.pc = "data" => /\ u.i >= 1 /\ u.i <= u.n /\ G.mem[G.w] = SizeTag(u.n)
                           /\ \A k \in 1..u.i - 1 : G.mem[G.w + k] = Data(u.id, u.n)
  BY <1>6, <1>9, <1>13 DEF Working, FillPC
<1>15. u.n >= 1 /\ F \in Nat /\ F > G.w
  BY <1>9, <1>10, <1>13, <1>14, QueueIs DEF Control
\* the word that is stored
<1>16. PICK j, d : /\ mem' = [mem EXCEPT ![G.w + j] = d] /\ j \in 0..u.n
                   /\ u.pc = "overlap" => j = 0 /\ d = SizeTag(u.n)
                   /\ u.pc = "data" => j = u.i /\ d = Data(u.id, u.n)
  <2>1. CASE u.pc = "overlap"
    <3>1. mem' = [mem EXCEPT ![G.w + 0] = SizeTag(u.n)] /\ 0 \in 0..u.n
      BY <1>5, <1>9, <1>13, <2>1
    <3> QED BY <2>1, <3>1
  <2>2. CASE u.pc = "data"
    <3>1. mem' = [mem EXCEPT ![G.w + u.i] = Data(u.id, u.n)] /\ u.i \in 0..u.n
      BY <1>5, <1>9, <1>13, <1>14, <2>2
    <3> QED BY <2>2, <3>1
  <2> QED BY <1>6, <2>1, <2>2
<1>17. /\ mem' = [k \in 0..G.size - 1 |-> mem'[k]] /\ mem'[G.w + j] = d
       /\ \A k \in 0..G.size - 1 : k # G.w + j => mem'[k] = mem[k]
  <2>1. mem = [k \in 0..G.size - 1 |-> mem[k]]
    BY <1>9, <1>13 DEF Shaped
  <2>2. G.w + j \in 0..G.size - 1
    BY <1>13, <1>14, <1>16
  <2> QED BY <1>16, <2>1, <2>2
<1>18. Same(G, H)
  BY <1>8, <1>9, <1>12 DEF Same
<1>19. Writes(G, H, F)
  <2>1. \A k \in 0..G.size - 1 : k < G.w \/ k >= F => H.mem[k] = G.mem[k]
    <3>1. \A k \in 0..G.size - 1 : k < G.w \/ k >= F => k # G.w + j
      BY <1>10, <1>13, <1>16
    <3> QED BY <1>9, <1>12, <1>17, <3>1
  <2>2. H.mem = [k \in 0..G.size - 1 |-> H.mem[k]]
    BY <1>12, <1>17
  <2> QED BY <1>11, <1>12, <1>15, <1>18, <2>1, <2>2, Zenon DEF Writes
<1>20. Laid(H)
  BY <1>13, <1>19, LaidStays
<1>21. Working(H, z)
  <2>1. \A o \in H.old : o < z.id
    BY <1>3, <1>6, <1>12 DEF Old
  <2>2. \A b \in H.starts : ~(H.w < b /\ b < H.w + z.n + 1)
    <3>1. \A b \in C : b \in Nat /\ (b <= G.w \/ b >= F)
      BY <1>11, <1>13, ShapedIs
    <3> QED BY <1>5, <1>10, <1>12, <1>13, <1>15, <3>1
  <2>3. z.i >= 1 /\ (z.pc = "data" => z.i <= z.n) /\ (z.pc = "publish" => z.i = z.n + 1)
    <3>1. CASE u.pc = "overlap"
      BY <1>5, <1>13, <1>15, <3>1
    <3>2. CASE u.pc = "data"
      <4>1. z.i = u.i + 1 /\ z.pc = (IF u.i = u.n THEN "publish" ELSE "data")
        BY <1>5, <3>2
      <4>2. CASE u.i = u.n
        <5>1. z.pc = "publish"
          BY <4>1, <4>2
        <5> QED BY <1>5, <1>13, <4>1, <4>2, <5>1
      <4>3. CASE u.i # u.n
        <5>1. z.pc = "data"
          BY <4>1, <4>3
        <5>2. u.i <= u.n
          BY <1>14, <3>2
        <5> QED BY <1>5, <1>13, <4>1, <4>3, <5>1, <5>2
      <4> QED BY <4>2, <4>3
    <3> QED BY <1>6, <3>1, <3>2
  <2>4. H.mem[H.w] = SizeTag(z.n)
    <3>1. CASE u.pc = "overlap"
      <4>1. j = 0 /\ d = SizeTag(u.n) /\ G.w + j = G.w
        BY <1>13, <1>16, <3>1
      <4> QED BY <1>5, <1>12, <1>17, <4>1
    <3>2. CASE u.pc = "data"
      <4>1. G.mem[G.w] = SizeTag(u.n) /\ G.w \in 0..G.size - 1 /\ G.w # G.w + j
        BY <1>13, <1>14, <1>16, <3>2
      <4> QED BY <1>5, <1>9, <1>12, <1>17, <4>1
    <3> QED BY <1>6, <3>1, <3>2
  <2>5. ASSUME NEW k \in 1..z.i - 1 PROVE H.mem[H.w + k] = Data(z.id, z.n)
    <3>1. CASE u.pc = "overlap"
      BY <1>5, <2>5, <3>1
    <3>2. CASE u.pc = "data"
      <4>0. z.i = u.i + 1 /\ u.i <= u.n /\ j = u.i /\ d = Data(u.id, u.n)
        BY <1>5, <1>14, <1>16, <3>2
      <4>1. CASE k = u.i
        BY <1>5, <1>12, <1>17, <4>0, <4>1
      <4>2. CASE k # u.i
        <5>1. k \in 1..u.i - 1 /\ G.w + k # G.w + j /\ G.w + k \in 0..G.size - 1
          BY <1>13, <1>14, <2>5, <4>0, <4>2
        <5>2. G.mem[G.w + k] = Data(u.id, u.n)
          BY <1>14, <3>2, <5>1
        <5> QED BY <1>5, <1>9, <1>12, <1>17, <5>1, <5>2
      <4> QED BY <4>1, <4>2
    <3> QED BY <1>6, <3>1, <3>2
  <2>6. z.n \in H.sizes /\ z.id \in 1..H.max /\ H.w + z.n + 1 <= H.size - 1
    BY <1>5, <1>9, <1>12, <1>14
  <2>7. z.pc \notin WrapPC /\ z.pc \notin {"beyond", "dropBeyond"}
    BY <1>5 DEF FillPC, WrapPC
  <2>8. z.at = Cursor(H.lap, H.w)
    BY <1>1, <1>5, <1>12 DEF Sound
  <2> QED BY <2>1, <2>2, <2>3, <2>4, <2>5, <2>6, <2>7, <2>8 DEF Working
<1>22. Advances(H, p)
  <2>1. (\A q \in Publishers \ {p} : ~Active(pub[q].pc)) /\ write_uid' = p
    BY <1>1, <1>4, <1>5, <1>6, StaysAlone
  <2>2. write_pointer' = Cursor(H.lap, H.w)
    BY <1>1, <1>5, <1>12 DEF Sound
  <2> QED BY <1>3, <1>5, <1>13, <1>21, <2>1, <2>2 DEF Advances
<1>23. FewerValid
  BY <1>5, SlotsKept
<1>24. ASSUME NEW r \in Readers, Solid(r) PROVE PubKeeps(G, H, p, rd[r], Mine(r)')
  <2> SUFFICES ASSUME Trusts(rd[r], Mine(r)') PROVE PubKeeps(G, H, p, rd[r], Mine(r)')
    BY DEF PubKeeps
  <2>1. PICK x : x = rd[r]
    OBVIOUS
  <2>2. PICK y : y = Mine(r)'
    OBVIOUS
  <2>3. PICK s : s = Spot(x, y)
    OBVIOUS
  <2>4. x.slot \in Nat
    BY <2>1, MineIs, QueueIs DEF Control
  <2>5. s.p \in G.starts /\ s.p \in Nat /\ Avoids(G, u, x, y)
    BY <1>1, <1>4, <1>5, <1>23, <1>24, <2>1, <2>2, <2>3, SpotIs, MineFewer
  <2>6. Seen(u, x)
    <3>1. CASE u.pc = "overlap"
      <4>1. x.slot < u.i \/ x.slot >= u.num
        BY <1>5, <1>13, <2>4, <3>1
      <4> QED BY <4>1 DEF Seen
    <3>2. CASE u.pc = "data"
      BY <3>2 DEF Seen, FillPC
    <3> QED BY <1>6, <3>1, <3>2
  <2>7. ~(G.w < s.p /\ s.p < G.w + u.n + 1) /\ (x.pc \in ReadPC => s.p # G.w)
    BY <1>6, <2>1, <2>2, <2>3, <2>5, <2>6 DEF Avoids
  <2>8. s.p <= G.w \/ s.p >= F
    BY <1>10, <1>13, <2>5, <2>7
  <2>9. Kept(G, H, s.p) /\ (s.p # G.w => ReadKept(G, H, s.p))
    BY <1>13, <1>19, <2>5, <2>8, KeptStays
  <2>10. Avoids(H, z, x, y)
    BY <1>5, <1>12, <2>3, <2>7 DEF Avoids, WrapPC, FillPC
  <2> QED BY <1>3, <2>1, <2>2, <2>3, <2>7, <2>9, <2>10 DEF PubKeeps
<1> QED BY <1>1, <1>2, <1>5, <1>18, <1>20, <1>22, <1>23, <1>24, PubSound

LEMMA PublishSound ==
  ASSUME Control, Shrinks, NEW B, Sound(World(B)), NEW p \in Publishers, Publish(p)
  PROVE  Whole'
<1>1. PICK G : G = World(B)
  OBVIOUS
<1>3. PICK z : z = pub'[p]
  OBVIOUS
<1>4. PICK u : u = pub[p]
  OBVIOUS
<1>5. /\ OnlyPub(p) /\ u.pc = "publish" /\ z.pc = "idle"
      /\ write_pointer' = Cursor(write_pointer.c, write_pointer.p + u.n + 1)
      /\ UNCHANGED <<slots, mem, write_uid, count>> /\ queue' = queue /\ rd' = rd
  <2>1. u.pc = "publish"
    BY <1>4, PublishDoes
  <2>2. u.at = write_pointer
    BY <1>4, <2>1, AimIs DEF OverPC
  <2> QED BY <1>3, <1>4, <2>2, PublishDoes DEF Sends, OnlyPub
<1>6. /\ u.pc \in SendPC /\ u.pc \in OverPC /\ u.pc \in FillPC /\ Active(u.pc)
      /\ z.pc \notin SendPC /\ z.pc \notin WrapPC /\ z.pc \notin OverPC /\ ~Active(z.pc)
  BY <1>5 DEF SendPC, OverPC, WrapPC, FillPC, Active
<1>7. count \in Nat
  BY DEF Control
<1>8. Old \subseteq Old' /\ Old' \subseteq Nat
  BY <1>3, <1>4, <1>5, <1>6, <1>7, OldGrows
<1>9. /\ G.mem = mem /\ G.w = write_pointer.p /\ G.lap = write_pointer.c /\ G.starts = B
      /\ G.old = Old /\ G.size = SIZE /\ G.sizes = Sizes /\ G.max = MAX_MSGS
  BY <1>1, WorldIs
<1>10. PICK C : C = G.starts \cup {G.w + u.n + 1}
  OBVIOUS
<1>2. PICK H : H = World(C)'
  OBVIOUS
<1>11. write_pointer'.c = G.lap /\ write_pointer'.p = G.w + u.n + 1
  BY <1>5, <1>9 DEF Cursor
<1>12. /\ H.mem = mem /\ H.w = G.w + u.n + 1 /\ H.lap = G.lap /\ H.starts = C
       /\ H.old = Old' /\ H.size = G.size /\ H.sizes = Sizes /\ H.max = MAX_MSGS
  BY <1>2, <1>5, <1>9, <1>11, NextWorldIs
<1>13. /\ Working(G, u) /\ u.id = count /\ Laid(G) /\ Shaped(G) /\ G.w \in Nat /\ G.lap \in Nat
       /\ G.size \in Nat /\ u.n \in Nat
       /\ \A q \in Publishers \ {p} : ~Active(pub[q].pc)
       /\ write_uid' = p
  BY <1>1, <1>4, <1>5, <1>6, SoundIs, StaysAlone
<1>14. /\ u.n \in Sizes /\ u.id \in 1..G.max /\ \A o \in G.old : o < u.id
       /\ G.w + u.n + 1 <= G.size - 1 /\ u.i = u.n + 1 /\ G.mem[G.w] = SizeTag(u.n)
       /\ \A k \in 1..u.i - 1 : G.mem[G.w + k] = Data(u.id, u.n)
       /\ \A b \in G.starts : ~(G.w < b /\ b < G.w + u.n + 1)
  BY <1>5, <1>6, <1>9, <1>13 DEF Working
<1>15. Words(G, G.w, u.n, u.id)
  <2>1. u.i - 1 = u.n
    BY <1>13, <1>14
  <2> QED BY <1>14, <2>1 DEF Words
<1>16. Same(G, H)
  BY <1>8, <1>9, <1>12 DEF Same
<1>17. u.id \in H.old
  <2>1. ASSUME NEW q \in Publishers PROVE pub'[q].pc \notin SendPC
    <3>1. CASE q = p
      BY <1>3, <1>6, <3>1
    <3>2. CASE q # p
      <4>1. pub'[q] = pub[q] /\ ~Active(pub[q].pc)
        BY <1>5, <1>13, <3>2, OthersPublish
      <4> QED BY <4>1 DEF Active, SendPC
    <3> QED BY <3>1, <3>2
  <2>2. u.id \in 0..count'
    BY <1>5, <1>7, <1>13
  <2> QED BY <1>12, <2>1, <2>2 DEF Old
<1>18. Publishes(G, H, u.n, u.id)
  <2>1. H.w < G.size
    BY <1>12, <1>13, <1>14
  <2> QED BY <1>9, <1>10, <1>12, <1>14, <1>15, <1>16, <1>17, <2>1 DEF Publishes
<1>19. Laid(H)
  BY <1>13, <1>18, PublishesLaid
<1>20. Advances(H, p)
  <2>1. Working(H, z)
    BY <1>5 DEF Working, SendPC, WrapPC, OverPC, FillPC
  <2>2. write_pointer' = Cursor(H.lap, H.w)
    BY <1>5, <1>9, <1>12
  <2> QED BY <1>3, <1>6, <1>13, <2>1, <2>2 DEF Advances
<1>21. FewerValid
  BY <1>5, SlotsKept
<1>22. ASSUME NEW r \in Readers, Solid(r) PROVE PubKeeps(G, H, p, rd[r], Mine(r)')
  <2> SUFFICES ASSUME Trusts(rd[r], Mine(r)') PROVE PubKeeps(G, H, p, rd[r], Mine(r)')
    BY DEF PubKeeps
  <2>1. PICK x : x = rd[r]
    OBVIOUS
  <2>2. PICK y : y = Mine(r)'
    OBVIOUS
  <2>3. PICK s : s = Spot(x, y)
    OBVIOUS
  <2>4. s.p \in G.starts /\ s.p \in Nat /\ Avoids(G, u, x, y)
    BY <1>1, <1>4, <1>5, <1>21, <1>22, <2>1, <2>2, <2>3, SpotIs, MineFewer
  <2>5. Seen(u, x)
    BY <1>6 DEF Seen
  <2>6. x.pc \in ReadPC => s.p # G.w
    BY <1>6, <2>1, <2>2, <2>3, <2>4, <2>5 DEF Avoids
  <2>7. Kept(G, H, s.p) /\ (s.p # G.w => ReadKept(G, H, s.p))
    BY <1>13, <1>18, <2>4, PublishesKept
  <2>8. Avoids(H, z, x, y)
    BY <1>6 DEF Avoids
  <2> QED BY <1>3, <2>1, <2>2, <2>3, <2>6, <2>7, <2>8 DEF PubKeeps
<1> QED BY <1>1, <1>2, <1>5, <1>16, <1>19, <1>20, <1>21, <1>22, PubSound

---------------------------------------------------------------------------
(* The steps of a subscriber *)

\* What is handed out is newer than what was before.
Newer == \A r \in Readers : rd'[r].got = rd[r].got \/ LastId(rd'[r].got) > LastId(rd[r].got)

LEMMA SameWorld ==
  ASSUME NEW B, UNCHANGED <<queue, mem, write_pointer, write_uid, pub, count>>
  PROVE  World(B)' = World(B) /\ Alone' = Alone
<1>1. Old' = Old
  BY DEF Old
<1>2. Alone' <=> Alone
  BY DEF Alone
<1>3. Alone \in BOOLEAN /\ Alone' \in BOOLEAN
  BY DEF Alone
<1> QED BY <1>1, <1>2, <1>3 DEF World, SIZE, Sizes, MAX_MSGS

LEMMA Untrusted ==
  ASSUME NEW G, NEW x, NEW y, x.pc \notin RestPC \cup ReadPC \cup {"resetStore"}
  PROVE  Trusting(G, x, y)
  BY DEF Trusting, Fine, Avoids, Trusts

LEMMA StoresSolid ==
  ASSUME NEW r \in Readers, rd[r].pc \notin {"off", "claim", "idle", "uid"}, ~Changing(rd[r].pc)
  PROVE  Solid(r)
  BY DEF Solid, Holds, At

OthersTrust(r) ==
  \A q \in Readers \ {r} : Solid(q) => /\ slots'[rd[q].slot].pointer = slots[rd[q].slot].pointer
                                       /\ slots'[rd[q].slot].valid => slots[rd[q].slot].valid

LEMMA ReaderSound ==
  ASSUME Control, NEW B, NEW G, G = World(B), Sound(G), NEW r \in Readers, OnlyReader(r), Shrinks,
         OthersTrust(r), Got(G, rd'[r]), Solid(r)' => Trusting(G, rd'[r], Mine(r)'),
         rd'[r].got = rd[r].got \/ LastId(rd'[r].got) > LastId(rd[r].got)
  PROVE  Whole' /\ Newer
<1>1. UNCHANGED <<queue, mem, write_pointer, write_uid, pub, count>>
  BY DEF OnlyReader
<1>2. World(B)' = G /\ Alone' = Alone
  BY <1>1, SameWorld
<1>3. \A q \in Readers \ {r} : rd'[q] = rd[q]
  BY OthersStay
<1>4. /\ Laid(G) /\ write_pointer = Cursor(G.lap, G.w) /\ Alone
      /\ \A p \in Publishers : Working(G, pub[p])
      /\ \A q \in Readers : Got(G, rd[q])
      /\ \A q \in Readers : Solid(q) => Trusting(G, rd[q], Mine(q))
  BY DEF Sound
<1>5. ASSUME NEW q \in Readers, Solid(q)' PROVE Trusting(G, rd'[q], Mine(q)')
  <2>1. CASE q = r
    BY <1>5, <2>1
  <2>2. CASE q # r
    <3>1. rd'[q] = rd[q] /\ (rd[q].pc = "initValid" \/ Solid(q))
      BY <1>3, <1>5, <2>2 DEF Shrinks
    <3>2. CASE rd[q].pc = "initValid"
      BY <3>1, <3>2, Untrusted DEF RestPC, ReadPC
    <3>3. CASE Solid(q)
      <4>1. Mine(q)'.pointer = Mine(q).pointer /\ (Mine(q)'.valid => Mine(q).valid)
        BY <2>2, <3>1, <3>3 DEF OthersTrust, Mine
      <4>2. Trusting(G, rd[q], Mine(q))
        BY <1>4, <3>3
      <4> QED BY <3>1, <4>1, <4>2, LessTrusting DEF Trusting
    <3> QED BY <3>1, <3>2, <3>3
  <2> QED BY <2>1, <2>2
<1>6. \A q \in Readers : Got(G, rd'[q])
  BY <1>3, <1>4
<1>7. pub' = pub
  BY <1>1
<1>8. \A q \in Readers : (Solid(q)' => /\ Fine(G, rd'[q], Mine(q)')
                                      /\ \A p \in Publishers : Avoids(G, pub[p], rd'[q], Mine(q)'))
  BY <1>5, <1>7 DEF Trusting
<1>9. Sound(World(B))'
  BY <1>1, <1>2, <1>4, <1>6, <1>7, <1>8 DEF Sound, Trusting
<1>10. Newer
  BY <1>3 DEF Newer
<1> QED BY <1>9, <1>10 DEF Whole

\* A store into its own slot is to none that another relies on.
LEMMA StoredIs ==
  ASSUME Safe, NEW r \in Readers, NEW v, NEW a, Stored(r, v, a),
         rd[r].pc \notin {"off", "claim", "idle", "uid"}
  PROVE  /\ OnlyReader(r) /\ rd'[r].slot = rd[r].slot /\ OthersTrust(r) /\ Solid(r)
         /\ Mine(r)'.valid = v /\ Mine(r)'.pointer = a
<1>1. /\ OnlyReader(r) /\ rd'[r].slot = rd[r].slot /\ ~Changing(rd[r].pc)
      /\ slots' = [slots EXCEPT ![rd[r].slot] = slots'[rd[r].slot]]
      /\ slots'[rd[r].slot].valid = v /\ slots'[rd[r].slot].pointer = a
      /\ Control /\ Counted
  BY DEF Stored, Quiet, Safe
<1>2. Mine(r)'.valid = v /\ Mine(r)'.pointer = a
  BY <1>1 DEF Mine
<1>3. Solid(r)
  BY <1>1, StoresSolid
<1>4. ASSUME NEW q \in Readers \ {r}, Solid(q) PROVE slots'[rd[q].slot] = slots[rd[q].slot]
  <2>1. rd[q].slot # rd[r].slot /\ rd[q].slot \in Slots
    BY <1>1, <1>3, <1>4, MineIs DEF Counted
  <2> QED BY <1>1, <2>1 DEF Control
<1> QED BY <1>1, <1>2, <1>3, <1>4 DEF OthersTrust

LEMMA LocalIs ==
  ASSUME NEW r \in Readers, Local(r)
  PROVE  /\ OnlyReader(r) /\ rd'[r].slot = rd[r].slot /\ OthersTrust(r) /\ Mine(r)' = Mine(r)
<1>1. OnlyReader(r) /\ rd'[r].slot = rd[r].slot /\ slots' = slots
  BY DEF Local, Quiet
<1> QED BY <1>1 DEF OthersTrust, Mine

LEMMA FewerOthers ==
  ASSUME Control, NEW r \in Readers, FewerValid
  PROVE  OthersTrust(r)
  BY MineIs DEF FewerValid, OthersTrust

\* It leaves the queue alone, and relies on nothing afterwards.
LEMMA LeavesSound ==
  ASSUME Safe, Shrinks, NEW B, Sound(World(B)), NEW r \in Readers, OnlyReader(r), OthersTrust(r),
         rd'[r].pc \notin RestPC \cup ReadPC \cup {"resetStore", "garbage"},
         rd'[r].got = rd[r].got
  PROVE  Whole' /\ Newer
<1>1. PICK G : G = World(B)
  OBVIOUS
<1>2. Sound(G) /\ Control /\ Got(G, rd[r])
  BY <1>1 DEF Safe, Sound
<1>3. Got(G, rd'[r])
  BY <1>2 DEF Got
<1>4. PICK x : x = rd'[r]
  OBVIOUS
<1>5. PICK y : y = Mine(r)'
  OBVIOUS
<1>6. Trusting(G, x, y)
  BY <1>4, Untrusted
<1> QED BY <1>1, <1>2, <1>3, <1>4, <1>5, <1>6, ReaderSound

\* A step in its local variables
LEMMA LocalSound ==
  ASSUME Safe, Shrinks, NEW B, NEW G, G = World(B), Sound(G), NEW r \in Readers, Local(r),
         rd[r].pc # "initValid", Got(G, rd'[r]),
         Solid(r) => /\ Fine(G, rd'[r], Mine(r))
                     /\ \A p \in Publishers : Avoids(G, pub[p], rd'[r], Mine(r)),
         rd'[r].got = rd[r].got \/ LastId(rd'[r].got) > LastId(rd[r].got)
  PROVE  Whole' /\ Newer
<1>1. OnlyReader(r) /\ OthersTrust(r) /\ Mine(r)' = Mine(r) /\ Control
  BY LocalIs DEF Safe
<1>2. ASSUME Solid(r)' PROVE Trusting(G, rd'[r], Mine(r)')
  <2>1. CASE rd'[r].pc = "initValid"
    <3>1. PICK x : x = rd'[r]
      OBVIOUS
    <3>2. PICK y : y = Mine(r)'
      OBVIOUS
    <3>3. Trusting(G, x, y)
      BY <2>1, <3>1, Untrusted DEF RestPC, ReadPC
    <3> QED BY <3>1, <3>2, <3>3
  <2>2. CASE Solid(r)
    BY <1>1, <2>2 DEF Trusting
  <2> QED BY <1>2, <2>1, <2>2 DEF Shrinks
<1> QED BY <1>1, <1>2, ReaderSound

\* What a subscriber relies on before its step
LEMMA ReliesOn ==
  ASSUME Safe, NEW B, NEW G, G = World(B), Sound(G), NEW r \in Readers
  PROVE  /\ Got(G, rd[r]) /\ Laid(G) /\ Shaped(G)
         /\ Solid(r) => /\ Fine(G, rd[r], Mine(r))
                        /\ \A p \in Publishers : Avoids(G, pub[p], rd[r], Mine(r))
  BY SoundIs DEF Safe, Sound, Trusting

\* A step from one rest to the next
LEMMA RestsOnSound ==
  ASSUME Safe, Shrinks, NEW B, Sound(World(B)), NEW r \in Readers, Local(r),
         rd[r].pc \in RestPC \ {"final"}, rd'[r].pc \in RestPC \ {"final"},
         rd'[r].got = rd[r].got, rd'[r].pc = "to" => rd'[r].at = Mine(r).pointer
  PROVE  Whole' /\ Newer
<1>1. PICK G : G = World(B)
  OBVIOUS
<1>2. PICK x : x = rd[r]
  OBVIOUS
<1>3. PICK x2 : x2 = rd'[r]
  OBVIOUS
<1>4. PICK y : y = Mine(r)
  OBVIOUS
<1>5. Sound(G) /\ x2.slot = x.slot /\ Got(G, x)
  BY <1>1, <1>2, <1>3, LocalIs, ReliesOn
<1>6. Got(G, x2) /\ rd[r].pc # "initValid"
  BY <1>2, <1>3, <1>5 DEF Got, RestPC
<1>7. ASSUME Solid(r) PROVE Fine(G, x2, y) /\ \A p \in Publishers : Avoids(G, pub[p], x2, y)
  <2>1. Fine(G, x, y) /\ \A p \in Publishers : Avoids(G, pub[p], x, y)
    BY <1>1, <1>2, <1>4, <1>5, <1>7, ReliesOn
  <2>2. Fine(G, x2, y) /\ \A z : Avoids(G, z, x, y) => Avoids(G, z, x2, y)
    BY <1>2, <1>3, <1>4, <1>5, <2>1, RestsFine
  <2> QED BY <2>1, <2>2
<1> QED BY <1>1, <1>3, <1>4, <1>5, <1>6, <1>7, LocalSound

LEMMA CallSound ==
  ASSUME Safe, Shrinks, NEW B, Sound(World(B)), NEW r \in Readers, Call(r)
  PROVE  Whole' /\ Newer
<1>1. Local(r) /\ rd[r].pc = "idle" /\ rd'[r].pc = "uid" /\ rd'[r].got = rd[r].got
  BY CallDoes DEF Safe
<1> QED BY <1>1, RestsOnSound DEF RestPC

LEMMA CheckReaderUidSound ==
  ASSUME Safe, Shrinks, NEW B, Sound(World(B)), NEW r \in Readers, CheckReaderUid(r)
  PROVE  Whole' /\ Newer
<1>1. /\ Local(r) /\ rd[r].pc = "uid" /\ rd'[r].got = rd[r].got
      /\ rd'[r].pc = IF Mine(r).uid = r THEN "valid" ELSE "claim"
  BY CheckReaderUidDoes DEF Safe, SameData
<1>2. CASE rd'[r].pc = "valid"
  BY <1>1, <1>2, RestsOnSound DEF RestPC
<1>3. CASE rd'[r].pc = "claim"
  BY <1>1, <1>3, LocalIs, LeavesSound DEF RestPC, ReadPC
<1> QED BY <1>1, <1>2, <1>3

LEMMA ConnectSound ==
  ASSUME Safe, Shrinks, NEW B, Sound(World(B)), NEW r \in Readers,
         Subscribe(r) \/ Claim(r) \/ InitSlot(r)
  PROVE  Whole' /\ Newer
<1>0. Control
  BY DEF Safe
<1>1. CASE Subscribe(r)
  <2>1. Local(r) /\ rd'[r].pc = "claim" /\ rd'[r].got = rd[r].got
    BY <1>0, <1>1, SubscribeDoes
  <2> QED BY <2>1, LocalIs, LeavesSound DEF RestPC, ReadPC
<1>2. CASE Claim(r)
  <2>1. /\ OnlyReader(r) /\ slots' = slots /\ rd'[r].pc \in {"initValid", "evictValid"}
        /\ rd'[r].got = rd[r].got
    BY <1>0, <1>2, ClaimIs, ClaimNextDoes, EvictAllDoes
  <2>2. OthersTrust(r)
    BY <2>1 DEF OthersTrust
  <2> QED BY <2>1, <2>2, LeavesSound DEF RestPC, ReadPC
<1>3. CASE InitSlot(r)
  <2>1. /\ rd[r].pc \in {"initValid", "initPointer", "initUid"}
        /\ rd'[r].pc \in {"initPointer", "initUid", "resetValid"} /\ rd'[r].got = rd[r].got
        /\ \E v, a : Stored(r, v, a)
    BY <1>0, <1>3, InitSlotDoes DEF SameData
  <2>2. OnlyReader(r) /\ OthersTrust(r)
    BY <2>1, StoredIs
  <2> QED BY <2>1, <2>2, LeavesSound DEF RestPC, ReadPC
<1> QED BY <1>1, <1>2, <1>3

LEMMA EvictSound ==
  ASSUME Safe, Shrinks, NEW B, Sound(World(B)), NEW r \in Readers, EvictValid(r) \/ EvictUid(r)
  PROVE  Whole' /\ Newer
<1>0. Control
  BY DEF Safe
<1>1. CASE EvictValid(r)
  <2>1. /\ OnlyReader(r) /\ rd'[r].pc = "evictUid" /\ rd'[r].got = rd[r].got
        /\ slots' = [slots EXCEPT ![rd[r].i].valid = FALSE]
    BY <1>0, <1>1, EvictValidDoes
  <2>2. OthersTrust(r)
    BY <1>0, <2>1, FlagCleared, FewerOthers
  <2> QED BY <2>1, <2>2, LeavesSound DEF RestPC, ReadPC
<1>2. CASE EvictUid(r)
  <2>1. /\ OnlyReader(r) /\ rd'[r].got = rd[r].got /\ rd[r].i \in Slots
        /\ rd'[r].pc = IF rd[r].i + 1 \in Slots THEN "evictValid" ELSE "claim"
        /\ slots' = [slots EXCEPT ![rd[r].i].uid = NOBODY]
    BY <1>0, <1>2, EvictUidDoes
  <2>2. rd'[r].pc \in {"evictValid", "claim"}
    BY <2>1, Zenon
  <2>3. OthersTrust(r)
    BY <1>0, <2>1, UidCleared, FewerOthers
  <2> QED BY <2>1, <2>2, <2>3, LeavesSound DEF RestPC, ReadPC
<1> QED BY <1>1, <1>2

LEMMA ResetReaderSound ==
  ASSUME Safe, Shrinks, NEW B, Sound(World(B)), NEW r \in Readers, ResetReader(r)
  PROVE  Whole' /\ Newer
<1>0. Control
  BY DEF Safe
<1>1. PICK G : G = World(B)
  OBVIOUS
<1>2. PICK x : x = rd[r]
  OBVIOUS
<1>3. PICK x2 : x2 = rd'[r]
  OBVIOUS
<1>4. PICK y : y = Mine(r)
  OBVIOUS
<1>5. /\ Sound(G) /\ Got(G, x) /\ Laid(G)
      /\ Solid(r) => Fine(G, x, y) /\ \A p \in Publishers : Avoids(G, pub[p], x, y)
  BY <1>1, <1>2, <1>4, ReliesOn
<1>6. ASSUME x.pc = "resetValid", x2.pc = "resetLoad", SameData(r), Stored(r, TRUE, Mine(r).pointer)
      PROVE  Whole' /\ Newer
  <2>1. OnlyReader(r) /\ OthersTrust(r)
    BY <1>2, <1>6, StoredIs
  <2> QED BY <1>3, <1>6, <2>1, LeavesSound DEF RestPC, ReadPC, SameData
<1>7. ASSUME ResetLoad(r) PROVE Whole' /\ Newer
  <2>1. /\ Local(r) /\ x.pc = "resetLoad" /\ x2.pc = "resetStore" /\ x2.got = x.got
        /\ x2.to = write_pointer
    BY <1>0, <1>2, <1>3, <1>7, ResetLoadDoes
  <2>2. x2.to = Cursor(G.lap, G.w)
    BY <1>5, <2>1 DEF Sound
  <2>3. Got(G, x2)
    BY <1>5, <2>1 DEF Got
  <2>4. Fine(G, x2, y) /\ \A z : Avoids(G, z, x2, y)
    BY <1>5, <2>1, <2>2, <2>3, LoadsResetFine DEF Got
  <2> QED BY <1>1, <1>2, <1>3, <1>4, <1>5, <2>1, <2>3, <2>4, LocalSound
<1>8. ASSUME x.pc = "resetStore", x2.pc \in {"uid", "idle"}, SameData(r),
             Stored(r, Mine(r).valid, x.to)
      PROVE  Whole' /\ Newer
  <2>1. PICK y2 : y2 = Mine(r)'
    OBVIOUS
  <2>2. OnlyReader(r) /\ OthersTrust(r) /\ Solid(r) /\ y2.pointer = x.to /\ x2.slot = x.slot
    BY <1>2, <1>3, <1>8, <2>1, StoredIs
  <2>3. x2.got = x.got /\ Got(G, x2)
    BY <1>2, <1>3, <1>5, <1>8 DEF SameData, Got
  <2>4. Fine(G, x2, y2) /\ \A z : Avoids(G, z, x, y) => Avoids(G, z, x2, y2)
    BY <1>5, <1>8, <2>2, <2>3, StoresResetFine
  <2>5. Trusting(G, x2, y2)
    BY <1>5, <2>2, <2>4 DEF Trusting
  <2> QED BY <1>0, <1>1, <1>2, <1>3, <1>5, <2>1, <2>2, <2>3, <2>5, ReaderSound
<1> QED BY <1>0, <1>2, <1>3, <1>6, <1>7, <1>8, ResetReaderDoes

\* A step of reading in its local variables
LEMMA ReadsOnSound ==
  ASSUME Safe, Shrinks, NEW B, NEW G, G = World(B), Sound(G), NEW r \in Readers, Local(r),
         rd[r].pc \in ReadPC, rd'[r].got = rd[r].got, rd'[r].pc \in ReadPC,
         Solid(r) => Fine(G, rd'[r], Mine(r))
  PROVE  Whole' /\ Newer
<1>1. PICK x : x = rd[r]
  OBVIOUS
<1>2. PICK x2 : x2 = rd'[r]
  OBVIOUS
<1>3. PICK y : y = Mine(r)
  OBVIOUS
<1>4. x2.slot = x.slot /\ Got(G, x)
  BY <1>1, <1>2, LocalIs, ReliesOn
<1>5. Got(G, x2) /\ x.pc # "initValid"
  BY <1>1, <1>2, <1>4 DEF Got, ReadPC
<1>6. \A z : Avoids(G, z, x, y) => Avoids(G, z, x2, y)
  BY <1>1, <1>2, <1>4, ReadsOnAvoids
<1>7. Solid(r) => \A p \in Publishers : Avoids(G, pub[p], x, y)
  BY <1>1, <1>3, ReliesOn
<1> QED BY <1>1, <1>2, <1>3, <1>5, <1>6, <1>7, LocalSound

LEMMA CheckValidSound ==
  ASSUME Safe, Shrinks, NEW B, Sound(World(B)), NEW r \in Readers, CheckValid(r)
  PROVE  Whole' /\ Newer
<1>0. /\ Local(r) /\ SameData(r)
      /\ \/ rd[r].pc = "valid" /\ rd'[r].pc = IF Mine(r).valid THEN "at" ELSE "resetValid"
         \/ rd[r].pc = "recheck" /\ rd'[r].pc = Rechecked(r)
  BY CheckValidDoes DEF Safe
<1>1. rd'[r].got = rd[r].got
  BY <1>0 DEF SameData
<1>2. CASE rd'[r].pc = "resetValid"
  BY <1>0, <1>1, <1>2, LocalIs, LeavesSound DEF RestPC, ReadPC
<1>3. CASE rd[r].pc = "valid" /\ rd'[r].pc = "at"
  BY <1>0, <1>1, <1>3, RestsOnSound DEF RestPC
<1>4. CASE rd[r].pc = "recheck" /\ Mine(r).valid
  <2>1. PICK G : G = World(B)
    OBVIOUS
  <2>2. PICK x : x = rd[r]
    OBVIOUS
  <2>3. PICK x2 : x2 = rd'[r]
    OBVIOUS
  <2>4. PICK y : y = Mine(r)
    OBVIOUS
  <2>5. Sound(G) /\ Shaped(G) /\ G.sizes = Sizes
    BY <2>1, ReliesOn, WorldIs
  <2>6. Solid(r) /\ Fine(G, x, y)
    <3>1. Solid(r)
      BY <1>4, StoresSolid DEF Changing
    <3> QED BY <2>1, <2>2, <2>4, <2>5, <3>1, ReliesOn
  <2>7. /\ x2.slot = x.slot /\ x2.got = x.got /\ x2.at = x.at /\ x2.size = x.size
        /\ x2.copy = x.copy /\ x2.pc = Rechecked(r) /\ x.pc = "recheck" /\ y.valid
    BY <1>0, <1>4, <2>2, <2>3, <2>4, LocalIs DEF SameData
  <2>8. x.size = WrapTag => x2.pc = "wrap"
    BY <1>4, <2>2, <2>7, Zenon DEF Rechecked
  <2>9. x.size # WrapTag => x2.pc \in IF x.size \in {SizeTag(n) : n \in G.sizes} THEN {"skip", "copy"}
                                         ELSE {"garbage"}
    <3>1. ASSUME x.size # WrapTag, x.size \in {SizeTag(n) : n \in Sizes} PROVE x2.pc \in {"skip", "copy"}
      BY <1>4, <2>2, <2>7, <3>1, Zenon DEF Rechecked
    <3>2. ASSUME x.size # WrapTag, x.size \notin {SizeTag(n) : n \in Sizes} PROVE x2.pc = "garbage"
      BY <1>4, <2>2, <2>7, <3>2, Zenon DEF Rechecked
    <3> QED BY <2>5, <3>1, <3>2
  <2>10. Fine(G, x2, y) /\ x2.pc \in ReadPC
    BY <2>5, <2>6, <2>7, <2>8, <2>9, RechecksFine
  <2>11. x.pc \in ReadPC
    BY <2>7 DEF ReadPC
  <2> QED BY <1>0, <1>1, <2>1, <2>2, <2>3, <2>4, <2>5, <2>10, <2>11, ReadsOnSound
<1>5. \/ rd'[r].pc = "resetValid"
      \/ rd[r].pc = "valid" /\ rd'[r].pc = "at"
      \/ rd[r].pc = "recheck" /\ Mine(r).valid
  BY <1>0, Zenon DEF Rechecked
<1> QED BY <1>2, <1>3, <1>4, <1>5

LEMMA LoadPointersSound ==
  ASSUME Safe, Shrinks, NEW B, Sound(World(B)), NEW r \in Readers, LoadPointers(r)
  PROVE  Whole' /\ Newer
<1>0. Control
  BY DEF Safe
<1>1. CASE LoadAt(r)
  <2>1. /\ Local(r) /\ rd[r].pc = "at" /\ rd'[r].pc = "to" /\ rd'[r].got = rd[r].got
        /\ rd'[r].at = Mine(r).pointer
    BY <1>0, <1>1, LoadAtDoes
  <2> QED BY <2>1, RestsOnSound DEF RestPC
<1>2. CASE NoMessage(r)
  <2>1. Local(r) /\ rd[r].pc = "to" /\ rd'[r].pc = "idle" /\ rd'[r].got = rd[r].got
    BY <1>0, <1>2, NoMessageDoes
  <2> QED BY <2>1, RestsOnSound DEF RestPC
<1>3. CASE LoadTo(r) /\ Position(r) # write_pointer.p
  <2>1. PICK G : G = World(B)
    OBVIOUS
  <2>2. PICK x : x = rd[r]
    OBVIOUS
  <2>3. PICK x2 : x2 = rd'[r]
    OBVIOUS
  <2>4. PICK y : y = Mine(r)
    OBVIOUS
  <2>5. /\ Sound(G) /\ Laid(G) /\ G.w = write_pointer.p /\ Got(G, x)
        /\ Solid(r) => Fine(G, x, y) /\ \A p \in Publishers : Avoids(G, pub[p], x, y)
    BY <2>1, <2>2, <2>4, ReliesOn, WorldIs
  <2>6. /\ Local(r) /\ x.pc = "to" /\ x2.pc = "size" /\ x2.got = x.got /\ x2.at = x.at
        /\ x2.slot = x.slot /\ x.at.p # G.w
    BY <1>0, <1>3, <2>2, <2>3, <2>5, LoadToDoes, LocalIs DEF Position
  <2>7. Got(G, x2)
    BY <2>5, <2>6 DEF Got
  <2>8. Solid(r) => Fine(G, x2, y) /\ \A p \in Publishers : Avoids(G, pub[p], x2, y)
    BY <2>5, <2>6, LoadsToFine
  <2> QED BY <2>1, <2>2, <2>3, <2>4, <2>5, <2>6, <2>7, <2>8, LocalSound
<1> QED BY <1>1, <1>2, <1>3, LoadPointersIs

LEMMA LoadSizeSound ==
  ASSUME Safe, Shrinks, NEW B, Sound(World(B)), NEW r \in Readers, LoadSize(r)
  PROVE  Whole' /\ Newer
<1>1. PICK G : G = World(B)
  OBVIOUS
<1>2. PICK x : x = rd[r]
  OBVIOUS
<1>3. PICK x2 : x2 = rd'[r]
  OBVIOUS
<1>4. PICK y : y = Mine(r)
  OBVIOUS
<1>5. Sound(G) /\ Laid(G) /\ G.mem = mem /\ (Solid(r) => Fine(G, x, y))
  BY <1>1, <1>2, <1>4, ReliesOn, WorldIs
<1>6. /\ Local(r) /\ x.pc = "size" /\ x2.pc = "recheck" /\ x2.got = x.got /\ x2.at = x.at
      /\ x2.size = G.mem[x.at.p] /\ x2.copy = <<>> /\ x2.slot = x.slot
  BY <1>2, <1>3, <1>5, LoadSizeDoes, LocalIs DEF Position, Safe
<1>7. Solid(r) => Fine(G, x2, y)
  BY <1>5, <1>6, LoadsSizeFine
<1>8. x.pc \in ReadPC /\ x2.pc \in ReadPC
  BY <1>6 DEF ReadPC
<1> QED BY <1>1, <1>2, <1>3, <1>4, <1>5, <1>6, <1>7, <1>8, ReadsOnSound

LEMMA CopyWordSound ==
  ASSUME Safe, Shrinks, NEW B, Sound(World(B)), NEW r \in Readers, CopyWord(r)
  PROVE  Whole' /\ Newer
<1>1. PICK G : G = World(B)
  OBVIOUS
<1>2. PICK x : x = rd[r]
  OBVIOUS
<1>3. PICK x2 : x2 = rd'[r]
  OBVIOUS
<1>4. PICK y : y = Mine(r)
  OBVIOUS
<1>5. Sound(G) /\ Shaped(G) /\ G.mem = mem /\ (Solid(r) => Fine(G, x, y))
  BY <1>1, <1>2, <1>4, ReliesOn, WorldIs
<1>6. /\ Local(r) /\ x.pc = "copy" /\ x2.got = x.got /\ x2.at = x.at /\ x2.size = x.size
      /\ x2.copy = Append(x.copy, G.mem[x.at.p + Len(x.copy) + 1]) /\ x2.slot = x.slot
      /\ x2.pc = IF Len(x2.copy) = x.size[2] THEN "advance" ELSE "copy"
  BY <1>2, <1>3, <1>5, CopyWordDoes, LocalIs DEF Position, Safe
<1>7. Solid(r) => Fine(G, x2, y)
  BY <1>5, <1>6, CopiesFine
<1>8. x2.pc \in {"advance", "copy"}
  BY <1>6, Zenon
<1>9. x.pc \in ReadPC /\ x2.pc \in ReadPC
  BY <1>6, <1>8 DEF ReadPC
<1> QED BY <1>1, <1>2, <1>3, <1>4, <1>5, <1>6, <1>7, <1>9, ReadsOnSound

LEMMA MovesOnSound ==
  ASSUME Safe, Shrinks, NEW B, Sound(World(B)), NEW r \in Readers,
         ReadWrap(r) \/ Skip(r) \/ Advance(r)
  PROVE  Whole' /\ Newer
<1>0. Control
  BY DEF Safe
<1>1. PICK G : G = World(B)
  OBVIOUS
<1>2. PICK x : x = rd[r]
  OBVIOUS
<1>3. PICK x2 : x2 = rd'[r]
  OBVIOUS
<1>4. PICK y : y = Mine(r)
  OBVIOUS
<1>5. PICK y2 : y2 = Mine(r)'
  OBVIOUS
<1>6. /\ Sound(G) /\ Got(G, x) /\ Laid(G) /\ \A p \in Publishers : pub[p].n \in Nat
      /\ Solid(r) => Fine(G, x, y) /\ \A p \in Publishers : Avoids(G, pub[p], x, y)
  BY <1>0, <1>1, <1>2, <1>4, ReliesOn, SoundIs
<1>7. /\ SameData(r)
      /\ \/ /\ x.pc = "wrap" /\ x2.pc = "uid"
            /\ Stored(r, y.valid, Cursor(x.at.c + 1, 0))
         \/ /\ <<x.pc, x2.pc>> \in {<<"skip", "uid">>, <<"advance", "final">>}
            /\ Stored(r, y.valid, Cursor(x.at.c, x.at.p + x.size[2] + 1))
  BY <1>0, <1>2, <1>3, <1>4, MovesOnDoes DEF ReadWrap, Skip, Advance, AfterMessage, Position
<1>8. x.pc \in {"wrap", "skip", "advance"} /\ x2.pc \in {"uid", "final"}
  BY <1>7
<1>9. x2.got = x.got /\ x2.copy = x.copy /\ Got(G, x2)
  BY <1>2, <1>3, <1>6, <1>7, <1>8 DEF SameData, Got
<1>10. ASSUME NEW a, Stored(r, y.valid, a)
       PROVE  /\ OnlyReader(r) /\ OthersTrust(r) /\ Solid(r) /\ x2.slot = x.slot
              /\ y2.valid = y.valid /\ y2.pointer = a
  BY <1>2, <1>3, <1>4, <1>5, <1>8, <1>10, StoredIs
<1>11. OnlyReader(r) /\ OthersTrust(r) /\ Solid(r)
  BY <1>7, <1>10
<1>12. Fine(G, x2, y2) /\ \A p \in Publishers : Avoids(G, pub[p], x2, y2)
  <2>1. CASE x.pc = "wrap"
    <3>1. x2.pc = "uid" /\ Stored(r, y.valid, Cursor(x.at.c + 1, 0))
      BY <1>7, <2>1
    <3>2. Fine(G, x2, y2) /\ \A z : Avoids(G, z, x, y) => Avoids(G, z, x2, y2)
      BY <1>6, <1>9, <1>10, <1>11, <2>1, <3>1, WrapsFine
    <3> QED BY <1>6, <1>11, <3>2
  <2>2. CASE x.pc # "wrap"
    <3>1. /\ <<x.pc, x2.pc>> \in {<<"skip", "uid">>, <<"advance", "final">>}
          /\ Stored(r, y.valid, Cursor(x.at.c, x.at.p + x.size[2] + 1))
      BY <1>7, <2>2
    <3>2. /\ Fine(G, x2, y2)
          /\ \A z : z.n \in Nat /\ Avoids(G, z, x, y) => Avoids(G, z, x2, y2)
      BY <1>6, <1>9, <1>10, <1>11, <3>1, AdvancesFine
    <3> QED BY <1>6, <1>11, <3>2
  <2> QED BY <2>1, <2>2
<1>13. Trusting(G, x2, y2)
  BY <1>12 DEF Trusting
<1> QED BY <1>0, <1>1, <1>2, <1>3, <1>5, <1>6, <1>9, <1>11, <1>13, ReaderSound

LEMMA ReturnSound ==
  ASSUME Safe, Shrinks, NEW B, Sound(World(B)), NEW r \in Readers, Return(r)
  PROVE  Whole' /\ Newer
<1>0. Control
  BY DEF Safe
<1>1. CASE Fails(r)
  <2>1. Local(r) /\ rd'[r].pc = "resetValid" /\ rd'[r].got = rd[r].got
    BY <1>0, <1>1, FailsDoes
  <2> QED BY <2>1, LocalIs, LeavesSound DEF RestPC, ReadPC
<1>2. CASE Succeeds(r)
  <2>1. PICK G : G = World(B)
    OBVIOUS
  <2>2. PICK x : x = rd[r]
    OBVIOUS
  <2>3. PICK x2 : x2 = rd'[r]
    OBVIOUS
  <2>4. PICK y : y = Mine(r)
    OBVIOUS
  <2>5. /\ Local(r) /\ x.pc = "final" /\ x2.pc = "idle" /\ x2.got = x.copy /\ y.valid
        /\ x2.slot = x.slot
    BY <1>0, <1>2, <2>2, <2>3, <2>4, SucceedsDoes, LocalIs
  <2>6. Solid(r) /\ Sound(G)
    BY <2>1, <2>2, <2>5, StoresSolid DEF Changing
  <2>7. Fine(G, x, y) /\ \A p \in Publishers : Avoids(G, pub[p], x, y)
    BY <2>1, <2>2, <2>4, <2>6, ReliesOn
  <2>8. /\ Fine(G, x2, y) /\ Got(G, x2) /\ LastId(x2.got) > LastId(x.got)
        /\ \A z : Avoids(G, z, x, y) => Avoids(G, z, x2, y)
    BY <2>5, <2>7, ReturnsFine
  <2> QED BY <2>1, <2>2, <2>3, <2>4, <2>5, <2>6, <2>7, <2>8, LocalSound
<1> QED BY <1>1, <1>2, ReturnIs

LEMMA SubscriberSound ==
  ASSUME Safe, Shrinks, NEW B, Sound(World(B)), NEW r \in Readers,
         Subscribe(r) \/ Call(r) \/ ReaderStep(r)
  PROVE  Whole' /\ Newer
<1>1. \/ Subscribe(r) \/ Claim(r) \/ InitSlot(r) \/ EvictValid(r) \/ EvictUid(r) \/ Call(r)
      \/ ResetReader(r) \/ CheckReaderUid(r) \/ CheckValid(r) \/ LoadPointers(r)
      \/ LoadSize(r) \/ ReadWrap(r) \/ Skip(r) \/ CopyWord(r) \/ Advance(r) \/ Return(r)
  BY Zenon DEF ReaderStep
<1> QED BY <1>1, ConnectSound, EvictSound, CallSound, ResetReaderSound, CheckReaderUidSound,
           CheckValidSound, LoadPointersSound, LoadSizeSound, CopyWordSound, MovesOnSound,
           ReturnSound

---------------------------------------------------------------------------
(* What subscribers are given *)

LEMMA StutterSound ==
  ASSUME Whole, UNCHANGED vars
  PROVE  Whole' /\ Newer
<1>1. UNCHANGED <<queue, mem, write_pointer, write_uid, slots, pub, rd, count>>
  BY DEF vars, shared, header
<1>2. PICK B : Sound(World(B))
  BY DEF Whole
<1>3. World(B)' = World(B) /\ Alone' = Alone
  BY <1>1, SameWorld
<1>4. \A r \in Readers : (Solid(r)' <=> Solid(r)) /\ Mine(r)' = Mine(r)
  BY <1>1 DEF Solid, Holds, Clears, Mine, At
<1>5. PICK G : G = World(B)
  OBVIOUS
<1>6. Sound(G) /\ World(B)' = G
  BY <1>2, <1>3, <1>5
<1>7. Sound(World(B))'
  BY <1>1, <1>3, <1>4, <1>6 DEF Sound, Trusting
<1> QED BY <1>1, <1>7 DEF Whole, Newer

LEMMA PublisherSound ==
  ASSUME Safe, Shrinks, ~Overlap, ~Overrun, ~Rivals, Whole, NEW p \in Publishers,
         TakeOver(p) \/ PubCrash(p) \/ PubStep(p) \/ \E n \in Sizes : CheckUid(p, n)
  PROVE  Whole' /\ Newer
<1>0. Control
  BY DEF Safe
<1>1. PICK B : Sound(World(B))
  BY DEF Whole
<1>2. CASE \E n \in Sizes : CheckUid(p, n)
  <2>1. PICK n \in Sizes : CheckUid(p, n)
    BY <1>2
  <2>2. OnlyPub(p)
    BY <1>0, <2>1, CheckUidDoes DEF Sends
  <2> QED BY <1>0, <1>1, <2>1, <2>2, CheckUidSound DEF OnlyPub, Newer
<1>3. CASE TakeOver(p) \/ PubCrash(p) \/ PubStep(p)
  <2>1. \/ TakeOver(p)
        \/ PubCrash(p) \/ ForgetReaders(p) \/ ForgetValid(p) \/ ForgetUid(p)
        \/ Look(p) \/ WriteWrapTag(p) \/ LookAtReader(p) \/ DropReader(p)
        \/ WrapAround(p) \/ WriteSize(p) \/ WriteData(p) \/ Publish(p)
    BY <1>3, Zenon DEF PubStep
  <2>2. Whole'
    BY <1>0, <1>1, <2>1, TakeOverSound, RestsSound, LookSound, WriteWrapTagSound,
       LookAtReaderSound, WrapAroundSound, FillsSound, PublishSound
  <2>3. rd' = rd
    BY <2>1 DEF TakeOver, PubCrash, ForgetReaders, ForgetValid, ForgetUid, Look, WriteWrapTag,
                LookAtReader, DropReader, WrapAround, WriteSize, WriteData, Publish
  <2> QED BY <2>2, <2>3 DEF Newer
<1> QED BY <1>2, <1>3

LEMMA InitSound ==
  ASSUME Init
  PROVE  Whole
<1>1. /\ queue \in Queues /\ count = 0 /\ write_pointer = Cursor(0, 0)
      /\ mem = [w \in 0..SIZE - 1 |-> SizeTag(0)]
      /\ pub = [p \in Publishers |-> NoPub] /\ rd = [r \in Readers |-> NoReader]
  BY DEF Init
<1>2. PICK G : G = World({0})
  OBVIOUS
<1>3. SIZE \in Nat \ {0} /\ MAX_MSGS \in Nat /\ Sizes \subseteq Nat \ {0}
  BY <1>1, QueueIs
<1>4. /\ G.mem = mem /\ G.w = 0 /\ G.lap = 0 /\ G.starts = {0} /\ G.old = Old
      /\ G.size = SIZE /\ G.sizes = Sizes /\ G.max = MAX_MSGS
  <2>1. write_pointer.p = 0 /\ write_pointer.c = 0
    BY <1>1 DEF Cursor
  <2> QED BY <1>2, <2>1, WorldIs
<1>5. \A p \in Publishers : pub[p].pc = "off"
  BY <1>1 DEF NoPub
<1>6. \A r \in Readers : rd[r].pc = "off" /\ rd[r].got = <<>>
  BY <1>1 DEF NoReader
<1>7. 0 \in G.old /\ G.old \subseteq Nat
  BY <1>1, <1>4, <1>5 DEF Old, SendPC
<1>8. Shaped(G)
  <2>1. G.mem = [j \in 0..G.size - 1 |-> G.mem[j]]
    BY <1>1, <1>4
  <2>2. G.starts \subseteq 0..G.size - 1
    BY <1>3, <1>4
  <2> QED BY <1>3, <1>4, <1>7, <2>1, <2>2 DEF Shaped
<1>9. Laid(G)
  BY <1>4, <1>8 DEF Laid
<1>10. Alone /\ \A p \in Publishers : Working(G, pub[p])
  BY <1>5 DEF Alone, Active, Working, SendPC, WrapPC, OverPC, FillPC
<1>11. \A r \in Readers : Got(G, rd[r]) /\ ~Solid(r)
  BY <1>6, <1>7 DEF Got, LastId, Solid, Holds
<1>12. write_pointer = Cursor(G.lap, G.w)
  BY <1>1, <1>4
<1>13. Sound(G)
  BY <1>9, <1>10, <1>11, <1>12 DEF Sound
<1> QED BY <1>2, <1>13 DEF Whole

LEMMA NextSound ==
  ASSUME Safe, Whole, ~Overlap, ~Overrun, ~Rivals, [Next]_vars
  PROVE  Safe' /\ Whole' /\ Newer
<1>1. CASE UNCHANGED vars
  BY <1>1, StutterSafe, StutterSound
<1>2. CASE \E p \in Publishers : TakeOver(p) \/ PubCrash(p) \/ PubStep(p)
                                 \/ \E n \in Sizes : CheckUid(p, n)
  BY <1>2, PubSafe, PublisherSound
<1>3. CASE \E r \in Readers : Subscribe(r) \/ Call(r) \/ ReaderStep(r)
  BY <1>3, ReaderSafe, SubscriberSound DEF Whole
<1> QED BY <1>1, <1>2, <1>3, Zenon DEF Next

LEMMA WholeReturned ==
  ASSUME Whole
  PROVE  ReturnedWhole /\ \A r \in Readers : LastId(rd[r].got) \in Nat
<1>1. PICK B : Sound(World(B))
  BY DEF Whole
<1>2. PICK G : G = World(B)
  OBVIOUS
<1>3. /\ G.w = write_pointer.p /\ G.size = SIZE /\ G.sizes = Sizes /\ G.max = MAX_MSGS
      /\ Shaped(G) /\ \A r \in Readers : Got(G, rd[r])
  BY <1>1, <1>2, WorldIs DEF Sound, Laid
<1>4. Sent(G) = Messages
  BY <1>3 DEF Sent, Messages
<1>5. write_pointer.p < SIZE /\ G.old \subseteq Nat
  BY <1>3, ShapedIs DEF Shaped
<1> QED BY <1>3, <1>4, <1>5 DEF ReturnedWhole, Got

LEMMA NewerInOrder ==
  ASSUME Newer, NEW r \in Readers, LastId(rd[r].got) \in Nat, rd[r].got # <<>>,
         rd'[r].got # rd[r].got
  PROVE  rd'[r].got[1][2] > rd[r].got[1][2]
<1>1. LastId(rd'[r].got) > LastId(rd[r].got)
  BY DEF Newer
<1>2. LastId(rd[r].got) = rd[r].got[1][2]
  BY DEF LastId
<1>3. rd'[r].got # <<>>
  BY <1>1 DEF LastId
<1> QED BY <1>1, <1>2, <1>3 DEF LastId

LEMMA WindowsStayShut == ~Overlap /\ ~Overrun /\ ~Rivals => [](~Overlap /\ ~Overrun /\ ~Rivals)
<1>1. ~Overlap /\ ~Overrun /\ ~Rivals => (~Overlap /\ ~Overrun /\ ~Rivals)'
  OBVIOUS
<1> QED BY <1>1, PTL

\* What msgq_msg_recv returns is one whole message as msgq_msg_send was given it, a size is
\* never read where none was written, and there is always room for the next tag, although
\* nothing but a cleared flag tells a subscriber that it was overrun while it copied; unless
\* the slots change hands during a call, a reset is stalled for a lap of the buffer, or a
\* publisher starts while another is starting or sending.
THEOREM MessagesAreWhole == ~Overlap /\ ~Overrun /\ ~Rivals /\ Spec => []ReturnedWhole
<1>1. Init => Safe /\ Whole
  BY InitSafe, InitSound
<1>2. ~Overlap /\ ~Overrun /\ ~Rivals /\ Safe /\ Whole /\ [Next]_vars => Safe' /\ Whole'
  BY NextSound
<1>3. Whole => ReturnedWhole
  BY WholeReturned
<1> QED BY <1>1, <1>2, <1>3, WindowsStayShut, PTL DEF Spec

\* A subscriber never gets a message twice, nor one sent before its last, although resets,
\* evictions and wraps of the buffer move its read pointer; but for the same windows.
THEOREM MessagesInOrder == ~Overlap /\ ~Overrun /\ ~Rivals /\ Spec => InOrder
<1>1. Init => Safe /\ Whole
  BY InitSafe, InitSound
<1>2. ~Overlap /\ ~Overrun /\ ~Rivals /\ Safe /\ Whole /\ [Next]_vars => Safe' /\ Whole'
  BY NextSound
<1>3. ASSUME ~Overlap, ~Overrun, ~Rivals, Safe, Whole, [Next]_vars
      PROVE  \A r \in Readers : rd[r].got # <<>> /\ rd'[r].got # rd[r].got
                                  => rd'[r].got[1][2] > rd[r].got[1][2]
  <2>1. Newer /\ \A r \in Readers : LastId(rd[r].got) \in Nat
    BY <1>3, NextSound, WholeReturned
  <2> QED BY <2>1, NewerInOrder
<1> QED BY <1>1, <1>2, <1>3, WindowsStayShut, PTL DEF Spec, InOrder
=============================================================================
