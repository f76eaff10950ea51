---------------------------- MODULE Params_proofs ----------------------------
(***************************************************************************)
(* The files of common/params.cc implement a register per key, for any     *)
(* keys, processes and bounds, as long as the first process has made the   *)
(* directory before others look for it (First below).                      *)
(*                                                                         *)
(* What the argument rests on: who acts on the directory has the lock      *)
(* (Locked), so that what a call has made durable, or read, is still so    *)
(* when it returns; a file has been synced before it gets its name         *)
(* (Prepares); and what a power failure may bring back is never older than *)
(* what was acknowledged (Durable).                                        *)
(***************************************************************************)
EXTENDS Params, TLAPS

First == ~Together

File == [n : Nat, content : {"none", "synced", "written", "part"}]
PC == {"off", "link", "idle", "prepare", "lock", "act", "sync", "return", "future", "pop",
       "ending", "wait", "assert"}
Thread ==
  [pc : PC,
   op : {"none", "put", "remove", "clear", "read"},
   todo : SUBSET Keys, ok : BOOLEAN, file : {"none", "synced", "written"},
   seen : [Keys -> Nat]]

TypeOK ==
  /\ link \in BOOLEAN /\ dir \in [Keys -> File] /\ disk \in [Keys -> SUBSET File]
  /\ lock \in Threads \cup {NOBODY}
  /\ th \in [Threads -> Thread]
  /\ queue \in [Procs -> Seq(Keys)]
  /\ acked \in [Keys -> Nat]
  /\ changes \in Nat /\ calls \in Nat /\ faults \in Nat

\* Before the directory is there one process at most makes it, and nothing else happens.
Linking ==
  /\ \A t \in Threads : At(t, "link") => ~link /\ t[2] = "main"
  /\ \A t, u \in Threads : At(t, "link") /\ At(u, "link") => t = u
  /\ ~link => /\ \A t \in Threads : At(t, "off") \/ At(t, "link")
              /\ \A k \in Keys : dir[k] = NoFile /\ disk[k] = {NoFile} /\ acked[k] = 0

Locked ==
  /\ \A t \in Threads : At(t, "act") \/ At(t, "sync") => lock = t
  /\ \A t \in Threads : At(t, "return") /\ th[t].op = "read" => lock = t

Prepares ==
  \A t \in Threads : (At(t, "lock") \/ At(t, "act")) /\ th[t].op = "put" => th[t].file = "synced"

Reads ==
  \A t \in Threads : th[t].op = "read" =>
    /\ At(t, "lock") \/ At(t, "act") \/ At(t, "return")
    /\ At(t, "lock") => th[t].todo = Keys
    /\ At(t, "act") => \A k \in Keys \ th[t].todo : th[t].seen[k] = dir[k].n
    /\ At(t, "return") => \A k \in Keys : th[t].seen[k] = dir[k].n

\* What a call that succeeded has changed is durable until it returns.
Done ==
  \A t \in Threads : At(t, "return") /\ th[t].ok /\ th[t].op # "read" =>
    lock = t /\ \A k \in Keys : disk[k] = {dir[k]}

Durable ==
  \A k \in Keys :
    /\ dir[k] \in disk[k] /\ dir[k].n <= changes
    /\ \A f \in disk[k] : f.content \in {"none", "synced"} /\ acked[k] <= f.n /\ f.n <= dir[k].n

Safe == Linking /\ Locked /\ Prepares /\ Reads /\ Done /\ Durable
Inv == TypeOK /\ Safe

---------------------------------------------------------------------------
(* Threads *)

\* A thread that is off or between calls is a thread.
LEMMA ThreadTypes ==
  /\ OFF \in Thread /\ IDLE \in Thread
  /\ OFF.pc = "off" /\ OFF.op = "none" /\ IDLE.pc = "idle" /\ IDLE.op = "none"
BY DEF OFF, IDLE, Thread, PC

\* A call starts with a temporary file or with the lock.
LEMMA CallTypes ==
  ASSUME NEW op \in {"put", "remove", "clear", "read"}, NEW todo \in SUBSET Keys
  PROVE  /\ CallOf(op, todo) \in Thread
         /\ CallOf(op, todo).pc = IF op = "put" THEN "prepare" ELSE "lock"
         /\ CallOf(op, todo).op = op /\ CallOf(op, todo).todo = todo
BY DEF CallOf, OFF, Thread, PC

\* The two threads of a process.
LEMMA ThreadsOf ==
  ASSUME NEW p \in Procs
  PROVE  /\ Main(p) \in Threads /\ Writer(p) \in Threads /\ Main(p) # Writer(p)
         /\ Main(p)[2] = "main" /\ Writer(p)[2] = "writer"
         /\ Main(p)[1] = p /\ Writer(p)[1] = p
         /\ \A t \in Threads : t[1] = p => t \in {Main(p), Writer(p)}
BY DEF Main, Writer, Threads

\* The lock is free or a thread's.
LEMMA Nobody == NOBODY \notin Threads
BY DEF NOBODY, Threads

\* Threads that move anywhere but to the directory, the lock and its file given back or
\* left alone, disturb nothing.
LEMMA Moves ==
  ASSUME Inv, NEW T \in SUBSET Threads,
         th' \in [Threads -> Thread], \A u \in Threads \ T : th'[u] = th[u],
         UNCHANGED <<link, dir, disk, changes, acked>>,
         lock' = lock \/ (lock \in T /\ lock' = NOBODY),
         \A t \in T :
           /\ th'[t].pc \notin {"link", "act", "sync"}
           /\ ~link => th'[t].pc = "off"
           /\ th'[t].op = "read" => th'[t].pc = "lock" /\ th'[t].todo = Keys
           /\ th'[t].pc = "return" => ~th'[t].ok
           /\ th'[t].pc = "lock" /\ th'[t].op = "put" => th'[t].file = "synced"
  PROVE  Safe'
<1> USE DEF Inv, Safe, At
<1>1. Linking'
  BY DEF Linking
<1>2. Locked'
  BY DEF Locked
<1>3. Prepares'
  BY DEF Prepares
<1>4. Reads'
  BY DEF Reads
<1>5. Done'
  BY DEF Done
<1>6. Durable'
  BY DEF Durable
<1> QED
  BY <1>1, <1>2, <1>3, <1>4, <1>5, <1>6

\* The same for one thread.
LEMMA MovesOne ==
  ASSUME Inv, NEW t \in Threads,
         th' \in [Threads -> Thread], \A u \in Threads \ {t} : th'[u] = th[u],
         UNCHANGED <<link, dir, disk, changes, acked>>,
         lock' = lock \/ (lock = t /\ lock' = NOBODY),
         th'[t].pc \notin {"link", "act", "sync"},
         ~link => th'[t].pc = "off",
         th'[t].op = "read" => th'[t].pc = "lock" /\ th'[t].todo = Keys,
         th'[t].pc = "return" => ~th'[t].ok,
         th'[t].pc = "lock" /\ th'[t].op = "put" => th'[t].file = "synced"
  PROVE  Safe'
<1> DEFINE T == {t}
<1>1. /\ T \in SUBSET Threads /\ \A u \in Threads \ T : th'[u] = th[u]
      /\ lock' = lock \/ (lock \in T /\ lock' = NOBODY)
  OBVIOUS
<1>2. \A u \in T :
        /\ th'[u].pc \notin {"link", "act", "sync"}
        /\ ~link => th'[u].pc = "off"
        /\ th'[u].op = "read" => th'[u].pc = "lock" /\ th'[u].todo = Keys
        /\ th'[u].pc = "return" => ~th'[u].ok
        /\ th'[u].pc = "lock" /\ th'[u].op = "put" => th'[u].file = "synced"
  OBVIOUS
<1> HIDE DEF T
<1> QED
  BY <1>1, <1>2, Moves

\* A thread goes on.
LEMMA GoesType ==
  ASSUME TypeOK, NEW t \in Threads, NEW pc \in PC, Goes(t, pc)
  PROVE  /\ th' \in [Threads -> Thread] /\ \A u \in Threads \ {t} : th'[u] = th[u]
         /\ th'[t].pc = pc
         /\ th'[t].op = th[t].op /\ th'[t].todo = th[t].todo /\ th'[t].ok = th[t].ok
         /\ th'[t].file = th[t].file /\ th'[t].seen = th[t].seen
<1> DEFINE r == [th[t] EXCEPT !.pc = pc]
<1>1. th[t] \in Thread
  BY DEF TypeOK
<1>2. /\ r \in Thread /\ r.pc = pc
      /\ r.op = th[t].op /\ r.todo = th[t].todo /\ r.ok = th[t].ok
      /\ r.file = th[t].file /\ r.seen = th[t].seen
  BY <1>1 DEF Thread
<1>3. th' = [th EXCEPT ![t] = r]
  BY DEF Goes
<1> HIDE DEF r
<1> QED
  BY <1>2, <1>3 DEF TypeOK

\* A thread fails.
LEMMA FailsType ==
  ASSUME TypeOK, NEW t \in Threads, Fails(t)
  PROVE  /\ th' \in [Threads -> Thread] /\ \A u \in Threads \ {t} : th'[u] = th[u]
         /\ th'[t].pc = "return" /\ th'[t].op = th[t].op /\ ~th'[t].ok
         /\ faults' \in Nat
<1> DEFINE r == [th[t] EXCEPT !.pc = "return", !.ok = FALSE]
<1>1. th[t] \in Thread
  BY DEF TypeOK
<1>2. r \in Thread /\ r.pc = "return" /\ r.op = th[t].op /\ ~r.ok
  BY <1>1 DEF Thread, PC
<1>3. th' = [th EXCEPT ![t] = r] /\ faults' = faults + 1
  BY DEF Fails
<1> HIDE DEF r
<1> QED
  BY <1>2, <1>3 DEF TypeOK

---------------------------------------------------------------------------
(* Every action preserves the invariant *)

\* A process that constructs its Params makes the directory only if nobody does.
LEMMA ConstructOK ==
  ASSUME First, Inv, NEW p \in Procs, Construct(p) \/ MoveLink(p)
  PROVE  Inv'
<1> DEFINE t == Main(p)
<1>0. t \in Threads /\ t[2] = "main"
  BY ThreadsOf
<1>1. CASE Construct(p)
  <2> DEFINE pc == IF link THEN "idle" ELSE "link"
  <2>1. /\ th' = [th EXCEPT ![t] = [IDLE EXCEPT !.pc = pc]] /\ At(t, "off")
        /\ ~link => \A q \in Procs : ~At(Main(q), "link")
        /\ UNCHANGED <<files, lock, queue, acked, calls, faults>>
    BY <1>1 DEF Construct, Constructs, First
  <2>2. /\ [IDLE EXCEPT !.pc = pc] \in Thread
        /\ [IDLE EXCEPT !.pc = pc].pc = pc /\ [IDLE EXCEPT !.pc = pc].op = "none"
    BY DEF IDLE, OFF, Thread, PC
  <2> HIDE DEF pc, t
  <2>3. /\ th' \in [Threads -> Thread] /\ th'[t].pc = pc /\ th'[t].op = "none"
        /\ \A u \in Threads \ {t} : th'[u] = th[u]
    BY <1>0, <2>1, <2>2 DEF Inv, TypeOK
  <2>4. TypeOK'
    BY <2>1, <2>3 DEF Inv, TypeOK, files
  <2>5. CASE link
    <3>1. Safe'
      BY <1>0, <2>1, <2>3, <2>5, MovesOne DEF files, pc
    <3> QED
      BY <3>1, <2>4 DEF Inv
  <2>6. CASE ~link
    <3>1. \A u \in Threads : ~At(u, "link")
      <4>1. SUFFICES ASSUME NEW u \in Threads, At(u, "link") PROVE FALSE
        OBVIOUS
      <4>2. u[2] = "main"
        BY <4>1 DEF Inv, Safe, Linking
      <4>3. u[1] \in Procs /\ u = Main(u[1])
        BY <4>2 DEF Threads, Main
      <4> QED
        BY <2>1, <2>6, <4>1, <4>3
    <3>2. th'[t].pc = "link" /\ \A u \in Threads \ {t} : th'[u].pc = "off"
      BY <2>3, <2>6, <3>1 DEF Inv, Safe, Linking, At, pc
    <3>3. Linking'
      BY <1>0, <2>1, <2>6, <3>2 DEF Inv, Safe, Linking, At, files
    <3>4. Locked' /\ Prepares' /\ Reads' /\ Done'
      BY <1>0, <2>1, <2>3, <3>2 DEF Inv, Safe, Locked, Prepares, Reads, Done, At, files
    <3>5. Durable'
      BY <2>1 DEF Inv, Safe, Durable, files
    <3> QED
      BY <2>4, <3>3, <3>4, <3>5 DEF Inv, Safe
  <2> QED
    BY <2>5, <2>6
<1>2. CASE MoveLink(p)
  <2>1. /\ Goes(t, "idle") /\ At(t, "link") /\ link' = TRUE
        /\ dir' = [k \in Keys |-> NoFile] /\ disk' = [k \in Keys |-> {NoFile}]
        /\ UNCHANGED <<changes, lock, queue, acked, calls, faults>>
    BY <1>2 DEF MoveLink
  <2>2. /\ ~link /\ \A u \in Threads \ {t} : th[u].pc = "off"
        /\ \A k \in Keys : acked[k] = 0
    BY <1>0, <2>1 DEF Inv, Safe, Linking, At
  <2>3. th[t].op # "read"
    BY <1>0, <2>1 DEF Inv, Safe, Reads, At
  <2> HIDE DEF t
  <2>4. /\ th' \in [Threads -> Thread] /\ th'[t].pc = "idle" /\ th'[t].op = th[t].op
        /\ \A u \in Threads \ {t} : th'[u] = th[u]
    BY <1>0, <2>1, GoesType DEF Inv, PC
  <2>5. NoFile \in File /\ NoFile.n = 0 /\ NoFile.content = "none"
    BY DEF NoFile, File
  <2>6. TypeOK'
    BY <2>1, <2>4, <2>5 DEF Inv, TypeOK
  <2>7. Linking' /\ Locked' /\ Prepares' /\ Reads' /\ Done'
    BY <1>0, <2>1, <2>2, <2>3, <2>4 DEF Inv, Safe, Linking, Locked, Prepares, Reads, Done, At
  <2>8. Durable'
    BY <2>1, <2>2, <2>5 DEF Inv, TypeOK, Durable
  <2> QED
    BY <2>6, <2>7, <2>8 DEF Inv, Safe
<1> QED
  BY <1>1, <1>2

\* A thread that does anything finds the directory, and one that reads is at it.
LEMMA Linked ==
  ASSUME Inv, NEW t \in Threads
  PROVE  /\ th[t].pc \notin {"off", "link"} => link
         /\ th[t].pc \notin {"lock", "act", "return"} => th[t].op # "read"
BY DEF Inv, Safe, Linking, Reads, At

\* Between calls: a call begins, a value is queued, the destructor runs.
LEMMA MainOK ==
  ASSUME Inv, NEW p \in Procs, Calls(p) \/ Destroy(p) \/ Waited(p) \/ Destroyed(p)
  PROVE  Inv'
<1> DEFINE t == Main(p)
<1>0. t \in Threads
  BY ThreadsOf
<1> HIDE DEF t
<1>1. CASE \E op \in {"put", "remove", "clear", "read"}, todo \in SUBSET Keys :
             Call(p, op, todo) /\ (op = "read" => todo = Keys)
  <2>1. PICK op \in {"put", "remove", "clear", "read"}, todo \in SUBSET Keys :
             Call(p, op, todo) /\ (op = "read" => todo = Keys)
    BY <1>1
  <2>2. /\ th' = [th EXCEPT ![t] = CallOf(op, todo)] /\ At(t, "idle")
        /\ calls' = IF op = "read" THEN calls ELSE calls + 1
        /\ UNCHANGED <<files, lock, queue, acked, faults>>
    BY <2>1 DEF Call, t
  <2>3. /\ th' \in [Threads -> Thread] /\ th'[t] = CallOf(op, todo)
        /\ \A u \in Threads \ {t} : th'[u] = th[u]
    BY <1>0, <2>2, CallTypes DEF Inv, TypeOK
  <2>4. TypeOK'
    BY <2>2, <2>3 DEF Inv, TypeOK, files
  <2>5. Safe'
    BY <1>0, <2>1, <2>2, <2>3, CallTypes, Linked, MovesOne DEF files, At
  <2> QED
    BY <2>4, <2>5 DEF Inv
<1>2. CASE \E k \in Keys : Push(p, k)
  <2>1. PICK k \in Keys : Push(p, k)
    BY <1>2
  <2>2. /\ Goes(t, "future") /\ At(t, "idle") /\ calls' = calls + 1
        /\ queue' = [queue EXCEPT ![p] = Append(@, k)]
        /\ UNCHANGED <<files, lock, acked, faults>>
    BY <2>1 DEF Push, t
  <2>3. /\ th' \in [Threads -> Thread] /\ \A u \in Threads \ {t} : th'[u] = th[u]
        /\ th'[t].pc = "future" /\ th'[t].op = th[t].op
    BY <1>0, <2>2, GoesType DEF Inv, PC
  <2>4. queue' \in [Procs -> Seq(Keys)]
    BY <2>2 DEF Inv, TypeOK
  <2>5. TypeOK'
    BY <2>2, <2>3, <2>4 DEF Inv, TypeOK, files
  <2>6. Safe'
    BY <1>0, <2>2, <2>3, Linked, MovesOne DEF files, At
  <2> QED
    BY <2>5, <2>6 DEF Inv
<1>3. CASE Destroy(p) \/ Waited(p)
  <2>1. PICK pc \in {"wait", "assert"} :
          /\ Goes(t, pc) /\ th[t].pc \in {"idle", "wait"}
          /\ UNCHANGED <<files, lock, queue, acked, calls, faults>>
    BY <1>3 DEF Destroy, Waited, At, t
  <2>2. /\ th' \in [Threads -> Thread] /\ \A u \in Threads \ {t} : th'[u] = th[u]
        /\ th'[t].pc = pc /\ th'[t].op = th[t].op
    BY <1>0, <2>1, GoesType DEF Inv, PC
  <2>3. TypeOK'
    BY <2>1, <2>2 DEF Inv, TypeOK, files
  <2>4. Safe'
    BY <1>0, <2>1, <2>2, Linked, MovesOne DEF files
  <2> QED
    BY <2>3, <2>4 DEF Inv
<1>4. CASE Destroyed(p)
  <2>1. /\ th' = [th EXCEPT ![t] = OFF] /\ queue' = [queue EXCEPT ![p] = <<>>]
        /\ UNCHANGED <<files, lock, acked, calls, faults>>
    BY <1>4 DEF Destroyed, t
  <2>2. /\ th' \in [Threads -> Thread] /\ \A u \in Threads \ {t} : th'[u] = th[u]
        /\ th'[t] = OFF
    BY <1>0, <2>1, ThreadTypes DEF Inv, TypeOK
  <2>3. TypeOK'
    BY <2>1, <2>2 DEF Inv, TypeOK, files
  <2>4. Safe'
    BY <1>0, <2>1, <2>2, ThreadTypes, MovesOne DEF files
  <2> QED
    BY <2>3, <2>4 DEF Inv
<1>5. Calls(p) => (\E k \in Keys : Push(p, k)) \/
        \E op \in {"put", "remove", "clear", "read"}, todo \in SUBSET Keys :
          Call(p, op, todo) /\ (op = "read" => todo = Keys)
  <2>1. Uses[p] \subseteq {"put", "remove", "clear", "read", "putNonBlocking"} /\ Cleared \in SUBSET Keys
    BY ParamsConstants
  <2>2. CASE \E k \in Keys, op \in Uses[p] \cap {"put", "remove"} : Call(p, op, {k})
    <3>1. PICK k \in Keys, op \in {"put", "remove"} : Call(p, op, {k})
      BY <2>2
    <3>2. {k} \in SUBSET Keys
      OBVIOUS
    <3> QED
      BY <3>1, <3>2
  <2>3. CASE Call(p, "clear", Cleared)
    BY <2>1, <2>3
  <2>4. CASE Call(p, "read", Keys)
    BY <2>4
  <2> QED
    BY <2>2, <2>3, <2>4 DEF Calls
<1> QED
  BY <1>1, <1>2, <1>3, <1>4, <1>5

\* The writer: it starts, takes a value, ends.
LEMMA WriterOK ==
  ASSUME Inv, NEW p \in Procs, StartWriter(p) \/ TryPop(p) \/ End(p)
  PROVE  Inv'
<1> DEFINE t == Writer(p)
<1>0. t \in Threads /\ Main(p) \in Threads /\ t # Main(p)
  BY ThreadsOf
<1> HIDE DEF t
<1>1. CASE StartWriter(p)
  <2> DEFINE pop == [IDLE EXCEPT !.pc = "pop"]
             r == IF th[t].pc = "off" THEN pop ELSE th[t]
  <2>1. pop \in Thread /\ pop.pc = "pop" /\ pop.op = "none"
    BY DEF IDLE, OFF, Thread, PC
  <2> HIDE DEF pop
  <2>2. /\ th' = [th EXCEPT ![Main(p)] = IDLE, ![t] = r] /\ At(Main(p), "future")
        /\ UNCHANGED <<files, lock, queue, acked, calls, faults>>
    BY <1>0, <1>1 DEF StartWriter, t, pop
  <2>3. r \in Thread
    BY <1>0, <2>1 DEF Inv, TypeOK
  <2>4. /\ th' \in [Threads -> Thread] /\ th'[Main(p)] = IDLE /\ th'[t] = r
        /\ \A u \in Threads \ {Main(p), t} : th'[u] = th[u]
    BY <1>0, <2>2, <2>3, ThreadTypes DEF Inv, TypeOK
  <2>5. TypeOK'
    BY <2>2, <2>4 DEF Inv, TypeOK, files
  <2>6. link
    BY <1>0, <2>2, Linked DEF At
  <2>7. CASE th[t].pc = "off"
    <3> DEFINE T == {Main(p), t}
    <3>1. /\ T \in SUBSET Threads /\ \A u \in Threads \ T : th'[u] = th[u]
          /\ \A u \in T : th'[u].pc \in {"idle", "pop"} /\ th'[u].op = "none"
      BY <1>0, <2>1, <2>4, <2>7, ThreadTypes
    <3> HIDE DEF T
    <3> QED
      BY <2>2, <2>4, <2>5, <2>6, <3>1, Moves DEF Inv, files
  <2>8. CASE th[t].pc # "off"
    <3>1. \A u \in Threads \ {Main(p)} : th'[u] = th[u]
      BY <2>4, <2>8
    <3> QED
      BY <1>0, <2>2, <2>4, <2>5, <2>6, <3>1, ThreadTypes, MovesOne DEF Inv, files
  <2> QED
    BY <2>7, <2>8
<1>2. CASE TryPop(p)
  <2>1. CASE queue[p] = <<>>
    <3>1. /\ Goes(t, "ending") /\ At(t, "pop")
          /\ UNCHANGED <<files, lock, queue, acked, calls, faults>>
      BY <1>2, <2>1 DEF TryPop, t
    <3>2. /\ th' \in [Threads -> Thread] /\ \A u \in Threads \ {t} : th'[u] = th[u]
          /\ th'[t].pc = "ending" /\ th'[t].op = th[t].op
      BY <1>0, <3>1, GoesType DEF Inv, PC
    <3>3. TypeOK'
      BY <3>1, <3>2 DEF Inv, TypeOK, files
    <3>4. Safe'
      BY <1>0, <3>1, <3>2, Linked, MovesOne DEF files, At
    <3> QED
      BY <3>3, <3>4 DEF Inv
  <2>2. CASE queue[p] # <<>>
    <3>1. queue[p] \in Seq(Keys) /\ {Head(queue[p])} \in SUBSET Keys
      BY <2>2 DEF Inv, TypeOK
    <3> DEFINE r == CallOf("put", {Head(queue[p])})
    <3>2. r \in Thread /\ r.pc = "prepare" /\ r.op = "put"
      BY <3>1, CallTypes
    <3>3. /\ th' = [th EXCEPT ![t] = r] /\ At(t, "pop")
          /\ queue' = [queue EXCEPT ![p] = Tail(@)]
          /\ UNCHANGED <<files, lock, acked, calls, faults>>
      BY <1>2, <2>2 DEF TryPop, t
    <3> HIDE DEF r
    <3>4. /\ th' \in [Threads -> Thread] /\ \A u \in Threads \ {t} : th'[u] = th[u]
          /\ th'[t] = r
      BY <1>0, <3>2, <3>3 DEF Inv, TypeOK
    <3>5. queue' \in [Procs -> Seq(Keys)]
      BY <2>2, <3>1, <3>3 DEF Inv, TypeOK
    <3>6. TypeOK'
      BY <3>3, <3>4, <3>5 DEF Inv, TypeOK, files
    <3>7. Safe'
      BY <1>0, <3>2, <3>3, <3>4, Linked, MovesOne DEF files, At
    <3> QED
      BY <3>6, <3>7 DEF Inv
  <2> QED
    BY <2>1, <2>2
<1>3. CASE End(p)
  <2>1. /\ th' = [th EXCEPT ![t] = OFF]
        /\ UNCHANGED <<files, lock, queue, acked, calls, faults>>
    BY <1>3 DEF End, t
  <2>2. /\ th' \in [Threads -> Thread] /\ \A u \in Threads \ {t} : th'[u] = th[u]
        /\ th'[t] = OFF
    BY <1>0, <2>1, ThreadTypes DEF Inv, TypeOK
  <2>3. TypeOK'
    BY <2>1, <2>2 DEF Inv, TypeOK, files
  <2>4. Safe'
    BY <1>0, <2>1, <2>2, ThreadTypes, MovesOne DEF files
  <2> QED
    BY <2>3, <2>4 DEF Inv
<1> QED
  BY <1>1, <1>2, <1>3

\* A temporary file is written and synced, or that fails.
LEMMA PrepareOK ==
  ASSUME Inv, NEW t \in Threads, Prepare(t) \/ PrepareFails(t)
  PROVE  Inv'
<1>1. link /\ th[t].op # "read"
  BY Linked DEF Prepare, Prepared, PrepareFails, At
<1>2. CASE Prepare(t)
  <2> DEFINE r == [th[t] EXCEPT !.pc = "lock", !.file = "synced"]
  <2>1. /\ th' = [th EXCEPT ![t] = r]
        /\ UNCHANGED <<files, lock, queue, acked, calls, faults>>
    BY <1>2 DEF Prepare, Prepared
  <2>2. th[t] \in Thread
    BY DEF Inv, TypeOK
  <2>3. r \in Thread /\ r.pc = "lock" /\ r.op = th[t].op /\ r.file = "synced"
    BY <2>2 DEF Thread, PC
  <2> HIDE DEF r
  <2>4. /\ th' \in [Threads -> Thread] /\ \A u \in Threads \ {t} : th'[u] = th[u]
        /\ th'[t] = r
    BY <2>1, <2>3 DEF Inv, TypeOK
  <2>5. TypeOK'
    BY <2>1, <2>4 DEF Inv, TypeOK, files
  <2>6. Safe'
    BY <1>1, <2>1, <2>3, <2>4, MovesOne DEF files
  <2> QED
    BY <2>5, <2>6 DEF Inv
<1>3. CASE PrepareFails(t)
  <2>1. Fails(t) /\ UNCHANGED <<files, lock, queue, acked, calls>>
    BY <1>3 DEF PrepareFails
  <2>2. /\ th' \in [Threads -> Thread] /\ \A u \in Threads \ {t} : th'[u] = th[u]
        /\ th'[t].pc = "return" /\ th'[t].op = th[t].op /\ ~th'[t].ok /\ faults' \in Nat
    BY <2>1, FailsType DEF Inv
  <2>3. TypeOK'
    BY <2>1, <2>2 DEF Inv, TypeOK, files
  <2>4. Safe'
    BY <1>1, <2>1, <2>2, MovesOne DEF files
  <2> QED
    BY <2>3, <2>4 DEF Inv
<1> QED
  BY <1>2, <1>3

\* Whoever gets the lock may act; nobody else does.
LEMMA LockOK ==
  ASSUME Inv, NEW t \in Threads, Lock(t)
  PROVE  Inv'
<1>1. /\ At(t, "lock") /\ lock = NOBODY /\ lock' = t /\ Goes(t, "act")
      /\ UNCHANGED <<files, queue, acked, calls, faults>>
  BY DEF Lock
<1>2. /\ th' \in [Threads -> Thread] /\ \A u \in Threads \ {t} : th'[u] = th[u]
      /\ th'[t].pc = "act"
      /\ th'[t].op = th[t].op /\ th'[t].todo = th[t].todo
      /\ th'[t].file = th[t].file /\ th'[t].seen = th[t].seen
  BY <1>1, GoesType DEF Inv, PC
<1>3. link
  BY <1>1, Linked DEF At
<1>4. TypeOK'
  BY <1>1, <1>2 DEF Inv, TypeOK, files
<1>5. Linking'
  BY <1>1, <1>2, <1>3 DEF Inv, Safe, Linking, At, files
<1>6. Locked'
  BY <1>1, <1>2, Nobody DEF Inv, Safe, Locked, At
<1>7. Prepares'
  BY <1>1, <1>2 DEF Inv, Safe, Prepares, At
<1>8. Reads'
  BY <1>1, <1>2 DEF Inv, Safe, Reads, At, files
<1>9. Done'
  BY <1>1, <1>2, Nobody DEF Inv, Safe, Done, At, files
<1>10. Durable'
  BY <1>1 DEF Inv, Safe, Durable, files
<1> QED
  BY <1>4, <1>5, <1>6, <1>7, <1>8, <1>9, <1>10 DEF Inv, Safe

\* A call returns: what it was told is done is what the disk has.
LEMMA ReturnOK ==
  ASSUME Inv, NEW t \in Threads, Return(t)
  PROVE  Inv'
<1> DEFINE r == AfterCall(t)
<1>1. /\ At(t, "return") /\ lock' = (IF lock = t THEN NOBODY ELSE lock)
      /\ acked' = IF th[t].ok /\ th[t].op # "read"
                  THEN [k \in Keys |-> IF k \in th[t].todo THEN dir[k].n ELSE acked[k]]
                  ELSE acked
      /\ th' = [th EXCEPT ![t] = r]
      /\ UNCHANGED <<files, queue, calls, faults>>
  BY DEF Return
<1>2. r \in Thread /\ r.pc \in {"idle", "pop"} /\ r.op = "none"
  BY DEF AfterCall, IDLE, OFF, Thread, PC
<1> HIDE DEF r
<1>3. /\ th' \in [Threads -> Thread] /\ \A u \in Threads \ {t} : th'[u] = th[u]
      /\ th'[t] = r
  BY <1>1, <1>2 DEF Inv, TypeOK
<1>4. link
  BY <1>1, Linked DEF At
<1>5. acked' \in [Keys -> Nat]
  BY <1>1 DEF Inv, TypeOK, File
<1>6. TypeOK'
  BY <1>1, <1>3, <1>5 DEF Inv, TypeOK, files
<1>7. Linking'
  BY <1>1, <1>2, <1>3, <1>4 DEF Inv, Safe, Linking, At, files
<1>8. Locked' /\ Prepares' /\ Reads'
  BY <1>1, <1>2, <1>3 DEF Inv, Safe, Locked, Prepares, Reads, At, files
<1>9. Done'
  BY <1>1, <1>2, <1>3 DEF Inv, Safe, Done, At, files
<1>10. Durable'
  <2>1. SUFFICES ASSUME NEW k \in Keys, NEW f \in disk[k] PROVE acked'[k] <= f.n
    BY <1>1 DEF Inv, Safe, Durable, files
  <2>2. acked[k] <= f.n
    BY DEF Inv, Safe, Durable
  <2>3. CASE th[t].ok /\ th[t].op # "read"
    <3>1. f = dir[k] /\ dir[k].n \in Nat
      BY <1>1, <2>3 DEF Inv, Safe, Done, At, TypeOK, File
    <3> QED
      BY <1>1, <2>2, <2>3, <3>1
  <2> QED
    BY <1>1, <2>2, <2>3
<1> QED
  BY <1>6, <1>7, <1>8, <1>9, <1>10 DEF Inv, Safe

\* A key gets another file, or none: the new one is as durable as it must be.
LEMMA ChangeDurable ==
  ASSUME Inv, NEW t \in Threads, NEW k \in Keys, NEW content \in {"none", "synced"},
         Change(t, k, content), UNCHANGED acked
  PROVE  /\ dir' \in [Keys -> File] /\ disk' \in [Keys -> SUBSET File] /\ changes' \in Nat
         /\ link' = link /\ Durable'
<1> DEFINE f == [n |-> changes + 1, content |-> content]
<1>1. /\ changes' = changes + 1 /\ link' = link
      /\ dir' = [dir EXCEPT ![k] = f] /\ disk' = [disk EXCEPT ![k] = @ \cup {f}]
  BY DEF Change
<1>2. f \in File /\ f.n = changes + 1 /\ f.content = content /\ changes \in Nat
  BY DEF Inv, TypeOK, File
<1> HIDE DEF f
<1>3. dir' \in [Keys -> File] /\ disk' \in [Keys -> SUBSET File]
  BY <1>1, <1>2 DEF Inv, TypeOK
<1>4. ASSUME NEW j \in Keys
      PROVE  /\ dir'[j] \in disk'[j] /\ dir'[j].n <= changes'
             /\ \A g \in disk'[j] :
                  g.content \in {"none", "synced"} /\ acked[j] <= g.n /\ g.n <= dir'[j].n
  <2>1. /\ dir[j] \in disk[j] /\ dir[j].n <= changes /\ acked[j] \in Nat
        /\ \A g \in disk[j] : /\ g.content \in {"none", "synced"} /\ g.n \in Nat
                             /\ acked[j] <= g.n /\ g.n <= dir[j].n
    BY DEF Inv, Safe, Durable, TypeOK, File
  <2>2. CASE j = k
    <3>1. dir'[j] = f /\ disk'[j] = disk[j] \cup {f}
      BY <1>1, <2>2 DEF Inv, TypeOK
    <3>2. acked[j] <= f.n /\ \A g \in disk[j] : g.n <= f.n
      BY <1>2, <2>1
    <3> QED
      BY <1>1, <1>2, <2>1, <3>1, <3>2
  <2>3. CASE j # k
    <3>1. dir'[j] = dir[j] /\ disk'[j] = disk[j]
      BY <1>1, <2>3 DEF Inv, TypeOK
    <3>2. dir[j].n <= changes + 1
      BY <1>2, <2>1
    <3> QED
      BY <1>1, <2>1, <3>1, <3>2
  <2> QED
    BY <2>2, <2>3
<1>5. Durable'
  BY <1>4 DEF Durable
<1> QED
  BY <1>1, <1>2, <1>3, <1>5

\* Who has the lock changes the directory, or its files, and disturbs no other thread.
LEMMA Acted ==
  ASSUME Inv, NEW t \in Threads, At(t, "act"), th[t].op # "read",
         th' \in [Threads -> Thread], \A u \in Threads \ {t} : th'[u] = th[u],
         th'[t].op = th[t].op,
         th'[t].pc = "sync" \/ th'[t] = th[t] \/ (th'[t].pc = "return" /\ ~th'[t].ok),
         UNCHANGED <<link, lock, acked>>, Durable'
  PROVE  Safe'
<1>1. lock = t /\ link
  BY Linked DEF Inv, Safe, Locked, At
<1>2. Linking'
  BY <1>1 DEF Inv, Safe, Linking, At
<1>3. Locked'
  BY <1>1 DEF Inv, Safe, Locked, At
<1>4. Prepares'
  BY DEF Inv, Safe, Prepares, At
<1>5. Reads'
  BY <1>1 DEF Inv, Safe, Reads, Locked, At
<1>6. Done'
  BY <1>1 DEF Inv, Safe, Done, At
<1> QED
  BY <1>2, <1>3, <1>4, <1>5, <1>6 DEF Safe

\* put, remove and clearAll at the directory.
LEMMA WriteOK ==
  ASSUME Inv, NEW t \in Threads, Rename(t) \/ Unlink(t) \/ ClearOne(t)
  PROVE  Inv'
<1>1. /\ At(t, "act") /\ th[t].op \in {"put", "remove", "clear"}
      /\ UNCHANGED <<lock, queue, acked, calls>>
  BY DEF Rename, Unlink, ClearOne, Acts
<1>2. th[t] \in Thread /\ th[t].todo \subseteq Keys
  BY DEF Inv, TypeOK, Thread
<1>3. /\ faults' \in Nat
      /\ UNCHANGED files \/ \E k \in Keys, content \in {"none", "synced"} : Change(t, k, content)
      /\ \/ Goes(t, "sync")
         \/ UNCHANGED th
         \/ Fails(t)
         \/ th' = [th EXCEPT ![t].pc = "return", ![t].ok = FALSE]
  <2>0. faults \in Nat
    BY DEF Inv, TypeOK
  <2>1. CASE Rename(t)
    <3>1. th[t].file = "synced"
      BY <2>1 DEF Rename, Acts, At, Inv, Safe, Prepares
    <3> QED
      BY <1>2, <2>0, <2>1, <3>1 DEF Rename, Fails, NoFault
  <2>2. CASE Unlink(t)
    BY <1>2, <2>0, <2>2 DEF Unlink, NoFault
  <2>3. CASE ClearOne(t)
    BY <1>2, <2>0, <2>3 DEF ClearOne, NoFault
  <2> QED
    BY <2>1, <2>2, <2>3
<1>4. /\ dir' \in [Keys -> File] /\ disk' \in [Keys -> SUBSET File] /\ changes' \in Nat
      /\ link' = link /\ Durable'
  <2>1. CASE UNCHANGED files
    BY <1>1, <2>1 DEF files, Inv, TypeOK, Safe, Durable
  <2>2. CASE \E k \in Keys, content \in {"none", "synced"} : Change(t, k, content)
    BY <1>1, <2>2, ChangeDurable
  <2> QED
    BY <1>3, <2>1, <2>2
<1>5. /\ th' \in [Threads -> Thread] /\ \A u \in Threads \ {t} : th'[u] = th[u]
      /\ th'[t].op = th[t].op
      /\ th'[t].pc = "sync" \/ th'[t] = th[t] \/ (th'[t].pc = "return" /\ ~th'[t].ok)
  <2>1. CASE Goes(t, "sync")
    BY <2>1, GoesType DEF Inv, PC
  <2>2. CASE UNCHANGED th
    BY <2>2 DEF Inv, TypeOK
  <2>3. CASE Fails(t)
    BY <2>3, FailsType DEF Inv
  <2>4. CASE th' = [th EXCEPT ![t].pc = "return", ![t].ok = FALSE]
    <3> DEFINE r == [th[t] EXCEPT !.pc = "return", !.ok = FALSE]
    <3>1. r \in Thread /\ r.pc = "return" /\ r.op = th[t].op /\ ~r.ok
      BY <1>2 DEF Thread, PC
    <3>2. th' = [th EXCEPT ![t] = r]
      BY <2>4
    <3> HIDE DEF r
    <3> QED
      BY <3>1, <3>2 DEF Inv, TypeOK
  <2> QED
    BY <1>3, <2>1, <2>2, <2>3, <2>4
<1>6. TypeOK'
  BY <1>1, <1>3, <1>4, <1>5 DEF Inv, TypeOK
<1>7. Safe'
  BY <1>1, <1>4, <1>5, Acted
<1> QED
  BY <1>6, <1>7 DEF Inv

\* readAll has the lock while it reads.
LEMMA ReadOK ==
  ASSUME Inv, NEW t \in Threads, ReadOne(t)
  PROVE  Inv'
<1>1. /\ At(t, "act") /\ th[t].op = "read"
      /\ UNCHANGED <<files, lock, queue, acked, calls, faults>>
  BY DEF ReadOne, Acts, NoFault
<1>2. link /\ lock = t
  BY <1>1, Linked DEF Inv, Safe, Locked, At
<1>3. /\ th' \in [Threads -> Thread] /\ \A u \in Threads \ {t} : th'[u] = th[u]
      /\ th'[t].op = "read"
      /\ th'[t].pc = "act" => \A k \in Keys \ th'[t].todo : th'[t].seen[k] = dir[k].n
      /\ th'[t].pc = "return" => \A k \in Keys : th'[t].seen[k] = dir[k].n
      /\ th'[t].pc \in {"act", "return"}
  <2>1. /\ th[t] \in Thread /\ th[t].pc = "act" /\ th[t].todo \subseteq Keys
        /\ th[t].seen \in [Keys -> Nat]
        /\ \A k \in Keys \ th[t].todo : th[t].seen[k] = dir[k].n
    BY <1>1 DEF Inv, TypeOK, Thread, Safe, Reads, At
  <2>2. CASE \E k \in th[t].todo : th' = [th EXCEPT ![t].todo = @ \ {k}, ![t].seen[k] = dir[k].n]
    <3>1. PICK k \in th[t].todo : th' = [th EXCEPT ![t].todo = @ \ {k}, ![t].seen[k] = dir[k].n]
      BY <2>2
    <3> DEFINE seen == [th[t].seen EXCEPT ![k] = dir[k].n]
               r == [th[t] EXCEPT !.todo = @ \ {k}, !.seen = seen]
    <3>2. th' = [th EXCEPT ![t] = r]
      BY <2>1, <3>1 DEF Thread
    <3>3. /\ seen \in [Keys -> Nat]
          /\ \A j \in Keys \ (th[t].todo \ {k}) : seen[j] = dir[j].n
      BY <2>1, <3>1 DEF Inv, TypeOK, File
    <3> HIDE DEF seen
    <3>4. /\ r \in Thread /\ r.pc = "act" /\ r.op = "read" /\ r.seen = seen
          /\ r.todo = th[t].todo \ {k}
      BY <1>1, <2>1, <3>3 DEF Thread
    <3> HIDE DEF r
    <3> QED
      BY <3>2, <3>3, <3>4 DEF Inv, TypeOK
  <2>3. CASE th[t].todo = {} /\ Goes(t, "return")
    BY <1>1, <2>1, <2>3, GoesType DEF Inv, PC
  <2> QED
    BY <2>2, <2>3 DEF ReadOne
<1>4. TypeOK'
  BY <1>1, <1>3 DEF Inv, TypeOK, files
<1>5. Linking'
  BY <1>1, <1>2, <1>3 DEF Inv, Safe, Linking, At, files
<1>6. Locked' /\ Prepares' /\ Done'
  BY <1>1, <1>2, <1>3 DEF Inv, Safe, Locked, Prepares, Done, At, files
<1>7. Reads'
  BY <1>1, <1>3 DEF Inv, Safe, Reads, At, files
<1>8. Durable'
  BY <1>1 DEF Inv, Safe, Durable, files
<1> QED
  BY <1>4, <1>5, <1>6, <1>7, <1>8 DEF Inv, Safe

\* The directory is synced, or that fails.
LEMMA SyncDirOK ==
  ASSUME Inv, NEW t \in Threads, SyncDir(t)
  PROVE  Inv'
<1>1. At(t, "sync") /\ UNCHANGED <<link, dir, changes, lock, queue, acked, calls>>
  BY DEF SyncDir
<1>2. lock = t /\ link /\ th[t].op # "read"
  BY <1>1, Linked DEF Inv, Safe, Locked, At
<1>3. CASE disk' = [k \in Keys |-> {dir[k]}] /\ Goes(t, "return") /\ NoFault
  <2>1. /\ th' \in [Threads -> Thread] /\ \A u \in Threads \ {t} : th'[u] = th[u]
        /\ th'[t].pc = "return" /\ th'[t].op = th[t].op
    BY <1>3, GoesType DEF Inv, PC
  <2>2. TypeOK'
    BY <1>1, <1>3, <2>1 DEF Inv, TypeOK, NoFault
  <2>3. Linking'
    BY <1>1, <1>2, <2>1 DEF Inv, Safe, Linking, At
  <2>4. Locked' /\ Prepares' /\ Reads'
    BY <1>1, <1>2, <2>1 DEF Inv, Safe, Locked, Prepares, Reads, At
  <2>5. Done'
    BY <1>1, <1>2, <1>3, <2>1 DEF Inv, Safe, Done, At
  <2>6. Durable'
    <3>1. SUFFICES ASSUME NEW k \in Keys
                   PROVE  /\ dir[k] \in {dir[k]} /\ dir[k].n <= changes
                          /\ \A f \in {dir[k]} : /\ f.content \in {"none", "synced"}
                                               /\ acked[k] <= f.n /\ f.n <= dir[k].n
      BY <1>1, <1>3 DEF Durable
    <3>2. /\ dir[k].content \in {"none", "synced"} /\ acked[k] <= dir[k].n
          /\ dir[k].n <= changes /\ dir[k].n \in Nat
      BY DEF Inv, Safe, Durable, TypeOK, File
    <3> QED
      BY <3>2
  <2> QED
    BY <2>2, <2>3, <2>4, <2>5, <2>6 DEF Inv, Safe
<1>4. CASE Fails(t) /\ UNCHANGED disk
  <2>1. /\ th' \in [Threads -> Thread] /\ \A u \in Threads \ {t} : th'[u] = th[u]
        /\ th'[t].pc = "return" /\ th'[t].op = th[t].op /\ ~th'[t].ok /\ faults' \in Nat
    BY <1>4, FailsType DEF Inv
  <2>2. TypeOK'
    BY <1>1, <1>4, <2>1 DEF Inv, TypeOK
  <2>3. Safe'
    BY <1>1, <1>2, <1>4, <2>1, MovesOne
  <2> QED
    BY <2>2, <2>3 DEF Inv
<1> QED
  BY <1>3, <1>4 DEF SyncDir

\* A process dies; the kernel closes its lock file.
LEMMA CrashOK ==
  ASSUME Inv, NEW p \in Procs, Crash(p)
  PROVE  Inv'
<1> DEFINE T == {Main(p), Writer(p)}
<1>1. /\ faults' = faults + 1
      /\ th' = [t \in Threads |-> IF t[1] = p THEN OFF ELSE th[t]]
      /\ lock' = IF lock \in T THEN NOBODY ELSE lock
      /\ queue' = [queue EXCEPT ![p] = <<>>]
      /\ UNCHANGED <<files, acked, calls>>
  BY DEF Crash
<1>2. T \in SUBSET Threads /\ \A t \in T : t[1] = p
  BY ThreadsOf
<1>3. \A t \in Threads : t[1] = p => t \in T
  BY ThreadsOf
<1> HIDE DEF T
<1>4. /\ th' \in [Threads -> Thread] /\ \A u \in Threads \ T : th'[u] = th[u]
      /\ \A t \in T : th'[t] = OFF
  BY <1>1, <1>2, <1>3, ThreadTypes DEF Inv, TypeOK
<1>5. queue' \in [Procs -> Seq(Keys)]
  BY <1>1 DEF Inv, TypeOK
<1>6. TypeOK'
  BY <1>1, <1>4, <1>5 DEF Inv, TypeOK, files
<1>7. Safe'
  BY <1>1, <1>2, <1>4, ThreadTypes, Moves DEF files
<1> QED
  BY <1>6, <1>7 DEF Inv

\* After a power failure a key has one of the files it may have, and nothing runs.
LEMMA PowerFailureOK ==
  ASSUME Inv, PowerFailure
  PROVE  Inv' /\ \A k \in Keys : acked[k] <= dir'[k].n /\ dir'[k].n <= dir[k].n
<1>1. /\ faults' = faults + 1
      /\ dir' = [k \in Keys |-> dir'[k]]
      /\ \A k \in Keys : dir'[k] \in UNION {Remains(f) : f \in disk[k]}
      /\ disk' = [k \in Keys |-> {dir'[k]}]
      /\ th' = [t \in Threads |-> OFF] /\ lock' = NOBODY /\ queue' = [p \in Procs |-> <<>>]
      /\ UNCHANGED <<link, changes, acked, calls>>
  BY DEF PowerFailure
<1>2. ASSUME NEW k \in Keys PROVE dir'[k] \in disk[k]
  <2>1. PICK f \in disk[k] : dir'[k] \in Remains(f)
    BY <1>1
  <2>2. f.content # "written"
    BY DEF Inv, Safe, Durable
  <2> QED
    BY <2>1, <2>2 DEF Remains
<1>3. ASSUME NEW k \in Keys
      PROVE  /\ dir'[k] \in File /\ dir'[k].content \in {"none", "synced"}
             /\ acked[k] <= dir'[k].n /\ dir'[k].n <= dir[k].n /\ dir'[k].n <= changes
             /\ dir'[k].n \in Nat
  BY <1>2 DEF Inv, Safe, Durable, TypeOK, File
<1>4. dir' \in [Keys -> File]
  BY <1>1, <1>3
<1>5. TypeOK'
  BY <1>1, <1>4, ThreadTypes DEF Inv, TypeOK
<1>6. Linking'
  <2>1. \A t \in Threads : th'[t].pc = "off"
    BY <1>1, ThreadTypes
  <2>2. ~link => \A k \in Keys : dir'[k] = NoFile /\ disk'[k] = {NoFile} /\ acked[k] = 0
    BY <1>1, <1>2 DEF Inv, Safe, Linking
  <2> QED
    BY <1>1, <2>1, <2>2 DEF Linking, At
<1>7. Locked' /\ Prepares' /\ Reads' /\ Done'
  BY <1>1, ThreadTypes DEF Locked, Prepares, Reads, Done, At
<1>8. Durable'
  BY <1>1, <1>3 DEF Durable
<1> QED
  BY <1>3, <1>5, <1>6, <1>7, <1>8 DEF Inv, Safe

\* The initial state has the invariant.
LEMMA InitOK ==
  ASSUME Init
  PROVE  Inv
<1>1. NoFile \in File /\ NoFile.n = 0 /\ NoFile.content = "none"
  BY DEF NoFile, File
<1>2. TypeOK
  <2>1. dir \in [Keys -> File] /\ disk \in [Keys -> SUBSET File] /\ acked \in [Keys -> Nat]
    BY <1>1 DEF Init
  <2>2. th \in [Threads -> Thread]
    BY ThreadTypes DEF Init
  <2>3. queue \in [Procs -> Seq(Keys)]
    BY DEF Init
  <2> QED
    BY <2>1, <2>2, <2>3 DEF Init, TypeOK
<1>3. \A t \in Threads : th[t].pc = "off" /\ th[t].op = "none"
  BY ThreadTypes DEF Init
<1>4. Linking
  BY <1>3 DEF Init, Linking, At
<1>5. Locked /\ Prepares /\ Reads /\ Done
  BY <1>3 DEF Locked, Prepares, Reads, Done, At
<1>6. Durable
  <2>1. SUFFICES ASSUME NEW k \in Keys
                 PROVE  /\ dir[k] \in disk[k] /\ dir[k].n <= changes
                        /\ \A f \in disk[k] : /\ f.content \in {"none", "synced"}
                                            /\ acked[k] <= f.n /\ f.n <= dir[k].n
    BY DEF Durable
  <2>2. dir[k] = NoFile /\ disk[k] = {NoFile} /\ acked[k] = 0 /\ changes = 0
    BY DEF Init
  <2> HIDE DEF NoFile
  <2> QED
    BY <1>1, <2>2
<1> QED
  BY <1>2, <1>4, <1>5, <1>6 DEF Inv, Safe

\* Every step preserves it.
LEMMA StepOK ==
  ASSUME First, Inv, [Next]_vars
  PROVE  Inv'
<1>1. CASE UNCHANGED vars
  BY <1>1 DEF vars, files, Inv, Safe, TypeOK, Linking, Locked, Prepares, Reads, Done, Durable, At
<1>2. ASSUME NEW t \in Threads, Step(t) PROVE Inv'
  BY <1>2, PrepareOK, LockOK, WriteOK, ReadOK, SyncDirOK, ReturnOK DEF Step
<1>3. ASSUME NEW p \in Procs, Construct(p) \/ Runs(p) \/ Calls(p) \/ Destroy(p) \/ Crash(p)
      PROVE  Inv'
  BY <1>3, ConstructOK, MainOK, WriterOK, CrashOK DEF Runs
<1>4. CASE PowerFailure
  BY <1>4, PowerFailureOK
<1> QED
  BY <1>1, <1>2, <1>3, <1>4 DEF Next

---------------------------------------------------------------------------
(* Theorems *)

\* The invariant above holds of every reachable state.
THEOREM Invariant == First /\ Spec => []Inv
<1>1. First /\ Init => Inv
  BY InitOK
<1>2. First /\ Inv /\ [Next]_vars => Inv'
  BY StepOK
<1>3. First => []First
  <2>1. First => First'
    BY DEF First
  <2> QED
    BY <2>1, PTL
<1> QED
  BY <1>1, <1>2, <1>3, PTL DEF Spec

\* If the first process has made the directory before others look for it, as in all of
\* these: for any keys, processes and number of faults, no key ever shows a part of a value.
THEOREM NeverTornValue == First /\ Spec => []NeverTorn
<1>1. Inv => NeverTorn
  <2>1. SUFFICES ASSUME Inv, NEW k \in Keys PROVE dir[k].content # "part"
    BY DEF NeverTorn
  <2> QED
    BY <2>1 DEF Inv, Safe, Durable
<1> QED
  BY <1>1, Invariant, PTL

\* For any keys, processes and number of faults, and under First, what was acknowledged
\* is not undone.
THEOREM KeepsAcknowledged == First /\ Spec => []AcknowledgedStays
<1>1. Inv => AcknowledgedStays
  <2>1. SUFFICES ASSUME Inv, NEW k \in Keys PROVE dir[k].n >= acked[k]
    BY DEF AcknowledgedStays
  <2>2. dir[k] \in disk[k] /\ acked[k] <= dir[k].n /\ acked[k] \in Nat /\ dir[k].n \in Nat
    BY <2>1 DEF Inv, Safe, Durable, TypeOK, File
  <2> QED
    BY <2>2
<1> QED
  BY <1>1, Invariant, PTL

\* For any keys and processes, and under First, what readAll returns was there at one
\* instant.
THEOREM ReadsSnapshot == First /\ Spec => []Snapshot
<1>1. Inv => Snapshot
  <2>1. SUFFICES ASSUME Inv, NEW t \in Threads, At(t, "return"), th[t].op = "read"
                 PROVE  th[t].seen = [k \in Keys |-> dir[k].n]
    BY DEF Snapshot
  <2>2. th[t].seen \in [Keys -> Nat] /\ \A k \in Keys : th[t].seen[k] = dir[k].n
    BY <2>1 DEF Inv, TypeOK, Thread, Safe, Reads
  <2> QED
    BY <2>2
<1> QED
  BY <1>1, Invariant, PTL

\* Under First, the files act as a register per key: every step that others can see is a
\* write, an acknowledgement or a power failure of ParamStore.
THEOREM ImplementsStore == First /\ Spec => ActsAsStore
<1> DEFINE shown == [k \in Keys |-> dir[k].n]
<1>1. Init => Store!Init
  BY DEF Init, Store!Init, NoFile
<1>2. ASSUME First, Inv, [Next]_vars PROVE [Store!Next]_(Store!vars)
  <2>0. /\ \A k \in Keys : dir[k].n \in Nat /\ dir[k].n <= changes /\ acked[k] \in Nat
        /\ changes \in Nat
    BY <1>2 DEF Inv, Safe, Durable, TypeOK, File
  <2>1. CASE UNCHANGED <<dir, acked>>
    BY <2>1 DEF Store!vars
  <2>2. ASSUME NEW t \in Threads, NEW k \in Keys, NEW content, Change(t, k, content), UNCHANGED acked
        PROVE  Store!Next
    <3>1. dir' = [dir EXCEPT ![k] = [n |-> changes + 1, content |-> content]]
      BY <2>2 DEF Change
    <3>2. dir'[k].n = changes + 1 /\ \A j \in Keys \ {k} : dir'[j] = dir[j]
      BY <3>1, <1>2 DEF Inv, TypeOK
    <3>3. Store!Write(k)
      BY <2>0, <2>2, <3>2 DEF Store!Write
    <3> QED
      BY <3>3 DEF Store!Next
  <2>3. ASSUME NEW t \in Threads, Return(t)
        PROVE  Store!Next
    <3>1. UNCHANGED dir
      BY <2>3 DEF Return, files
    <3>2. \A k \in Keys : acked[k] <= dir[k].n
      BY <1>2 DEF Inv, Safe, Durable
    <3>3. \A k \in Keys : acked'[k] \in {acked[k], dir[k].n}
      BY <2>3 DEF Return
    <3>4. Store!Acknowledge
      BY <2>0, <3>1, <3>2, <3>3 DEF Store!Acknowledge
    <3> QED
      BY <3>4 DEF Store!Next
  <2>4. CASE PowerFailure
    <3>1. Inv' /\ UNCHANGED acked /\ \A k \in Keys : acked[k] <= dir'[k].n /\ dir'[k].n <= dir[k].n
      BY <1>2, <2>4, PowerFailureOK DEF PowerFailure
    <3>2. \A k \in Keys : dir'[k].n \in Nat
      BY <3>1 DEF Inv, TypeOK, File
    <3>3. Store!PowerFailure
      BY <2>0, <3>1, <3>2 DEF Store!PowerFailure
    <3> QED
      BY <3>3 DEF Store!Next
  <2>5. ASSUME NEW p \in Procs, MoveLink(p)
        PROVE  UNCHANGED <<shown, acked>>
    <3>1. Main(p) \in Threads /\ At(Main(p), "link")
      BY <2>5, ThreadsOf DEF MoveLink
    <3>2. \A k \in Keys : dir[k] = NoFile
      BY <1>2, <3>1 DEF Inv, Safe, Linking
    <3> QED
      BY <2>5, <3>2 DEF MoveLink
  <2>6. ASSUME NEW t \in Threads, Step(t)
        PROVE  \/ UNCHANGED <<dir, acked>> \/ Return(t)
               \/ \E k \in Keys : \E content : Change(t, k, content) /\ UNCHANGED acked
    BY <2>6, <1>2 DEF Step, Prepare, Prepared, PrepareFails, Lock, Rename, Unlink, ClearOne, ReadOne, SyncDir, Acts, files, Inv, TypeOK, Thread
  <2>7. ASSUME NEW p \in Procs, Construct(p) \/ Runs(p) \/ Calls(p) \/ Destroy(p) \/ Crash(p)
        PROVE  MoveLink(p) \/ UNCHANGED <<dir, acked>>
    BY <2>7 DEF Construct, Constructs, Runs, StartWriter, TryPop, End, Waited, Destroyed,
                Calls, Call, Push, Destroy, Crash, files
  <2> QED
    BY <1>2, <2>1, <2>2, <2>3, <2>4, <2>5, <2>6, <2>7 DEF Next, Store!vars, vars, files
<1>3. First => []First
  <2>1. First => First'
    BY DEF First
  <2> QED
    BY <2>1, PTL
<1> QED
  BY <1>1, <1>2, <1>3, Invariant, PTL DEF Spec, ActsAsStore, Store!Spec
=============================================================================
