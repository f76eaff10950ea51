------------------------------- MODULE Params -------------------------------
(***************************************************************************)
(* common/params.cc: one file per key in a directory, changed by every     *)
(* process, with a lock file, temporary files and renames; and each        *)
(* process's thread for later writes. System calls that others can see are *)
(* steps. What a temporary file goes through before it is renamed is one:  *)
(* nobody else has its name.                                               *)
(*                                                                         *)
(* A change of a key is known by its number n, in the order of the renames *)
(* and unlinks. The content of a file survives a power failure if it was   *)
(* synced, and an entry of the directory may be any of those since the     *)
(* directory was synced last. get reads a file that nothing writes any     *)
(* more, and needs no step.                                                *)
(***************************************************************************)
EXTENDS Integers, Sequences

CONSTANTS Keys,
          Cleared,      \* the keys whose flags clearAll is called with, and undefined ones
          Procs,
          Uses,         \* which process makes which calls
          Together,     \* whether two processes may find no directory at the same time
          MAX_CALLS,    \* bound: calls that change keys
          MAX_FAULTS    \* bound: power failures, crashes and system calls that fail

VARIABLES link,         \* whether <params>/d exists
          dir,          \* the file of each key
          disk,         \* the files of each key that a power failure may leave
          lock,         \* the thread that has .lock
          th,           \* the threads
          queue,        \* per process: the keys waiting to be written
          acked,        \* per key: the newest change whose caller was told it is done
          changes, calls, faults
files == <<link, dir, disk, changes>>
vars == <<files, lock, th, queue, acked, calls, faults>>

ASSUME ParamsConstants ==
  /\ Cleared \subseteq Keys /\ Together \in BOOLEAN /\ {MAX_CALLS, MAX_FAULTS} \subseteq Nat
  /\ \A p \in Procs : Uses[p] \subseteq {"put", "remove", "clear", "read", "putNonBlocking"}

Main(p) == <<p, "main">>
Writer(p) == <<p, "writer">>
Threads == Procs \X {"main", "writer"}
NOBODY == <<>>

NoFile == [n |-> 0, content |-> "none"]
OFF == [pc |-> "off", op |-> "none", todo |-> {}, ok |-> TRUE, file |-> "none",
        seen |-> [k \in Keys |-> 0]]
IDLE == [OFF EXCEPT !.pc = "idle"]

At(t, pc) == th[t].pc = pc
Goes(t, pc) == th' = [th EXCEPT ![t].pc = pc]
Fails(t) ==
  /\ faults < MAX_FAULTS /\ faults' = faults + 1
  /\ th' = [th EXCEPT ![t].pc = "return", ![t].ok = FALSE]
NoFault == UNCHANGED faults

---------------------------------------------------------------------------
(* Params::Params, ensure_params_path *)
Constructs(p, pc) ==
  /\ At(Main(p), "off")
  /\ link \/ Together \/ \A q \in Procs : ~At(Main(q), "link")
  /\ th' = [th EXCEPT ![Main(p)] = [IDLE EXCEPT !.pc = pc]]
  /\ UNCHANGED <<files, lock, queue, acked, calls, faults>>
ConstructAlwaysLinks(p) == Constructs(p, "link")
Construct(p) == Constructs(p, IF link THEN "idle" ELSE "link")

\* mkdtemp and symlink, then rename, which replaces a link that is there by now.
MoveLink(p) ==
  /\ At(Main(p), "link")
  /\ link' = TRUE
  /\ dir' = [k \in Keys |-> NoFile]
  /\ disk' = [k \in Keys |-> {NoFile}]
  /\ Goes(Main(p), "idle")
  /\ UNCHANGED <<changes, lock, queue, acked, calls, faults>>

---------------------------------------------------------------------------
(* put, remove, clearAll and readAll: a thread works through the keys of its call *)
CallOf(op, todo) ==
  [OFF EXCEPT !.pc = IF op = "put" THEN "prepare" ELSE "lock", !.op = op, !.todo = todo]

Call(p, op, todo) ==
  /\ At(Main(p), "idle")
  /\ op # "read" => calls < MAX_CALLS
  /\ calls' = IF op = "read" THEN calls ELSE calls + 1
  /\ th' = [th EXCEPT ![Main(p)] = CallOf(op, todo)]
  /\ UNCHANGED <<files, lock, queue, acked, faults>>

\* mkstemp, write and fsync of the temporary file
Prepared(t, content) ==
  /\ At(t, "prepare")
  /\ th' = [th EXCEPT ![t].pc = "lock", ![t].file = content]
  /\ UNCHANGED <<files, lock, queue, acked, calls, faults>>
PrepareUnsynced(t) == Prepared(t, "written")
Prepare(t) == Prepared(t, "synced")
PrepareFails(t) ==
  /\ At(t, "prepare") /\ Fails(t)
  /\ UNCHANGED <<files, lock, queue, acked, calls>>

\* FileLock
NoLock(t) ==
  /\ At(t, "lock") /\ Goes(t, "act")
  /\ UNCHANGED <<files, lock, queue, acked, calls, faults>>
Lock(t) ==
  /\ At(t, "lock") /\ lock = NOBODY
  /\ lock' = t
  /\ Goes(t, "act")
  /\ UNCHANGED <<files, queue, acked, calls, faults>>

\* The directory shows another file for a key, or none.
Change(t, k, content) ==
  LET f == [n |-> changes + 1, content |-> content]
  IN  /\ changes' = changes + 1
      /\ dir' = [dir EXCEPT ![k] = f]
      /\ disk' = [disk EXCEPT ![k] = @ \cup {f}]
      /\ UNCHANGED link
There(k) == dir[k].content # "none"

Acts(t, op) == At(t, "act") /\ th[t].op = op /\ UNCHANGED <<lock, queue, acked, calls>>

Rename(t) ==
  /\ Acts(t, "put")
  /\ \/ /\ \E k \in th[t].todo : Change(t, k, th[t].file)
        /\ Goes(t, "sync") /\ NoFault
     \/ Fails(t) /\ UNCHANGED files

\* remove returns at once if there is no file.
Unlink(t) ==
  /\ Acts(t, "remove") /\ NoFault
  /\ \E k \in th[t].todo :
       IF There(k)
       THEN Change(t, k, "none") /\ Goes(t, "sync")
       ELSE UNCHANGED files /\ th' = [th EXCEPT ![t].pc = "return", ![t].ok = FALSE]

\* clearAll: readdir, in any order
ClearOne(t) ==
  /\ Acts(t, "clear") /\ NoFault
  /\ \/ \E k \in th[t].todo : There(k) /\ Change(t, k, "none") /\ UNCHANGED th
     \/ (\A k \in th[t].todo : ~There(k)) /\ Goes(t, "sync") /\ UNCHANGED files

\* readAll: read_files_in_dir, in any order
ReadOne(t) ==
  /\ Acts(t, "read") /\ NoFault /\ UNCHANGED files
  /\ \/ \E k \in th[t].todo :
          th' = [th EXCEPT ![t].todo = @ \ {k}, ![t].seen[k] = dir[k].n]
     \/ th[t].todo = {} /\ Goes(t, "return")

NoSyncDir(t) ==
  /\ At(t, "sync") /\ Goes(t, "return")
  /\ UNCHANGED <<files, lock, queue, acked, calls, faults>>

\* fsync_dir, which clearAll does not report
SyncDir(t) ==
  /\ At(t, "sync")
  /\ \/ disk' = [k \in Keys |-> {dir[k]}] /\ Goes(t, "return") /\ NoFault
     \/ Fails(t) /\ UNCHANGED disk
  /\ UNCHANGED <<link, dir, changes, lock, queue, acked, calls>>

\* The writer's put returns into its loop.
AfterCallOnce(t) == IF t[2] = "main" THEN IDLE ELSE OFF
AfterCall(t) == [IDLE EXCEPT !.pc = IF t[2] = "main" THEN "idle" ELSE "pop"]

\* The lock goes with its FileLock, the caller gets the result.
Return(t) ==
  /\ At(t, "return")
  /\ lock' = IF lock = t THEN NOBODY ELSE lock
  /\ acked' = IF th[t].ok /\ th[t].op # "read"
              THEN [k \in Keys |-> IF k \in th[t].todo THEN dir[k].n ELSE acked[k]] ELSE acked
  /\ th' = [th EXCEPT ![t] = AfterCall(t)]
  /\ UNCHANGED <<files, queue, calls, faults>>

---------------------------------------------------------------------------
(* putNonBlocking and asyncWriteThread *)
Push(p, k) ==
  /\ At(Main(p), "idle") /\ calls < MAX_CALLS
  /\ calls' = calls + 1
  /\ queue' = [queue EXCEPT ![p] = Append(@, k)]
  /\ Goes(Main(p), "future")
  /\ UNCHANGED <<files, lock, acked, faults>>

\* "start thread on demand": the future is not valid, or ready.
StartWriter(p) ==
  /\ At(Main(p), "future")
  /\ th' = [th EXCEPT ![Main(p)] = IDLE,
                      ![Writer(p)] = IF @.pc = "off" THEN [IDLE EXCEPT !.pc = "pop"] ELSE @]
  /\ UNCHANGED <<files, lock, queue, acked, calls, faults>>

TryPop(p) ==
  /\ At(Writer(p), "pop")
  /\ IF queue[p] = <<>>
     THEN Goes(Writer(p), "ending") /\ UNCHANGED queue
     ELSE /\ th' = [th EXCEPT ![Writer(p)] = CallOf("put", {Head(queue[p])})]
          /\ queue' = [queue EXCEPT ![p] = Tail(@)]
  /\ UNCHANGED <<files, lock, acked, calls, faults>>

\* The thread returns, and its future is ready.
End(p) ==
  /\ At(Writer(p), "ending")
  /\ th' = [th EXCEPT ![Writer(p)] = OFF]
  /\ UNCHANGED <<files, lock, queue, acked, calls, faults>>

\* Params::~Params
Destroy(p) ==
  /\ At(Main(p), "idle") /\ Goes(Main(p), "wait")
  /\ UNCHANGED <<files, lock, queue, acked, calls, faults>>
Waited(p) ==
  /\ At(Main(p), "wait") /\ At(Writer(p), "off")
  /\ Goes(Main(p), "assert")
  /\ UNCHANGED <<files, lock, queue, acked, calls, faults>>
Destroyed(p) ==
  /\ At(Main(p), "assert")
  /\ th' = [th EXCEPT ![Main(p)] = OFF]
  /\ queue' = [queue EXCEPT ![p] = <<>>]
  /\ UNCHANGED <<files, lock, acked, calls, faults>>

---------------------------------------------------------------------------
(* What happens to them *)
Crash(p) ==
  /\ ~At(Main(p), "off")
  /\ faults < MAX_FAULTS /\ faults' = faults + 1
  /\ th' = [t \in Threads |-> IF t[1] = p THEN OFF ELSE th[t]]
  /\ lock' = IF lock \in {Main(p), Writer(p)} THEN NOBODY ELSE lock
  /\ queue' = [queue EXCEPT ![p] = <<>>]
  /\ UNCHANGED <<files, acked, calls>>

\* What a file that was not synced may be afterwards.
Remains(f) == {f} \cup IF f.content = "written" THEN {[f EXCEPT !.content = "part"]} ELSE {}

PowerFailure ==
  /\ faults < MAX_FAULTS /\ faults' = faults + 1
  /\ dir' \in [Keys -> UNION {UNION {Remains(f) : f \in disk[k]} : k \in Keys}]
  /\ \A k \in Keys : dir'[k] \in UNION {Remains(f) : f \in disk[k]}
  /\ disk' = [k \in Keys |-> {dir'[k]}]
  /\ th' = [t \in Threads |-> OFF]
  /\ lock' = NOBODY
  /\ queue' = [p \in Procs |-> <<>>]
  /\ UNCHANGED <<link, changes, acked, calls>>

---------------------------------------------------------------------------
Init ==
  /\ link = FALSE
  /\ dir = [k \in Keys |-> NoFile]
  /\ disk = [k \in Keys |-> {NoFile}]
  /\ lock = NOBODY
  /\ th = [t \in Threads |-> OFF]
  /\ queue = [p \in Procs |-> <<>>]
  /\ acked = [k \in Keys |-> 0]
  /\ changes = 0 /\ calls = 0 /\ faults = 0

\* A step that the thread takes by itself.
Step(t) ==
  \/ Prepare(t) \/ PrepareFails(t) \/ Lock(t) \/ Rename(t) \/ Unlink(t) \/ ClearOne(t)
  \/ ReadOne(t) \/ SyncDir(t) \/ Return(t)
Runs(p) == MoveLink(p) \/ StartWriter(p) \/ TryPop(p) \/ End(p) \/ Waited(p) \/ Destroyed(p)
Calls(p) ==
  \/ \E k \in Keys, op \in Uses[p] \cap {"put", "remove"} : Call(p, op, {k})
  \/ \E k \in Keys : "putNonBlocking" \in Uses[p] /\ Push(p, k)
  \/ "clear" \in Uses[p] /\ Call(p, "clear", Cleared)
  \/ "read" \in Uses[p] /\ Call(p, "read", Keys)

Next ==
  \/ \E t \in Threads : Step(t)
  \/ \E p \in Procs : Construct(p) \/ Runs(p) \/ Calls(p) \/ Destroy(p) \/ Crash(p)
  \/ PowerFailure

\* Threads are scheduled, and flock queues those that wait for it; whether a process
\* calls, or is destroyed, is up to it.
Fairness == /\ \A t \in Threads : WF_vars(Step(t)) /\ SF_vars(Lock(t))
            /\ \A p \in Procs : WF_vars(Runs(p))
Spec == Init /\ [][Next]_vars /\ Fairness

---------------------------------------------------------------------------
(* Properties *)

\* "Safely and atomically writing a file": what a key shows is never a part of a value,
\* whichever system call failed and whenever the power did.
NeverTorn == \A k \in Keys : dir[k].content # "part"

\* A change whose caller was told that it is done is not undone by a crash or a power
\* failure. Changes are numbered as they are made, so what is shown may only be newer.
AcknowledgedStays == \A k \in Keys : dir[k].n >= acked[k]

\* What readAll answers was there at one instant, although it reads file by file while
\* other processes write and clear.
Snapshot ==
  \A t \in Threads : At(t, "return") /\ th[t].op = "read" =>
    th[t].seen = [k \in Keys |-> dir[k].n]

\* The store is a register per key.
Store == INSTANCE ParamStore WITH store <- [k \in Keys |-> dir[k].n], kept <- acked
ActsAsStore == Store!Spec

\* Everything given to a running writer is written or has failed, whoever else holds the
\* lock, fails or dies. Callers stop at MAX_CALLS: one that never stopped could keep the
\* queue from ever being empty. Nothing is said of what comes while the writer ends:
\* QueueEmptyAtExit is about that.
Working(p) == th[Writer(p)].pc \notin {"off", "ending"}
WriterCatchesUp ==
  \A p \in Procs : queue[p] # <<>> /\ Working(p) ~> queue[p] = <<>> /\ ~Working(p)

\* params.cc:103, in the destructor: assert(queue.empty())
QueueEmptyAtExit == \A p \in Procs : At(Main(p), "assert") => queue[p] = <<>>
=============================================================================
