----------------------------- MODULE ParamStore -----------------------------
(***************************************************************************)
(* What Params promises: a register per key. A write replaces the value of *)
(* one key, a power failure may take back writes that were not             *)
(* acknowledged. Values are told apart by the number of the write that     *)
(* made them.                                                              *)
(***************************************************************************)
EXTENDS Integers

CONSTANT Keys

VARIABLES store,    \* the write each key shows
          kept      \* the last write of each key that was acknowledged
vars == <<store, kept>>

Init ==
  /\ store = [k \in Keys |-> 0]
  /\ kept = [k \in Keys |-> 0]

Write(k) ==
  /\ store'[k] > store[k]
  /\ \A j \in Keys \ {k} : store'[j] = store[j]
  /\ UNCHANGED kept

\* A write is acknowledged when it shows, or after a newer one has replaced it.
Acknowledge ==
  /\ \A k \in Keys : kept'[k] \in kept[k]..store[k]
  /\ UNCHANGED store

PowerFailure ==
  /\ \A k \in Keys : store'[k] \in kept[k]..store[k]
  /\ UNCHANGED kept

Next == Acknowledge \/ PowerFailure \/ \E k \in Keys : Write(k)
Spec == Init /\ [][Next]_vars
=============================================================================
