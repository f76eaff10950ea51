------------------------------- MODULE MCMsgq -------------------------------
(***************************************************************************)
(* Two queues: a small one that its publisher laps several times, and a    *)
(* crowded one, with two subscribers for one slot and a publisher that is  *)
(* replaced or dies.                                                       *)
(***************************************************************************)
EXTENDS Msgq

Small   == [num_readers |-> 1, size |-> 9, sizes |-> {1, 2}, max_msgs |-> 4,
            readers |-> {11}, publishers |-> {1}]
Crowded == [num_readers |-> 1, size |-> 6, sizes |-> {1}, max_msgs |-> 1,
            readers |-> {11, 12}, publishers |-> {1, 2}]
Both    == {Small, Crowded}

\* A queue that a subscriber is two laps behind, and more, if it is not counted
Longer  == {[Small EXCEPT !.max_msgs = 6]}

\* Msgq's fairness, for the queue whose calls are followed to their end.
MCFairness ==
  /\ \A r \in Readers : WF_vars(queue = Small /\ ReaderStep(r))
  /\ \A p \in Publishers : WF_vars(queue = Small /\ PubStep(p))
MCSpec == Init /\ [][Next]_vars /\ MCFairness

\* Between two messages every call ends, with a message or with none: a reader that was
\* overrun is reset, catches up and returns, unless msgq_msg_send begins yet another message
\* first. A publisher that laps it in every attempt sends msgq_msg_recv back to start without
\* end, so no more can be promised; and max_msgs is not what makes this hold.
CallsReturn == \A r \in Small.readers, k \in 0..Small.max_msgs :
  queue = Small /\ At(r, "uid") /\ count = k ~> At(r, "idle") \/ count > k
=============================================================================
