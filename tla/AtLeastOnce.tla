----------------------------- MODULE AtLeastOnce -----------------------------
(***************************************************************************)
(* What a RabbitMQ queue and its consumers promise each other: a message   *)
(* leaves the queue only after a handler has run for it, it may be handled *)
(* again at any time, and in the end it does leave the queue.              *)
(***************************************************************************)
CONSTANT Messages

VARIABLES
  waiting,  \* messages the queue still owes a handler
  handled,  \* messages some handler run has finished
  settled   \* messages that left the queue

vars == <<waiting, handled, settled>>

Init == waiting = {} /\ handled = {} /\ settled = {}

Arrive(m) ==
  /\ m \notin waiting \cup settled
  /\ waiting' = waiting \cup {m}
  /\ UNCHANGED <<handled, settled>>

Handle(m) ==
  /\ m \in waiting \cup settled
  /\ handled' = handled \cup {m}
  /\ UNCHANGED <<waiting, settled>>

Settle(m) ==
  /\ m \in waiting \cap handled
  /\ waiting' = waiting \ {m}
  /\ settled' = settled \cup {m}
  /\ UNCHANGED handled

Next == \E m \in Messages : Arrive(m) \/ Handle(m) \/ Settle(m)

Spec == Init /\ [][Next]_vars

\* With the promise that nothing waits for ever
LiveSpec == Spec /\ \A m \in Messages : (m \in waiting) ~> (m \in settled)
=============================================================================
