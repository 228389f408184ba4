------------------------------ MODULE LossyQueue ------------------------------
(***************************************************************************)
(* What a ReceiveTool promises to those who publish through it: a message  *)
(* reaches the exchange at most once and in the order of publication.      *)
(* Only faults break the promise: each may lose messages that are under    *)
(* way, and let one message fall back behind younger ones.                 *)
(* A message is known by the number of its publication.                    *)
(***************************************************************************)
EXTENDS Naturals, FiniteSets

VARIABLES
  published, \* how many messages were published
  arrived,   \* those that reached the exchange
  lost,      \* those that never will
  late,      \* those that fell back
  faults     \* how many faults there were

vars == <<published, arrived, lost, late, faults>>

UnderWay == (1..published) \ (arrived \cup lost)

Init == published = 0 /\ arrived = {} /\ lost = {} /\ late = {} /\ faults = 0

Publish ==
  /\ published' = published + 1
  /\ UNCHANGED <<arrived, lost, late, faults>>

\* A message arrives after all older ones that are still to arrive in time.
Arrive(n) ==
  /\ \A k \in UnderWay : k < n => k \in late
  /\ arrived' = arrived \cup {n}
  /\ UNCHANGED <<published, lost, late, faults>>

\* A fault pays for one message that falls back.
FallBack(n) ==
  /\ Cardinality(late) < faults
  /\ late' = late \cup {n}
  /\ UNCHANGED <<published, arrived, lost, faults>>

Fault ==
  /\ \E gone \in SUBSET UnderWay : lost' = lost \cup gone
  /\ faults' = faults + 1
  /\ UNCHANGED <<published, arrived, late>>

Next ==
  \/ Publish
  \/ \E n \in UnderWay : Arrive(n) \/ FallBack(n)
  \/ Fault

Spec == Init /\ [][Next]_vars
=============================================================================
