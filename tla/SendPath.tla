------------------------------ MODULE SendPath ------------------------------
(***************************************************************************)
(* The way of a callback through the process: a queue is consumed with a   *)
(* prefetch window (Delivery), the goroutine of a message publishes its    *)
(* replies through the shared channel of a ReceiveTool (Relay) and returns *)
(* when all of them are in the channel; then the message is acked          *)
(* (cmd/uchat.go 248-268, uchat/sync.go 705, 762, 786, 1005).              *)
(***************************************************************************)
EXTENDS Integers, Sequences, FiniteSets

CONSTANTS
  Messages,   \* the messages of the queue, all of which are answered
  Replies,    \* Replies[m]: messages the callback of m publishes
  Prefetch,   \* Qos prefetch count
  Cap,        \* capacity of the channel
  MaxFaults   \* bound on lost connections and crashes, of each side

ASSUME SendPathAssumption ==
  /\ IsFiniteSet(Messages)
  /\ Replies \in [Messages -> Nat \ {0}]
  /\ Prefetch \in Nat \ {0}
  /\ Cap \in Nat \ {0}
  /\ MaxFaults \in Nat

VARIABLES
  ready, holder, acked, linked, conn, inbox, runs, finished, drops,
  chan, left, pc, held, up, wire, arrived, lost, serial, requeued, breaks,
  pub         \* history: pub[n] is the goroutine of publication n

queue == <<ready, holder, acked, linked, conn, inbox, runs, finished, drops>>
relay == <<chan, left, pc, held, up, wire, arrived, lost, serial, requeued, breaks>>
vars == <<queue, relay, pub>>

\* The goroutine that a connection started for a message.  A message is
\* delivered again only after a fault, so there are at most MaxFaults + 1.
Goroutines == Messages \X (1..(MaxFaults + 1))
Of(r) == <<r.msg, r.conn>>

D == INSTANCE Delivery WITH faults <- drops

R == INSTANCE Relay WITH
  Handlers <- Goroutines,
  Work <- [g \in Goroutines |-> Replies[g[1]]],
  MaxSerial <- 0,
  faults <- breaks

-----------------------------------------------------------------------------
\* The goroutine starts with all its replies to publish.
Spawn(m) ==
  /\ D!Spawn(m)
  /\ left' = [left EXCEPT ![<<m, conn>>] = Replies[m]]
  /\ UNCHANGED <<chan, pc, held, up, wire, arrived, lost, serial, requeued, breaks, pub>>

Publish(r) ==
  /\ r.step = "callback"
  /\ R!Publish(Of(r))
  /\ pub' = Append(pub, Of(r))
  /\ UNCHANGED queue

\* Mutant: the callback leaves its replies to another goroutine.
ReturnEarly(r) ==
  /\ D!Return(r, "ok")
  /\ UNCHANGED <<relay, pub>>

\* The callback returns once its last reply is in the channel; what it returns
\* makes no difference to the ack.
Return(r) ==
  /\ left[Of(r)] = 0
  /\ D!Return(r, "ok")
  /\ UNCHANGED <<relay, pub>>

\* A publisher puts a message into the queue; the consumer loses its connection.
Outside ==
  /\ D!LoseLink \/ \E m \in Messages : D!Arrive(m)
  /\ UNCHANGED <<relay, pub>>

Consume ==
  /\ D!Link \/ \E m \in Messages : D!Deliver(m)
  /\ UNCHANGED <<relay, pub>>

\* Mutant: no ack while the relay has no connection.
AckWhenUp(r) ==
  /\ \/ up /\ D!Ack(r)
     \/ /\ ~up /\ r.step # "callback"
        /\ runs' = runs \ {r}
        /\ UNCHANGED <<ready, holder, acked, linked, conn, inbox, finished, drops>>
  /\ UNCHANGED <<relay, pub>>

Ack(r) == D!Ack(r) /\ UNCHANGED <<relay, pub>>

\* Mutant: a full channel is no reason to wait for the reader.
ReceiveOrDrop ==
  /\ \/ R!Connect \/ R!Take \/ R!Write \/ R!WriteFails \/ R!RequeueOrDrop
     \/ R!Arrive
  /\ UNCHANGED <<queue, pub>>

\* Mutant: the reader does not come back after a lost connection.
ReceiveOnce ==
  /\ \/ (R!Connect /\ breaks = 0) \/ R!Take \/ R!Write \/ R!WriteFails \/ R!Requeue
     \/ R!Arrive
  /\ UNCHANGED <<queue, pub>>

\* The goroutine of the ReceiveTool and the broker behind it
Forward ==
  /\ R!Receive \/ R!Arrive
  /\ UNCHANGED <<queue, pub>>

Break ==
  /\ R!LoseLink
  /\ UNCHANGED <<queue, pub>>

\* Both live in one process.  Its goroutines are gone; their messages come
\* again on the next connection.
Crash ==
  /\ D!Crash
  /\ R!Crash
  /\ left' = [g \in Goroutines |-> 0]
  /\ UNCHANGED pub

-----------------------------------------------------------------------------
Init ==
  /\ D!Init
  /\ chan = <<>> /\ wire = <<>> /\ arrived = <<>>
  /\ left = [g \in Goroutines |-> 0]
  /\ pc = "connect" /\ held = R!None /\ up = FALSE
  /\ lost = {} /\ requeued = {} /\ serial = 0 /\ breaks = 0
  /\ pub = <<>>

Progress ==
  \/ Consume
  \/ \E m \in Messages : Spawn(m)
  \/ \E r \in runs : Publish(r) \/ Return(r) \/ Ack(r)
  \/ Forward

Next == Progress \/ Outside \/ Break \/ Crash

Spec == Init /\ [][Next]_vars

\* Weaker than the fairness of the parts: as long as the process or a broker has
\* something to do, something is done.
FairSpec == Spec /\ WF_vars(Progress)

-----------------------------------------------------------------------------
(* Properties.                                                             *)

Published(m) == {n \in 1..serial : pub[n][1] = m}

\* What leaves the queue has been answered in full: every acked message has a
\* goroutine all of whose replies are on their way, at the exchange or lost to a
\* fault; and it was answered once for each time the process or a connection
\* brought it.
AckedAnswered ==
  /\ \A m \in acked : \E c \in 1..(MaxFaults + 1) :
       /\ Cardinality({n \in 1..serial : pub[n] = <<m, c>>}) = Replies[m]
       /\ breaks = 0 => {n \in 1..serial : pub[n] = <<m, c>>} \subseteq R!SetOf(R!Trail)
  /\ \A m \in Messages : Cardinality(Published(m)) <= Replies[m] * (1 + drops)

\* Composed with the relay, which makes its callbacks wait, the consumer still
\* leaves no unacknowledged message without somebody who will ack it
\* (uchat.go 248-268).
NoOrphan == D!NoOrphan

\* The guards of Progress
CanMove ==
  \/ ~linked /\ inbox = {}
  \/ linked /\ ready # {} /\ Cardinality(D!Held) < Prefetch
  \/ inbox # {}
  \/ \E r \in runs : r.step # "callback" \/ left[Of(r)] = 0 \/ Len(chan) < Cap
  \/ pc \in {"connect", "publish"}
  \/ pc = "select" /\ chan # <<>>
  \/ pc = "requeue" /\ Len(chan) < Cap
  \/ up /\ wire # <<>>

\* Nothing is left to do: the queue is empty, every goroutine has ended, every
\* reply is at the exchange or lost.
Settled ==
  /\ ready \cup D!Held \cup inbox = {} /\ runs = {}
  /\ 1..serial \subseteq R!SetOf(arrived) \cup lost

\* Of all that can wait for something - the consumer for a connection or a place
\* in its window, goroutines for room in the channel, the reader for a message, a
\* connection or room - only the reader that waits for room can bring all to a
\* halt before the work is done (receive.go 97).
OnlyWedgeStops == CanMove \/ Settled \/ R!Wedged

\* All goroutines wait for room in a channel whose reader waits for room.
Stalled == R!Wedged /\ runs # {} /\ \A r \in runs : r.step = "callback" /\ left[Of(r)] > 0

\* A relay that is wedged takes the queue with it: nothing is answered or acked
\* again before the process is restarted, and a new connection of the consumer
\* only adds goroutines that wait (receive.go 97, consumer.go 67).
StalledForGood ==
  [][Stalled => (Stalled' /\ runs \subseteq runs' /\ UNCHANGED <<acked, serial>>) \/ Crash]_vars

\* A message that the broker has is acked, and then its replies reach the
\* exchange or a fault loses them, unless the relay is wedged.
EndToEnd ==
  \A m \in Messages :
    m \in ready ~>
      \/ m \in acked /\ Published(m) \subseteq R!SetOf(arrived) \cup lost
      \/ R!Wedged
=============================================================================
