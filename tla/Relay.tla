-------------------------------- MODULE Relay --------------------------------
(***************************************************************************)
(* ReceiveTool (utils/receive.go): handlers put messages into a buffered   *)
(* channel, one goroutine takes them out and publishes them to the         *)
(* exchange.  When a publish fails that goroutine puts its message back    *)
(* into the channel it alone reads, and connects again.                    *)
(* A message is known by the serial number of its publication.             *)
(***************************************************************************)
EXTENDS Integers, Sequences, FiniteSets

CONSTANTS
  Handlers,  \* consumer callbacks and HTTP requests of the process
  Work,      \* Work[h]: messages h publishes before it answers
  Cap,       \* capacity of the channel (2000 in the code)
  MaxFaults, \* bound on lost connections and crashes
  MaxSerial  \* bound on the publications liveness speaks of

ASSUME RelayAssumption ==
  /\ IsFiniteSet(Handlers)
  /\ Work \in [Handlers -> Nat]
  /\ Cap \in Nat \ {0}
  /\ MaxFaults \in Nat
  /\ MaxSerial \in Nat

VARIABLES
  chan,      \* the channel
  left,      \* left[h]: messages h still has to publish
  pc,        \* the goroutine Receive
  held,      \* the message it has taken from the channel, or None
  up,        \* its connection is alive
  wire,      \* written to the connection, not yet at the exchange
  arrived,   \* history: at the exchange, in order
  lost,      \* history: gone with a connection or the process
  serial,    \* history: publications so far
  requeued,  \* history: messages put back into the channel
  faults     \* history: lost connections and crashes

history == <<lost, serial, requeued, faults>>
vars == <<chan, left, pc, held, up, wire, arrived, lost, serial, requeued, faults>>

None == 0

InHand == IF held = None THEN <<>> ELSE <<held>>

\* Everything not lost, the oldest first as far as the relay keeps the order
Trail == arrived \o wire \o InHand \o chan

SetOf(s) == {s[i] : i \in DOMAIN s}

-----------------------------------------------------------------------------
\* Publish: the handler waits for room in the channel.
Publish(h) ==
  /\ left[h] > 0
  /\ Len(chan) < Cap
  /\ chan' = Append(chan, serial + 1)
  /\ left' = [left EXCEPT ![h] = @ - 1]
  /\ serial' = serial + 1
  /\ UNCHANGED <<pc, held, up, wire, arrived, lost, requeued, faults>>

\* RetryConnect: Dial, Channel and ExchangeDeclare succeed; until then the
\* goroutine tries again every three seconds.
Connect ==
  /\ pc = "connect"
  /\ pc' = "select"
  /\ up' = TRUE
  /\ UNCHANGED <<chan, left, held, wire, arrived, history>>

\* Mutant: the latest message first.
TakeNewest ==
  /\ pc = "select"
  /\ chan # <<>>
  /\ held' = chan[Len(chan)]
  /\ chan' = SubSeq(chan, 1, Len(chan) - 1)
  /\ pc' = "publish"
  /\ UNCHANGED <<left, up, wire, arrived, history>>

\* case str := <-c.Channel
Take ==
  /\ pc = "select"
  /\ chan # <<>>
  /\ held' = Head(chan)
  /\ chan' = Tail(chan)
  /\ pc' = "publish"
  /\ UNCHANGED <<left, up, wire, arrived, history>>

\* channel.Publish returns nil: the message is written, not confirmed.
Write ==
  /\ pc = "publish"
  /\ up
  /\ wire' = Append(wire, held)
  /\ held' = None
  /\ pc' = "select"
  /\ UNCHANGED <<chan, left, up, arrived, history>>

\* Mutants: the failed message is logged and dropped; the goroutine returns.
DropFailed ==
  /\ pc = "publish"
  /\ ~up
  /\ held' = None
  /\ pc' = "connect"
  /\ UNCHANGED <<chan, left, up, wire, arrived, history>>

GiveUp ==
  /\ pc = "publish"
  /\ ~up
  /\ pc' = "return"
  /\ UNCHANGED <<chan, left, held, up, wire, arrived, history>>

\* Mutant: a publish that succeeded is taken for one that failed.
TakenForFailed ==
  /\ pc = "publish"
  /\ pc' = "requeue"
  /\ UNCHANGED <<chan, left, held, up, wire, arrived, history>>

\* channel.Publish fails on the lost connection.
WriteFails ==
  /\ pc = "publish"
  /\ ~up
  /\ pc' = "requeue"
  /\ UNCHANGED <<chan, left, held, up, wire, arrived, history>>
\* Mutant: the goroutine does not wait for room in the channel but drops its
\* message.
RequeueOrDrop ==
  /\ pc = "requeue"
  /\ chan' = IF Len(chan) < Cap THEN Append(chan, held) ELSE chan
  /\ lost' = IF Len(chan) < Cap THEN lost ELSE lost \cup {held}
  /\ requeued' = requeued \cup {held}
  /\ held' = None
  /\ pc' = "connect"
  /\ UNCHANGED <<left, up, wire, arrived, serial, faults>>

\* c.Channel <- str: the only reader of the channel waits for room in it.
Requeue ==
  /\ pc = "requeue"
  /\ Len(chan) < Cap
  /\ chan' = Append(chan, held)
  /\ requeued' = requeued \cup {held}
  /\ held' = None
  /\ pc' = "connect"
  /\ UNCHANGED <<left, up, wire, arrived, lost, serial, faults>>

\* The exchange gets the oldest message written.
Arrive ==
  /\ up
  /\ wire # <<>>
  /\ arrived' = Append(arrived, Head(wire))
  /\ wire' = Tail(wire)
  /\ UNCHANGED <<chan, left, pc, held, up, history>>

\* The connection or its channel is closed; the goroutine does not notice
\* before its next publish.
LoseLink ==
  /\ faults < MaxFaults
  /\ up
  /\ up' = FALSE
  /\ lost' = lost \cup SetOf(wire)
  /\ wire' = <<>>
  /\ faults' = faults + 1
  /\ UNCHANGED <<chan, left, pc, held, arrived, serial, requeued>>

\* The process is killed and started again.  Of the handlers that had not
\* answered some run once more, from the start: those of redelivered messages.
Crash ==
  /\ faults < MaxFaults
  /\ \E again \in SUBSET {h \in Handlers : left[h] > 0} :
       left' = [h \in Handlers |-> IF h \in again THEN Work[h] ELSE 0]
  /\ lost' = lost \cup SetOf(wire) \cup SetOf(InHand) \cup SetOf(chan)
  /\ chan' = <<>>
  /\ held' = None
  /\ wire' = <<>>
  /\ up' = FALSE
  /\ pc' = "connect"
  /\ faults' = faults + 1
  /\ UNCHANGED <<arrived, serial, requeued>>

-----------------------------------------------------------------------------
Init ==
  /\ chan = <<>>
  /\ left = Work
  /\ pc = "connect"
  /\ held = None
  /\ up = FALSE
  /\ wire = <<>>
  /\ arrived = <<>>
  /\ lost = {}
  /\ serial = 0
  /\ requeued = {}
  /\ faults = 0

Receive == Connect \/ Take \/ Write \/ WriteFails \/ Requeue

Next ==
  \/ \E h \in Handlers : Publish(h)
  \/ Receive
  \/ Arrive
  \/ LoseLink
  \/ Crash

Spec == Init /\ [][Next]_vars

\* Go wakes the senders of a channel first come, first served; the goroutine is
\* always scheduled; the broker comes back within finitely many retries.
FairSpec ==
  /\ Spec
  /\ \A h \in Handlers : SF_vars(Publish(h))
  /\ WF_vars(Receive)
  /\ WF_vars(Arrive)

-----------------------------------------------------------------------------
(* Properties.                                                             *)

\* The types of the variables.  The goroutine has a message in its hand exactly
\* between taking it and getting rid of it, and the channel is within its
\* capacity.
TypeOK ==
  /\ chan \in Seq(1..serial) /\ Len(chan) <= Cap
  /\ left \in [Handlers -> Nat]
  /\ pc \in {"connect", "select", "publish", "requeue"}
  /\ held \in 0..serial
  /\ held # None <=> pc \in {"publish", "requeue"}
  /\ up \in BOOLEAN
  /\ wire \in Seq(1..serial) /\ (~up => wire = <<>>)
  /\ arrived \in Seq(1..serial)
  /\ lost \subseteq 1..serial
  /\ serial \in Nat
  /\ requeued \subseteq 1..serial
  /\ faults \in Nat

\* Every publication is in exactly one place: on its way, at the exchange or
\* lost; a failed publish neither drops a message nor doubles it (receive.go
\* 82-101).
Conserved ==
  /\ SetOf(Trail) \cap lost = {}
  /\ SetOf(Trail) \cup lost = 1..serial
  /\ \A i, j \in DOMAIN Trail : Trail[i] = Trail[j] => i = j

\* Messages are lost and put back only on account of faults: at most one is put
\* back for each, and without one the exchange gets everything in order.
FaultsOnly ==
  /\ Cardinality(requeued) <= faults
  /\ faults = 0 => lost = {}

\* A message is overtaken only if its publish failed and it was put back.
OvertakenWereRequeued ==
  \A i, j \in DOMAIN Trail :
    i < j /\ Trail[j] < Trail[i] => Trail[j] \in requeued

\* The relay is a queue that loses messages, and lets one fall back, on account
\* of faults only: nothing is doubled, and what arrives out of order was put back.
Queue == INSTANCE LossyQueue WITH
  published <- serial,
  arrived <- SetOf(arrived),
  late <- requeued

LossyDelivery == Queue!Spec

\* The goroutine waits for room in a channel nobody else empties.
Wedged == pc = "requeue" /\ Len(chan) = Cap

\* Once the reader waits for itself nothing moves any more, the handlers
\* included, until the process is restarted (receive.go 97).
WedgedForGood ==
  [][Wedged => (Wedged' /\ UNCHANGED <<chan, left>>) \/ Crash]_vars

\* Every message put into the channel reaches the exchange unless a fault loses
\* it or the relay is wedged.
Delivered ==
  \A n \in 1..MaxSerial :
    n \in SetOf(chan) ~> n \in SetOf(arrived) \cup lost \/ Wedged
=============================================================================
