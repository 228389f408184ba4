------------------------------ MODULE Delivery ------------------------------
(***************************************************************************)
(* A queue of the broker and the process that consumes it                  *)
(* (utils/consumer.go, cmd/uchat.go).  Consumer links to the broker with a *)
(* prefetch count, starts one goroutine per delivery and links again when  *)
(* the connection is lost.  The goroutines outlive the connection that     *)
(* brought their message, while the broker redelivers what was not         *)
(* acknowledged on it.                                                     *)
(***************************************************************************)
EXTENDS Integers, FiniteSets

CONSTANTS
  Messages,   \* the messages ever published to the queue
  Prefetch,   \* Qos prefetch count (20 in the code)
  MaxFaults   \* bound on lost connections and crashes

ASSUME DeliveryAssumption ==
  /\ IsFiniteSet(Messages)
  /\ Prefetch \in Nat \ {0}
  /\ MaxFaults \in Nat

VARIABLES
  ready,    \* broker: messages to deliver
  holder,   \* broker: the connection a message is unacknowledged on, or NoConn
  acked,    \* broker: messages that left the queue
  linked,   \* the consumer has a live connection
  conn,     \* number of the latest connection
  inbox,    \* deliveries received and not yet taken by the range loop
  runs,     \* goroutines: [msg, conn, step]
  finished, \* history: callbacks that returned, per message
  faults    \* history: lost connections and crashes

broker == <<ready, holder, acked>>
vars == <<ready, holder, acked, linked, conn, inbox, runs, finished, faults>>

NoConn == 0

Held == {m \in Messages : holder[m] # NoConn}

\* A goroutine runs the callback, which returns nil or an error, then it acks.
Run == [msg : Messages, conn : Nat, step : {"callback", "ok", "error"}]

-----------------------------------------------------------------------------
\* A publisher puts a message into the queue.
Arrive(m) ==
  /\ m \notin ready \cup Held \cup acked
  /\ ready' = ready \cup {m}
  /\ UNCHANGED <<holder, acked, linked, conn, inbox, runs, finished, faults>>
\* link: Dial, Channel, Qos and Consume succeed, once the range loop over the
\* last connection has ended.  If one fails, the loop tries again later.
Link ==
  /\ ~linked
  /\ inbox = {}
  /\ linked' = TRUE
  /\ conn' = conn + 1
  /\ UNCHANGED <<broker, inbox, runs, finished, faults>>
\* The broker sends a message as long as the prefetch window is open.
Deliver(m) ==
  /\ linked
  /\ m \in ready
  /\ Cardinality(Held) < Prefetch
  /\ ready' = ready \ {m}
  /\ holder' = [holder EXCEPT ![m] = conn]
  /\ inbox' = inbox \cup {m}
  /\ UNCHANGED <<acked, linked, conn, runs, finished, faults>>

\* for msg := range deliveries { go handle(msg) }
Spawn(m) ==
  /\ m \in inbox
  /\ inbox' = inbox \ {m}
  /\ runs' = runs \cup {[msg |-> m, conn |-> conn, step |-> "callback"]}
  /\ UNCHANGED <<broker, linked, conn, finished, faults>>

\* The uchat callback returns, with or without an error.
Return(r, step) ==
  /\ r.step = "callback"
  /\ runs' = (runs \ {r}) \cup {[r EXCEPT !.step = step]}
  /\ finished' = [finished EXCEPT ![r.msg] = @ + 1]
  /\ UNCHANGED <<broker, linked, conn, inbox, faults>>

Callback(r) == Return(r, "ok") \/ Return(r, "error")

\* Mutant: an ack before the callback.
AckFirst(r) ==
  /\ runs' = runs \ {r}
  /\ IF linked /\ r.conn = conn
     THEN /\ holder' = [holder EXCEPT ![r.msg] = NoConn]
          /\ acked' = acked \cup {r.msg}
     ELSE UNCHANGED <<holder, acked>>
  /\ UNCHANGED <<ready, linked, conn, inbox, finished, faults>>

\* msg.Ack(false), in the error branch too.  The ack goes to the connection
\* that delivered the message; on a lost one it fails and nobody looks.
Ack(r) ==
  /\ r.step \in {"ok", "error"}
  /\ runs' = runs \ {r}
  /\ IF linked /\ r.conn = conn
     THEN /\ holder' = [holder EXCEPT ![r.msg] = NoConn]
          /\ acked' = acked \cup {r.msg}
     ELSE UNCHANGED <<holder, acked>>
  /\ UNCHANGED <<ready, linked, conn, inbox, finished, faults>>

\* The connection is gone: what it held is ready again.
Requeue ==
  /\ ready' = ready \cup Held
  /\ holder' = [m \in Messages |-> NoConn]
  /\ linked' = FALSE

\* The connection is lost.  The client may still hand some of the messages it
\* has received to the range loop before it closes the channel; the goroutines
\* go on.
LoseLink ==
  /\ faults < MaxFaults
  /\ linked
  /\ Requeue
  /\ \E kept \in SUBSET inbox : inbox' = kept
  /\ faults' = faults + 1
  /\ UNCHANGED <<acked, conn, runs, finished>>

\* The process is killed and started again.
Crash ==
  /\ faults < MaxFaults
  /\ Requeue
  /\ inbox' = {}
  /\ runs' = {}
  /\ faults' = faults + 1
  /\ UNCHANGED <<acked, conn, finished>>

-----------------------------------------------------------------------------
Init ==
  /\ ready = {}
  /\ holder = [m \in Messages |-> NoConn]
  /\ acked = {}
  /\ linked = FALSE
  /\ conn = NoConn
  /\ inbox = {}
  /\ runs = {}
  /\ finished = [m \in Messages |-> 0]
  /\ faults = 0

Next ==
  \/ \E m \in Messages : Arrive(m) \/ Deliver(m) \/ Spawn(m)
  \/ \E r \in runs : Callback(r) \/ Ack(r)
  \/ Link
  \/ LoseLink
  \/ Crash

Spec == Init /\ [][Next]_vars

\* The consumer retries its link every three seconds, the broker delivers, the
\* range loop and every goroutine go on.  That callbacks return is an
\* assumption on the database and the HTTP services they call.
FairSpec ==
  /\ Spec
  /\ WF_vars(Link)
  /\ \A m \in Messages :
       /\ SF_vars(Deliver(m))
       /\ WF_vars(Spawn(m))
       /\ WF_vars(\E r \in runs : r.msg = m /\ (Callback(r) \/ Ack(r)))

-----------------------------------------------------------------------------
(* Properties.                                                             *)

\* The types of the variables; no connection but the latest holds a message.
TypeOK ==
  /\ ready \subseteq Messages
  /\ holder \in [Messages -> {NoConn, conn}]
  /\ acked \subseteq Messages
  /\ linked \in BOOLEAN
  /\ conn \in Nat
  /\ inbox \subseteq Messages
  /\ runs \subseteq Run
  /\ finished \in [Messages -> Nat]
  /\ faults \in Nat

\* A message is never in two places of the queue, and none is unacknowledged
\* unless a live connection holds it (consumer.go 58-72).
OnePlace ==
  /\ ready \cap Held = {}
  /\ ready \cap acked = {}
  /\ Held \cap acked = {}
  /\ Held # {} => linked /\ conn # NoConn

\* No unacknowledged message is orphaned: it is on its way to the range loop or
\* a goroutine of the live connection will ack it, so the prefetch window
\* cannot fill up with messages nobody works on (uchat.go 160-312).
NoOrphan ==
  \A m \in Messages :
    m \in Held => m \in inbox \/ \E r \in runs : r.msg = m /\ r.conn = conn

\* One connection never runs a message twice at a time, and never more than
\* Prefetch goroutines; a redelivered message may run beside its older run.
RunsBounded ==
  /\ \A r, s \in runs : r.msg = s.msg /\ r.conn = s.conn => r = s
  /\ \A c \in 1..conn : Cardinality({r \in runs : r.conn = c}) <= Prefetch
\* The queue and its consumer are at-least-once delivery: a message is acked
\* only after a callback returned for it, and every message is acked in the end.
Queue == INSTANCE AtLeastOnce WITH
  waiting <- ready \cup Held,
  handled <- {m \in Messages : finished[m] > 0},
  settled <- acked

AtLeastOnceDelivery == Queue!LiveSpec
=============================================================================
