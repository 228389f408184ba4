--------------------------- MODULE SendPathProofs ---------------------------
(***************************************************************************)
(* The queue and its consumer (Delivery, as D), alone and together with    *)
(* the relay.  Alone they implement the safety part of AtLeastOnce, keep   *)
(* the queue consistent and never lose track of an unacknowledged message. *)
(* Together they implement D and Relay, every message that leaves the      *)
(* queue was answered in full, and a wedged relay, and nothing else, stops *)
(* the queue: for any messages, replies, prefetch count, capacity and      *)
(* number of faults.                                                       *)
(***************************************************************************)
EXTENDS SendPath, SequenceTheorems, FiniteSetTheorems, TLAPS

\* The parameters of D are any that Delivery allows.
LEMMA DeliveryParameters ==
  /\ IsFiniteSet(Messages)
  /\ Prefetch \in Nat \ {0}
  /\ MaxFaults \in Nat
BY SendPathAssumption

\* The instance has the operator of FiniteSets under a name of its own.
LEMMA SameCardinality == \A S : D!Cardinality(S) = Cardinality(S)
BY DEF D!Cardinality, Cardinality

-----------------------------------------------------------------------------
(* The consumer alone.                                                     *)

\* A run knows the connection its message came by.
ConnsKnown ==
  /\ \A r \in runs : r.conn \in 1..conn
  /\ linked \/ inbox # {} => conn # D!NoConn

\* On a live connection only unacknowledged messages are worked on.
WorkUnacked ==
  linked => /\ inbox \subseteq D!Held
            /\ \A r \in runs : r.conn = conn => r.msg \in D!Held

\* A connection hands a message out once.
HandedOutOnce ==
  /\ \A r, s \in runs : r.msg = s.msg /\ r.conn = s.conn => r = s
  /\ \A r \in runs : r.msg \in inbox => r.conn # conn

\* Nothing is worked on that never arrived.
WorkArrived ==
  /\ inbox \subseteq ready \cup D!Held \cup acked
  /\ \A r \in runs : r.msg \in ready \cup D!Held \cup acked

\* Every ack has a callback that returned behind it.
ReturnsCounted ==
  /\ \A r \in runs : r.step # "callback" => finished[r.msg] > 0
  /\ \A m \in acked : finished[m] > 0

QueueInv ==
  /\ D!TypeOK
  /\ D!OnePlace
  /\ D!NoOrphan
  /\ ConnsKnown
  /\ WorkUnacked
  /\ HandedOutOnce
  /\ WorkArrived
  /\ ReturnsCounted

LEMMA InitQueueInv == D!Init => QueueInv
<1> SUFFICES ASSUME D!Init PROVE QueueInv
  OBVIOUS
<1>1. D!TypeOK
  BY DEF D!Init, D!TypeOK, D!NoConn
<1>2. D!Held = {}
  BY DEF D!Init, D!Held
<1>3. D!OnePlace /\ D!NoOrphan /\ ConnsKnown /\ WorkUnacked
  BY <1>2 DEF D!Init, D!OnePlace, D!NoOrphan, ConnsKnown, WorkUnacked
<1>4. HandedOutOnce /\ WorkArrived /\ ReturnsCounted
  BY DEF D!Init, HandedOutOnce, WorkArrived, ReturnsCounted
<1> QED BY <1>1, <1>3, <1>4 DEF QueueInv

LEMMA ArriveQueueInv ==
  ASSUME QueueInv, NEW m \in Messages, D!Arrive(m)
  PROVE  QueueInv'
BY DEF D!Arrive, QueueInv, D!TypeOK, D!OnePlace, D!NoOrphan, ConnsKnown, WorkUnacked,
       HandedOutOnce, WorkArrived, ReturnsCounted, D!Held, D!NoConn, D!Run

LEMMA DeliverQueueInv ==
  ASSUME QueueInv, NEW m \in Messages, D!Deliver(m)
  PROVE  QueueInv'
BY DEF D!Deliver, QueueInv, D!TypeOK, D!OnePlace, D!NoOrphan, ConnsKnown, WorkUnacked,
       HandedOutOnce, WorkArrived, ReturnsCounted, D!Held, D!NoConn, D!Run

LEMMA SpawnQueueInv ==
  ASSUME QueueInv, NEW m \in Messages, D!Spawn(m)
  PROVE  QueueInv'
<1> DEFINE run == [msg |-> m, conn |-> conn, step |-> "callback"]
<1>1. /\ m \in inbox /\ inbox' = inbox \ {m} /\ runs' = runs \cup {run}
      /\ UNCHANGED <<ready, holder, acked, linked, conn, finished, drops>>
  BY DEF D!Spawn, D!broker
<1>2. run \in D!Run /\ run.msg = m /\ run.conn = conn /\ run.step = "callback"
  BY DEF D!Run, QueueInv, D!TypeOK
<1> HIDE DEF run
<1>3. D!Held' = D!Held
  BY <1>1 DEF D!Held
<1>4. D!TypeOK'
  BY <1>1, <1>2 DEF QueueInv, D!TypeOK
<1>5. D!OnePlace' /\ D!NoOrphan'
  BY <1>1, <1>2, <1>3 DEF QueueInv, D!OnePlace, D!NoOrphan
<1>6. ConnsKnown' /\ WorkUnacked' /\ WorkArrived'
  BY <1>1, <1>2, <1>3 DEF QueueInv, D!TypeOK, ConnsKnown, WorkUnacked, WorkArrived, D!NoConn
<1>7. HandedOutOnce'
  BY <1>1, <1>2 DEF QueueInv, HandedOutOnce
<1>8. ReturnsCounted'
  BY <1>1, <1>2 DEF QueueInv, ReturnsCounted
<1> QED BY <1>4, <1>5, <1>6, <1>7, <1>8 DEF QueueInv

\* A callback that returns changes its own run and counts for its message.
LEMMA ReturnQueueInv ==
  ASSUME QueueInv, NEW r \in runs, NEW step \in {"ok", "error"}, D!Return(r, step)
  PROVE  QueueInv'
<1> DEFINE done == [r EXCEPT !.step = step]
<1>1. /\ r \in D!Run /\ r.msg \in Messages
      /\ runs' = (runs \ {r}) \cup {done}
      /\ finished' = [finished EXCEPT ![r.msg] = @ + 1]
      /\ UNCHANGED <<ready, holder, acked, linked, conn, inbox, drops>>
  BY DEF D!Return, D!broker, QueueInv, D!TypeOK, D!Run
<1>2. done \in D!Run /\ done.msg = r.msg /\ done.conn = r.conn
  BY <1>1 DEF D!Run
<1>3. finished \in [Messages -> Nat]
  BY DEF QueueInv, D!TypeOK
<1>4. /\ finished' \in [Messages -> Nat]
      /\ finished'[r.msg] > 0
      /\ \A m \in Messages : finished'[m] >= finished[m]
  <2> HIDE DEF done
  <2> QED BY <1>1, <1>3
<1> HIDE DEF done
<1>5. D!Held' = D!Held
  BY <1>1 DEF D!Held
<1>6. D!TypeOK'
  BY <1>1, <1>2, <1>4 DEF QueueInv, D!TypeOK
<1>7. D!OnePlace' /\ D!NoOrphan'
  BY <1>1, <1>2, <1>5 DEF QueueInv, D!OnePlace, D!NoOrphan
<1>8. ConnsKnown' /\ WorkUnacked' /\ WorkArrived'
  BY <1>1, <1>2, <1>5 DEF QueueInv, ConnsKnown, WorkUnacked, WorkArrived
<1>9. HandedOutOnce'
  BY <1>1, <1>2 DEF QueueInv, HandedOutOnce
<1>10. ReturnsCounted'
  <2>1. \A s \in runs' : s.step # "callback" => finished'[s.msg] > 0
    <3> SUFFICES ASSUME NEW s \in runs', s.step # "callback"
                 PROVE  finished'[s.msg] > 0
      OBVIOUS
    <3>1. CASE s = done
      BY <1>2, <1>4, <3>1
    <3>2. CASE s # done
      <4>1. s \in runs /\ s.msg \in Messages
        BY <1>1, <3>2 DEF QueueInv, D!TypeOK, D!Run
      <4>2. finished[s.msg] > 0
        BY <4>1 DEF QueueInv, ReturnsCounted
      <4> QED BY <1>3, <1>4, <4>1, <4>2
    <3> QED BY <3>1, <3>2
  <2>2. \A m \in acked' : finished'[m] > 0
    <3> SUFFICES ASSUME NEW m \in acked PROVE finished'[m] > 0
      BY <1>1
    <3>1. m \in Messages /\ finished[m] > 0
      BY DEF QueueInv, D!TypeOK, ReturnsCounted
    <3> QED BY <1>3, <1>4, <3>1
  <2> QED BY <2>1, <2>2 DEF ReturnsCounted
<1> QED BY <1>6, <1>7, <1>8, <1>9, <1>10 DEF QueueInv

LEMMA AckQueueInv ==
  ASSUME QueueInv, NEW r \in runs, D!Ack(r)
  PROVE  QueueInv'
<1>1. /\ r.msg \in Messages /\ r.step # "callback"
      /\ runs' = runs \ {r}
      /\ UNCHANGED <<ready, linked, conn, inbox, finished, drops>>
  BY DEF D!Ack, QueueInv, D!TypeOK, D!Run
<1>2. CASE linked /\ r.conn = conn
  <2>1. /\ holder' = [holder EXCEPT ![r.msg] = D!NoConn]
        /\ acked' = acked \cup {r.msg}
    BY <1>2 DEF D!Ack
  <2>2. D!Held' = D!Held \ {r.msg} /\ r.msg \in D!Held
    BY <1>1, <1>2, <2>1 DEF D!Held, QueueInv, D!TypeOK, WorkUnacked
  <2>3. D!TypeOK'
    BY <1>1, <2>1 DEF QueueInv, D!TypeOK
  <2>4. D!OnePlace'
    BY <1>1, <2>1, <2>2 DEF QueueInv, D!OnePlace
  <2>5. D!NoOrphan'
    BY <1>1, <2>2 DEF QueueInv, D!NoOrphan
  <2>6. ConnsKnown' /\ WorkArrived'
    BY <1>1, <2>1, <2>2 DEF QueueInv, ConnsKnown, WorkArrived
  <2>7. HandedOutOnce' /\ ReturnsCounted'
    BY <1>1, <2>1 DEF QueueInv, HandedOutOnce, ReturnsCounted
  <2>8. WorkUnacked'
    BY <1>1, <1>2, <2>2 DEF QueueInv, WorkUnacked, HandedOutOnce
  <2> QED BY <2>3, <2>4, <2>5, <2>6, <2>7, <2>8 DEF QueueInv
<1>3. CASE ~(linked /\ r.conn = conn)
  <2>1. UNCHANGED <<holder, acked>> /\ D!Held' = D!Held
    BY <1>3 DEF D!Ack, D!Held
  <2>2. D!TypeOK' /\ D!OnePlace'
    BY <1>1, <2>1 DEF QueueInv, D!TypeOK, D!OnePlace
  <2>3. D!NoOrphan'
    BY <1>1, <1>3, <2>1 DEF QueueInv, D!NoOrphan, D!OnePlace
  <2>4. ConnsKnown' /\ WorkUnacked' /\ HandedOutOnce' /\ WorkArrived' /\ ReturnsCounted'
    BY <1>1, <2>1 DEF QueueInv, ConnsKnown, WorkUnacked, HandedOutOnce, WorkArrived,
                      ReturnsCounted
  <2> QED BY <2>2, <2>3, <2>4 DEF QueueInv
<1> QED BY <1>2, <1>3

LEMMA LinkQueueInv == QueueInv /\ D!Link => QueueInv'
BY DEF D!Link, D!broker, QueueInv, D!TypeOK, D!OnePlace, D!NoOrphan, ConnsKnown, WorkUnacked,
       HandedOutOnce, WorkArrived, ReturnsCounted, D!Held, D!NoConn, D!Run

\* The broker takes back what the connection held.
LEMMA RequeueFacts ==
  ASSUME QueueInv, D!Requeue
  PROVE  /\ D!Held' = {} /\ ready' = ready \cup D!Held /\ ~linked'
         /\ holder' = [m \in Messages |-> D!NoConn]
BY DEF D!Requeue, D!Held

\* Fewer deliveries and fewer runs of a lost connection keep the invariant.
LEMMA LostQueueInv ==
  ASSUME QueueInv, D!Requeue, UNCHANGED <<acked, conn, finished>>,
         inbox' \subseteq inbox, runs' \subseteq runs, drops' = drops + 1
  PROVE  QueueInv'
<1>1. /\ D!Held' = {} /\ ready' = ready \cup D!Held /\ ~linked' /\ linked' = FALSE
      /\ holder' = [m \in Messages |-> D!NoConn]
  BY RequeueFacts DEF D!Requeue
<1>2. D!TypeOK'
  <2>1. ready' \subseteq Messages
    BY <1>1 DEF QueueInv, D!TypeOK, D!Held
  <2>2. holder' \in [Messages -> {D!NoConn, conn'}]
    BY <1>1
  <2>3. linked' \in BOOLEAN /\ inbox' \subseteq Messages /\ runs' \subseteq D!Run
    BY <1>1 DEF QueueInv, D!TypeOK
  <2>4. acked' \subseteq Messages /\ conn' \in Nat /\ finished' \in [Messages -> Nat]
        /\ drops' \in Nat
    BY DEF QueueInv, D!TypeOK
  <2> QED BY <2>1, <2>2, <2>3, <2>4 DEF D!TypeOK
<1>3. D!OnePlace' /\ D!NoOrphan' /\ WorkUnacked'
  BY <1>1 DEF QueueInv, D!OnePlace, D!NoOrphan, WorkUnacked
<1>4. ConnsKnown' /\ HandedOutOnce' /\ WorkArrived' /\ ReturnsCounted'
  BY <1>1 DEF QueueInv, ConnsKnown, HandedOutOnce, WorkArrived, ReturnsCounted
<1> QED BY <1>2, <1>3, <1>4 DEF QueueInv

LEMMA NextQueueInv == QueueInv /\ [D!Next]_(D!vars) => QueueInv'
<1> SUFFICES ASSUME QueueInv, [D!Next]_(D!vars) PROVE QueueInv'
  OBVIOUS
<1>1. ASSUME NEW m \in Messages, D!Arrive(m) \/ D!Deliver(m) \/ D!Spawn(m) PROVE QueueInv'
  BY <1>1, ArriveQueueInv, DeliverQueueInv, SpawnQueueInv
<1>2. ASSUME NEW r \in runs, D!Callback(r) PROVE QueueInv'
  BY <1>2, ReturnQueueInv DEF D!Callback
<1>3. ASSUME NEW r \in runs, D!Ack(r) PROVE QueueInv'
  BY <1>3, AckQueueInv
<1>4. CASE D!Link
  BY <1>4, LinkQueueInv
<1>5. CASE D!LoseLink
  BY <1>5, LostQueueInv DEF D!LoseLink
<1>6. CASE D!Crash
  BY <1>6, LostQueueInv DEF D!Crash
<1>7. CASE UNCHANGED D!vars
  BY <1>7 DEF D!vars, QueueInv, D!TypeOK, D!OnePlace, D!NoOrphan, ConnsKnown, WorkUnacked,
              HandedOutOnce, WorkArrived, ReturnsCounted, D!Held
<1> QED BY <1>1, <1>2, <1>3, <1>4, <1>5, <1>6, <1>7 DEF D!Next

LEMMA QueueInvHolds == D!Spec => []QueueInv
<1>1. D!Init => QueueInv
  BY InitQueueInv
<1>2. QueueInv /\ [D!Next]_(D!vars) => QueueInv'
  BY NextQueueInv
<1> QED BY <1>1, <1>2, PTL DEF D!Spec

\* The variables keep their types, and only the latest connection holds
\* messages, whatever is lost or killed (consumer.go 28-72).
THEOREM QueueTypes == D!Spec => []D!TypeOK
<1>1. QueueInv => D!TypeOK
  BY DEF QueueInv
<1> QED BY <1>1, QueueInvHolds, PTL

\* A message is ready, unacknowledged or gone, never two of them at once.
THEOREM QueueConsistent == D!Spec => []D!OnePlace
<1>1. QueueInv => D!OnePlace
  BY DEF QueueInv
<1> QED BY <1>1, QueueInvHolds, PTL

\* Every unacknowledged message has a goroutine of the live connection that
\* will ack it, or is about to get one: all handlers ack (uchat.go 160-312).
THEOREM NothingOrphaned == D!Spec => []D!NoOrphan
<1>1. QueueInv => D!NoOrphan
  BY DEF QueueInv
<1> QED BY <1>1, QueueInvHolds, PTL

-----------------------------------------------------------------------------
(* The prefetch window.  A connection's runs are counted by the messages    *)
(* they work on; Window relates them to what the broker counts.             *)

MsgsOf(c) == {r.msg : r \in {s \in runs : s.conn = c}}

Window ==
  /\ linked => Cardinality(D!Held) <= Prefetch
  /\ Cardinality(MsgsOf(conn) \cup inbox) <= Prefetch
  /\ \A c \in 1..conn : Cardinality(MsgsOf(c)) <= Prefetch

LEMMA SmallerSet ==
  ASSUME NEW T \in SUBSET Messages, NEW S \in SUBSET T
  PROVE  /\ Cardinality(S) \in Nat /\ Cardinality(T) \in Nat
         /\ Cardinality(S) <= Cardinality(T)
<1>1. IsFiniteSet(T)
  BY FS_Subset, DeliveryParameters
<1> QED BY <1>1, FS_Subset, FS_CardinalityType

LEMMA MsgsOfType == D!TypeOK => \A c : MsgsOf(c) \subseteq Messages
BY DEF D!TypeOK, MsgsOf, D!Run

LEMMA InitWindow == D!Init => Window
<1> SUFFICES ASSUME D!Init PROVE Window
  OBVIOUS
<1>1. linked = FALSE /\ conn = 0 /\ MsgsOf(conn) \cup inbox = {}
  BY DEF D!Init, D!NoConn, MsgsOf
<1>2. Cardinality({}) = 0
  BY FS_EmptySet
<1> QED BY <1>1, <1>2, DeliveryParameters DEF Window

\* A step that gives no connection more messages to work on.
LEMMA NoMoreWork ==
  ASSUME QueueInv, QueueInv', Window, UNCHANGED conn,
         linked' => linked /\ D!Held' \subseteq D!Held,
         MsgsOf(conn)' \cup inbox' \subseteq MsgsOf(conn) \cup inbox,
         \A c \in 1..conn : MsgsOf(c)' \subseteq MsgsOf(c) \cup inbox,
         \A c \in 1..conn : c # conn => MsgsOf(c)' \subseteq MsgsOf(c)
  PROVE  Window'
<1>1. D!Held \subseteq Messages /\ inbox \subseteq Messages
  BY DEF D!Held, QueueInv, D!TypeOK
<1>2. \A c : MsgsOf(c) \subseteq Messages
  BY MsgsOfType DEF QueueInv
<1>3. (linked => Cardinality(D!Held) <= Prefetch)'
  BY <1>1, SmallerSet, DeliveryParameters DEF Window
<1>4. Cardinality(MsgsOf(conn)' \cup inbox') <= Prefetch
  BY <1>1, <1>2, SmallerSet, DeliveryParameters DEF Window
<1>5. ASSUME NEW c \in 1..conn PROVE Cardinality(MsgsOf(c)') <= Prefetch
  <2>1. CASE c = conn
    <3>1. MsgsOf(c)' \subseteq MsgsOf(conn) \cup inbox
      BY <2>1
    <3> QED BY <3>1, <1>1, <1>2, SmallerSet, DeliveryParameters DEF Window
  <2>2. CASE c # conn
    BY <2>2, <1>2, SmallerSet, DeliveryParameters DEF Window
  <2> QED BY <2>1, <2>2
<1> QED BY <1>3, <1>4, <1>5 DEF Window

LEMMA NextWindow == QueueInv /\ QueueInv' /\ Window /\ [D!Next]_(D!vars) => Window'
<1> SUFFICES ASSUME QueueInv, QueueInv', Window, [D!Next]_(D!vars) PROVE Window'
  OBVIOUS
<1>1. ASSUME NEW m \in Messages, D!Arrive(m) PROVE Window'
  BY <1>1, NoMoreWork DEF D!Arrive, D!Held, MsgsOf
<1>2. ASSUME NEW m \in Messages, D!Deliver(m) PROVE Window'
  <2>1. /\ linked /\ D!Held' \subseteq D!Held \cup {m} /\ Cardinality(D!Held) < Prefetch
        /\ UNCHANGED <<conn, runs>>
    BY <1>2, SameCardinality DEF D!Deliver, D!Held, QueueInv, D!TypeOK
  <2>2. D!Held \subseteq Messages /\ D!Held' \subseteq Messages /\ IsFiniteSet(D!Held)
    BY FS_Subset, DeliveryParameters DEF D!Held
  <2>3. Cardinality(D!Held') <= Prefetch
    <3>1. IsFiniteSet(D!Held \cup {m}) /\ Cardinality(D!Held \cup {m}) <= Cardinality(D!Held) + 1
      <4>1. IsFiniteSet(D!Held \cup {m})
            /\ Cardinality(D!Held \cup {m}) = IF m \in D!Held THEN Cardinality(D!Held)
                                            ELSE Cardinality(D!Held) + 1
        BY <2>2, FS_AddElement
      <4>2. Cardinality(D!Held) \in Nat
        BY <2>2, FS_CardinalityType
      <4> QED BY <4>1, <4>2
    <3>2. D!Held \cup {m} \subseteq Messages
      BY <1>2, <2>2
    <3>3. Cardinality(D!Held') <= Cardinality(D!Held \cup {m})
      BY <2>1, <3>2, SmallerSet
    <3>4. Cardinality(D!Held) \in Nat /\ Cardinality(D!Held') \in Nat
          /\ Cardinality(D!Held \cup {m}) \in Nat
      BY <2>2, <3>2, SmallerSet
    <3> QED BY <2>1, <3>1, <3>3, <3>4, DeliveryParameters
  <2>4. MsgsOf(conn)' \cup inbox' \subseteq D!Held'
    BY <1>2, <2>1 DEF D!Deliver, QueueInv, WorkUnacked, MsgsOf
  <2>5. Cardinality(MsgsOf(conn)' \cup inbox') <= Prefetch
    BY <2>2, <2>3, <2>4, SmallerSet, DeliveryParameters
  <2>6. \A c \in 1..conn : MsgsOf(c)' = MsgsOf(c)
    BY <2>1 DEF MsgsOf
  <2> QED BY <2>1, <2>3, <2>5, <2>6 DEF Window
<1>3. ASSUME NEW m \in Messages, D!Spawn(m) PROVE Window'
  <2>1. /\ m \in inbox /\ inbox' = inbox \ {m} /\ UNCHANGED <<conn, linked, holder>>
        /\ runs' = runs \cup {[msg |-> m, conn |-> conn, step |-> "callback"]}
    BY <1>3 DEF D!Spawn, D!broker
  <2>2. D!Held' = D!Held
    BY <2>1 DEF D!Held
  <2>3. /\ MsgsOf(conn)' \cup inbox' \subseteq MsgsOf(conn) \cup inbox
        /\ \A c \in 1..conn : MsgsOf(c)' \subseteq MsgsOf(c) \cup inbox
        /\ \A c \in 1..conn : c # conn => MsgsOf(c)' \subseteq MsgsOf(c)
    BY <2>1 DEF MsgsOf
  <2> QED BY <2>1, <2>2, <2>3, NoMoreWork
<1>4. ASSUME NEW r \in runs, NEW step \in {"ok", "error"}, D!Return(r, step) PROVE Window'
  <2>1. /\ runs' = (runs \ {r}) \cup {[r EXCEPT !.step = step]}
        /\ UNCHANGED <<conn, linked, holder, inbox>>
    BY <1>4 DEF D!Return, D!broker
  <2>2. [r EXCEPT !.step = step].msg = r.msg /\ [r EXCEPT !.step = step].conn = r.conn
    BY DEF QueueInv, D!TypeOK, D!Run
  <2>3. D!Held' = D!Held
    BY <2>1 DEF D!Held
  <2>4. \A c : MsgsOf(c)' \subseteq MsgsOf(c)
    BY <2>1, <2>2 DEF MsgsOf
  <2> QED BY <2>1, <2>3, <2>4, NoMoreWork DEF MsgsOf
<1>5. ASSUME NEW r \in runs, D!Ack(r) PROVE Window'
  <2>1. /\ runs' = runs \ {r} /\ UNCHANGED <<conn, linked, inbox>>
        /\ D!Held' \subseteq D!Held
    BY <1>5 DEF D!Ack, D!Held, QueueInv, D!TypeOK
  <2> QED BY <2>1, NoMoreWork DEF MsgsOf
<1>6. CASE D!Link
  <2>1. /\ conn' = conn + 1 /\ conn \in Nat /\ runs' = runs /\ inbox' = {}
        /\ D!Held' = {}
    BY <1>6 DEF D!Link, D!broker, QueueInv, D!TypeOK, D!OnePlace, D!Held
  <2>2. MsgsOf(conn)' = {}
    BY <2>1 DEF MsgsOf, QueueInv, ConnsKnown
  <2>3. \A c \in 1..conn : MsgsOf(c)' = MsgsOf(c)
    BY <2>1 DEF MsgsOf
  <2>4. Cardinality({}) = 0
    BY FS_EmptySet
  <2>5. ASSUME NEW c \in 1..conn' PROVE Cardinality(MsgsOf(c)') <= Prefetch
    <3>1. CASE c \in 1..conn
      BY <2>3, <3>1 DEF Window
    <3>2. CASE c = conn'
      BY <2>2, <2>4, <3>2, DeliveryParameters
    <3> QED BY <2>1, <3>1, <3>2
  <2>6. Cardinality(MsgsOf(conn)' \cup inbox') <= Prefetch
    BY <2>1, <2>2, <2>4, DeliveryParameters
  <2> QED BY <2>1, <2>4, <2>5, <2>6, DeliveryParameters DEF Window
<1>7. CASE D!LoseLink \/ D!Crash
  <2>1. /\ ~linked' /\ UNCHANGED conn /\ inbox' \subseteq inbox /\ runs' \subseteq runs
    BY <1>7 DEF D!LoseLink, D!Crash, D!Requeue
  <2> QED BY <2>1, NoMoreWork DEF MsgsOf
<1>8. CASE UNCHANGED D!vars
  BY <1>8 DEF D!vars, Window, D!Held, MsgsOf
<1> QED BY <1>1, <1>2, <1>3, <1>4, <1>5, <1>6, <1>7, <1>8 DEF D!Next, D!Callback

\* No connection ever has more than Prefetch goroutines, and none of them work
\* on the same message (consumer.go 44, 66-68).
THEOREM RunsAreBounded == D!Spec => []D!RunsBounded
<1>1. ASSUME QueueInv, Window PROVE D!RunsBounded
  <2>1. \A r, s \in runs : r.msg = s.msg /\ r.conn = s.conn => r = s
    BY <1>1 DEF QueueInv, HandedOutOnce
  <2>2. ASSUME NEW c \in 1..conn
        PROVE  Cardinality({r \in runs : r.conn = c}) <= Prefetch
    <3> DEFINE now == {r \in runs : r.conn = c}
               f == [r \in now |-> r.msg]
    <3>1. f \in Injection(now, MsgsOf(c))
      BY <2>1 DEF Injection, IsInjective, MsgsOf
    <3>2. MsgsOf(c) \subseteq Messages /\ IsFiniteSet(MsgsOf(c))
      BY <1>1, MsgsOfType, FS_Subset, DeliveryParameters DEF QueueInv
    <3>3. IsFiniteSet(now) /\ Cardinality(now) <= Cardinality(MsgsOf(c))
      BY <3>1, <3>2, FS_Injection
    <3>4. Cardinality(now) \in Nat /\ Cardinality(MsgsOf(c)) \in Nat
      BY <3>2, <3>3, FS_CardinalityType
    <3> QED BY <1>1, <3>3, <3>4, DeliveryParameters DEF Window
  <2> QED BY <2>1, <2>2, SameCardinality DEF D!RunsBounded
<1>2. D!Init => Window
  BY InitWindow
<1> QED BY <1>1, <1>2, InitQueueInv, NextQueueInv, NextWindow, PTL DEF D!Spec

-----------------------------------------------------------------------------
(* Refinement.                                                             *)

\* For the queue, a lost connection moves nothing.
LEMMA RequeueIsInvisible ==
  ASSUME QueueInv, D!Requeue
  PROVE  ready' \cup D!Held' = ready \cup D!Held
BY RequeueFacts

\* A message leaves the queue only after a callback has returned for it: every
\* step of the consumer and the broker is a step of AtLeastOnce or none.
THEOREM Implements == D!Spec => D!Queue!Spec
<1>1. D!Init => D!Queue!Init
  BY DEF D!Init, D!Queue!Init, D!Held
<1>2. ASSUME QueueInv, [D!Next]_(D!vars) PROVE [D!Queue!Next]_(D!Queue!vars)
  <2> USE DEF D!Queue!vars, D!Queue!Next
  <2>1. ASSUME NEW m \in Messages, D!Arrive(m) PROVE D!Queue!Arrive(m)
    BY <1>2, <2>1 DEF D!Arrive, D!Queue!Arrive, D!Held
  <2>2. ASSUME NEW m \in Messages, D!Deliver(m) PROVE UNCHANGED D!Queue!vars
    <3>1. D!Held' = D!Held \cup {m} /\ ready' = ready \ {m} /\ m \in ready
          /\ UNCHANGED <<acked, finished>>
      BY <1>2, <2>2 DEF D!Deliver, D!Held, QueueInv, D!TypeOK, ConnsKnown
    <3> QED BY <3>1
  <2>3. ASSUME NEW m \in Messages, D!Spawn(m) PROVE UNCHANGED D!Queue!vars
    BY <2>3 DEF D!Spawn, D!broker, D!Held
  <2>4. ASSUME NEW r \in runs, NEW step \in {"ok", "error"}, D!Return(r, step)
        PROVE  D!Queue!Handle(r.msg) /\ r.msg \in Messages
    <3>1. r.msg \in Messages /\ finished \in [Messages -> Nat]
      BY <1>2 DEF QueueInv, D!TypeOK, D!Run
    <3>2. /\ finished' = [finished EXCEPT ![r.msg] = @ + 1]
          /\ UNCHANGED <<ready, holder, acked>>
      BY <2>4 DEF D!Return, D!broker
    <3>3. {m \in Messages : finished'[m] > 0} = {m \in Messages : finished[m] > 0} \cup {r.msg}
      BY <3>1, <3>2
    <3>4. D!Held' = D!Held /\ r.msg \in ready \cup D!Held \cup acked
      BY <1>2, <3>2 DEF D!Held, QueueInv, WorkArrived
    <3> QED BY <3>1, <3>2, <3>3, <3>4 DEF D!Queue!Handle
  <2>5. ASSUME NEW r \in runs, D!Ack(r)
        PROVE  r.msg \in Messages /\ (D!Queue!Settle(r.msg) \/ UNCHANGED D!Queue!vars)
    <3>1. /\ r.msg \in Messages /\ finished[r.msg] > 0
          /\ UNCHANGED <<ready, finished>>
      BY <1>2, <2>5 DEF D!Ack, QueueInv, D!TypeOK, D!Run, ReturnsCounted
    <3>2. CASE linked /\ r.conn = conn
      <4>1. acked' = acked \cup {r.msg} /\ D!Held' = D!Held \ {r.msg} /\ r.msg \in D!Held
        BY <1>2, <2>5, <3>1, <3>2 DEF D!Ack, D!Held, QueueInv, D!TypeOK, WorkUnacked
      <4>2. r.msg \notin ready
        BY <1>2, <4>1 DEF QueueInv, D!OnePlace
      <4> QED BY <3>1, <4>1, <4>2 DEF D!Queue!Settle
    <3>3. CASE ~(linked /\ r.conn = conn)
      BY <2>5, <3>1, <3>3 DEF D!Ack, D!Held
    <3> QED BY <3>1, <3>2, <3>3
  <2>6. CASE D!Link
    BY <2>6 DEF D!Link, D!broker, D!Held
  <2>7. CASE D!LoseLink \/ D!Crash
    <3>1. D!Requeue /\ UNCHANGED <<acked, finished>>
      BY <2>7 DEF D!LoseLink, D!Crash
    <3> QED BY <1>2, <3>1, RequeueIsInvisible
  <2>8. CASE UNCHANGED D!vars
    BY <2>8 DEF D!vars, D!Held
  <2> QED BY <1>2, <2>1, <2>2, <2>3, <2>4, <2>5, <2>6, <2>7, <2>8 DEF D!Next, D!Callback
<1> QED BY <1>1, <1>2, QueueInvHolds, PTL DEF D!Spec, D!Queue!Spec

-----------------------------------------------------------------------------
(* Consumer and relay together.                                            *)

\* The queue notices nothing of the relay, except that a callback takes longer.
LEMMA PathSteps == [Next]_vars => [D!Next]_(D!vars)
<1> SUFFICES ASSUME [Next]_vars PROVE [D!Next]_(D!vars)
  OBVIOUS
<1>1. CASE Consume \/ Outside
  BY <1>1 DEF Consume, Outside, D!Next
<1>2. CASE \E m \in Messages : Spawn(m)
  BY <1>2 DEF Spawn, D!Next
<1>3. ASSUME NEW r \in runs, Publish(r) PROVE UNCHANGED D!vars
  BY <1>3 DEF Publish, queue, D!vars
<1>4. ASSUME NEW r \in runs, Return(r) \/ Ack(r) PROVE D!Next
  BY <1>4 DEF Return, Ack, D!Next, D!Callback
<1>5. CASE Forward \/ Break
  BY <1>5 DEF Forward, Break, queue, D!vars
<1>6. CASE Crash
  BY <1>6 DEF Crash, D!Next
<1>7. CASE UNCHANGED vars
  BY <1>7 DEF vars, queue, D!vars
<1> QED BY <1>1, <1>2, <1>3, <1>4, <1>5, <1>6, <1>7 DEF Next, Progress

\* A queue whose callbacks wait for the relay is a queue as Delivery has it, so
\* all that is proved of Delivery holds of it (uchat.go 248-268).
THEOREM PathDelivers == Spec => D!Spec
<1>1. Init => D!Init
  BY DEF Init
<1> QED BY <1>1, PathSteps, PTL DEF Spec, D!Spec

\* With the relay in the middle a message still leaves its queue only when a
\* callback has finished for it (consumer.go 58-72, uchat.go 248-268).
THEOREM PathAtLeastOnce == Spec => D!Queue!Spec
BY PathDelivers, Implements, PTL

-----------------------------------------------------------------------------
(* What the goroutines have published.                                     *)

Sent(g) == {n \in 1..serial : pub[n] = g}

\* A connection more than faults, as long as the latest is alive
ConnsBounded ==
  /\ drops \in Nat /\ drops <= MaxFaults
  /\ conn <= drops + (IF linked THEN 1 ELSE 0)

\* The history names the goroutine of each publication, by the connection that
\* started it.
Recorded ==
  /\ serial \in Nat
  /\ pub \in Seq(Goroutines) /\ Len(pub) = serial
  /\ left \in [Goroutines -> Nat]
  /\ \A n \in 1..serial : pub[n][2] <= conn

\* A message the present connection has not handed out is not answered on it.
Unanswered ==
  \A m \in Messages :
    m \in inbox \/ (linked /\ m \notin D!Held \cup acked) => Sent(<<m, conn>>) = {}

\* A goroutine has published what it no longer has to, all of it when it returns.
Owes(r) ==
  /\ Cardinality(Sent(Of(r))) + left[Of(r)] = Replies[r.msg]
  /\ r.step # "callback" => left[Of(r)] = 0

NotTooMany == \A g \in Goroutines : Cardinality(Sent(g)) <= Replies[g[1]]

AckedInFull ==
  \A m \in acked : \E c \in 1..(MaxFaults + 1) : Cardinality(Sent(<<m, c>>)) = Replies[m]

PathInv ==
  /\ ConnsBounded
  /\ Recorded
  /\ Unanswered
  /\ \A r \in runs : Owes(r)
  /\ NotTooMany
  /\ AckedInFull

\* Whoever is at work is one of Goroutines.
LEMMA GoroutineFacts ==
  ASSUME QueueInv, ConnsBounded
  PROVE  /\ conn \in Nat /\ linked \in BOOLEAN
         /\ \A r \in runs : /\ r.msg \in Messages /\ r.conn \in 1..conn
                            /\ Of(r) = <<r.msg, r.conn>> /\ Of(r) \in Goroutines
         /\ \A r, s \in runs : Of(r) = Of(s) => r = s
         /\ \A m \in inbox : m \in Messages /\ <<m, conn>> \in Goroutines
<1>1. conn \in Nat /\ linked \in BOOLEAN /\ inbox \subseteq Messages /\ runs \subseteq D!Run
  BY DEF QueueInv, D!TypeOK
<1>2. \A c \in 1..conn : c \in 1..(MaxFaults + 1)
  BY <1>1, DeliveryParameters DEF ConnsBounded
<1>3. \A r \in runs : r.msg \in Messages /\ r.conn \in 1..conn
  BY <1>1 DEF D!Run, QueueInv, ConnsKnown
<1>4. \A r \in runs : Of(r) \in Goroutines
  BY <1>2, <1>3 DEF Of, Goroutines
<1>5. \A r, s \in runs : Of(r) = Of(s) => r = s
  BY DEF Of, QueueInv, HandedOutOnce
<1>6. inbox # {} => conn \in 1..conn
  BY <1>1 DEF QueueInv, ConnsKnown, D!NoConn
<1> QED BY <1>1, <1>2, <1>3, <1>4, <1>5, <1>6 DEF Of, Goroutines

LEMMA SentFacts ==
  ASSUME serial \in Nat
  PROVE  \A g : IsFiniteSet(Sent(g)) /\ Cardinality(Sent(g)) \in Nat
<1> SUFFICES ASSUME NEW g PROVE IsFiniteSet(Sent(g)) /\ Cardinality(Sent(g)) \in Nat
  OBVIOUS
<1>1. IsFiniteSet(1..serial)
  BY FS_Interval
<1>2. Sent(g) \subseteq 1..serial
  BY DEF Sent
<1> QED BY <1>1, <1>2, FS_Subset, FS_CardinalityType

\* One publication more counts for its goroutine and for no other.
LEMMA OneMoreSent ==
  ASSUME Recorded, NEW g \in Goroutines, pub' = Append(pub, g), serial' = serial + 1
  PROVE  /\ \A h : h # g => Sent(h)' = Sent(h)
         /\ Cardinality(Sent(g)') = Cardinality(Sent(g)) + 1
         /\ pub' \in Seq(Goroutines) /\ Len(pub') = serial'
         /\ \A n \in 1..serial' : pub'[n] = IF n = serial + 1 THEN g ELSE pub[n]
<1>1. /\ serial \in Nat /\ pub \in Seq(Goroutines) /\ Len(pub) = serial
  BY DEF Recorded
<1>2. /\ pub' \in Seq(Goroutines) /\ Len(pub') = serial'
      /\ \A n \in 1..serial' : pub'[n] = IF n = serial + 1 THEN g ELSE pub[n]
  BY <1>1, AppendProperties
<1>3. \A h : h # g => Sent(h)' = Sent(h)
  BY <1>1, <1>2 DEF Sent
<1>4. Sent(g)' = Sent(g) \cup {serial + 1} /\ serial + 1 \notin Sent(g)
  BY <1>1, <1>2 DEF Sent
<1>5. Cardinality(Sent(g)') = Cardinality(Sent(g)) + 1
  BY <1>1, <1>4, SentFacts, FS_AddElement
<1> QED BY <1>2, <1>3, <1>5

LEMMA InitPath == Init => PathInv
<1> SUFFICES ASSUME Init PROVE PathInv
  OBVIOUS
<1>1. /\ runs = {} /\ inbox = {} /\ acked = {} /\ linked = FALSE /\ conn = 0 /\ drops = 0
      /\ serial = 0 /\ pub = <<>> /\ left = [g \in Goroutines |-> 0]
  BY DEF Init, D!Init, D!NoConn
<1>2. \A g : Sent(g) = {}
  BY <1>1 DEF Sent
<1>3. Cardinality({}) = 0
  BY FS_EmptySet
<1>4. \A g \in Goroutines : Replies[g[1]] \in Nat
  BY SendPathAssumption DEF Goroutines
<1>5. ConnsBounded /\ Recorded
  BY <1>1, DeliveryParameters DEF ConnsBounded, Recorded
<1>6. NotTooMany
  BY <1>2, <1>3, <1>4 DEF NotTooMany
<1> QED BY <1>1, <1>5, <1>6 DEF PathInv, Unanswered, AckedInFull

\* A step of the queue alone: who has answered what is as before.
LEMMA QueueMovesPath ==
  ASSUME QueueInv, QueueInv', PathInv, UNCHANGED <<relay, pub>>, ConnsBounded', conn <= conn',
         \A m \in inbox' \cup (IF linked' THEN Messages \ (D!Held' \cup acked') ELSE {}) :
           \/ conn' = conn + 1
           \/ conn' = conn /\ (m \in inbox \/ (linked /\ m \notin D!Held \cup acked)),
         \A r \in runs' : \/ r \in runs
                          \/ \E s \in runs : r.msg = s.msg /\ r.conn = s.conn /\ left[Of(s)] = 0,
         \A m \in acked' : m \in acked \/ \E r \in runs : r.msg = m /\ r.step # "callback"
  PROVE  PathInv'
<1>1. /\ UNCHANGED <<serial, pub, left>> /\ \A g : Sent(g)' = Sent(g)
      /\ conn \in Nat /\ conn' \in Nat
  BY GoroutineFacts DEF relay, Sent, PathInv, QueueInv, D!TypeOK
<1>2. Recorded'
  <2>1. \A n \in 1..serial : pub[n][2] \in Nat /\ pub[n][2] <= conn
    BY ElementOfSeq DEF PathInv, Recorded, Goroutines
  <2>2. \A n \in 1..serial : pub[n][2] <= conn'
    BY <1>1, <2>1
  <2> QED BY <1>1, <2>2 DEF PathInv, Recorded
<1>3. Unanswered'
  <2> SUFFICES ASSUME NEW m \in Messages,
                      m \in inbox' \/ (linked' /\ m \notin D!Held' \cup acked')
               PROVE  Sent(<<m, conn'>>) = {}
    BY <1>1 DEF Unanswered
  <2>1. CASE conn' = conn + 1
    <3>1. \A n \in 1..serial : pub[n][2] \in Nat /\ pub[n][2] <= conn
      BY ElementOfSeq DEF PathInv, Recorded, Goroutines
    <3> QED BY <1>1, <2>1, <3>1 DEF Sent
  <2>2. CASE conn' = conn /\ (m \in inbox \/ (linked /\ m \notin D!Held \cup acked))
    BY <2>2 DEF PathInv, Unanswered
  <2> QED BY <2>1, <2>2
<1>4. \A r \in runs' : Owes(r)'
  <2> SUFFICES ASSUME NEW r \in runs' PROVE Owes(r)'
    OBVIOUS
  <2>1. CASE r \in runs
    BY <1>1, <2>1 DEF PathInv, Owes, Of
  <2>2. ASSUME NEW s \in runs, r.msg = s.msg, r.conn = s.conn, left[Of(s)] = 0 PROVE Owes(r)'
    BY <1>1, <2>2 DEF PathInv, Owes, Of
  <2> QED BY <2>1, <2>2
<1>5. NotTooMany'
  BY <1>1 DEF PathInv, NotTooMany
<1>6. AckedInFull'
  <2> SUFFICES ASSUME NEW m \in acked'
               PROVE  \E c \in 1..(MaxFaults + 1) : Cardinality(Sent(<<m, c>>)) = Replies[m]
    BY <1>1 DEF AckedInFull
  <2>1. CASE m \in acked
    BY <2>1 DEF PathInv, AckedInFull
  <2>2. ASSUME NEW r \in runs, r.msg = m, r.step # "callback"
        PROVE  \E c \in 1..(MaxFaults + 1) : Cardinality(Sent(<<m, c>>)) = Replies[m]
    <3>1. Owes(r) /\ serial \in Nat
      BY DEF PathInv, Recorded
    <3>2. Of(r) = <<m, r.conn>> /\ r.conn \in 1..(MaxFaults + 1)
      BY <2>2, GoroutineFacts, DeliveryParameters DEF PathInv, ConnsBounded
    <3>3. Cardinality(Sent(Of(r))) = Replies[m]
      BY <2>2, <3>1, SentFacts DEF Owes
    <3> QED BY <3>2, <3>3
  <2> QED BY <2>1, <2>2
<1> QED BY <1>2, <1>3, <1>4, <1>5, <1>6 DEF PathInv

LEMMA ConsumePath ==
  ASSUME QueueInv, QueueInv', PathInv, Consume
  PROVE  PathInv'
<1>1. UNCHANGED <<relay, pub>> /\ conn \in Nat /\ linked \in BOOLEAN
  BY GoroutineFacts DEF Consume, PathInv
<1>2. CASE D!Link
  <2>1. /\ ~linked /\ inbox' = {} /\ linked' = TRUE /\ conn' = conn + 1
        /\ UNCHANGED <<acked, runs, drops>>
    BY <1>2 DEF D!Link, D!broker
  <2>2. ConnsBounded'
    BY <1>1, <2>1 DEF PathInv, ConnsBounded
  <2> QED BY <1>1, <2>1, <2>2, QueueMovesPath
<1>3. ASSUME NEW m \in Messages, D!Deliver(m) PROVE PathInv'
  <2>1. /\ linked /\ m \in ready /\ inbox' = inbox \cup {m}
        /\ UNCHANGED <<acked, linked, conn, runs, drops>>
        /\ D!Held' = D!Held \cup {m}
    BY <1>3 DEF D!Deliver, D!Held, QueueInv, D!TypeOK, ConnsKnown
  <2>2. m \notin D!Held \cup acked
    BY <2>1 DEF QueueInv, D!OnePlace
  <2>3. ConnsBounded'
    BY <2>1 DEF PathInv, ConnsBounded
  <2> QED BY <1>1, <2>1, <2>2, <2>3, QueueMovesPath
<1> QED BY <1>2, <1>3 DEF Consume

LEMMA OutsidePath ==
  ASSUME QueueInv, QueueInv', PathInv, Outside
  PROVE  PathInv'
<1>1. UNCHANGED <<relay, pub>> /\ conn \in Nat /\ linked \in BOOLEAN
  BY GoroutineFacts DEF Outside, PathInv
<1>2. CASE D!LoseLink
  <2>1. /\ linked' = FALSE /\ linked /\ inbox' \subseteq inbox /\ drops < MaxFaults
        /\ drops' = drops + 1 /\ UNCHANGED <<acked, conn, runs>>
    BY <1>2 DEF D!LoseLink, D!Requeue
  <2>2. ConnsBounded'
    BY <1>1, <2>1, DeliveryParameters DEF PathInv, ConnsBounded
  <2> QED BY <1>1, <2>1, <2>2, QueueMovesPath
<1>3. ASSUME NEW m \in Messages, D!Arrive(m) PROVE PathInv'
  <2>1. UNCHANGED <<holder, acked, linked, conn, inbox, runs, drops>> /\ D!Held' = D!Held
    BY <1>3 DEF D!Arrive, D!Held
  <2>2. ConnsBounded'
    BY <2>1 DEF PathInv, ConnsBounded
  <2> QED BY <1>1, <2>1, <2>2, QueueMovesPath
<1> QED BY <1>2, <1>3 DEF Outside

LEMMA ReturnPath ==
  ASSUME QueueInv, QueueInv', PathInv, NEW r \in runs, Return(r) \/ Ack(r)
  PROVE  PathInv'
<1>1. UNCHANGED <<relay, pub>> /\ conn \in Nat /\ r \in D!Run
  BY GoroutineFacts DEF Return, Ack, PathInv, QueueInv, D!TypeOK
<1>2. CASE Return(r)
  <2>1. /\ left[Of(r)] = 0 /\ runs' = (runs \ {r}) \cup {[r EXCEPT !.step = "ok"]}
        /\ UNCHANGED <<holder, acked, linked, conn, inbox, drops>>
    BY <1>2 DEF Return, D!Return, D!broker
  <2>2. [r EXCEPT !.step = "ok"].msg = r.msg /\ [r EXCEPT !.step = "ok"].conn = r.conn
    BY <1>1 DEF D!Run
  <2>3. ConnsBounded' /\ D!Held' = D!Held
    BY <2>1 DEF PathInv, ConnsBounded, D!Held
  <2>4. \A s \in runs' : s \in runs \/ (s.msg = r.msg /\ s.conn = r.conn /\ left[Of(r)] = 0)
    BY <2>1, <2>2
  <2> QED BY <1>1, <2>1, <2>3, <2>4, QueueMovesPath
<1>3. CASE Ack(r)
  <2>1. /\ r.step # "callback" /\ runs' \subseteq runs
        /\ acked \subseteq acked' /\ acked' \subseteq acked \cup {r.msg}
        /\ D!Held \subseteq D!Held' \cup acked'
        /\ UNCHANGED <<linked, conn, inbox, drops>>
    BY <1>3 DEF Ack, D!Ack, D!Held, QueueInv, D!TypeOK
  <2>2. ConnsBounded'
    BY <2>1 DEF PathInv, ConnsBounded
  <2> QED BY <1>1, <2>1, <2>2, QueueMovesPath
<1> QED BY <1>2, <1>3

LEMMA SpawnPath ==
  ASSUME QueueInv, QueueInv', PathInv, NEW m \in Messages, Spawn(m)
  PROVE  PathInv'
<1> DEFINE run == [msg |-> m, conn |-> conn, step |-> "callback"]
           g == <<m, conn>>
<1>1. /\ m \in inbox /\ inbox' = inbox \ {m} /\ runs' = runs \cup {run}
      /\ left' = [left EXCEPT ![g] = Replies[m]]
      /\ UNCHANGED <<holder, acked, linked, conn, drops, serial, pub>>
  BY DEF Spawn, D!Spawn, D!broker
<1>2. /\ run.msg = m /\ run.step = "callback" /\ Of(run) = g
      /\ \A r \in runs : Of(r) # g /\ Of(r) \in Goroutines
      /\ g \in Goroutines
  BY <1>1, GoroutineFacts DEF Of, PathInv, QueueInv, HandedOutOnce
<1>3. /\ \A h : Sent(h)' = Sent(h)
      /\ D!Held' = D!Held
  BY <1>1 DEF Sent, D!Held
<1> HIDE DEF run, g
<1>4. /\ left' \in [Goroutines -> Nat] /\ left'[g] = Replies[m] /\ Replies[m] \in Nat
      /\ \A h \in Goroutines : h # g => left'[h] = left[h]
  BY <1>1, <1>2, SendPathAssumption DEF PathInv, Recorded
<1>5. ConnsBounded' /\ Recorded'
  BY <1>1, <1>4 DEF PathInv, ConnsBounded, Recorded
<1>6. Unanswered' /\ NotTooMany' /\ AckedInFull'
  BY <1>1, <1>3 DEF PathInv, Unanswered, NotTooMany, AckedInFull
<1>7. \A r \in runs' : Owes(r)'
  <2>1. ASSUME NEW r \in runs PROVE Owes(r)'
    <3>1. left'[Of(r)] = left[Of(r)] /\ Owes(r)
      BY <1>2, <1>4 DEF PathInv
    <3> QED BY <1>3, <3>1 DEF Owes, Of
  <2>2. ASSUME NEW r, r = run PROVE Owes(r)'
    <3>1. Of(r) = g /\ r.msg = m
      BY <1>2, <2>2
    <3>2. Sent(Of(r)) = {} /\ Cardinality({}) = 0
      BY <1>1, <3>1, FS_EmptySet DEF PathInv, Unanswered, g
    <3>3. Sent(Of(r))' = {}
      BY <1>3, <3>2
    <3>4. Cardinality(Sent(Of(r))') = 0 /\ left'[Of(r)] = Replies[m]
      BY <1>4, <3>1, <3>2, <3>3
    <3>5. 0 + Replies[m] = Replies[m]
      BY <1>4
    <3> QED BY <1>2, <2>2, <3>1, <3>4, <3>5 DEF Owes, Of
  <2> QED BY <1>1, <2>1, <2>2
<1> QED BY <1>5, <1>6, <1>7 DEF PathInv

LEMMA PublishPath ==
  ASSUME QueueInv, QueueInv', PathInv, NEW r \in runs, Publish(r)
  PROVE  PathInv'
<1>0. PICK g : g = Of(r)
  OBVIOUS
<1>1. /\ r.step = "callback" /\ left[g] > 0 /\ left' = [left EXCEPT ![g] = @ - 1]
      /\ serial' = serial + 1 /\ pub' = Append(pub, g)
      /\ UNCHANGED <<holder, acked, linked, conn, inbox, drops, runs>>
  BY <1>0 DEF Publish, R!Publish, queue
<1>2. /\ g \in Goroutines /\ g = <<r.msg, r.conn>> /\ r.msg \in Messages /\ r.conn \in 1..conn
      /\ \A s \in runs : Of(s) = g => s = r
      /\ conn \in Nat
  BY <1>0, GoroutineFacts DEF PathInv
<1>3. \A s \in runs : Of(s) \in Goroutines
  BY GoroutineFacts DEF PathInv
<1>4. /\ \A h : h # g => Sent(h)' = Sent(h)
      /\ Cardinality(Sent(g)') = Cardinality(Sent(g)) + 1 /\ Cardinality(Sent(g)) \in Nat
      /\ pub' \in Seq(Goroutines) /\ Len(pub') = serial'
      /\ \A n \in 1..serial' : pub'[n] = IF n = serial + 1 THEN g ELSE pub[n]
      /\ serial \in Nat
  BY <1>1, <1>2, OneMoreSent, SentFacts DEF PathInv, Recorded
<1>5. /\ left' \in [Goroutines -> Nat] /\ left'[g] = left[g] - 1 /\ left[g] \in Nat
      /\ \A h \in Goroutines : h # g => left'[h] = left[h]
  BY <1>1, <1>2 DEF PathInv, Recorded
<1>6. Owes(r) /\ Replies[r.msg] \in Nat
  BY <1>2, SendPathAssumption DEF PathInv
<1>7. Cardinality(Sent(g)) + left[g] = Replies[r.msg]
  BY <1>0, <1>6 DEF Owes
<1>8. Cardinality(Sent(g)') + left'[g] = Replies[r.msg]
  <2> DEFINE a == Cardinality(Sent(g))
             b == left[g]
  <2>1. a \in Nat /\ b \in Nat /\ a + b = Replies[r.msg]
    BY <1>4, <1>5, <1>7
  <2>2. Cardinality(Sent(g)') = a + 1 /\ left'[g] = b - 1
    BY <1>4, <1>5
  <2> HIDE DEF a, b
  <2>3. (a + 1) + (b - 1) = a + b
    BY <2>1
  <2> QED BY <2>1, <2>2, <2>3
<1>9. ConnsBounded'
  BY <1>1 DEF PathInv, ConnsBounded
<1>10. Recorded'
  <2>1. g[2] <= conn'
    BY <1>1, <1>2
  <2> QED BY <1>1, <1>4, <1>5, <2>1 DEF PathInv, Recorded
<1>11. Unanswered'
  <2> SUFFICES ASSUME NEW m \in Messages, m \in inbox \/ (linked /\ m \notin D!Held \cup acked)
               PROVE  Sent(<<m, conn>>)' = {}
    BY <1>1 DEF Unanswered, D!Held
  <2>1. <<m, conn>> # g
    BY <1>2 DEF QueueInv, HandedOutOnce, WorkUnacked
  <2> QED BY <1>1, <1>4, <2>1 DEF PathInv, Unanswered
<1>12. \A s \in runs' : Owes(s)'
  <2> SUFFICES ASSUME NEW s \in runs PROVE Owes(s)'
    BY <1>1
  <2>1. Owes(s)
    BY DEF PathInv
  <2>2. CASE s = r
    <3>1. Cardinality(Sent(g)') + left'[g] = Replies[r.msg]
      BY <1>8
    <3> QED BY <1>0, <1>1, <2>2, <3>1 DEF Owes, Of
  <2>3. CASE s # r
    <3>1. Of(s) # g /\ Of(s) \in Goroutines
      BY <1>2, <1>3, <2>3
    <3>2. Sent(Of(s))' = Sent(Of(s)) /\ left'[Of(s)] = left[Of(s)]
      BY <1>4, <1>5, <3>1 DEF Of
    <3> QED BY <2>1, <3>2 DEF Owes, Of
  <2> QED BY <2>2, <2>3
<1>13. NotTooMany'
  <2>1. Cardinality(Sent(g)') <= Replies[g[1]]
    BY <1>1, <1>2, <1>4, <1>5, <1>6, <1>7
  <2> QED BY <1>4, <2>1 DEF PathInv, NotTooMany
<1>14. AckedInFull'
  <2> SUFFICES ASSUME NEW m \in acked
               PROVE  \E c \in 1..(MaxFaults + 1) : Cardinality(Sent(<<m, c>>)') = Replies[m]
    BY <1>1 DEF AckedInFull
  <2>1. PICK c \in 1..(MaxFaults + 1) : Cardinality(Sent(<<m, c>>)) = Replies[m]
    BY DEF PathInv, AckedInFull
  <2>2. <<m, c>> # g
    <3>1. SUFFICES ASSUME <<m, c>> = g PROVE FALSE
      OBVIOUS
    <3>2. r.msg = m
      BY <1>2, <3>1
    <3>3. Cardinality(Sent(g)) = Replies[r.msg]
      BY <2>1, <3>1, <3>2
    <3>4. left[g] = 0
      BY <1>4, <1>5, <1>7, <3>3
    <3> QED BY <1>1, <3>4
  <2> QED BY <1>4, <2>1, <2>2
<1> QED BY <1>9, <1>10, <1>11, <1>12, <1>13, <1>14 DEF PathInv

LEMMA RelayPath ==
  ASSUME PathInv, Forward \/ Break \/ UNCHANGED vars
  PROVE  PathInv'
<1>1. UNCHANGED <<queue, pub, serial, left>>
  BY DEF Forward, Break, vars, relay, R!Receive, R!Connect, R!Take, R!Write, R!WriteFails,
         R!Requeue, R!Arrive, R!LoseLink, R!history
<1>2. \A g : Sent(g)' = Sent(g)
  BY <1>1 DEF Sent
<1>3. D!Held' = D!Held
  BY <1>1 DEF queue, D!Held
<1> QED BY <1>1, <1>2, <1>3 DEF PathInv, queue, ConnsBounded, Recorded, Unanswered, Owes, Of, NotTooMany,
                       AckedInFull

LEMMA CrashPath ==
  ASSUME QueueInv, PathInv, Crash
  PROVE  PathInv'
<1>1. /\ linked' = FALSE /\ inbox' = {} /\ runs' = {} /\ drops' = drops + 1 /\ drops < MaxFaults
      /\ left' = [g \in Goroutines |-> 0]
      /\ UNCHANGED <<acked, conn, serial, pub>>
  BY DEF Crash, D!Crash, D!Requeue, R!Crash
<1>2. conn \in Nat /\ linked \in BOOLEAN
  BY GoroutineFacts DEF PathInv
<1>3. \A g : Sent(g)' = Sent(g)
  BY <1>1 DEF Sent
<1>4. ConnsBounded'
  BY <1>1, <1>2, DeliveryParameters DEF PathInv, ConnsBounded
<1> QED BY <1>1, <1>3, <1>4 DEF PathInv, Recorded, Unanswered, NotTooMany, AckedInFull

LEMMA NextPath == QueueInv /\ QueueInv' /\ PathInv /\ [Next]_vars => PathInv'
BY ConsumePath, OutsidePath, ReturnPath, SpawnPath, PublishPath, RelayPath, CrashPath DEF Next, Progress

\* Only a goroutine that runs has something left to publish.
LeftOwed == \A g \in Goroutines : left[g] > 0 => \E r \in runs : Of(r) = g

LEMMA InitLeftOwed == Init => LeftOwed
BY DEF Init, LeftOwed

LEMMA NextLeftOwed ==
  ASSUME QueueInv, PathInv, LeftOwed, [Next]_vars
  PROVE  LeftOwed'
<1>1. CASE Consume \/ Outside \/ Forward \/ Break \/ UNCHANGED vars
  <2>1. UNCHANGED <<left, runs>>
    BY <1>1 DEF Consume, Outside, Forward, Break, vars, relay, queue, D!Link, D!broker, D!Deliver,
                D!LoseLink, D!Arrive, R!Receive, R!Connect, R!Take, R!Write, R!WriteFails,
                R!Requeue, R!Arrive, R!LoseLink, R!history
  <2> QED BY <2>1 DEF LeftOwed, Of
<1>2. ASSUME NEW m \in Messages, Spawn(m) PROVE LeftOwed'
  <2> DEFINE run == [msg |-> m, conn |-> conn, step |-> "callback"]
  <2>1. runs' = runs \cup {run} /\ left' = [left EXCEPT ![<<m, conn>>] = Replies[m]]
    BY <1>2 DEF Spawn, D!Spawn
  <2>2. Of(run) = <<m, conn>> /\ left \in [Goroutines -> Nat]
    BY DEF Of, PathInv, Recorded
  <2> QED BY <2>1, <2>2 DEF LeftOwed, Of
<1>3. ASSUME NEW r \in runs, Publish(r) PROVE LeftOwed'
  <2>1. runs' = runs /\ left' = [left EXCEPT ![Of(r)] = @ - 1] /\ left \in [Goroutines -> Nat]
    BY <1>3 DEF Publish, queue, R!Publish, PathInv, Recorded
  <2> QED BY <2>1 DEF LeftOwed, Of
<1>4. ASSUME NEW r \in runs, Return(r) PROVE LeftOwed'
  <2>1. runs' = (runs \ {r}) \cup {[r EXCEPT !.step = "ok"]} /\ left' = left
    BY <1>4 DEF Return, D!Return, relay
  <2>2. left[Of(r)] = 0
    BY <1>4 DEF Return
  <2> QED BY <2>1, <2>2 DEF LeftOwed, Of
<1>5. ASSUME NEW r \in runs, Ack(r) PROVE LeftOwed'
  <2>1. runs' = runs \ {r} /\ left' = left /\ r.step # "callback"
    BY <1>5 DEF Ack, D!Ack, relay
  <2>2. left[Of(r)] = 0
    BY <2>1 DEF PathInv, Owes
  <2> QED BY <2>1, <2>2 DEF LeftOwed, Of
<1>6. CASE Crash
  BY <1>6 DEF Crash, LeftOwed
<1> QED BY <1>1, <1>2, <1>3, <1>4, <1>5, <1>6 DEF Next, Progress

LEMMA PathInvariant == Spec => [](QueueInv /\ PathInv /\ LeftOwed)
<1>1. Init => QueueInv /\ PathInv /\ LeftOwed
  BY InitQueueInv, InitPath, InitLeftOwed DEF Init
<1>2. QueueInv /\ PathInv /\ LeftOwed /\ [Next]_vars => QueueInv' /\ PathInv' /\ LeftOwed'
  BY PathSteps, NextQueueInv, NextPath, NextLeftOwed
<1> QED BY <1>1, <1>2, PTL DEF Spec

-----------------------------------------------------------------------------
(* The relay inside the composition.  A handler of Relay has its messages   *)
(* from the beginning, a goroutine gets them when it is started: whoever    *)
(* has not published yet counts as having them.                             *)

ToPublish ==
  [g \in Goroutines |->
     IF left[g] > 0 THEN left[g] ELSE IF Sent(g) = {} THEN Replies[g[1]] ELSE 0]

Rel == INSTANCE RelayProofs WITH
  Handlers <- Goroutines,
  Work <- [g \in Goroutines |-> Replies[g[1]]],
  MaxSerial <- 0,
  faults <- breaks,
  left <- ToPublish

\* The parameters of Rel are any that Relay allows.
LEMMA RelayParameters ==
  /\ Rel!IsFiniteSet(Goroutines)
  /\ [g \in Goroutines |-> Replies[g[1]]] \in [Goroutines -> Nat]
  /\ Cap \in Nat \ {0}
  /\ MaxFaults \in Nat
  /\ 0 \in Nat
<1>1. IsFiniteSet(1..(MaxFaults + 1))
  BY SendPathAssumption, FS_Interval
<1>2. IsFiniteSet(Goroutines)
  BY <1>1, SendPathAssumption, FS_Product DEF Goroutines
<1>3. \A g \in Goroutines : Replies[g[1]] \in Nat
  BY SendPathAssumption DEF Goroutines
<1>4. Rel!IsFiniteSet(Goroutines)
  BY <1>2 DEF IsFiniteSet, Rel!IsFiniteSet
<1> QED BY <1>3, <1>4, SendPathAssumption

\* A goroutine that starts had its replies to publish already.
LEMMA SpawnRelays ==
  ASSUME QueueInv, PathInv, LeftOwed, NEW m \in Messages, Spawn(m)
  PROVE  UNCHANGED ToPublish
<1> DEFINE g == <<m, conn>>
<1>1. /\ m \in inbox /\ left' = [left EXCEPT ![g] = Replies[m]]
      /\ UNCHANGED <<serial, pub>>
  BY DEF Spawn, D!Spawn
<1>2. /\ g \in Goroutines /\ left \in [Goroutines -> Nat] /\ Replies[m] \in Nat \ {0}
      /\ \A r \in runs : Of(r) # g
  BY <1>1, GoroutineFacts, SendPathAssumption
     DEF PathInv, Recorded, QueueInv, HandedOutOnce, Of
<1>3. Sent(g) = {} /\ left[g] = 0
  BY <1>1, <1>2 DEF PathInv, Unanswered, LeftOwed
<1>4. \A h : Sent(h)' = Sent(h)
  BY <1>1 DEF Sent
<1>5. g[1] = m
  OBVIOUS
<1> HIDE DEF g
<1>6. ASSUME NEW h \in Goroutines PROVE ToPublish[h]' = ToPublish[h]
  <2>1. CASE h = g
    BY <1>1, <1>2, <1>3, <1>4, <1>5, <2>1 DEF ToPublish
  <2>2. CASE h # g
    BY <1>1, <1>2, <1>4, <2>2 DEF ToPublish
  <2> QED BY <2>1, <2>2
<1> QED BY <1>6 DEF ToPublish

\* One that publishes has one message less to publish.
LEMMA PublishRelays ==
  ASSUME QueueInv, PathInv, NEW r \in runs, Publish(r)
  PROVE  Rel!Publish(Of(r)) /\ Of(r) \in Goroutines
<1>0. PICK g : g = Of(r)
  OBVIOUS
<1>1. /\ left[g] > 0 /\ left' = [left EXCEPT ![g] = @ - 1] /\ Len(chan) < Cap
      /\ chan' = Append(chan, serial + 1)
      /\ serial' = serial + 1 /\ pub' = Append(pub, g)
      /\ UNCHANGED <<pc, held, up, wire, arrived, lost, requeued, breaks>>
  BY <1>0 DEF Publish, R!Publish
<1>2. g \in Goroutines /\ left \in [Goroutines -> Nat]
  BY <1>0, GoroutineFacts DEF PathInv, Recorded
<1>3. /\ \A h : h # g => Sent(h)' = Sent(h)
      /\ Sent(g)' # {}
  <2>1. /\ \A h : h # g => Sent(h)' = Sent(h)
        /\ \A n \in 1..serial' : pub'[n] = IF n = serial + 1 THEN g ELSE pub[n]
    BY <1>1, <1>2, OneMoreSent DEF PathInv
  <2>2. serial + 1 \in Sent(g)'
    BY <1>1, <2>1 DEF Sent, PathInv, Recorded
  <2> QED BY <2>1, <2>2
<1>4. ToPublish[g] = left[g] /\ ToPublish[g] > 0
  BY <1>1, <1>2 DEF ToPublish
<1>5. ToPublish' = [ToPublish EXCEPT ![g] = @ - 1]
  <2>1. ASSUME NEW h \in Goroutines
        PROVE  ToPublish[h]' = IF h = g THEN ToPublish[h] - 1 ELSE ToPublish[h]
    <3>1. CASE h = g
      BY <1>1, <1>2, <1>3, <1>4, <3>1 DEF ToPublish
    <3>2. CASE h # g
      BY <1>1, <1>2, <1>3, <3>2 DEF ToPublish
    <3> QED BY <3>1, <3>2
  <2> QED BY <1>2, <2>1 DEF ToPublish
<1> QED BY <1>0, <1>1, <1>2, <1>4, <1>5 DEF Rel!Publish

\* After a crash those who had not published anything may start again.
LEMMA CrashRelays ==
  ASSUME PathInv, Crash
  PROVE  Rel!Crash
<1> DEFINE again == {g \in Goroutines : Sent(g) = {}}
<1>1. /\ left' = [g \in Goroutines |-> 0] /\ UNCHANGED <<serial, pub>>
      /\ R!Crash
  BY DEF Crash, R!Crash
<1>2. \A g : Sent(g)' = Sent(g)
  BY <1>1 DEF Sent
<1>3. /\ left \in [Goroutines -> Nat]
      /\ \A g \in Goroutines : Replies[g[1]] > 0
  BY SendPathAssumption DEF PathInv, Recorded, Goroutines
<1>4. again \subseteq {g \in Goroutines : ToPublish[g] > 0}
  BY <1>3 DEF ToPublish
<1>5. ToPublish' = [g \in Goroutines |->
                      IF g \in again THEN [h \in Goroutines |-> Replies[h[1]]][g] ELSE 0]
  BY <1>1, <1>2 DEF ToPublish
<1> HIDE DEF again
<1> QED BY <1>1, <1>4, <1>5 DEF R!Crash, Rel!Crash, R!SetOf, Rel!SetOf, R!InHand, Rel!InHand,
                                R!None, Rel!None

\* Every behaviour of queue, consumer and relay together is a behaviour of the
\* relay with the goroutines as its handlers: starting goroutines late, and only
\* for messages that are in the queue, shows it nothing new (receive.go 44-105).
THEOREM PathRelays == Spec => Rel!Spec
<1>1. ASSUME Init PROVE Rel!Init
  <2>1. \A g : Sent(g) = {}
    BY <1>1 DEF Init, Sent
  <2>2. ToPublish = [g \in Goroutines |-> Replies[g[1]]]
    BY <1>1, <2>1 DEF Init, ToPublish
  <2> QED BY <1>1, <2>2 DEF Init, Rel!Init, R!None, Rel!None
<1>2. ASSUME QueueInv, PathInv, LeftOwed, [Next]_vars PROVE [Rel!Next]_(Rel!vars)
  <2> USE DEF Rel!Next, Rel!vars
  <2>1. ASSUME UNCHANGED <<serial, pub, left>> PROVE UNCHANGED ToPublish
    BY <2>1 DEF ToPublish, Sent
  <2>2. CASE \/ Consume \/ Outside \/ UNCHANGED vars
             \/ \E r \in runs : Return(r) \/ Ack(r)
    <3>1. UNCHANGED <<relay, pub>>
      BY <2>2 DEF Consume, Outside, vars, Return, Ack
    <3> QED BY <2>1, <3>1 DEF relay
  <2>3. ASSUME NEW m \in Messages, Spawn(m) PROVE UNCHANGED Rel!vars
    BY <1>2, <2>3, SpawnRelays DEF Spawn
  <2>4. ASSUME NEW r \in runs, Publish(r) PROVE Rel!Next
    BY <1>2, <2>4, PublishRelays
  <2>5. CASE Forward
    <3>1. UNCHANGED <<serial, pub, left>>
      BY <2>5 DEF Forward, R!Receive, R!Connect, R!Take, R!Write, R!WriteFails, R!Requeue,
                  R!Arrive, R!history
    <3>2. UNCHANGED ToPublish
      BY <2>1, <3>1
    <3>3. Rel!Receive \/ Rel!Arrive
      BY <2>5, <3>2
         DEF Forward, R!Receive, R!Connect, R!Take, R!Write, R!WriteFails, R!Requeue, R!Arrive,
             R!history, R!None, Rel!Receive, Rel!Connect, Rel!Take, Rel!Write, Rel!WriteFails,
             Rel!Requeue, Rel!Arrive, Rel!history, Rel!None
    <3> QED BY <3>3
  <2>6. CASE Break
    <3>1. UNCHANGED <<serial, pub, left>>
      BY <2>6 DEF Break, R!LoseLink
    <3>2. Rel!LoseLink
      BY <2>1, <2>6, <3>1 DEF Break, R!LoseLink, Rel!LoseLink, R!SetOf, Rel!SetOf
    <3> QED BY <3>2
  <2>7. CASE Crash
    BY <1>2, <2>7, CrashRelays
  <2> QED BY <1>2, <2>2, <2>3, <2>4, <2>5, <2>6, <2>7 DEF Next, Progress
<1> QED BY <1>1, <1>2, PathInvariant, PTL DEF Spec, Rel!Spec

\* Both instances have the operator of FiniteSets under names of their own.
LEMMA SameCardinalities ==
  \A S : R!Cardinality(S) = Cardinality(S) /\ Rel!Cardinality(S) = Cardinality(S)
BY DEF R!Cardinality, Rel!Cardinality, Cardinality

\* What is proved of the relay alone holds of the one in the process.
LEMMA RelayInside ==
  Spec => [](Rel!TypeOK /\ Rel!Conserved /\ Rel!OvertakenWereRequeued /\ Rel!FaultsOnly)
<1>1. Rel!Spec => []Rel!TypeOK
  BY RelayParameters, Rel!TypeCorrect
<1>2. Rel!Spec => []Rel!Conserved
  BY RelayParameters, Rel!Conservation
<1>3. Rel!Spec => []Rel!OvertakenWereRequeued
  BY RelayParameters, Rel!OrderKept
<1>4. Rel!Spec => []Rel!FaultsOnly
  BY RelayParameters, Rel!OnlyFaultsHurt
<1> QED BY <1>1, <1>2, <1>3, <1>4, PathRelays, PTL

-----------------------------------------------------------------------------
(* Theorems.                                                               *)

\* Counting the answers to m: each is told by its connection and by its rank
\* among those that came by that connection.
LEMMA AnswersCounted ==
  ASSUME QueueInv, PathInv, NEW m \in Messages
  PROVE  Cardinality(Published(m)) <= Replies[m] * (1 + drops)
<1> DEFINE rank(n) == Cardinality({k \in Sent(pub[n]) : k <= n})
           f == [n \in Published(m) |-> <<rank(n), pub[n][2]>>]
           places == (1..Replies[m]) \X (1..(1 + drops))
<1>1. /\ serial \in Nat /\ drops \in Nat /\ Replies[m] \in Nat /\ conn \in Nat /\ conn <= drops + 1
      /\ \A n \in 1..serial : pub[n] \in Goroutines /\ pub[n][2] <= conn
  BY GoroutineFacts, SendPathAssumption, ElementOfSeq DEF PathInv, Recorded, ConnsBounded
<1>2. \A n \in Published(m) : /\ n \in 1..serial /\ n \in Sent(pub[n])
                              /\ pub[n] = <<m, pub[n][2]>> /\ pub[n][2] \in 1..(1 + drops)
  BY <1>1 DEF Published, Sent, Goroutines
<1>3. ASSUME NEW n \in Published(m)
      PROVE  rank(n) \in 1..Replies[m]
  <2> DEFINE S == {k \in Sent(pub[n]) : k <= n}
  <2>1. n \in S /\ S \subseteq Sent(pub[n])
    BY <1>1, <1>2
  <2>2. IsFiniteSet(Sent(pub[n])) /\ Cardinality(Sent(pub[n])) \in Nat
    BY <1>1, SentFacts
  <2>3. Cardinality(Sent(pub[n])) <= Replies[m]
    BY <1>1, <1>2 DEF PathInv, NotTooMany
  <2>4. IsFiniteSet(S) /\ Cardinality(S) <= Cardinality(Sent(pub[n])) /\ Cardinality(S) \in Nat
    BY <2>1, <2>2, FS_Subset, FS_CardinalityType
  <2>5. Cardinality(S) # 0
    BY <2>1, <2>4, FS_EmptySet
  <2> HIDE DEF S
  <2>6. Cardinality(S) \in 1..Replies[m]
    BY <1>1, <2>2, <2>3, <2>4, <2>5
  <2> QED BY <2>6 DEF S
<1>4. ASSUME NEW a \in Published(m), NEW b \in Published(m), pub[a] = pub[b], a < b
      PROVE  rank(a) # rank(b)
  <2> DEFINE A == {k \in Sent(pub[a]) : k <= a}
             B == {k \in Sent(pub[b]) : k <= b}
  <2>1. A \subseteq B /\ b \in B /\ b \notin A
    BY <1>1, <1>2, <1>4 DEF Sent
  <2>2. IsFiniteSet(Sent(pub[b]))
    BY <1>1, SentFacts
  <2>3. IsFiniteSet(B)
    BY <2>2, FS_Subset
  <2> HIDE DEF A, B
  <2>4. Cardinality(A) # Cardinality(B)
    BY <2>1, <2>3, FS_Subset
  <2> QED BY <2>4 DEF A, B
<1>5. f \in Injection(Published(m), places)
  <2>1. f \in [Published(m) -> places]
    BY <1>2, <1>3
  <2>2. ASSUME NEW a \in Published(m), NEW b \in Published(m), f[a] = f[b] PROVE a = b
    <3> HIDE DEF rank
    <3>1. rank(a) = rank(b) /\ pub[a][2] = pub[b][2]
      BY <2>2
    <3>2. pub[a] = pub[b]
      BY <1>2, <3>1
    <3>3. a \in Nat /\ b \in Nat
      BY <1>2
    <3> QED BY <1>4, <3>1, <3>2, <3>3
  <2> QED BY <2>1, <2>2 DEF Injection, IsInjective
<1>6. /\ IsFiniteSet(1..Replies[m]) /\ Cardinality(1..Replies[m]) = Replies[m]
      /\ IsFiniteSet(1..(1 + drops)) /\ Cardinality(1..(1 + drops)) = 1 + drops
  <2>1. \A n \in Nat : IsFiniteSet(1..n) /\ Cardinality(1..n) = n
    <3> SUFFICES ASSUME NEW n \in Nat PROVE IsFiniteSet(1..n) /\ Cardinality(1..n) = n
      OBVIOUS
    <3>1. IsFiniteSet(1..n) /\ Cardinality(1..n) = IF 1 > n THEN 0 ELSE n - 1 + 1
      BY FS_Interval
    <3> QED BY <3>1
  <2>2. 1 + drops \in Nat
    BY <1>1
  <2> QED BY <1>1, <2>1, <2>2
<1>7. IsFiniteSet(places) /\ Cardinality(places) = Replies[m] * (1 + drops)
  <2> DEFINE S == 1..Replies[m]
             T == 1..(1 + drops)
  <2>1. IsFiniteSet(S) /\ IsFiniteSet(T)
    BY <1>6
  <2> HIDE DEF S, T
  <2>2. IsFiniteSet(S \X T) /\ Cardinality(S \X T) = Cardinality(S) * Cardinality(T)
    BY <2>1, FS_Product
  <2>3. places = S \X T
    BY DEF S, T
  <2>4. Cardinality(S) = Replies[m] /\ Cardinality(T) = 1 + drops
    BY <1>6 DEF S, T
  <2> HIDE DEF places
  <2> QED BY <2>2, <2>3, <2>4
<1> QED BY <1>5, <1>7, FS_Injection

\* What leaves the queue has been answered in full, and once for each time a
\* connection brought it; without a fault of the relay every answer is on its
\* way (uchat.go 248-268, receive.go 82-101).
THEOREM AcksAnswered == Spec => []AckedAnswered
<1>1. ASSUME QueueInv, PathInv, Rel!Conserved, Rel!FaultsOnly PROVE AckedAnswered
  <2>1. ASSUME NEW m \in acked
        PROVE  \E c \in 1..(MaxFaults + 1) :
                 /\ Cardinality({n \in 1..serial : pub[n] = <<m, c>>}) = Replies[m]
                 /\ breaks = 0 => {n \in 1..serial : pub[n] = <<m, c>>} \subseteq R!SetOf(R!Trail)
    <3>1. PICK c \in 1..(MaxFaults + 1) : Cardinality(Sent(<<m, c>>)) = Replies[m]
      BY <1>1 DEF PathInv, AckedInFull
    <3>2. breaks = 0 => 1..serial \subseteq R!SetOf(R!Trail)
      BY <1>1 DEF Rel!Conserved, Rel!FaultsOnly, Rel!SetOf, Rel!Trail, Rel!InHand, Rel!None,
                  R!SetOf, R!Trail, R!InHand, R!None
    <3> QED BY <3>1, <3>2 DEF Sent
  <2> QED BY <1>1, <2>1, AnswersCounted DEF AckedAnswered
<1> QED BY <1>1, PathInvariant, RelayInside, PTL

\* The relay of the process neither drops nor doubles what its goroutines
\* publish, and overtakes only what it put back, although it is restarted
\* together with the consumer (receive.go 82-101).
THEOREM PathConserves == Spec => [](R!Conserved /\ R!OvertakenWereRequeued /\ R!FaultsOnly)
<1>1. Rel!Conserved /\ Rel!OvertakenWereRequeued /\ Rel!FaultsOnly
        => R!Conserved /\ R!OvertakenWereRequeued /\ R!FaultsOnly
  BY SameCardinalities
     DEF Rel!Conserved, Rel!OvertakenWereRequeued, Rel!FaultsOnly, Rel!SetOf, Rel!Trail,
         Rel!InHand, Rel!None, R!Conserved, R!OvertakenWereRequeued, R!FaultsOnly, R!SetOf,
         R!Trail, R!InHand, R!None
<1> QED BY <1>1, RelayInside, PTL

\* By way of the relay the whole path is a queue that loses messages, and lets
\* one fall back, on account of the relay's faults only.
THEOREM PathLosesByFaults == Spec => Rel!LossyDelivery
<1>1. Rel!Spec => Rel!LossyDelivery
  BY RelayParameters, Rel!ImplementsLossyQueue
<1> QED BY <1>1, PathRelays, PTL

\* While the relay's goroutines wait nobody else loses track of a message.
THEOREM PathOrphansNothing == Spec => []NoOrphan
<1>1. QueueInv => NoOrphan
  BY DEF QueueInv, NoOrphan
<1> QED BY <1>1, PathInvariant, PTL

\* Nothing but a reader that waits for room in its own channel brings the process
\* to a halt with work left to do: neither the window of the consumer, nor the
\* channel being full, nor goroutines of lost connections (consumer.go 44-72,
\* receive.go 44-105).
THEOREM StopsOnlyWedged == Spec => []OnlyWedgeStops
<1>1. ASSUME QueueInv, PathInv, Rel!TypeOK, Rel!Conserved, ~CanMove, ~R!Wedged
      PROVE  Settled
  <2>1. linked /\ inbox = {}
    BY <1>1 DEF CanMove, QueueInv, D!TypeOK
  <2>2. pc = "select" /\ chan = <<>>
    <3>1. /\ pc \in {"connect", "select", "publish", "requeue"}
          /\ Len(chan) \in Nat /\ Len(chan) <= Cap /\ Cap \in Nat
      BY <1>1, SendPathAssumption, LenProperties DEF Rel!TypeOK
    <3> QED BY <1>1, <3>1 DEF CanMove, R!Wedged
  <2>3. runs = {}
    <3>1. Len(chan) < Cap
      BY <2>2, SendPathAssumption
    <3> QED BY <1>1, <3>1 DEF CanMove
  <2>4. D!Held = {}
    <3>1. D!Held \subseteq Messages
      BY DEF D!Held
    <3> QED BY <1>1, <2>1, <2>3, <3>1 DEF QueueInv, D!NoOrphan
  <2>5. ready = {}
    <3>1. Cardinality(D!Held) < Prefetch
      BY <2>4, FS_EmptySet, DeliveryParameters
    <3> QED BY <1>1, <2>1, <3>1 DEF CanMove
  <2>6. wire = <<>> /\ held = R!None
    BY <1>1, <2>2 DEF CanMove, Rel!TypeOK, Rel!None, R!None
  <2>7. 1..serial \subseteq R!SetOf(arrived) \cup lost
    <3>1. Rel!Trail = arrived
      <4>1. arrived \in Seq(1..serial)
        BY <1>1 DEF Rel!TypeOK
      <4>2. arrived \o <<>> = arrived
        BY <4>1, ConcatEmptySeq
      <4>3. Rel!InHand = <<>>
        BY <2>6 DEF Rel!InHand, Rel!None, R!None
      <4> QED BY <2>2, <2>6, <4>2, <4>3 DEF Rel!Trail
    <3> QED BY <1>1, <3>1 DEF Rel!Conserved, Rel!SetOf, R!SetOf
  <2> QED BY <2>1, <2>3, <2>4, <2>5, <2>7 DEF Settled
<1> QED BY <1>1, PathInvariant, RelayInside, PTL DEF OnlyWedgeStops

\* Once every goroutine waits for room in a channel whose reader waits for room,
\* nothing is published, returned or acked before a restart; lost connections
\* and redeliveries only add goroutines that wait (receive.go 97, consumer.go 67).
THEOREM StalledStays == Spec => StalledForGood
<1>1. ASSUME QueueInv, PathInv, [Next]_vars
      PROVE  [Stalled => (Stalled' /\ runs \subseteq runs' /\ UNCHANGED <<acked, serial>>) \/ Crash]_vars
  <2> SUFFICES ASSUME Stalled, Next, ~Crash
               PROVE  Stalled' /\ runs \subseteq runs' /\ UNCHANGED <<acked, serial>>
    BY <1>1
  <2>1. /\ pc = "requeue" /\ Len(chan) = Cap /\ Cap \in Nat /\ runs # {}
        /\ \A r \in runs : r.step = "callback" /\ left[Of(r)] > 0
    BY SendPathAssumption DEF Stalled, R!Wedged
  <2>2. ASSUME UNCHANGED <<acked, serial, runs, left, pc, chan>>
        PROVE  Stalled' /\ runs \subseteq runs' /\ UNCHANGED <<acked, serial>>
    BY <2>1, <2>2 DEF Stalled, R!Wedged, Of
  <2>3. CASE Consume \/ Outside
    BY <2>2, <2>3 DEF Consume, Outside, D!Link, D!broker, D!LoseLink, D!Deliver, D!Arrive, relay
  <2>4. ASSUME NEW m \in Messages, Spawn(m)
        PROVE  Stalled' /\ runs \subseteq runs' /\ UNCHANGED <<acked, serial>>
    <3> DEFINE run == [msg |-> m, conn |-> conn, step |-> "callback"]
    <3>1. /\ m \in inbox /\ runs' = runs \cup {run} /\ left' = [left EXCEPT ![<<m, conn>>] = Replies[m]]
          /\ UNCHANGED <<acked, serial, pc, chan>>
      BY <2>4 DEF Spawn, D!Spawn, D!broker
    <3>2. /\ <<m, conn>> \in Goroutines /\ left \in [Goroutines -> Nat] /\ Replies[m] \in Nat \ {0}
          /\ \A r \in runs : Of(r) \in Goroutines
      BY <1>1, <3>1, GoroutineFacts, SendPathAssumption DEF PathInv, Recorded
    <3>3. run.step = "callback" /\ Of(run) = <<m, conn>>
      BY DEF Of
    <3>4. ASSUME NEW r \in runs' PROVE r.step = "callback" /\ left'[Of(r)] > 0
      <4>1. CASE r = run
        BY <3>1, <3>2, <3>3, <4>1
      <4>2. CASE r \in runs
        BY <2>1, <3>1, <3>2, <4>2
      <4> QED BY <3>1, <4>1, <4>2
    <3> QED BY <2>1, <3>1, <3>4 DEF Stalled, R!Wedged, Of
  <2>5. ASSUME NEW r \in runs PROVE ~Publish(r) /\ ~Return(r) /\ ~Ack(r)
    BY <2>1, <2>5 DEF Publish, R!Publish, Return, Ack, D!Ack
  <2>6. ~R!Receive
    BY <2>1 DEF R!Receive, R!Connect, R!Take, R!Write, R!WriteFails, R!Requeue
  <2>7. CASE Forward \/ Break
    BY <2>2, <2>6, <2>7 DEF Forward, Break, R!Arrive, R!LoseLink, R!history, queue
  <2> QED BY <2>3, <2>4, <2>5, <2>7 DEF Next, Progress
<1> QED BY <1>1, PathInvariant, PTL DEF Spec, StalledForGood
=============================================================================
