---------------------------- MODULE RelayProofs ----------------------------
(***************************************************************************)
(* The relay keeps its types and capacity, loses and reorders only on      *)
(* account of faults, so that it implements LossyQueue, and once wedged    *)
(* stays wedged, for any handlers, any capacity and any number of faults.  *)
(***************************************************************************)
EXTENDS Relay, SequenceTheorems, FiniteSetTheorems, TLAPS

LEMMA InitTypeOK == Init => TypeOK
<1> SUFFICES ASSUME Init PROVE TypeOK
  OBVIOUS
<1>1. chan \in Seq(1..serial) /\ wire \in Seq(1..serial) /\ arrived \in Seq(1..serial)
  BY DEF Init
<1>2. Len(chan) <= Cap
  BY RelayAssumption DEF Init
<1>3. left \in [Handlers -> Nat]
  BY RelayAssumption DEF Init
<1>4. pc \in {"connect", "select", "publish", "requeue"}
      /\ held \in 0..serial /\ (held # None <=> pc \in {"publish", "requeue"})
  BY DEF Init, None
<1>5. lost \subseteq 1..serial /\ requeued \subseteq 1..serial
      /\ serial \in Nat /\ faults \in Nat
  BY DEF Init
<1>6. up \in BOOLEAN /\ (~up => wire = <<>>)
  BY DEF Init
<1> QED BY <1>1, <1>2, <1>3, <1>4, <1>5, <1>6 DEF TypeOK

\* Sequences of serial numbers stay such sequences when the serial grows.
LEMMA SerialGrows ==
  ASSUME NEW n \in Nat, NEW s \in Seq(1..n)
  PROVE  s \in Seq(1..(n + 1)) /\ Append(s, n + 1) \in Seq(1..(n + 1))
<1>1. s \in Seq(1..(n + 1))
  <2>1. 1..n \subseteq 1..(n + 1)
    OBVIOUS
  <2> QED BY <2>1, SeqDef
<1> QED BY <1>1

LEMMA SetOfType ==
  ASSUME NEW S, NEW s \in Seq(S)
  PROVE  SetOf(s) \subseteq S
BY ElementOfSeq DEF SetOf

LEMMA NextTypeOK == TypeOK /\ [Next]_vars => TypeOK'
<1> SUFFICES ASSUME TypeOK, [Next]_vars PROVE TypeOK'
  OBVIOUS
<1>1. ASSUME NEW h \in Handlers, Publish(h) PROVE TypeOK'
  <2>1. serial \in Nat /\ serial' = serial + 1 /\ chan \in Seq(1..serial)
    BY <1>1 DEF Publish, TypeOK
  <2>2. chan' \in Seq(1..serial') /\ Len(chan') <= Cap
    BY <1>1, <2>1, SerialGrows, RelayAssumption DEF Publish
  <2>3. wire' \in Seq(1..serial') /\ arrived' \in Seq(1..serial')
    BY <1>1, <2>1, SerialGrows DEF Publish, TypeOK
  <2>4. left' \in [Handlers -> Nat]
    BY <1>1 DEF Publish, TypeOK
  <2>5. held' \in 0..serial' /\ lost' \subseteq 1..serial' /\ requeued' \subseteq 1..serial'
    BY <1>1, <2>1 DEF Publish, TypeOK
  <2>6. /\ pc' \in {"connect", "select", "publish", "requeue"} /\ up' \in BOOLEAN
        /\ held' # None <=> pc' \in {"publish", "requeue"}
        /\ ~up' => wire' = <<>>
        /\ serial' \in Nat /\ faults' \in Nat
    BY <1>1, <2>1 DEF Publish, TypeOK
  <2> QED BY <2>2, <2>3, <2>4, <2>5, <2>6 DEF TypeOK
<1>2. CASE Connect
  BY <1>2 DEF Connect, history, TypeOK
<1>3. CASE Take
  <2>1. chan \in Seq(1..serial) /\ chan # <<>> /\ Len(chan) <= Cap
    BY <1>3 DEF Take, TypeOK
  <2>2. Head(chan) \in 1..serial /\ Tail(chan) \in Seq(1..serial)
        /\ Len(Tail(chan)) = Len(chan) - 1 /\ Len(chan) \in Nat
    BY <2>1, HeadTailProperties, LenProperties
  <2>3. Len(Tail(chan)) <= Cap /\ serial \in Nat
    BY <2>1, <2>2, RelayAssumption DEF TypeOK
  <2> QED BY <1>3, <2>2, <2>3 DEF Take, history, TypeOK, None
<1>4. CASE Write
  <2>1. held \in 1..serial
    BY <1>4 DEF Write, TypeOK, None
  <2>2. wire' \in Seq(1..serial)
    BY <1>4, <2>1 DEF Write, TypeOK
  <2> QED BY <1>4, <2>2 DEF Write, history, TypeOK, None
<1>5. CASE WriteFails
  BY <1>5 DEF WriteFails, history, TypeOK
<1>6. CASE Requeue
  <2>1. held \in 1..serial
    BY <1>6 DEF Requeue, TypeOK, None
  <2>2. chan' \in Seq(1..serial) /\ Len(chan') <= Cap
    BY <1>6, <2>1, RelayAssumption DEF Requeue, TypeOK
  <2> QED BY <1>6, <2>1, <2>2 DEF Requeue, TypeOK, None
<1>7. CASE Arrive
  <2>1. Head(wire) \in 1..serial /\ Tail(wire) \in Seq(1..serial)
    BY <1>7 DEF Arrive, TypeOK
  <2>2. arrived' \in Seq(1..serial)
    BY <1>7, <2>1 DEF Arrive, TypeOK
  <2> QED BY <1>7, <2>1, <2>2 DEF Arrive, history, TypeOK
<1>8. CASE LoseLink
  <2>1. SetOf(wire) \subseteq 1..serial
    BY SetOfType DEF TypeOK
  <2>2. lost' \subseteq 1..serial
    BY <1>8, <2>1 DEF LoseLink, TypeOK
  <2>3. wire' = <<>> /\ wire' \in Seq(1..serial)
    BY <1>8 DEF LoseLink
  <2>4. faults' \in Nat /\ UNCHANGED <<chan, left, pc, held, arrived, serial, requeued>>
    BY <1>8 DEF LoseLink, TypeOK
  <2>5. up' \in BOOLEAN
    BY <1>8 DEF LoseLink
  <2> QED BY <2>2, <2>3, <2>4, <2>5 DEF TypeOK
<1>9. CASE Crash
  <2>1. SetOf(wire) \subseteq 1..serial /\ SetOf(chan) \subseteq 1..serial
    BY SetOfType DEF TypeOK
  <2>2. SetOf(InHand) \subseteq 1..serial
    BY DEF SetOf, InHand, TypeOK, None
  <2>3. lost' \subseteq 1..serial
    BY <1>9, <2>1, <2>2 DEF Crash, TypeOK
  <2>4. left' \in [Handlers -> Nat]
    BY <1>9, RelayAssumption DEF Crash
  <2>5. wire' = <<>> /\ chan' \in Seq(1..serial) /\ wire' \in Seq(1..serial)
    BY <1>9 DEF Crash
  <2>6. Len(chan') <= Cap
    BY <1>9, RelayAssumption DEF Crash
  <2>7. held' = None /\ held' \in 0..serial
    BY <1>9 DEF Crash, TypeOK, None
  <2>8. pc' = "connect" /\ faults' \in Nat /\ UNCHANGED <<arrived, serial, requeued>>
    BY <1>9 DEF Crash, TypeOK
  <2>9. up' \in BOOLEAN
    BY <1>9 DEF Crash
  <2> QED BY <2>3, <2>4, <2>5, <2>6, <2>7, <2>8, <2>9 DEF TypeOK
<1>10. CASE UNCHANGED vars
  BY <1>10 DEF vars, TypeOK
<1> QED BY <1>1, <1>2, <1>3, <1>4, <1>5, <1>6, <1>7, <1>8, <1>9, <1>10 DEF Next, Receive

\* The relay keeps its types, the channel its capacity, and the goroutine has a
\* message in its hand exactly while it has to get rid of one (receive.go 44-105).
THEOREM TypeCorrect == Spec => []TypeOK
<1> QED BY InitTypeOK, NextTypeOK, PTL DEF Spec

\* A reader that waits for room in its own full channel waits until the process
\* is restarted, and so does every handler (receive.go 97).
THEOREM WedgedStays == Spec => WedgedForGood
<1>1. ASSUME TypeOK, [Next]_vars
      PROVE  [Wedged => (Wedged' /\ UNCHANGED <<chan, left>>) \/ Crash]_vars
  <2> SUFFICES ASSUME Wedged, Next, ~Crash
               PROVE  Wedged' /\ UNCHANGED <<chan, left>>
    BY <1>1
  <2>1. \A h \in Handlers : ~Publish(h)
    BY RelayAssumption DEF Wedged, Publish
  <2>2. ~Receive
    BY RelayAssumption DEF Wedged, Receive, Connect, Take, Write, WriteFails, Requeue
  <2>3. CASE Arrive
    BY <2>3 DEF Arrive, Wedged, history
  <2>4. CASE LoseLink
    BY <2>4 DEF LoseLink, Wedged
  <2> QED BY <2>1, <2>2, <2>3, <2>4 DEF Next
<1> QED BY <1>1, TypeCorrect, PTL DEF WedgedForGood, Spec

-----------------------------------------------------------------------------
(* The order of the messages.  InOrder(s, R): no message of s is there      *)
(* twice, and only messages of R have older ones behind them.               *)

MayPrecede(x, y, R) == x # y /\ (y < x => y \in R)

InOrder(s, R) == \A i, j \in DOMAIN s : i < j => MayPrecede(s[i], s[j], R)

Before(X, Y, R) == \A x \in X, y \in Y : MayPrecede(x, y, R)

LEMMA ConcatSetOf ==
  ASSUME NEW S, NEW s \in Seq(S), NEW t \in Seq(S)
  PROVE  SetOf(s \o t) = SetOf(s) \cup SetOf(t)
<1> DEFINE u == s \o t
<1>1. /\ Len(s) \in Nat /\ Len(t) \in Nat
      /\ DOMAIN s = 1..Len(s) /\ DOMAIN t = 1..Len(t) /\ DOMAIN u = 1..(Len(s) + Len(t))
      /\ \A i \in 1..(Len(s) + Len(t)) : u[i] = IF i <= Len(s) THEN s[i] ELSE t[i - Len(s)]
  BY ConcatProperties, LenProperties
<1> HIDE DEF u
<1>2. ASSUME NEW x \in SetOf(u) PROVE x \in SetOf(s) \cup SetOf(t)
  <2>1. PICK i \in DOMAIN u : u[i] = x
    BY DEF SetOf
  <2>2. CASE i <= Len(s)
    BY <1>1, <2>1, <2>2 DEF SetOf
  <2>3. CASE i > Len(s)
    <3>1. i - Len(s) \in DOMAIN t /\ t[i - Len(s)] = x
      BY <1>1, <2>1, <2>3
    <3> QED BY <3>1 DEF SetOf
  <2> QED BY <1>1, <2>1, <2>2, <2>3
<1>3. ASSUME NEW x \in SetOf(s) PROVE x \in SetOf(u)
  <2>1. PICK i \in DOMAIN s : s[i] = x
    BY DEF SetOf
  <2>2. i \in DOMAIN u /\ u[i] = x
    BY <1>1, <2>1
  <2> QED BY <2>2 DEF SetOf
<1>4. ASSUME NEW x \in SetOf(t) PROVE x \in SetOf(u)
  <2>1. PICK i \in DOMAIN t : t[i] = x
    BY DEF SetOf
  <2>2. i + Len(s) \in DOMAIN u /\ u[i + Len(s)] = x
    BY <1>1, <2>1
  <2> QED BY <2>2 DEF SetOf
<1> QED BY <1>2, <1>3, <1>4 DEF u

LEMMA ConcatInOrder ==
  ASSUME NEW S, NEW s \in Seq(S), NEW t \in Seq(S), NEW R
  PROVE  InOrder(s \o t, R) <=> InOrder(s, R) /\ InOrder(t, R) /\ Before(SetOf(s), SetOf(t), R)
<1> DEFINE u == s \o t
<1>1. /\ Len(s) \in Nat /\ Len(t) \in Nat
      /\ DOMAIN s = 1..Len(s) /\ DOMAIN t = 1..Len(t) /\ DOMAIN u = 1..(Len(s) + Len(t))
      /\ \A i \in 1..(Len(s) + Len(t)) : u[i] = IF i <= Len(s) THEN s[i] ELSE t[i - Len(s)]
  BY ConcatProperties, LenProperties
<1>2. /\ \A i \in DOMAIN s : i \in DOMAIN u /\ u[i] = s[i]
      /\ \A i \in DOMAIN t : i + Len(s) \in DOMAIN u /\ u[i + Len(s)] = t[i]
  BY <1>1
<1> HIDE DEF u
<1>3. ASSUME InOrder(u, R)
      PROVE  InOrder(s, R) /\ InOrder(t, R) /\ Before(SetOf(s), SetOf(t), R)
  <2>1. InOrder(s, R)
    BY <1>2, <1>3 DEF InOrder
  <2>2. InOrder(t, R)
    <3> SUFFICES ASSUME NEW i \in DOMAIN t, NEW j \in DOMAIN t, i < j
                 PROVE  MayPrecede(t[i], t[j], R)
      BY DEF InOrder
    <3>1. i + Len(s) < j + Len(s)
      BY <1>1
    <3> QED BY <1>2, <1>3, <3>1 DEF InOrder
  <2>3. Before(SetOf(s), SetOf(t), R)
    <3> SUFFICES ASSUME NEW i \in DOMAIN s, NEW j \in DOMAIN t
                 PROVE  MayPrecede(s[i], t[j], R)
      BY DEF Before, SetOf
    <3>1. i < j + Len(s)
      BY <1>1
    <3> QED BY <1>2, <1>3, <3>1 DEF InOrder
  <2> QED BY <2>1, <2>2, <2>3
<1>4. ASSUME InOrder(s, R), InOrder(t, R), Before(SetOf(s), SetOf(t), R)
      PROVE  InOrder(u, R)
  <2> SUFFICES ASSUME NEW i \in DOMAIN u, NEW j \in DOMAIN u, i < j
               PROVE  MayPrecede(u[i], u[j], R)
    BY DEF InOrder
  <2>1. CASE j <= Len(s)
    <3>1. i \in DOMAIN s /\ j \in DOMAIN s
      BY <1>1, <2>1
    <3> QED BY <1>2, <1>4, <3>1 DEF InOrder
  <2>2. CASE i > Len(s)
    <3>1. /\ i - Len(s) \in DOMAIN t /\ j - Len(s) \in DOMAIN t /\ i - Len(s) < j - Len(s)
          /\ u[i] = t[i - Len(s)] /\ u[j] = t[j - Len(s)]
      BY <1>1, <2>2
    <3> QED BY <1>4, <3>1 DEF InOrder
  <2>3. CASE i <= Len(s) /\ j > Len(s)
    <3>1. /\ i \in DOMAIN s /\ j - Len(s) \in DOMAIN t
          /\ u[i] = s[i] /\ u[j] = t[j - Len(s)]
      BY <1>1, <2>3
    <3>2. u[i] \in SetOf(s) /\ u[j] \in SetOf(t)
      BY <3>1 DEF SetOf
    <3> QED BY <1>4, <3>2 DEF Before
  <2> QED BY <1>1, <2>1, <2>2, <2>3
<1> QED BY <1>3, <1>4 DEF u

LEMMA EmptyFacts ==
  ASSUME NEW R
  PROVE  SetOf(<<>>) = {} /\ InOrder(<<>>, R)
BY DEF SetOf, InOrder

LEMMA SingletonFacts ==
  ASSUME NEW x, NEW R
  PROVE  SetOf(<<x>>) = {x} /\ InOrder(<<x>>, R)
BY DEF SetOf, InOrder

LEMMA AppendFacts ==
  ASSUME NEW S, NEW s \in Seq(S), NEW x \in S, NEW R
  PROVE  /\ SetOf(Append(s, x)) = SetOf(s) \cup {x}
         /\ InOrder(Append(s, x), R) <=> InOrder(s, R) /\ Before(SetOf(s), {x}, R)
<1>1. Append(s, x) = s \o <<x>> /\ <<x>> \in Seq(S)
  BY AppendIsConcat
<1>2. SetOf(s \o <<x>>) = SetOf(s) \cup SetOf(<<x>>)
  BY <1>1, ConcatSetOf
<1>3. InOrder(s \o <<x>>, R)
        <=> InOrder(s, R) /\ InOrder(<<x>>, R) /\ Before(SetOf(s), SetOf(<<x>>), R)
  BY <1>1, ConcatInOrder
<1>4. SetOf(<<x>>) = {x} /\ InOrder(<<x>>, R)
  BY SingletonFacts
<1> QED BY <1>1, <1>2, <1>3, <1>4, Zenon

LEMMA HeadTailFacts ==
  ASSUME NEW S, NEW s \in Seq(S), s # <<>>, NEW R
  PROVE  /\ SetOf(s) = {Head(s)} \cup SetOf(Tail(s))
         /\ InOrder(s, R) <=> InOrder(Tail(s), R) /\ Before({Head(s)}, SetOf(Tail(s)), R)
<1>1. Head(s) \in S /\ Tail(s) \in Seq(S) /\ <<Head(s)>> \in Seq(S)
  BY HeadTailProperties
<1>2. s = <<Head(s)>> \o Tail(s)
  OBVIOUS
<1>3. SetOf(<<Head(s)>> \o Tail(s)) = SetOf(<<Head(s)>>) \cup SetOf(Tail(s))
  BY <1>1, ConcatSetOf
<1>4. InOrder(<<Head(s)>> \o Tail(s), R)
        <=> /\ InOrder(<<Head(s)>>, R) /\ InOrder(Tail(s), R)
            /\ Before(SetOf(<<Head(s)>>), SetOf(Tail(s)), R)
  BY <1>1, ConcatInOrder
<1>5. SetOf(<<Head(s)>>) = {Head(s)} /\ InOrder(<<Head(s)>>, R)
  BY SingletonFacts
<1> QED BY <1>2, <1>3, <1>4, <1>5, Zenon

\* More messages put back leave more order to be lost.
LEMMA MoreRequeued ==
  ASSUME NEW R, NEW Q, R \subseteq Q
  PROVE  /\ \A X, Y : Before(X, Y, R) => Before(X, Y, Q)
         /\ \A s : InOrder(s, R) => InOrder(s, Q)
BY DEF Before, InOrder, MayPrecede

-----------------------------------------------------------------------------
(* The inductive invariant: the four places a message can be in, each in    *)
(* order, and each before the next.                                         *)

Apart ==
  /\ SetOf(arrived) \cap lost = {} /\ SetOf(wire) \cap lost = {}
  /\ SetOf(InHand) \cap lost = {} /\ SetOf(chan) \cap lost = {}
  /\ SetOf(arrived) \cup SetOf(wire) \cup SetOf(InHand) \cup SetOf(chan) \cup lost = 1..serial

Ordered ==
  /\ InOrder(arrived, requeued) /\ InOrder(wire, requeued)
  /\ InOrder(InHand, requeued) /\ InOrder(chan, requeued)
  /\ Before(SetOf(arrived), SetOf(wire), requeued)
  /\ Before(SetOf(arrived), SetOf(InHand), requeued)
  /\ Before(SetOf(arrived), SetOf(chan), requeued)
  /\ Before(SetOf(wire), SetOf(InHand), requeued)
  /\ Before(SetOf(wire), SetOf(chan), requeued)
  /\ Before(SetOf(InHand), SetOf(chan), requeued)

LEMMA InitOrdered == Init => Apart /\ Ordered
<1> SUFFICES ASSUME Init PROVE Apart /\ Ordered
  OBVIOUS
<1>1. /\ arrived = <<>> /\ wire = <<>> /\ InHand = <<>> /\ chan = <<>>
      /\ lost = {} /\ serial = 0
  BY DEF Init, InHand
<1>2. SetOf(<<>>) = {} /\ InOrder(<<>>, requeued)
  BY EmptyFacts
<1> QED BY <1>1, <1>2 DEF Apart, Ordered, Before

\* What the parts say of the whole trail.
LEMMA TrailFacts ==
  ASSUME TypeOK
  PROVE  /\ SetOf(Trail) = SetOf(arrived) \cup SetOf(wire) \cup SetOf(InHand) \cup SetOf(chan)
         /\ Ordered => InOrder(Trail, requeued)
         /\ Trail \in Seq(1..serial)
<1> DEFINE S == 1..serial
<1>1. arrived \in Seq(S) /\ wire \in Seq(S) /\ chan \in Seq(S) /\ InHand \in Seq(S)
  <2>1. held # None => held \in S
    BY DEF TypeOK, None
  <2>2. CASE held = None
    BY <2>2, EmptySeq DEF TypeOK, InHand
  <2>3. CASE held # None
    <3>1. <<held>> \in Seq(S)
      BY <2>1, <2>3
    <3> QED BY <2>3, <3>1 DEF TypeOK, InHand
  <2> QED BY <2>2, <2>3
<1> HIDE DEF S
<1>2. arrived \o wire \in Seq(S) /\ (arrived \o wire) \o InHand \in Seq(S)
  BY <1>1, ConcatProperties
<1>3. Trail = ((arrived \o wire) \o InHand) \o chan
  BY DEF Trail
<1>4. /\ SetOf(arrived \o wire) = SetOf(arrived) \cup SetOf(wire)
      /\ InOrder(arrived \o wire, requeued)
           <=> /\ InOrder(arrived, requeued) /\ InOrder(wire, requeued)
               /\ Before(SetOf(arrived), SetOf(wire), requeued)
  BY <1>1, ConcatSetOf, ConcatInOrder
<1>5. /\ SetOf((arrived \o wire) \o InHand) = SetOf(arrived \o wire) \cup SetOf(InHand)
      /\ InOrder((arrived \o wire) \o InHand, requeued)
           <=> /\ InOrder(arrived \o wire, requeued) /\ InOrder(InHand, requeued)
               /\ Before(SetOf(arrived \o wire), SetOf(InHand), requeued)
  BY <1>1, <1>2, ConcatSetOf, ConcatInOrder
<1>6. /\ SetOf(Trail) = SetOf((arrived \o wire) \o InHand) \cup SetOf(chan)
      /\ InOrder(Trail, requeued)
           <=> /\ InOrder((arrived \o wire) \o InHand, requeued) /\ InOrder(chan, requeued)
               /\ Before(SetOf((arrived \o wire) \o InHand), SetOf(chan), requeued)
  <2> DEFINE front == (arrived \o wire) \o InHand
  <2>1. front \in Seq(S) /\ Trail = front \o chan
    BY <1>2, <1>3
  <2> HIDE DEF front
  <2>2. /\ SetOf(front \o chan) = SetOf(front) \cup SetOf(chan)
        /\ InOrder(front \o chan, requeued)
             <=> /\ InOrder(front, requeued) /\ InOrder(chan, requeued)
                 /\ Before(SetOf(front), SetOf(chan), requeued)
    BY <1>1, <2>1, ConcatSetOf, ConcatInOrder
  <2> QED BY <2>1, <2>2 DEF front
<1>7. Trail \in Seq(S)
  BY <1>1, <1>2, <1>3, ConcatProperties
<1>8. ASSUME Ordered PROVE InOrder(Trail, requeued)
  BY <1>4, <1>5, <1>6, <1>8 DEF Ordered, Before
<1> QED BY <1>4, <1>5, <1>6, <1>7, <1>8 DEF S

\* Together they are what the runs check.
LEMMA OrderedMeans ==
  ASSUME TypeOK, Apart, Ordered
  PROVE  Conserved /\ OvertakenWereRequeued
<1>1. InOrder(Trail, requeued) /\ DOMAIN Trail \subseteq Nat
  BY TrailFacts, LenProperties
<1>2. SetOf(Trail) \cap lost = {} /\ SetOf(Trail) \cup lost = 1..serial
  BY TrailFacts DEF Apart
<1>3. \A i, j \in DOMAIN Trail : Trail[i] = Trail[j] => i = j
  <2> SUFFICES ASSUME NEW i \in DOMAIN Trail, NEW j \in DOMAIN Trail, Trail[i] = Trail[j], i # j
               PROVE  FALSE
    OBVIOUS
  <2>1. i < j \/ j < i
    BY <1>1
  <2> QED BY <1>1, <2>1 DEF InOrder, MayPrecede
<1>4. OvertakenWereRequeued
  BY <1>1 DEF InOrder, MayPrecede, OvertakenWereRequeued
<1> QED BY <1>2, <1>3, <1>4 DEF Conserved

LEMMA HandFacts ==
  ASSUME NEW R
  PROVE  SetOf(InHand) = {held} \ {None} /\ InOrder(InHand, R)
<1>1. SetOf(<<>>) = {} /\ InOrder(<<>>, R)
  BY EmptyFacts
<1>2. SetOf(<<held>>) = {held} /\ InOrder(<<held>>, R)
  BY SingletonFacts
<1> QED BY <1>1, <1>2 DEF InHand

LEMMA HandFactsNext ==
  ASSUME NEW R
  PROVE  SetOf(InHand)' = {held'} \ {None} /\ InOrder(InHand', R)
<1>1. SetOf(<<>>) = {} /\ InOrder(<<>>, R)
  BY EmptyFacts
<1>2. SetOf(<<held'>>) = {held'} /\ InOrder(<<held'>>, R)
  BY SingletonFacts
<1> QED BY <1>1, <1>2 DEF InHand

LEMMA NextOrdered ==
  ASSUME TypeOK, Apart, Ordered, [Next]_vars
  PROVE  Apart' /\ Ordered'
<1> DEFINE S == 1..serial
           A == SetOf(arrived)
           W == SetOf(wire)
           H == SetOf(InHand)
           C == SetOf(chan)
<1>a. /\ arrived \in Seq(S) /\ wire \in Seq(S) /\ chan \in Seq(S)
      /\ serial \in Nat /\ held \in 0..serial
  BY DEF TypeOK
<1>b. A \subseteq S /\ W \subseteq S /\ C \subseteq S /\ H = {held} \ {None}
  BY <1>a, SetOfType, HandFacts
<1>c. SetOf(InHand)' = {held'} \ {None} /\ InOrder(InHand', requeued')
  BY HandFactsNext
<1>1. ASSUME NEW h \in Handlers, Publish(h) PROVE Apart' /\ Ordered'
  <2>1. /\ chan' = Append(chan, serial + 1) /\ serial' = serial + 1
        /\ UNCHANGED <<held, wire, arrived, lost, requeued>>
    BY <1>1 DEF Publish
  <2>2. chan \in Seq(1..(serial + 1)) /\ serial + 1 \in 1..(serial + 1)
    BY <1>a, SerialGrows
  <2>3. SetOf(chan)' = C \cup {serial + 1}
        /\ (InOrder(chan', requeued) <=> InOrder(chan, requeued) /\ Before(C, {serial + 1}, requeued))
    <3>1. /\ SetOf(Append(chan, serial + 1)) = C \cup {serial + 1}
          /\ InOrder(Append(chan, serial + 1), requeued)
               <=> InOrder(chan, requeued) /\ Before(C, {serial + 1}, requeued)
      BY <2>2, AppendFacts
    <3> QED BY <2>1, <3>1
  <2>4. \A x \in S : MayPrecede(x, serial + 1, requeued)
    BY <1>a DEF MayPrecede
  <2>5. UNCHANGED <<A, W, H>>
    BY <2>1 DEF InHand
  <2>6. Apart'
    <3>1. lost \subseteq S
      BY DEF TypeOK
    <3>2. 1..(serial + 1) = S \cup {serial + 1} /\ serial + 1 \notin S
      BY <1>a
    <3> QED BY <2>1, <2>3, <2>5, <3>1, <3>2 DEF Apart
  <2>7. Ordered'
    <3>1. InOrder(chan, requeued)'
      BY <1>b, <2>1, <2>3, <2>4 DEF Ordered, Before
    <3>2. Before(A, C', requeued) /\ Before(W, C', requeued) /\ Before(H, C', requeued)
      <4>1. H \subseteq S
        BY <1>a, <1>b DEF None
      <4> QED BY <1>b, <2>3, <2>4, <4>1 DEF Ordered, Before
    <3> QED BY <1>c, <2>1, <2>5, <3>1, <3>2 DEF Ordered
  <2> QED BY <2>6, <2>7
<1>2. CASE Connect \/ WriteFails \/ UNCHANGED vars
  <2>1. UNCHANGED <<chan, held, wire, arrived, lost, serial, requeued>>
    BY <1>2 DEF Connect, WriteFails, vars, history
  <2> QED BY <2>1 DEF Apart, Ordered, InHand
<1>3. CASE Take
  <2>1. /\ held = None /\ chan # <<>> /\ held' = Head(chan) /\ chan' = Tail(chan)
        /\ UNCHANGED <<wire, arrived, lost, serial, requeued>>
    BY <1>3 DEF Take, history, TypeOK
  <2>2. C = {held'} \cup C' /\ InOrder(chan', requeued) /\ Before({held'}, C', requeued)
    BY <1>a, <2>1, HeadTailFacts DEF Ordered
  <2>3. held' # None /\ H = {} /\ H' = {held'}
    BY <1>a, <1>b, <1>c, <2>1, HeadTailProperties DEF None
  <2>4. UNCHANGED <<A, W>>
    BY <2>1
  <2>5. Apart'
    BY <2>1, <2>2, <2>3, <2>4 DEF Apart
  <2>6. Ordered'
    BY <1>c, <2>1, <2>2, <2>3, <2>4 DEF Ordered, Before
  <2> QED BY <2>5, <2>6
<1>4. CASE Write
  <2>1. /\ held \in S /\ wire' = Append(wire, held) /\ held' = None
        /\ UNCHANGED <<chan, arrived, lost, serial, requeued>>
    BY <1>4 DEF Write, history, TypeOK, None
  <2>2. H = {held} /\ H' = {}
    BY <1>b, <1>c, <2>1 DEF None
  <2>3. W' = W \cup {held} /\ InOrder(wire', requeued)
    <3>1. /\ SetOf(Append(wire, held)) = W \cup {held}
          /\ InOrder(Append(wire, held), requeued)
               <=> InOrder(wire, requeued) /\ Before(W, {held}, requeued)
      BY <1>a, <2>1, AppendFacts
    <3> QED BY <2>1, <2>2, <3>1 DEF Ordered
  <2>4. UNCHANGED <<A, C>>
    BY <2>1
  <2>5. Apart'
    BY <2>1, <2>2, <2>3, <2>4 DEF Apart
  <2>6. Ordered'
    BY <1>c, <2>1, <2>2, <2>3, <2>4 DEF Ordered, Before
  <2> QED BY <2>5, <2>6
<1>5. CASE Requeue
  <2>1. /\ held \in S /\ chan' = Append(chan, held) /\ held' = None
        /\ requeued' = requeued \cup {held}
        /\ UNCHANGED <<wire, arrived, lost, serial>>
    BY <1>5 DEF Requeue, TypeOK, None
  <2>2. H = {held} /\ H' = {}
    BY <1>b, <1>c, <2>1 DEF None
  <2>3. UNCHANGED <<A, W>>
    BY <2>1
  <2>4. /\ \A X, Y : Before(X, Y, requeued) => Before(X, Y, requeued')
        /\ \A s : InOrder(s, requeued) => InOrder(s, requeued')
    BY <2>1, MoreRequeued
  <2>5. Before(C, {held}, requeued')
    BY <2>1, <2>2 DEF Ordered, Before, MayPrecede
  <2>6. C' = C \cup {held} /\ InOrder(chan', requeued')
    <3> DEFINE R == requeued'
    <3>1. chan \in Seq(S) /\ held \in S
      BY <1>a, <2>1
    <3> HIDE DEF R
    <3>2. /\ SetOf(Append(chan, held)) = C \cup {held}
          /\ InOrder(Append(chan, held), R) <=> InOrder(chan, R) /\ Before(C, {held}, R)
      BY <3>1, AppendFacts
    <3> USE DEF R
    <3> QED BY <2>1, <2>4, <2>5, <3>2 DEF Ordered
  <2>7. Apart'
    BY <2>1, <2>2, <2>3, <2>6 DEF Apart
  <2>8. Before(A, C', requeued') /\ Before(W, C', requeued')
    BY <2>2, <2>4, <2>6 DEF Ordered, Before
  <2>9. InOrder(arrived', requeued') /\ InOrder(wire', requeued') /\ Before(A, W, requeued')
    BY <2>1, <2>4 DEF Ordered
  <2>10. Ordered'
    BY <1>c, <2>2, <2>3, <2>6, <2>8, <2>9 DEF Ordered, Before
  <2> QED BY <2>7, <2>10
<1>6. CASE Arrive
  <2>1. /\ wire # <<>> /\ arrived' = Append(arrived, Head(wire)) /\ wire' = Tail(wire)
        /\ UNCHANGED <<chan, held, lost, serial, requeued>>
    BY <1>6 DEF Arrive, history
  <2>2. Head(wire) \in S
    BY <1>a, <2>1, HeadTailProperties
  <2>3. W = {Head(wire)} \cup W' /\ InOrder(wire', requeued) /\ Before({Head(wire)}, W', requeued)
    BY <1>a, <2>1, HeadTailFacts DEF Ordered
  <2>4. UNCHANGED <<H, C>>
    BY <2>1 DEF InHand
  <2>5. A' = A \cup {Head(wire)} /\ InOrder(arrived', requeued)
    <3>1. Before(A, {Head(wire)}, requeued)
      BY <2>3 DEF Ordered, Before
    <3>2. /\ SetOf(Append(arrived, Head(wire))) = A \cup {Head(wire)}
          /\ InOrder(Append(arrived, Head(wire)), requeued)
               <=> InOrder(arrived, requeued) /\ Before(A, {Head(wire)}, requeued)
      BY <1>a, <2>2, AppendFacts
    <3> QED BY <2>1, <3>1, <3>2 DEF Ordered
  <2>6. Apart'
    BY <2>1, <2>3, <2>4, <2>5 DEF Apart
  <2>7. Ordered'
    BY <1>c, <2>1, <2>3, <2>4, <2>5 DEF Ordered, Before
  <2> QED BY <2>6, <2>7
<1>7. CASE LoseLink
  <2>1. /\ lost' = lost \cup W /\ wire' = <<>>
        /\ UNCHANGED <<chan, held, arrived, serial, requeued>>
    BY <1>7 DEF LoseLink
  <2>2. W' = {} /\ InOrder(wire', requeued)
    BY <2>1, EmptyFacts
  <2>3. UNCHANGED <<A, H, C>>
    BY <2>1 DEF InHand
  <2>4. A \cap W = {} /\ H \cap W = {} /\ C \cap W = {}
    BY DEF Ordered, Before, MayPrecede
  <2>5. Apart'
    BY <2>1, <2>2, <2>3, <2>4 DEF Apart
  <2>6. Ordered'
    BY <1>c, <2>1, <2>2, <2>3 DEF Ordered, Before
  <2> QED BY <2>5, <2>6
<1>8. CASE Crash
  <2>1. /\ lost' = lost \cup W \cup H \cup C /\ wire' = <<>> /\ chan' = <<>> /\ held' = None
        /\ UNCHANGED <<arrived, serial, requeued>>
    BY <1>8 DEF Crash
  <2>2. W' = {} /\ C' = {} /\ H' = {} /\ InOrder(wire', requeued) /\ InOrder(chan', requeued)
    BY <1>c, <2>1, EmptyFacts
  <2>3. UNCHANGED A
    BY <2>1
  <2>4. A \cap W = {} /\ A \cap H = {} /\ A \cap C = {}
    BY DEF Ordered, Before, MayPrecede
  <2>5. Apart'
    BY <2>1, <2>2, <2>3, <2>4 DEF Apart
  <2>6. Ordered'
    BY <1>c, <2>1, <2>2, <2>3 DEF Ordered, Before
  <2> QED BY <2>5, <2>6
<1> QED BY <1>1, <1>2, <1>3, <1>4, <1>5, <1>6, <1>7, <1>8 DEF Next, Receive

LEMMA OrderedHolds == Spec => [](TypeOK /\ Apart /\ Ordered)
<1>1. Init => Apart /\ Ordered
  BY InitOrdered
<1>2. TypeOK /\ Apart /\ Ordered /\ [Next]_vars => Apart' /\ Ordered'
  BY NextOrdered
<1> QED BY <1>1, <1>2, InitTypeOK, NextTypeOK, PTL DEF Spec

\* A failed publish neither drops nor doubles a message: every publication is
\* in one place (receive.go 82-101).
THEOREM Conservation == Spec => []Conserved
<1>1. TypeOK /\ Apart /\ Ordered => Conserved
  BY OrderedMeans
<1> QED BY <1>1, OrderedHolds, PTL

\* The relay keeps the order but for the messages it put back (receive.go 97).
THEOREM OrderKept == Spec => []OvertakenWereRequeued
<1>1. TypeOK /\ Apart /\ Ordered => OvertakenWereRequeued
  BY OrderedMeans
<1> QED BY <1>1, OrderedHolds, PTL

-----------------------------------------------------------------------------
(* Faults.  A goroutine that has not noticed its lost connection owes the   *)
(* one message it may still put back on account of it.                      *)

Owed == IF pc # "connect" /\ ~up THEN 1 ELSE 0

Accounted ==
  /\ IsFiniteSet(requeued) /\ Cardinality(requeued) + Owed <= faults
  /\ pc = "requeue" => ~up
  /\ faults = 0 => lost = {}

LEMMA InitAccounted == Init => Accounted
<1> SUFFICES ASSUME Init PROVE Accounted
  OBVIOUS
<1>1. IsFiniteSet({}) /\ Cardinality({}) = 0
  BY FS_EmptySet
<1> QED BY <1>1 DEF Init, Accounted, Owed

LEMMA NextAccounted ==
  ASSUME TypeOK, Accounted, [Next]_vars
  PROVE  Accounted'
<1>a. Cardinality(requeued) \in Nat /\ faults \in Nat
  BY FS_CardinalityType DEF Accounted, TypeOK
<1>1. CASE Requeue
  <2>1. /\ pc = "requeue" /\ pc' = "connect" /\ requeued' = requeued \cup {held}
        /\ UNCHANGED <<lost, faults>>
    BY <1>1 DEF Requeue
  <2>2. Owed = 1 /\ Owed' = 0
    BY <2>1 DEF Owed, Accounted
  <2>3. IsFiniteSet(requeued') /\ Cardinality(requeued') <= Cardinality(requeued) + 1
    <3>1. /\ IsFiniteSet(requeued \cup {held})
          /\ Cardinality(requeued \cup {held})
               = IF held \in requeued THEN Cardinality(requeued) ELSE Cardinality(requeued) + 1
      BY FS_AddElement DEF Accounted
    <3> QED BY <1>a, <2>1, <3>1
  <2>4. Cardinality(requeued') \in Nat
    BY <2>3, FS_CardinalityType
  <2> QED BY <1>a, <2>1, <2>2, <2>3, <2>4 DEF Accounted
<1>2. CASE LoseLink \/ Crash
  <2>1. /\ faults' = faults + 1 /\ UNCHANGED requeued
        /\ pc' = "requeue" => pc = "requeue"
    BY <1>2 DEF LoseLink, Crash
  <2>2. ~up'
    BY <1>2 DEF LoseLink, Crash
  <2>3. Owed' <= Owed + 1
    BY DEF Owed
  <2> QED BY <1>a, <2>1, <2>2, <2>3 DEF Accounted, Owed
<1>3. CASE Connect
  <2>1. pc = "connect" /\ pc' = "select" /\ UNCHANGED <<requeued, lost, faults>>
    BY <1>3 DEF Connect, history
  <2>2. up'
    BY <1>3 DEF Connect
  <2> QED BY <2>1, <2>2 DEF Accounted, Owed
<1>4. ASSUME NEW h \in Handlers, Publish(h) PROVE Accounted'
  BY <1>4 DEF Publish, Accounted, Owed
<1>5. CASE Take \/ Write \/ WriteFails \/ Arrive \/ UNCHANGED vars
  <2>1. /\ UNCHANGED <<up, requeued, lost, faults>>
        /\ pc' = "connect" <=> pc = "connect"
    BY <1>5 DEF Take, Write, WriteFails, Arrive, vars, history
  <2>2. pc' = "requeue" => ~up
    BY <1>5 DEF Take, Write, WriteFails, Arrive, vars, Accounted
  <2> QED BY <2>1, <2>2 DEF Accounted, Owed
<1> QED BY <1>1, <1>2, <1>3, <1>4, <1>5 DEF Next, Receive

LEMMA RelayInvariant == Spec => [](TypeOK /\ Apart /\ Ordered /\ Accounted)
<1>1. Init => Accounted
  BY InitAccounted
<1>2. TypeOK /\ Accounted /\ [Next]_vars => Accounted'
  BY NextAccounted
<1> QED BY <1>1, <1>2, OrderedHolds, PTL DEF Spec

\* Without a fault nothing is lost or put back, and every fault accounts for at
\* most one message put back (receive.go 95-104).
THEOREM OnlyFaultsHurt == Spec => []FaultsOnly
<1>1. TypeOK /\ Accounted => FaultsOnly
  <2> SUFFICES ASSUME TypeOK, Accounted PROVE FaultsOnly
    OBVIOUS
  <2>1. Cardinality(requeued) \in Nat /\ faults \in Nat
    BY FS_CardinalityType DEF Accounted, TypeOK
  <2> QED BY <2>1 DEF Accounted, Owed, FaultsOnly
<1> QED BY <1>1, RelayInvariant, PTL

-----------------------------------------------------------------------------
(* The relay implements LossyQueue.                                        *)

\* The instance has the operator of FiniteSets under a name of its own.
LEMMA SameCardinality == \A S : Queue!Cardinality(S) = Cardinality(S)
BY DEF Queue!Cardinality, Cardinality

\* What is under way is on the wire, in the hand of the goroutine or in the
\* channel.
LEMMA UnderWayFacts ==
  ASSUME TypeOK, Apart, Ordered
  PROVE  /\ Queue!UnderWay = SetOf(wire) \cup SetOf(InHand) \cup SetOf(chan)
         /\ SetOf(InHand) = {held} \ {None}
<1>1. SetOf(arrived) \cap (SetOf(wire) \cup SetOf(InHand) \cup SetOf(chan)) = {}
  BY DEF Ordered, Before, MayPrecede
<1> QED BY <1>1, HandFacts DEF Apart, Queue!UnderWay

\* The oldest message on the wire is overtaken by none that is not late.
LEMMA ArriveImplements ==
  ASSUME TypeOK, Apart, Ordered, Arrive
  PROVE  \E n \in Queue!UnderWay : Queue!Arrive(n)
<1> DEFINE n == Head(wire)
<1>1. /\ wire # <<>> /\ wire \in Seq(1..serial) /\ arrived \in Seq(1..serial)
      /\ arrived' = Append(arrived, n)
      /\ UNCHANGED <<serial, lost, requeued, faults>>
  BY DEF Arrive, history, TypeOK
<1>2. n \in 1..serial
  BY <1>1, HeadTailProperties
<1>3. SetOf(wire) = {n} \cup SetOf(Tail(wire)) /\ Before({n}, SetOf(Tail(wire)), requeued)
  BY <1>1, HeadTailFacts DEF Ordered
<1>4. n \in SetOf(wire)
  BY <1>3
<1> HIDE DEF n
<1>5. ASSUME NEW k \in Queue!UnderWay, k < n PROVE k \in requeued
  <2>1. k \in SetOf(Tail(wire)) \/ k \in SetOf(InHand) \/ k \in SetOf(chan)
    BY <1>2, <1>3, <1>5, UnderWayFacts
  <2> QED BY <1>3, <1>4, <1>5, <2>1 DEF Ordered, Before, MayPrecede
<1>6. SetOf(arrived)' = SetOf(arrived) \cup {n}
  <2>1. /\ SetOf(Append(arrived, n)) = SetOf(arrived) \cup {n}
        /\ InOrder(Append(arrived, n), requeued)
             <=> InOrder(arrived, requeued) /\ Before(SetOf(arrived), {n}, requeued)
    BY <1>1, <1>2, AppendFacts
  <2> QED BY <1>1, <2>1
<1> QED BY <1>1, <1>4, <1>5, <1>6, UnderWayFacts DEF Queue!Arrive

\* A message is put back for the first time on account of the fault that the
\* goroutine has just noticed.
LEMMA RequeueImplements ==
  ASSUME TypeOK, Apart, Ordered, Accounted, Requeue
  PROVE  \/ \E n \in Queue!UnderWay : Queue!FallBack(n)
         \/ UNCHANGED Queue!vars
<1>1. /\ pc = "requeue" /\ ~up /\ requeued' = requeued \cup {held}
      /\ UNCHANGED <<serial, arrived, lost, faults>>
  BY DEF Requeue, Accounted
<1>2. Cardinality(requeued) < faults
  <2>1. Cardinality(requeued) \in Nat /\ faults \in Nat
    BY FS_CardinalityType DEF Accounted, TypeOK
  <2>2. Owed = 1
    BY <1>1 DEF Owed
  <2> QED BY <2>1, <2>2 DEF Accounted
<1>3. held \in Queue!UnderWay
  BY <1>1, UnderWayFacts DEF TypeOK
<1> QED BY <1>1, <1>2, <1>3, SameCardinality DEF Queue!FallBack

\* What is lost was under way.
LEMMA FaultImplements ==
  ASSUME TypeOK, Apart, Ordered, LoseLink \/ Crash
  PROVE  Queue!Fault
<1>1. PICK gone \in SUBSET Queue!UnderWay : lost' = lost \cup gone
  BY UnderWayFacts DEF LoseLink, Crash
<1>2. faults' = faults + 1 /\ UNCHANGED <<serial, arrived, requeued>>
  BY DEF LoseLink, Crash
<1> QED BY <1>1, <1>2 DEF Queue!Fault

\* Messages are lost or overtaken only on account of faults, one falls back for
\* each, and none is doubled: every step of the relay is a step of LossyQueue or
\* none, whatever the capacity of the channel (receive.go 44-105).
THEOREM ImplementsLossyQueue == Spec => LossyDelivery
<1>1. Init => Queue!Init
  BY EmptyFacts DEF Init, Queue!Init
<1>2. ASSUME TypeOK, Apart, Ordered, Accounted, [Next]_vars
      PROVE  [Queue!Next]_(Queue!vars)
  <2> USE DEF Queue!Next
  <2>1. ASSUME NEW h \in Handlers, Publish(h) PROVE Queue!Publish
    BY <2>1 DEF Publish, Queue!Publish
  <2>2. CASE Connect \/ Take \/ Write \/ WriteFails \/ UNCHANGED vars
    BY <2>2 DEF Connect, Take, Write, WriteFails, vars, history, Queue!vars
  <2>3. CASE Requeue
    BY <1>2, <2>3, RequeueImplements
  <2>4. CASE Arrive
    BY <1>2, <2>4, ArriveImplements
  <2>5. CASE LoseLink \/ Crash
    BY <1>2, <2>5, FaultImplements
  <2> QED BY <1>2, <2>1, <2>2, <2>3, <2>4, <2>5 DEF Next, Receive
<1> QED BY <1>1, <1>2, RelayInvariant, PTL DEF Spec, LossyDelivery, Queue!Spec
=============================================================================
