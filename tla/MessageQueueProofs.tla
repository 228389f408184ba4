------------------------- MODULE MessageQueueProofs -------------------------
(***************************************************************************)
(* Type correctness of MessageQueue; that a broadcast goes out at most     *)
(* once and nothing before its time; that a pending welcome names only     *)
(* committed joiners, that a row is left half sent only by a fault, and    *)
(* that every send is paid for by a write of a handler: for every set of   *)
(* rooms and handlers and every bound.                                     *)
(***************************************************************************)
EXTENDS MessageQueue, SequenceTheorems, FiniteSetTheorems, TLAPS

\* Whatever is written into the table is a row.
LEMMA RoomListsFacts ==
  /\ \A r \in Rooms : <<r>> \in RoomLists
  /\ <<Blank>> \in RoomLists
  /\ \A b \in Broadcasts : BroadcastRooms[b] \in RoomLists
  /\ \A l \in RoomLists : Len(l) \in Nat /\ 1 \in 1..Len(l)
<1>1. \A r \in Rooms \cup {Blank} : <<r>> \in RoomLists
  BY DEF RoomLists
<1>2. \A b \in Broadcasts : BroadcastRooms[b] \in RoomLists
  BY MessageQueueAssumption DEF RoomLists
<1>3. \A l \in RoomLists : Len(l) \in Nat /\ 1 \in 1..Len(l)
  <2> SUFFICES ASSUME NEW l \in Seq(Rooms \cup {Blank}), l # <<>>
               PROVE  Len(l) \in Nat /\ 1 \in 1..Len(l)
    BY DEF RoomLists
  <2> QED OBVIOUS
<1> QED BY <1>1, <1>2, <1>3

LEMMA NobodyFacts == Nobody.id = NoRow /\ Nobody \in [id : Nat, row : Row]
                     /\ Nobody.row.rooms = <<Blank>> /\ 1 \in 1..Len(Nobody.row.rooms)
BY RoomListsFacts DEF Nobody, NoRow, Row

LEMMA InitTypeOK == Init => TypeOK
<1> SUFFICES ASSUME Init PROVE TypeOK
  OBVIOUS
<1>1. rows \in Seq(Row) /\ log \in Seq(Entry) /\ now \in Nat /\ faults \in Nat
  BY DEF Init
<1>2. join \in [Joins -> [pc : HandlerPc, id : Nat, names : SUBSET Joins, at : Nat]]
  BY DEF Init, HandlerPc, NoRow
<1>3. reply \in [Replies -> [pc : HandlerPc, id : Nat]] /\ posted \subseteq Broadcasts
  BY DEF Init, HandlerPc, NoRow
<1>4. batch \in [DOMAIN batch -> Row] /\ DOMAIN batch \subseteq Ids
  BY DEF Init, NoBatch
<1>5. /\ cur \in [id : Nat, row : Row] /\ cur.id = NoRow /\ pos \in 1..Len(cur.row.rooms)
      /\ pc = "down"
  BY NobodyFacts DEF Init
<1> QED BY <1>1, <1>2, <1>3, <1>4, <1>5 DEF TypeOK

LEMMA TableFacts ==
  ASSUME TypeOK
  PROVE  \A i \in Ids : /\ i \in Nat /\ i # NoRow /\ i \in 1..Len(rows)
                        /\ rows[i] \in Row
                        /\ rows[i].names \in SUBSET Joins
<1>1. rows \in [1..Len(rows) -> Row] /\ DOMAIN rows = 1..Len(rows)
  BY LenProperties DEF TypeOK
<1>2. \A r \in Row : r.names \in SUBSET Joins
  BY DEF Row
<1> QED BY <1>1, <1>2 DEF Ids, NoRow

\* Saving a row keeps the table and its ids; an id no row has changes nothing.
LEMMA SaveRow ==
  ASSUME TypeOK, NEW i, NEW r, i \in Ids => r \in Row
  PROVE  /\ [rows EXCEPT ![i] = r] \in Seq(Row)
         /\ DOMAIN [rows EXCEPT ![i] = r] = Ids
<1>1. DOMAIN rows = 1..Len(rows)
  BY LenProperties DEF TypeOK
<1>2. CASE i \in Ids
  BY <1>1, <1>2, ExceptSeq DEF TypeOK, Ids
<1>3. CASE i \notin Ids
  <2>1. [rows EXCEPT ![i] = r] = rows
    BY <1>1, <1>3 DEF Ids, TypeOK
  <2> QED BY <2>1 DEF TypeOK, Ids
<1> QED BY <1>2, <1>3

\* Appending a row keeps the table, the batch and the row in hand well typed.
LEMMA AppendRow ==
  ASSUME TypeOK, NEW r \in Row, rows' = Append(rows, r),
         UNCHANGED <<pc, batch, cur, pos, log>>
  PROVE  /\ rows' \in Seq(Row)
         /\ DOMAIN batch' \subseteq Ids'
         /\ cur'.id # NoRow => cur'.id \in Ids'
         /\ Len(rows) + 1 \in Nat
BY DEF TypeOK, Ids

LEMMA NextTypeOK == TypeOK /\ [Next]_vars => TypeOK'
<1> SUFFICES ASSUME TypeOK, [Next]_vars PROVE TypeOK'
  OBVIOUS
<1> USE DEF handlerVars, pumpVars, tableVars
<1>1. ASSUME NEW b \in Broadcasts, PostBroadcast(b) PROVE TypeOK'
  <2> DEFINE r == [type |-> 2, rooms |-> BroadcastRooms[b], names |-> {},
                   due |-> BroadcastDue[b], status |-> 0, hashed |-> TRUE]
  <2>1. r \in Row
    BY RoomListsFacts, MessageQueueAssumption DEF Row
  <2> QED BY <1>1, <2>1, AppendRow DEF PostBroadcast, TypeOK
<1>2. ASSUME NEW h \in Replies, ReplyCreate(h) PROVE TypeOK'
  <2> DEFINE r == [type |-> 1, rooms |-> <<ReplyRoom[h]>>, names |-> {},
                   due |-> 0, status |-> 0, hashed |-> FALSE]
  <2>1. r \in Row
    BY RoomListsFacts, MessageQueueAssumption DEF Row
  <2> QED BY <1>2, <2>1, AppendRow DEF ReplyCreate, TypeOK, HandlerPc
<1>3. ASSUME NEW h \in Replies, ReplySave(h) PROVE TypeOK'
  <2> DEFINE i == reply[h].id
             r == [rows[i] EXCEPT !.status = 0, !.hashed = TRUE]
  <2>1. i \in Ids => r \in Row
    BY TableFacts DEF Row
  <2>2. rows' = [rows EXCEPT ![i] = r]
    BY <1>3 DEF ReplySave
  <2>3. rows' \in Seq(Row) /\ DOMAIN rows' = Ids
    BY <2>1, <2>2, SaveRow
  <2> QED BY <1>3, <2>3 DEF ReplySave, TypeOK, HandlerPc, Ids
<1>4. ASSUME NEW h \in Replies, ReplyFails(h) PROVE TypeOK'
  <2>1. reply' \in [Replies -> [pc : HandlerPc, id : Nat]]
    BY <1>4 DEF ReplyFails, TypeOK, HandlerPc
  <2>2. faults' \in Nat
    BY <1>4 DEF ReplyFails, TypeOK
  <2> QED BY <1>4, <2>1, <2>2 DEF ReplyFails, TypeOK, Ids
<1>5. ASSUME NEW j \in Joins, JoinRead(j) PROVE TypeOK'
  <2>1. \A i \in OpenWelcomes(JoinRoom[j]) : i \in Nat /\ rows[i].names \in SUBSET Joins
    BY TableFacts DEF OpenWelcomes, Pending
  <2>2. join' \in [Joins -> [pc : HandlerPc, id : Nat, names : SUBSET Joins, at : Nat]]
    <3>1. \A i \in Nat, n \in SUBSET Joins, s \in {"create", "update"} :
            Copy(s, i, n) \in [pc : HandlerPc, id : Nat, names : SUBSET Joins, at : Nat]
      BY DEF Copy, HandlerPc, TypeOK
    <3>2. CASE join' = [join EXCEPT ![j] = Copy("create", NoRow, {})]
      BY <3>1, <3>2 DEF TypeOK, NoRow
    <3>3. ASSUME NEW i \in OpenWelcomes(JoinRoom[j]),
                 join' = [join EXCEPT ![j] = Copy("update", i, rows[i].names)]
          PROVE  join' \in [Joins -> [pc : HandlerPc, id : Nat, names : SUBSET Joins, at : Nat]]
      BY <2>1, <3>1, <3>3 DEF TypeOK
    <3> QED BY <1>5, <3>2, <3>3 DEF JoinRead, Oldest
  <2> QED BY <1>5, <2>2 DEF JoinRead, TypeOK, Ids
<1>6. ASSUME NEW j \in Joins, JoinReadFails(j) PROVE TypeOK'
  BY <1>6 DEF JoinReadFails, TypeOK, HandlerPc, Copy, NoRow, Ids
<1>7. ASSUME NEW j \in Joins, JoinUpdate(j) PROVE TypeOK'
  <2>1. NamesOf(j) \in SUBSET Joins
    BY DEF NamesOf, TypeOK
  <2> DEFINE i == join[j].id
             r == [rows[i] EXCEPT !.status = 0, !.names = NamesOf(j)]
  <2>2. i \in Ids => r \in Row
    BY <2>1, TableFacts DEF Row
  <2>3. rows' = [rows EXCEPT ![i] = r]
    BY <1>7 DEF JoinUpdate
  <2>4. rows' \in Seq(Row) /\ DOMAIN rows' = Ids
    BY <2>2, <2>3, SaveRow
  <2> QED BY <1>7, <2>4 DEF JoinUpdate, TypeOK, HandlerPc, Ended, Ids
<1>8. ASSUME NEW j \in Joins, JoinCreate(j) PROVE TypeOK'
  <2>1. PICK t \in join[j].at .. now :
          rows' = Append(rows, [type |-> 10, rooms |-> <<JoinRoom[j]>>, names |-> NamesOf(j),
                                due |-> t + Interval, status |-> 0, hashed |-> TRUE])
    BY <1>8 DEF JoinCreate
  <2> DEFINE r == [type |-> 10, rooms |-> <<JoinRoom[j]>>, names |-> NamesOf(j),
                   due |-> t + Interval, status |-> 0, hashed |-> TRUE]
  <2>2. NamesOf(j) \in SUBSET Joins /\ t + Interval \in Nat
    BY MessageQueueAssumption DEF NamesOf, TypeOK
  <2>3. r \in Row
    BY <2>2, RoomListsFacts, MessageQueueAssumption DEF Row
  <2> QED BY <1>8, <2>1, <2>3, AppendRow DEF JoinCreate, TypeOK, HandlerPc, Ended
<1>9. ASSUME NEW j \in Joins, JoinFails(j) PROVE TypeOK'
  BY <1>9 DEF JoinFails, TypeOK, HandlerPc, Ended, NoRow, Ids
<1>10. CASE Connect
  BY <1>10 DEF Connect, TypeOK, Ids
<1>11. CASE LoadImmediate
  <2>1. \A i \in Oldest(Immediate, BatchLimit) : i \in Ids /\ rows[i] \in Row
    BY DEF Oldest, Immediate, Pending, TypeOK, Ids
  <2> QED BY <1>11, <2>1 DEF LoadImmediate, TypeOK, Ids
<1>12. CASE LoadScheduled
  <2>1. \A i \in Oldest(Scheduled, BatchLimit) : i \in Ids /\ rows[i] \in Row
    BY DEF Oldest, Scheduled, Pending, TypeOK, Ids
  <2> QED BY <1>12, <2>1 DEF LoadScheduled, TypeOK, Ids
<1>13. CASE LoadScheduledFails
  BY <1>13 DEF LoadScheduledFails, TypeOK, Ids
<1>14. CASE Claim
  <2>1. PICK i \in HeadOfBatch : /\ rows' = [rows EXCEPT ![i] = Claimed(batch[i])]
                                /\ cur' = [id |-> i, row |-> Claimed(batch[i])]
                                /\ batch' = Without(i)
    BY <1>14 DEF Claim
  <2>2. i \in DOMAIN batch /\ i \in DOMAIN rows /\ i \in Nat /\ i # NoRow
    BY DEF HeadOfBatch, Oldest, LoadedImmediate, TypeOK, Ids, NoRow
  <2>3. Claimed(batch[i]) \in Row
    BY <2>2 DEF Claimed, TypeOK, Row
  <2>4. rows' \in Seq(Row) /\ DOMAIN rows' = DOMAIN rows
    BY <2>1, <2>2, <2>3 DEF TypeOK
  <2>5. batch' \in [DOMAIN batch' -> Row] /\ DOMAIN batch' \subseteq Ids'
    BY <2>1, <2>4 DEF Without, TypeOK, Ids
  <2>6. cur' \in [id : Nat, row : Row] /\ cur'.id # NoRow /\ cur'.id \in Ids'
    BY <2>1, <2>2, <2>3, <2>4 DEF Ids
  <2>7. pos' \in 1..Len(cur'.row.rooms)
    BY <1>14, <2>6, RoomListsFacts DEF Claim, Row
  <2> QED BY <1>14, <2>4, <2>5, <2>6, <2>7 DEF Claim, TypeOK
<1>15. CASE ClaimFails
  BY <1>15 DEF ClaimFails, Without, TypeOK, Ids
<1>16. CASE Sleep
  BY <1>16 DEF Sleep, TypeOK, Ids
<1>17. ASSUME NEW w \in {"sent", "skipped"}, pc = "rooms", Record(w), NextRoom,
              UNCHANGED <<tableVars, handlerVars, batch>>, faults' \in Nat
       PROVE  TypeOK'
  <2>1. log' \in Seq(Entry)
    BY <1>17 DEF Record, Entry, TypeOK, Row
  <2>2. CASE pos < Len(cur.row.rooms) /\ pos' = pos + 1 /\ UNCHANGED <<pc, cur>>
    <3>1. Len(cur.row.rooms) \in Nat
      BY RoomListsFacts DEF TypeOK, Row
    <3>2. pos' \in 1..Len(cur'.row.rooms)
      BY <2>2, <3>1 DEF TypeOK
    <3> QED BY <1>17, <2>1, <2>2, <3>2 DEF TypeOK, Ids
  <2>3. CASE LeaveRow
    BY <1>17, <2>1, <2>3, NobodyFacts DEF LeaveRow, TypeOK, Ids
  <2> QED BY <1>17, <2>2, <2>3 DEF NextRoom
<1>18. CASE Publish
  BY <1>17, <1>18 DEF Publish, TypeOK
<1>23. CASE SkipRoom
  <2>1. /\ pc = "rooms" /\ Record("skipped") /\ NextRoom
        /\ UNCHANGED <<tableVars, handlerVars, batch>> /\ faults' \in Nat
    BY <1>23 DEF SkipRoom, TypeOK
  <2> QED BY <1>17, <2>1
<1>19. CASE LookupFails
  <2>1. /\ pc = "rooms" /\ Record("skipped") /\ NextRoom
        /\ UNCHANGED <<tableVars, handlerVars, batch>> /\ faults' \in Nat
    BY <1>19 DEF LookupFails, TypeOK
  <2> QED BY <1>17, <2>1
<1>20. CASE PublishFails \/ Crash
  <2>1. Restart /\ UNCHANGED <<tableVars, handlerVars, log>> /\ faults' \in Nat
    BY <1>20 DEF PublishFails, Crash, TypeOK
  <2>2. batch' \in [DOMAIN batch' -> Row] /\ DOMAIN batch' \subseteq Ids'
    BY <2>1 DEF Restart, NoBatch
  <2>3. cur' \in [id : Nat, row : Row] /\ cur'.id = NoRow /\ pos' \in 1..Len(cur'.row.rooms)
    BY <2>1, NobodyFacts DEF Restart
  <2> QED BY <2>1, <2>2, <2>3 DEF Restart, TypeOK
<1>21. CASE Tick
  BY <1>21 DEF Tick, TypeOK, Ids
<1>22. CASE UNCHANGED vars
  BY <1>22 DEF vars, TypeOK, Ids
<1> QED
  BY <1>1, <1>2, <1>3, <1>4, <1>5, <1>6, <1>7, <1>8, <1>9, <1>10, <1>11, <1>12, <1>13, <1>14,
     <1>15, <1>16, <1>18, <1>19, <1>20, <1>21, <1>22, <1>23
     DEF Next, ReplyStep, JoinStep, PumpWork, PumpFault

\* TypeOK holds in every reachable state, for every value of the constants:
\* every row, copy and loop index the code writes is of the kind it reads.
THEOREM TypeCorrect == Spec => []TypeOK
BY InitTypeOK, NextTypeOK, PTL DEF Spec

-----------------------------------------------------------------------------
(* The inductive invariant behind BroadcastAtMostOnce and NotBeforeDue.     *)

\* A loaded row stays pending until it is claimed, and the copy agrees with
\* the table on what no writer changes.
BatchFresh ==
  \A i \in DOMAIN batch :
    /\ rows[i].status = 0
    /\ batch[i].type = rows[i].type
    /\ batch[i].due = rows[i].due
    /\ rows[i].type \in {2, 10} => rows[i].due <= now

\* The row in hand is claimed; only replies and welcomes may be reset under it.
HandClaimed ==
  cur.id # NoRow =>
    /\ rows[cur.id].type \in {2, 10} => rows[cur.id].due <= now
    /\ rows[cur.id].type = 2 => rows[cur.id].status = 1

\* Handlers write back replies and welcomes, never a broadcast.
HandlersOwn ==
  /\ \A h \in Replies : reply[h].pc = "created" =>
       reply[h].id \in Ids /\ rows[reply[h].id].type = 1
  /\ \A j \in Joins : join[j].pc = "update" =>
       join[j].id \in Ids /\ rows[join[j].id].type = 10

\* A broadcast the pump has dealt with is claimed for good, and the pump is
\* past every position it has dealt with.
LogClaimed ==
  \A a \in DOMAIN log :
    /\ log[a].id \in Ids
    /\ rows[log[a].id].type = 2 =>
         /\ rows[log[a].id].status = 1
         /\ cur.id = log[a].id => log[a].pos < pos

\* No position of a broadcast is dealt with twice, sent or skipped.
HandledOnce ==
  \A a, b \in DOMAIN log :
    (rows[log[a].id].type = 2 /\ log[a].id = log[b].id /\ log[a].pos = log[b].pos) => a = b

IndInv == TypeOK /\ BatchFresh /\ HandClaimed /\ HandlersOwn /\ LogClaimed /\ HandledOnce

\* What every writer but the pump does: rows stay where they are, and a row that
\* is new or saved is pending.
Evolves ==
  /\ \A i \in Ids :
       /\ i \in Ids'
       /\ rows'[i].type = rows[i].type
       /\ rows'[i].rooms = rows[i].rooms
       /\ rows'[i].due = rows[i].due
       /\ rows'[i].status = rows[i].status \/ (rows'[i].status = 0 /\ rows[i].type # 2)
  /\ \A i \in Ids' \ Ids : rows'[i].status = 0

LEMMA InitIndInv == Init => IndInv
<1> SUFFICES ASSUME Init PROVE IndInv
  OBVIOUS
<1>1. TypeOK
  BY InitTypeOK
<1>2. DOMAIN batch = {} /\ DOMAIN log = {} /\ cur.id = NoRow
  BY NobodyFacts DEF Init, NoBatch
<1>3. HandlersOwn
  BY DEF Init, HandlersOwn
<1> QED BY <1>1, <1>2, <1>3 DEF IndInv, BatchFresh, HandClaimed, LogClaimed, HandledOnce

\* A step of anybody but the pump keeps the invariant.
LEMMA OthersKeep ==
  ASSUME IndInv, TypeOK', Evolves, HandlersOwn', now' >= now,
         UNCHANGED <<pc, batch, cur, pos, log>>
  PROVE  IndInv'
<1>1. /\ \A i \in Ids : rows[i].due \in Nat
      /\ now \in Nat /\ now' \in Nat
      /\ DOMAIN batch \subseteq Ids
      /\ cur.id # NoRow => cur.id \in Ids
  <2>1. \A i \in Ids : rows[i].due \in Nat
    BY TableFacts DEF IndInv, Row
  <2> QED BY <2>1 DEF IndInv, TypeOK
<1>6. \A i \in Ids : rows[i].due <= now => rows'[i].due <= now'
  BY <1>1 DEF Evolves
<1>2. BatchFresh'
  BY <1>1, <1>6 DEF IndInv, BatchFresh, Evolves
<1>3. HandClaimed'
  BY <1>1, <1>6 DEF IndInv, HandClaimed, Evolves
<1>4. LogClaimed'
  BY DEF IndInv, LogClaimed, Evolves
<1>5. HandledOnce'
  BY DEF IndInv, LogClaimed, HandledOnce, Evolves
<1> QED BY <1>2, <1>3, <1>4, <1>5 DEF IndInv

LEMMA AppendEvolves ==
  ASSUME TypeOK, NEW r \in Row, rows' = Append(rows, r), r.status = 0
  PROVE  /\ Evolves
         /\ Ids' = Ids \cup {Len(rows) + 1} /\ Len(rows) + 1 \notin Ids
         /\ rows'[Len(rows) + 1] = r
         /\ \A i \in Ids : rows'[i] = rows[i]
BY DEF TypeOK, Evolves, Ids

LEMMA SameEvolves == ASSUME rows' = rows PROVE Evolves
BY DEF Evolves, Ids

\* The Saves of handlers: they own the row, and it keeps all but names and state.
LEMMA ReplySaves ==
  ASSUME TypeOK, HandlersOwn, NEW h \in Replies, ReplySave(h)
  PROVE  /\ Evolves /\ Ids' = Ids
         /\ reply[h].id \in Ids /\ rows[reply[h].id].type = 1
         /\ \A i \in Ids : rows'[i].names = rows[i].names
         /\ \A i \in Ids : rows'[i].status # rows[i].status => i = reply[h].id
<1>1. reply[h].id \in Ids /\ rows[reply[h].id].type = 1
  BY DEF ReplySave, HandlersOwn
<1>2. Ids' = Ids
  BY DEF ReplySave, Ids
<1> QED BY <1>1, <1>2, TableFacts DEF ReplySave, Evolves, Row, Ids

LEMMA JoinUpdates ==
  ASSUME TypeOK, HandlersOwn, NEW j \in Joins, JoinUpdate(j)
  PROVE  /\ Evolves /\ Ids' = Ids
         /\ join[j].id \in Ids /\ rows[join[j].id].type = 10
         /\ \A i \in Ids : rows'[i].names = IF i = join[j].id THEN NamesOf(j) ELSE rows[i].names
         /\ \A i \in Ids : rows'[i].status # rows[i].status => i = join[j].id
<1>1. join[j].id \in Ids /\ rows[join[j].id].type = 10
  BY DEF JoinUpdate, HandlersOwn
<1>2. Ids' = Ids
  BY DEF JoinUpdate, Ids
<1> QED BY <1>1, <1>2, TableFacts DEF JoinUpdate, Evolves, Row, Ids

\* The rows that are inserted
Inserted(r) == r \in Row /\ r.status = 0 /\ rows' = Append(rows, r)

LEMMA Inserts ==
  ASSUME TypeOK
  PROVE  /\ \A b \in Broadcasts : PostBroadcast(b) =>
              Inserted([type |-> 2, rooms |-> BroadcastRooms[b], names |-> {},
                        due |-> BroadcastDue[b], status |-> 0, hashed |-> TRUE])
         /\ \A h \in Replies : ReplyCreate(h) =>
              Inserted([type |-> 1, rooms |-> <<ReplyRoom[h]>>, names |-> {},
                        due |-> 0, status |-> 0, hashed |-> FALSE])
         /\ \A j \in Joins : JoinCreate(j) => \E t \in Nat :
              Inserted([type |-> 10, rooms |-> <<JoinRoom[j]>>, names |-> NamesOf(j),
                        due |-> t, status |-> 0, hashed |-> TRUE])
<1>1. ASSUME NEW b \in Broadcasts, PostBroadcast(b)
      PROVE  Inserted([type |-> 2, rooms |-> BroadcastRooms[b], names |-> {},
                       due |-> BroadcastDue[b], status |-> 0, hashed |-> TRUE])
  BY <1>1, RoomListsFacts, MessageQueueAssumption DEF Row, Inserted, PostBroadcast
<1>2. ASSUME NEW h \in Replies, ReplyCreate(h)
      PROVE  Inserted([type |-> 1, rooms |-> <<ReplyRoom[h]>>, names |-> {},
                       due |-> 0, status |-> 0, hashed |-> FALSE])
  BY <1>2, RoomListsFacts, MessageQueueAssumption DEF Row, Inserted, ReplyCreate
<1>3. ASSUME NEW j \in Joins, JoinCreate(j)
      PROVE  \E t \in Nat :
              Inserted([type |-> 10, rooms |-> <<JoinRoom[j]>>, names |-> NamesOf(j),
                        due |-> t, status |-> 0, hashed |-> TRUE])
  <2>1. PICK t \in join[j].at .. now :
          rows' = Append(rows, [type |-> 10, rooms |-> <<JoinRoom[j]>>, names |-> NamesOf(j),
                                due |-> t + Interval, status |-> 0, hashed |-> TRUE])
    BY <1>3 DEF JoinCreate
  <2> DEFINE due == t + Interval
  <2>2. NamesOf(j) \in SUBSET Joins /\ due \in Nat
    BY MessageQueueAssumption DEF NamesOf, TypeOK
  <2> HIDE DEF due
  <2>3. <<JoinRoom[j]>> \in RoomLists
    BY RoomListsFacts, MessageQueueAssumption
  <2>4. [type |-> 10, rooms |-> <<JoinRoom[j]>>, names |-> NamesOf(j),
         due |-> due, status |-> 0, hashed |-> TRUE] \in Row
    BY <2>2, <2>3 DEF Row
  <2> QED BY <2>1, <2>2, <2>4 DEF Inserted, due
<1> QED BY <1>1, <1>2, <1>3

LEMMA NextIndInv == IndInv /\ [Next]_vars => IndInv'
<1> SUFFICES ASSUME IndInv, [Next]_vars PROVE IndInv'
  OBVIOUS
<1>a. TypeOK
  BY DEF IndInv
<1>0. TypeOK /\ TypeOK'
  BY NextTypeOK DEF IndInv
<1> USE DEF handlerVars, pumpVars, tableVars
<1>1. ASSUME NEW b \in Broadcasts, PostBroadcast(b) PROVE IndInv'
  <2>1. Evolves
    BY <1>0, <1>1, Inserts, AppendEvolves DEF Inserted
  <2>2. HandlersOwn'
    BY <1>1, <2>1 DEF PostBroadcast, HandlersOwn, IndInv, Evolves
  <2> QED BY <1>0, <1>1, <2>1, <2>2, OthersKeep DEF PostBroadcast, TypeOK
<1>2. ASSUME NEW h \in Replies, ReplyCreate(h) PROVE IndInv'
  <2>1. Evolves /\ Len(rows) + 1 \in Ids' /\ rows'[Len(rows) + 1].type = 1
    <3> DEFINE r == [type |-> 1, rooms |-> <<ReplyRoom[h]>>, names |-> {},
                     due |-> 0, status |-> 0, hashed |-> FALSE]
    <3>1. Inserted(r) /\ r.type = 1
      BY <1>0, <1>2, Inserts
    <3> QED BY <1>0, <3>1, AppendEvolves DEF Inserted
  <2>2. join' = join
        /\ \A k \in Replies : reply'[k] = IF k = h THEN [pc |-> "created", id |-> Len(rows) + 1] ELSE reply[k]
    BY <1>0, <1>2 DEF ReplyCreate, TypeOK
  <2>3. HandlersOwn'
    BY <2>1, <2>2 DEF HandlersOwn, IndInv, Evolves
  <2> QED BY <1>0, <1>2, <2>1, <2>3, OthersKeep DEF ReplyCreate, TypeOK
<1>3. ASSUME NEW h \in Replies, ReplySave(h) PROVE IndInv'
  <2>1. Evolves
    BY <1>0, <1>3, ReplySaves DEF IndInv
  <2>2. HandlersOwn'
    BY <1>0, <1>3, <2>1 DEF ReplySave, HandlersOwn, IndInv, Evolves, TypeOK
  <2> QED BY <1>0, <1>3, <2>1, <2>2, OthersKeep DEF ReplySave, TypeOK
<1>4. ASSUME NEW h \in Replies, ReplyFails(h) PROVE IndInv'
  <2>1. Evolves
    BY <1>4, SameEvolves DEF ReplyFails
  <2>2. HandlersOwn'
    BY <1>0, <1>4 DEF ReplyFails, HandlersOwn, IndInv, TypeOK, Ids
  <2> QED BY <1>0, <1>4, <2>1, <2>2, OthersKeep DEF ReplyFails, TypeOK
<1>5. ASSUME NEW j \in Joins, JoinRead(j) PROVE IndInv'
  <2>1. Evolves
    BY <1>5, SameEvolves DEF JoinRead
  <2>2. \A k \in Joins : join'[k].pc = "update" =>
          join'[k] = join[k] \/ (join'[k].id \in Ids /\ rows[join'[k].id].type = 10)
    <3>1. CASE join' = [join EXCEPT ![j] = Copy("create", NoRow, {})]
      BY <1>a, <3>1 DEF Copy, TypeOK
    <3>2. ASSUME NEW i \in OpenWelcomes(JoinRoom[j]),
                 join' = [join EXCEPT ![j] = Copy("update", i, rows[i].names)]
          PROVE  \A k \in Joins : join'[k] = join[k] \/ (join'[k].id \in Ids /\ rows[join'[k].id].type = 10)
      BY <1>a, <3>2 DEF Copy, OpenWelcomes, Pending, TypeOK
    <3> QED BY <1>5, <3>1, <3>2 DEF JoinRead, Oldest
  <2>3. reply' = reply /\ rows' = rows
    BY <1>5 DEF JoinRead
  <2>4. HandlersOwn'
    BY <2>2, <2>3 DEF HandlersOwn, IndInv, Ids
  <2> QED BY <1>0, <1>5, <2>1, <2>4, OthersKeep DEF JoinRead, TypeOK
<1>6. ASSUME NEW j \in Joins, JoinReadFails(j) PROVE IndInv'
  <2>1. Evolves
    BY <1>6, SameEvolves DEF JoinReadFails
  <2>2. HandlersOwn'
    BY <1>0, <1>6 DEF JoinReadFails, HandlersOwn, IndInv, TypeOK, Copy, Ids
  <2> QED BY <1>0, <1>6, <2>1, <2>2, OthersKeep DEF JoinReadFails, TypeOK
<1>7. ASSUME NEW j \in Joins, JoinUpdate(j) PROVE IndInv'
  <2>1. Evolves
    BY <1>0, <1>7, JoinUpdates DEF IndInv
  <2>2. \A k \in Joins : join'[k].pc = "update" => join'[k] = join[k]
    BY <1>0, <1>7 DEF JoinUpdate, Ended, TypeOK
  <2>3. HandlersOwn'
    BY <1>7, <2>1, <2>2 DEF JoinUpdate, HandlersOwn, IndInv, Evolves
  <2> QED BY <1>0, <1>7, <2>1, <2>3, OthersKeep DEF JoinUpdate, TypeOK
<1>8. ASSUME NEW j \in Joins, JoinCreate(j) PROVE IndInv'
  <2>1. Evolves
    BY <1>0, <1>8, Inserts, AppendEvolves DEF Inserted
  <2>2. \A k \in Joins : join'[k].pc = "update" => join'[k] = join[k]
    BY <1>0, <1>8 DEF JoinCreate, Ended, TypeOK
  <2>3. reply' = reply
    BY <1>8 DEF JoinCreate
  <2>4. HandlersOwn'
    BY <2>1, <2>2, <2>3 DEF HandlersOwn, IndInv, Evolves
  <2> QED BY <1>0, <1>8, <2>1, <2>4, OthersKeep DEF JoinCreate, TypeOK
<1>9. ASSUME NEW j \in Joins, JoinFails(j) PROVE IndInv'
  <2>1. Evolves
    BY <1>9, SameEvolves DEF JoinFails
  <2>2. \A k \in Joins : join'[k].pc = "update" => join'[k] = join[k]
    BY <1>0, <1>9 DEF JoinFails, Ended, TypeOK
  <2>3. HandlersOwn'
    BY <1>9, <2>1, <2>2 DEF JoinFails, HandlersOwn, IndInv, Evolves
  <2> QED BY <1>0, <1>9, <2>1, <2>3, OthersKeep DEF JoinFails, TypeOK
<1>10. CASE Tick
  <2>1. Evolves /\ HandlersOwn'
    BY <1>10, SameEvolves DEF Tick, Ids, HandlersOwn, IndInv
  <2> QED BY <1>0, <1>10, <2>1, OthersKeep DEF Tick, TypeOK
<1>11. CASE UNCHANGED vars
  <2>1. Evolves /\ HandlersOwn'
    BY <1>11, SameEvolves DEF vars, Ids, HandlersOwn, IndInv
  <2> QED BY <1>0, <1>11, <2>1, OthersKeep DEF vars, TypeOK
\* The pump leaves the table alone and loads, drops or forgets copies.
<1>12. ASSUME UNCHANGED <<tableVars, handlerVars, log>>,
              (cur' = cur /\ pos' = pos) \/ cur' = Nobody,
              \A i \in DOMAIN batch' :
                 \/ i \in DOMAIN batch /\ batch'[i] = batch[i]
                 \/ i \in Immediate \cup Scheduled /\ batch'[i] = rows[i]
       PROVE  IndInv'
  <2>1. BatchFresh'
    BY <1>12 DEF IndInv, BatchFresh, Immediate, Scheduled, Pending
  <2>2. HandClaimed' /\ LogClaimed'
    BY <1>0, <1>12, NobodyFacts, TableFacts DEF IndInv, HandClaimed, LogClaimed, Ids
  <2>3. HandlersOwn' /\ HandledOnce'
    BY <1>12 DEF IndInv, HandlersOwn, HandledOnce, Ids
  <2> QED BY <1>0, <2>1, <2>2, <2>3 DEF IndInv
<1>13. CASE Connect \/ Sleep \/ LoadScheduledFails
  BY <1>12, <1>13 DEF Connect, Sleep, LoadScheduledFails
<1>14. CASE LoadImmediate
  BY <1>12, <1>14 DEF LoadImmediate, Oldest
<1>15. CASE LoadScheduled
  BY <1>12, <1>15 DEF LoadScheduled, Oldest
<1>16. CASE ClaimFails
  BY <1>12, <1>16 DEF ClaimFails, Without
<1>17. CASE PublishFails \/ Crash
  <2>1. /\ UNCHANGED <<tableVars, handlerVars, log>> /\ cur' = Nobody /\ batch' = NoBatch
    BY <1>17 DEF PublishFails, Crash, Restart
  <2>2. DOMAIN batch' = {}
    BY <2>1 DEF NoBatch
  <2> QED BY <1>12, <2>1, <2>2
<1>18. CASE Claim
  <2>1. PICK i \in HeadOfBatch : /\ rows' = [rows EXCEPT ![i] = Claimed(batch[i])]
                                /\ cur' = [id |-> i, row |-> Claimed(batch[i])]
                                /\ batch' = Without(i)
    BY <1>18 DEF Claim
  <2>2. /\ i \in DOMAIN batch /\ i \in Ids /\ rows[i].status = 0
        /\ batch[i] \in Row /\ batch[i].type = rows[i].type /\ batch[i].due = rows[i].due
        /\ rows[i].type \in {2, 10} => rows[i].due <= now
    BY <1>0 DEF HeadOfBatch, Oldest, LoadedImmediate, TypeOK, IndInv, BatchFresh
  <2>3. /\ Ids' = Ids
        /\ \A k \in Ids : k # i => rows'[k] = rows[k]
        /\ rows'[i].type = rows[i].type /\ rows'[i].due = rows[i].due /\ rows'[i].status = 1
    BY <2>1, <2>2 DEF Claimed, Row, Ids
  <2>4. BatchFresh'
    BY <1>0, <1>18, <2>1, <2>2, <2>3 DEF Claim, Without, IndInv, BatchFresh, TypeOK
  <2>5. HandClaimed'
    BY <1>18, <2>1, <2>2, <2>3 DEF Claim, HandClaimed
  <2>6. HandlersOwn'
    BY <1>18, <2>3 DEF Claim, IndInv, HandlersOwn
  <2>7. \A a \in DOMAIN log : log[a].id # i \/ rows[i].type # 2
    BY <2>2 DEF IndInv, LogClaimed
  <2>8. LogClaimed'
    BY <1>18, <2>1, <2>3, <2>7 DEF Claim, IndInv, LogClaimed
  <2>9. HandledOnce'
    BY <1>18, <2>3 DEF Claim, IndInv, LogClaimed, HandledOnce
  <2> QED BY <1>0, <2>4, <2>5, <2>6, <2>8, <2>9 DEF IndInv
\* One room of the row in hand is dealt with.
<1>19. ASSUME NEW w \in {"sent", "skipped"}, pc = "rooms", Record(w), NextRoom,
              UNCHANGED <<tableVars, handlerVars, batch>>
       PROVE  IndInv'
  <2> DEFINE e == [id |-> cur.id, pos |-> pos, what |-> w, hashed |-> cur.row.hashed]
             n == Len(log) + 1
  <2>1. /\ log \in Seq(Entry) /\ pos \in Nat /\ cur.id \in Ids /\ cur.id # NoRow
    BY <1>0, <1>19, RoomListsFacts DEF TypeOK, Row
  <2>2. /\ log' = Append(log, e) /\ DOMAIN log' = DOMAIN log \cup {n} /\ n \notin DOMAIN log
        /\ log'[n] = e /\ \A a \in DOMAIN log : log'[a] = log[a]
    BY <1>19, <2>1 DEF Record
  <2>3. (cur' = cur /\ pos' = pos + 1) \/ cur' = Nobody
    BY <1>19 DEF NextRoom, LeaveRow
  <2>4. BatchFresh' /\ HandClaimed' /\ HandlersOwn'
    BY <1>19, <2>3, NobodyFacts DEF IndInv, BatchFresh, HandClaimed, HandlersOwn, Ids
  <2>5. \A a \in DOMAIN log : log[a].pos \in Nat
    <3>1. \A a \in DOMAIN log : log[a] \in Entry
      BY <2>1, ElementOfSeq, LenProperties
    <3> QED BY <3>1 DEF Entry
  <2>6. LogClaimed'
    <3>1. ASSUME NEW a \in DOMAIN log'
          PROVE  /\ log'[a].id \in Ids'
                 /\ rows'[log'[a].id].type = 2 =>
                      /\ rows'[log'[a].id].status = 1
                      /\ cur'.id = log'[a].id => log'[a].pos < pos'
      <4>1. CASE a = n
        BY <1>19, <2>1, <2>2, <2>3, <4>1, NobodyFacts DEF IndInv, HandClaimed, Ids
      <4>2. CASE a \in DOMAIN log
        <5>1. log[a].id \in Ids /\ log[a].id # NoRow
          BY <1>0, <4>2, TableFacts DEF IndInv, LogClaimed
        <5> QED BY <1>19, <2>1, <2>2, <2>3, <2>5, <4>2, <5>1, NobodyFacts DEF IndInv, LogClaimed, Ids
      <4> QED BY <2>2, <4>1, <4>2
    <3> QED BY <3>1 DEF LogClaimed
  <2>7. \A a \in DOMAIN log : (rows[cur.id].type = 2 /\ log[a].id = cur.id) => log[a].pos # pos
    BY <2>1, <2>5 DEF IndInv, LogClaimed
  <2>8. HandledOnce'
    BY <1>19, <2>2, <2>7 DEF IndInv, HandledOnce
  <2> QED BY <1>0, <2>4, <2>6, <2>8 DEF IndInv
<1>20. CASE Publish \/ SkipRoom \/ LookupFails
  <2>1. pc = "rooms" /\ NextRoom /\ UNCHANGED <<tableVars, handlerVars, batch>>
    BY <1>20 DEF Publish, SkipRoom, LookupFails
  <2>2. Record("sent") \/ Record("skipped")
    BY <1>20 DEF Publish, SkipRoom, LookupFails
  <2> QED BY <1>19, <2>1, <2>2
<1> QED
  BY <1>1, <1>2, <1>3, <1>4, <1>5, <1>6, <1>7, <1>8, <1>9, <1>10, <1>11, <1>13, <1>14, <1>15,
     <1>16, <1>17, <1>18, <1>20 DEF Next, ReplyStep, JoinStep, PumpWork, PumpFault

\* A broadcast reaches each position of its room list at most once, whatever
\* the rooms, handlers, limits, errors and restarts (mqueue.go 102-163).
THEOREM BroadcastOnce == Spec => []BroadcastAtMostOnce
<1>1. IndInv => BroadcastAtMostOnce
  BY DEF IndInv, HandledOnce, BroadcastAtMostOnce
<1> QED BY <1>1, InitIndInv, NextIndInv, PTL DEF Spec

\* No scheduled row is dealt with before its send_time (mqueue.go 97).
THEOREM NeverEarly == Spec => NotBeforeDue
<1>1. IndInv /\ [Next]_vars => [\A a \in DOMAIN log' \ DOMAIN log :
         rows[log'[a].id].type \in {2, 10} => rows[log'[a].id].due <= now]_vars
  <2> SUFFICES ASSUME IndInv, Next, NEW a \in DOMAIN log' \ DOMAIN log
               PROVE  rows[log'[a].id].type \in {2, 10} => rows[log'[a].id].due <= now
    OBVIOUS
  <2>1. CASE \E w \in {"sent", "skipped"} : pc = "rooms" /\ Record(w)
    <3>1. PICK w \in {"sent", "skipped"} : pc = "rooms" /\ Record(w)
      BY <2>1
    <3>2. cur.id # NoRow /\ log \in Seq(Entry)
      BY <3>1 DEF IndInv, TypeOK
    <3>3. log'[a].id = cur.id
      BY <3>1, <3>2 DEF Record
    <3> QED BY <3>2, <3>3 DEF IndInv, HandClaimed
  <2>2. CASE UNCHANGED log
    BY <2>2
  <2>3. (\E w \in {"sent", "skipped"} : pc = "rooms" /\ Record(w)) \/ UNCHANGED log
    BY DEF Next, PumpWork, PumpFault, ReplyStep, JoinStep, PostBroadcast, ReplyCreate, ReplySave,
           ReplyFails, JoinRead, JoinReadFails, JoinUpdate, JoinCreate, JoinFails, Connect,
           LoadImmediate, LoadScheduled, LoadScheduledFails, Claim, ClaimFails, Sleep, Publish,
           SkipRoom, LookupFails, PublishFails, Crash, Tick
  <2> QED BY <2>1, <2>2, <2>3
<1> QED BY <1>1, InitIndInv, NextIndInv, PTL DEF Spec, NotBeforeDue

-----------------------------------------------------------------------------
(* The steps of the pump, as the invariants below see them.                *)

\* Copies are loaded, dropped or left alone.
Loads ==
  /\ UNCHANGED <<tableVars, handlerVars, cur, pos, log>>
  /\ \A i \in DOMAIN batch' : \/ i \in DOMAIN batch /\ batch'[i] = batch[i]
                              \/ i \in Ids /\ batch'[i] = rows[i]
  /\ faults' \in {faults, faults + 1}

\* A pending row is claimed; what was loaded is written.
ClaimsRow(i) ==
  /\ i \in Ids /\ i \in DOMAIN batch /\ rows[i].status = 0 /\ cur.id = NoRow
  /\ Ids' = Ids /\ \A k \in Ids : k # i => rows'[k] = rows[k]
  /\ rows'[i] = Claimed(batch[i]) /\ cur' = [id |-> i, row |-> Claimed(batch[i])] /\ pos' = 1
  /\ rows'[i].status = 1 /\ rows'[i].type = rows[i].type
  /\ rows'[i].rooms = batch[i].rooms /\ rows'[i].names = batch[i].names
  /\ batch' = Without(i)
  /\ UNCHANGED <<handlerVars, log, faults>>

\* A room of the row in hand is dealt with.
Deals ==
  /\ \E w \in {"sent", "skipped"} : Record(w)
  /\ pc = "rooms" /\ NextRoom
  /\ UNCHANGED <<tableVars, handlerVars, batch>>
  /\ faults' \in {faults, faults + 1}

Restarts == Restart /\ faults' = faults + 1 /\ UNCHANGED <<tableVars, handlerVars, log>>

LEMMA PumpSteps ==
  ASSUME IndInv, PumpWork \/ PumpFault
  PROVE  Loads \/ (\E i \in Ids : ClaimsRow(i)) \/ Deals \/ Restarts
<1> USE DEF tableVars, handlerVars, pumpVars
<1>1. CASE Connect \/ Sleep \/ LoadScheduledFails
  <2>1. Loads
    BY <1>1 DEF Loads, Connect, Sleep, LoadScheduledFails
  <2> QED BY <2>1
<1>2. CASE LoadImmediate \/ LoadScheduled
  <2>1. Loads
    BY <1>2 DEF Loads, LoadImmediate, LoadScheduled, Oldest, Immediate, Scheduled, Pending
  <2> QED BY <2>1
<1>3. CASE ClaimFails
  <2>1. Loads
    BY <1>3 DEF Loads, ClaimFails, Without
  <2> QED BY <2>1
<1>4. CASE Claim
  <2>1. PICK i \in HeadOfBatch : /\ rows' = [rows EXCEPT ![i] = Claimed(batch[i])]
                                 /\ cur' = [id |-> i, row |-> Claimed(batch[i])]
                                 /\ batch' = Without(i)
    BY <1>4 DEF Claim
  <2>2. /\ i \in DOMAIN batch /\ i \in Ids /\ rows[i].status = 0
        /\ batch[i] \in Row /\ batch[i].type = rows[i].type
    BY DEF HeadOfBatch, Oldest, LoadedImmediate, TypeOK, IndInv, BatchFresh
  <2>3. cur.id = NoRow /\ pos' = 1 /\ UNCHANGED <<handlerVars, log, faults>>
    BY <1>4 DEF Claim, IndInv, TypeOK
  <2>4. /\ Claimed(batch[i]).status = 1 /\ Claimed(batch[i]).type = rows[i].type
        /\ Claimed(batch[i]).rooms = batch[i].rooms /\ Claimed(batch[i]).names = batch[i].names
    BY <2>2 DEF Claimed, Row
  <2>5. Ids' = Ids /\ rows'[i] = Claimed(batch[i]) /\ \A k \in Ids : k # i => rows'[k] = rows[k]
    BY <2>1, <2>2 DEF Ids
  <2>6. ClaimsRow(i)
    BY <2>1, <2>2, <2>3, <2>4, <2>5 DEF ClaimsRow
  <2> QED BY <2>2, <2>6
<1>5. CASE Publish \/ SkipRoom \/ LookupFails
  <2>1. Deals
    BY <1>5 DEF Deals, Publish, SkipRoom, LookupFails
  <2> QED BY <2>1
<1>6. CASE PublishFails \/ Crash
  BY <1>6 DEF Restarts, PublishFails, Crash
<1> QED BY <1>1, <1>2, <1>3, <1>4, <1>5, <1>6 DEF PumpWork, PumpFault

\* The handlers' steps that leave the table alone: JoinRead apart, the transaction
\* or the reply fails, or the clock goes on.
Quiet == (\E h \in Replies : ReplyFails(h)) \/ (\E j \in Joins : JoinReadFails(j) \/ JoinFails(j)) \/ Tick

LEMMA NextSteps ==
  ASSUME [Next]_vars
  PROVE  \/ \E b \in Broadcasts : PostBroadcast(b)
         \/ \E h \in Replies : ReplyCreate(h) \/ ReplySave(h)
         \/ \E j \in Joins : JoinRead(j) \/ JoinUpdate(j) \/ JoinCreate(j)
         \/ Quiet
         \/ PumpWork \/ PumpFault
         \/ UNCHANGED vars
BY DEF Next, ReplyStep, JoinStep, Quiet

-----------------------------------------------------------------------------
(* The names of welcomes.                                                  *)

\* j was committed into row i: what NamesCommitted asks of a name.
Committed(j, i) ==
  /\ join[j].pc = "done" /\ join[j].id = i
  /\ rows[i].rooms = <<JoinRoom[j]>>
  /\ JoinRoom[j] \in Mentions

\* The names are right not only in the table but in every copy that may be saved
\* over it: the pump's and those of the transactions that join a welcome.
NamesInv ==
  /\ \A i \in Ids : \A j \in rows[i].names : Committed(j, i)
  /\ \A i \in DOMAIN batch : /\ batch[i].rooms = rows[i].rooms
                             /\ \A j \in batch[i].names : Committed(j, i)
  /\ \A h \in Joins : join[h].pc = "create" => join[h].names = {}
  /\ \A h \in Joins : join[h].pc = "update" =>
       /\ rows[join[h].id].rooms = <<JoinRoom[h]>>
       /\ \A j \in join[h].names : Committed(j, join[h].id)

\* Rows and commits stay; what is new in the table is committed, and copies are
\* taken from it.
LEMMA NamesKept ==
  ASSUME IndInv, NamesInv,
         \A i \in Ids : i \in Ids' /\ rows'[i].rooms = rows[i].rooms,
         \A j \in Joins : join[j].pc = "done" => join'[j] = join[j],
         \A i \in Ids' : \A j \in rows'[i].names :
           (i \in Ids /\ j \in rows[i].names) \/ Committed(j, i)',
         \A i \in DOMAIN batch' : \/ i \in DOMAIN batch /\ batch'[i] = batch[i]
                                  \/ i \in Ids /\ batch'[i] = rows[i],
         \A h \in Joins : join'[h].pc = "create" => join'[h].names = {},
         \A h \in Joins : join'[h].pc = "update" =>
           \/ join'[h] = join[h]
           \/ LET i == join'[h].id
              IN  i \in Ids /\ rows[i].rooms = <<JoinRoom[h]>> /\ join'[h].names = rows[i].names
  PROVE  NamesInv'
<1>1. \A i \in Ids : \A j \in Joins : Committed(j, i) => Committed(j, i)'
  BY DEF Committed
<1>2. /\ DOMAIN batch \subseteq Ids
      /\ \A i \in Ids : rows[i].names \subseteq Joins
      /\ \A i \in DOMAIN batch : batch[i].names \subseteq Joins
      /\ \A h \in Joins : join[h].names \subseteq Joins
      /\ \A h \in Joins : join[h].pc = "update" => join[h].id \in Ids
  <2>1. \A i \in DOMAIN batch : batch[i].names \subseteq Joins
    BY DEF IndInv, TypeOK, Row
  <2> QED BY <2>1, TableFacts DEF IndInv, TypeOK, HandlersOwn
<1>3. \A i \in Ids' : \A j \in rows'[i].names : Committed(j, i)'
  BY <1>1, <1>2 DEF NamesInv
<1>4. ASSUME NEW i \in DOMAIN batch'
      PROVE  batch'[i].rooms = rows'[i].rooms /\ \A j \in batch'[i].names : Committed(j, i)'
  <2>1. CASE i \in DOMAIN batch /\ batch'[i] = batch[i]
    BY <1>1, <1>2, <2>1 DEF NamesInv
  <2>2. CASE i \in Ids /\ batch'[i] = rows[i]
    BY <1>1, <1>2, <2>2 DEF NamesInv
  <2> QED BY <1>4, <2>1, <2>2
<1>5. ASSUME NEW h \in Joins, join'[h].pc = "update"
      PROVE  (/\ rows[join[h].id].rooms = <<JoinRoom[h]>>
              /\ \A j \in join[h].names : Committed(j, join[h].id))'
  <2>1. PICK i \in Ids : /\ i = join'[h].id /\ rows[i].rooms = <<JoinRoom[h]>>
                         /\ \A j \in join'[h].names : j \in Joins /\ Committed(j, i)
    <3>1. CASE join'[h] = join[h]
      <4> DEFINE i == join[h].id
      <4>1. join[h].pc = "update" /\ i \in Ids /\ join'[h].id = i /\ join'[h].names = join[h].names
        BY <1>2, <1>5, <3>1
      <4>2. rows[i].rooms = <<JoinRoom[h]>> /\ \A j \in join[h].names : j \in Joins /\ Committed(j, i)
        BY <1>2, <4>1 DEF NamesInv
      <4> QED BY <4>1, <4>2
    <3>2. CASE join'[h] # join[h]
      <4> DEFINE i == join'[h].id
      <4>1. i \in Ids /\ rows[i].rooms = <<JoinRoom[h]>> /\ join'[h].names = rows[i].names
        BY <1>5, <3>2
      <4>2. \A j \in rows[i].names : j \in Joins /\ Committed(j, i)
        BY <1>2, <4>1 DEF NamesInv
      <4> QED BY <4>1, <4>2
    <3> QED BY <3>1, <3>2
  <2>2. \A j \in join'[h].names : Committed(j, i)'
    BY <1>1, <2>1
  <2> QED BY <2>1, <2>2 DEF Committed
<1>6. \A h \in Joins : join'[h].pc = "create" => join'[h].names = {}
  OBVIOUS
<1> QED BY <1>3, <1>4, <1>5, <1>6 DEF NamesInv

LEMMA NextNames ==
  ASSUME IndInv, NamesInv, [Next]_vars
  PROVE  NamesInv'
<1> USE DEF tableVars, handlerVars, pumpVars
<1>0. TypeOK /\ HandlersOwn
  BY DEF IndInv
<1>1. ASSUME NEW r, Inserted(r), r.names = {}, UNCHANGED <<join, batch>> PROVE NamesInv'
  <2>1. /\ Evolves
        /\ \A i \in Ids' : i \in Ids \/ rows'[i].names = {}
        /\ \A i \in Ids : rows'[i].names = rows[i].names
    BY <1>0, <1>1, AppendEvolves DEF Inserted
  <2> QED BY <1>1, <2>1, NamesKept DEF Evolves, NamesInv
<1>2. CASE (\E b \in Broadcasts : PostBroadcast(b)) \/ (\E h \in Replies : ReplyCreate(h))
  <2>1. \E r : Inserted(r) /\ r.names = {}
    <3>1. ASSUME NEW b \in Broadcasts, PostBroadcast(b) PROVE \E r : Inserted(r) /\ r.names = {}
      <4>1. Inserted([type |-> 2, rooms |-> BroadcastRooms[b], names |-> {},
                      due |-> BroadcastDue[b], status |-> 0, hashed |-> TRUE])
        BY <1>0, <3>1, Inserts
      <4> QED BY <4>1
    <3>2. ASSUME NEW h \in Replies, ReplyCreate(h) PROVE \E r : Inserted(r) /\ r.names = {}
      <4>1. Inserted([type |-> 1, rooms |-> <<ReplyRoom[h]>>, names |-> {},
                      due |-> 0, status |-> 0, hashed |-> FALSE])
        BY <1>0, <3>2, Inserts
      <4> QED BY <4>1
    <3> QED BY <1>2, <3>1, <3>2
  <2> QED BY <1>1, <1>2, <2>1 DEF PostBroadcast, ReplyCreate
<1>3. ASSUME NEW h \in Replies, ReplySave(h) PROVE NamesInv'
  BY <1>0, <1>3, ReplySaves, NamesKept DEF ReplySave, Evolves, NamesInv
<1>4. ASSUME NEW j \in Joins, JoinRead(j) PROVE NamesInv'
  <2>1. UNCHANGED <<rows, batch>> /\ \A k \in Joins : k # j => join'[k] = join[k]
    BY <1>0, <1>4 DEF JoinRead, TypeOK
  <2>2. \/ join'[j].pc = "create" /\ join'[j].names = {}
        \/ LET i == join'[j].id
           IN  /\ join'[j].pc = "update"
               /\ i \in Ids /\ rows[i].rooms = <<JoinRoom[j]>> /\ join'[j].names = rows[i].names
    <3>1. ASSUME join' = [join EXCEPT ![j] = Copy("create", NoRow, {})]
          PROVE  join'[j].pc = "create" /\ join'[j].names = {}
      BY <1>0, <3>1 DEF Copy, TypeOK
    <3>2. ASSUME NEW i \in Oldest(OpenWelcomes(JoinRoom[j]), 1),
                 join' = [join EXCEPT ![j] = Copy("update", i, rows[i].names)]
          PROVE  /\ join'[j].pc = "update" /\ join'[j].id = i /\ join'[j].names = rows[i].names
                 /\ i \in Ids /\ rows[i].rooms = <<JoinRoom[j]>>
      BY <1>0, <3>2 DEF Copy, TypeOK, Oldest, OpenWelcomes, Pending
    <3> QED BY <1>4, <3>1, <3>2 DEF JoinRead
  <2>3. join[j].pc = "idle"
    BY <1>4 DEF JoinRead
  <2> QED BY <2>1, <2>2, <2>3, NamesKept DEF Ids, NamesInv
<1>5. ASSUME NEW j \in Joins, JoinUpdate(j) PROVE NamesInv'
  <2>0. PICK i \in Ids : i = join[j].id
    BY <1>0, <1>5, JoinUpdates
  <2>1. /\ Evolves /\ Ids' = Ids
        /\ \A k \in Ids : rows'[k].names = IF k = i THEN NamesOf(j) ELSE rows[k].names
    BY <1>0, <1>5, <2>0, JoinUpdates
  <2>2. /\ join[j].pc = "update" /\ UNCHANGED batch
        /\ join'[j].pc = "done" /\ join'[j].id = i
        /\ \A k \in Joins : k # j => join'[k] = join[k]
    BY <1>0, <1>5, <2>0 DEF JoinUpdate, Ended, TypeOK
  <2>3. rows[i].rooms = <<JoinRoom[j]>> /\ \A k \in join[j].names : k \in Joins /\ Committed(k, i)
    BY <1>0, <2>0, <2>2 DEF NamesInv, TypeOK
  <2>4. \A k \in NamesOf(j) : Committed(k, i)'
    BY <2>1, <2>2, <2>3 DEF NamesOf, Committed, Evolves
  <2>5. \A k \in Ids' : \A o \in rows'[k].names : (k \in Ids /\ o \in rows[k].names) \/ Committed(o, k)'
    BY <2>1, <2>4
  <2>6. \A k \in Ids : k \in Ids' /\ rows'[k].rooms = rows[k].rooms
    BY <2>1 DEF Evolves
  <2>7. \A k \in Joins : /\ join[k].pc = "done" => join'[k] = join[k]
                         /\ join'[k].pc = "update" => join'[k] = join[k]
                         /\ join'[k].pc = "create" => join'[k].names = {}
    BY <2>2 DEF NamesInv
  <2> QED BY <2>2, <2>5, <2>6, <2>7, NamesKept
<1>6. ASSUME NEW j \in Joins, JoinCreate(j) PROVE NamesInv'
  <2>0. PICK n \in {Len(rows) + 1} : TRUE
    OBVIOUS
  <2>1. PICK t \in Nat : Inserted([type |-> 10, rooms |-> <<JoinRoom[j]>>, names |-> NamesOf(j),
                                   due |-> t, status |-> 0, hashed |-> TRUE])
    BY <1>0, <1>6, Inserts
  <2>2. /\ Evolves /\ Ids' = Ids \cup {n} /\ \A i \in Ids : rows'[i].names = rows[i].names
        /\ rows'[n].names = NamesOf(j) /\ rows'[n].rooms = <<JoinRoom[j]>>
    <3> DEFINE r == [type |-> 10, rooms |-> <<JoinRoom[j]>>, names |-> NamesOf(j),
                     due |-> t, status |-> 0, hashed |-> TRUE]
    <3>1. Inserted(r) /\ r.names = NamesOf(j) /\ r.rooms = <<JoinRoom[j]>>
      BY <2>1
    <3> HIDE DEF r
    <3> QED BY <1>0, <2>0, <3>1, AppendEvolves DEF Inserted
  <2>3. /\ join[j].pc = "create" /\ UNCHANGED batch
        /\ join'[j].pc = "done" /\ join'[j].id = n
        /\ \A k \in Joins : k # j => join'[k] = join[k]
    BY <1>0, <1>6, <2>0 DEF JoinCreate, Ended, TypeOK
  <2>4. \A k \in NamesOf(j) : Committed(k, n)'
    BY <2>2, <2>3 DEF NamesInv, NamesOf, Committed
  <2> QED BY <2>2, <2>3, <2>4, NamesKept DEF Evolves, NamesInv
<1>7. CASE Quiet \/ UNCHANGED vars
  <2>1. UNCHANGED <<rows, batch>>
    BY <1>7 DEF Quiet, ReplyFails, JoinReadFails, JoinFails, Tick, vars
  <2>2. \A k \in Joins : \/ join'[k] = join[k]
                         \/ join'[k].pc = "failed" /\ join[k].pc # "done"
                         \/ join'[k].pc = "create" /\ join'[k].names = {} /\ join[k].pc # "done"
    BY <1>0, <1>7 DEF Quiet, ReplyFails, JoinReadFails, JoinFails, Tick, vars, Copy, Ended, TypeOK
  <2> QED BY <2>1, <2>2, NamesKept DEF Ids, NamesInv
<1>8. CASE PumpWork \/ PumpFault
  <2>1. CASE Loads \/ Deals
    BY <2>1, NamesKept DEF Loads, Deals, Ids, NamesInv
  <2>2. CASE Restarts
    <3>1. UNCHANGED <<rows, join>> /\ DOMAIN batch' = {}
      BY <2>2 DEF Restarts, Restart, NoBatch
    <3> QED BY <3>1, NamesKept DEF Ids, NamesInv
  <2>3. ASSUME NEW i \in Ids, ClaimsRow(i) PROVE NamesInv'
    <3>1. /\ Ids' = Ids /\ i \in DOMAIN batch /\ join' = join /\ batch' = Without(i)
          /\ \A k \in Ids : k # i => rows'[k] = rows[k]
          /\ rows'[i].rooms = batch[i].rooms /\ rows'[i].names = batch[i].names
      BY <2>3 DEF ClaimsRow
    <3>2. rows'[i].rooms = rows[i].rooms /\ \A j \in batch[i].names : Committed(j, i)
      BY <3>1 DEF NamesInv
    <3>3. \A j \in rows'[i].names : Committed(j, i)'
      BY <3>1, <3>2 DEF Committed
    <3>4. \A k \in DOMAIN batch' : k \in DOMAIN batch /\ batch'[k] = batch[k]
      BY <3>1 DEF Without
    <3> QED BY <3>1, <3>2, <3>3, <3>4, NamesKept DEF NamesInv
  <2> QED BY <1>8, <2>1, <2>2, <2>3, PumpSteps
<1> QED BY <1>2, <1>3, <1>4, <1>5, <1>6, <1>7, <1>8, NextSteps

LEMMA InitNames == Init => NamesInv
<1> SUFFICES ASSUME Init PROVE NamesInv
  OBVIOUS
<1>1. DOMAIN batch = {} /\ Ids = {} /\ \A j \in Joins : join[j].pc = "idle"
  BY DEF Init, NoBatch, Ids
<1> QED BY <1>1 DEF NamesInv

\* A welcome names only members whose own transaction committed for that very
\* row, for a room whose text asks for names (sync.go 528-548).
THEOREM WelcomesName == Spec => []NamesCommitted
<1>1. Init => IndInv /\ NamesInv
  BY InitIndInv, InitNames
<1>2. IndInv /\ NamesInv /\ [Next]_vars => IndInv' /\ NamesInv'
  BY NextIndInv, NextNames
<1>3. NamesInv => NamesCommitted
  BY DEF NamesInv, Committed, NamesCommitted
<1> QED BY <1>1, <1>2, <1>3, PTL DEF Spec

-----------------------------------------------------------------------------
(* Rows left behind.                                                       *)

\* The pump has dealt with the rooms of the row in hand that it is past, and the
\* copies have the rooms of the table.
Walked ==
  /\ \A i \in DOMAIN batch : batch[i].rooms = rows[i].rooms
  /\ cur.id # NoRow =>
       /\ cur.row.rooms = rows[cur.id].rooms
       /\ \A p \in 1 .. pos - 1 : \E a \in DOMAIN log : log[a].id = cur.id /\ log[a].pos = p

LEMMA LenFacts ==
  ASSUME TypeOK
  PROVE  /\ IsFiniteSet(Ids) /\ IsFiniteSet(DOMAIN log)
         /\ log \in Seq(Entry) /\ Len(log) \in Nat /\ DOMAIN log = 1 .. Len(log)
         /\ faults \in Nat
<1>1. Len(rows) \in Nat /\ DOMAIN rows = 1 .. Len(rows) /\ Len(log) \in Nat /\ DOMAIN log = 1 .. Len(log)
  BY LenProperties DEF TypeOK
<1>2. IsFiniteSet(1 .. Len(rows)) /\ IsFiniteSet(1 .. Len(log))
  BY <1>1, FS_Interval
<1> QED BY <1>1, <1>2 DEF Ids, TypeOK

\* What Record adds to the log
LEMMA Recorded ==
  ASSUME TypeOK, NEW w \in {"sent", "skipped"}, Record(w)
  PROVE  \E n \in DOMAIN log' :
           /\ n \notin DOMAIN log /\ DOMAIN log' = DOMAIN log \cup {n}
           /\ log'[n] = [id |-> cur.id, pos |-> pos, what |-> w, hashed |-> cur.row.hashed]
           /\ \A a \in DOMAIN log : log'[a] = log[a]
<1> DEFINE e == [id |-> cur.id, pos |-> pos, what |-> w, hashed |-> cur.row.hashed]
           n == Len(log) + 1
<1>1. log' = Append(log, e) /\ log \in Seq(Entry)
  BY LenFacts DEF Record
<1> HIDE DEF e
<1>2. /\ DOMAIN log' = DOMAIN log \cup {n} /\ n \notin DOMAIN log /\ log'[n] = e
      /\ \A a \in DOMAIN log : log'[a] = log[a]
  BY <1>1, LenFacts
<1> QED BY <1>2 DEF e

LEMMA StrandedFinite ==
  ASSUME TypeOK
  PROVE  IsFiniteSet(Stranded)
BY LenFacts, FS_Subset DEF Stranded

\* No row is left behind: the bound holds on.
LEMMA StrandedKept ==
  ASSUME TypeOK, TypeOK', StrandedByFaults, Stranded' \subseteq Stranded, faults' \in {faults, faults + 1}
  PROVE  StrandedByFaults'
<1>1. Cardinality(Stranded)' <= Cardinality(Stranded)
  BY StrandedFinite, FS_Subset
<1>2. IsFiniteSet(Stranded) /\ IsFiniteSet(Stranded)' /\ faults \in Nat /\ faults' \in Nat
  BY StrandedFinite, FS_Subset, LenFacts
<1>3. Cardinality(Stranded) \in Nat /\ Cardinality(Stranded)' \in Nat
  BY <1>2, FS_CardinalityType
<1> QED BY <1>1, <1>2, <1>3 DEF StrandedByFaults

LEMMA NextWalked ==
  ASSUME IndInv, IndInv', Walked, StrandedByFaults, [Next]_vars
  PROVE  Walked' /\ StrandedByFaults'
<1> USE DEF tableVars, handlerVars, pumpVars
<1>0. TypeOK /\ TypeOK' /\ HandlersOwn /\ LogClaimed
  BY DEF IndInv
<1>1. /\ DOMAIN batch \subseteq Ids /\ (cur.id # NoRow => cur.id \in Ids)
      /\ pos \in Nat /\ 1 \in 1 .. pos /\ faults \in Nat /\ NoRow \notin Ids
  <2>1. pos \in Nat /\ 1 <= pos
    BY <1>0, RoomListsFacts DEF TypeOK, Row
  <2> QED BY <1>0, <2>1, TableFacts DEF TypeOK
\* A writer resets rows and inserts pending ones.
<1>2. ASSUME Evolves, UNCHANGED <<batch, cur, pos, log>>, faults' \in {faults, faults + 1}
      PROVE  Walked' /\ StrandedByFaults'
  <2>1. Walked'
    BY <1>1, <1>2 DEF Walked, Evolves
  <2>2. Stranded' \subseteq Stranded
    BY <1>2 DEF Stranded, Evolves
  <2> QED BY <1>0, <1>2, <2>1, <2>2, StrandedKept
<1>3. CASE (\E b \in Broadcasts : PostBroadcast(b)) \/ (\E h \in Replies : ReplyCreate(h))
           \/ (\E j \in Joins : JoinCreate(j))
  <2>1. \E r : Inserted(r)
    BY <1>0, <1>3, Inserts
  <2>2. Evolves
    BY <1>0, <2>1, AppendEvolves DEF Inserted
  <2> QED BY <1>2, <1>3, <2>2 DEF PostBroadcast, ReplyCreate, JoinCreate
<1>4. CASE (\E h \in Replies : ReplySave(h)) \/ (\E j \in Joins : JoinUpdate(j))
  <2>1. Evolves
    BY <1>0, <1>4, ReplySaves, JoinUpdates
  <2> QED BY <1>2, <1>4, <2>1 DEF ReplySave, JoinUpdate
<1>5. CASE (\E j \in Joins : JoinRead(j)) \/ Quiet \/ UNCHANGED vars
  <2>1. UNCHANGED <<rows, batch, cur, pos, log>> /\ faults' \in {faults, faults + 1}
    BY <1>5 DEF JoinRead, Quiet, ReplyFails, JoinReadFails, JoinFails, Tick, vars
  <2> QED BY <1>2, <2>1, SameEvolves
<1>6. CASE Loads
  <2>1. Walked'
    BY <1>6 DEF Loads, Walked
  <2>2. Stranded' = Stranded
    BY <1>6 DEF Loads, Stranded, Ids
  <2> QED BY <1>0, <1>6, <2>1, <2>2, StrandedKept DEF Loads
<1>7. ASSUME NEW i \in Ids, ClaimsRow(i) PROVE Walked' /\ StrandedByFaults'
  <2>1. /\ i \in DOMAIN batch /\ rows[i].status = 0 /\ cur.id = NoRow
        /\ Ids' = Ids /\ \A k \in Ids : k # i => rows'[k] = rows[k]
        /\ cur'.id = i /\ cur'.row = rows'[i] /\ pos' = 1
        /\ rows'[i].rooms = batch[i].rooms /\ batch' = Without(i) /\ UNCHANGED <<log, faults>>
    BY <1>7 DEF ClaimsRow
  <2>2. Walked'
    BY <1>1, <2>1 DEF Walked, Without
  <2>3. Stranded' \subseteq Stranded
    BY <1>1, <2>1 DEF Stranded
  <2> QED BY <1>0, <2>1, <2>2, <2>3, StrandedKept
<1>8. CASE Deals
  <2>1. PICK w \in {"sent", "skipped"} : Record(w)
    BY <1>8 DEF Deals
  <2>2. PICK n \in DOMAIN log' :
          /\ n \notin DOMAIN log /\ DOMAIN log' = DOMAIN log \cup {n}
          /\ log'[n] = [id |-> cur.id, pos |-> pos, what |-> w, hashed |-> cur.row.hashed]
          /\ \A a \in DOMAIN log : log'[a] = log[a]
    BY <1>0, <2>1, Recorded
  <2>3. /\ cur.id # NoRow /\ UNCHANGED <<rows, batch>> /\ Ids' = Ids
        /\ \/ pos' = pos + 1 /\ cur' = cur
           \/ pos = Len(cur.row.rooms) /\ cur' = Nobody
    BY <1>0, <1>8 DEF Deals, NextRoom, LeaveRow, TypeOK, Ids
  <2>4. \A p \in 1 .. pos : \E a \in DOMAIN log' : log'[a].id = cur.id /\ log'[a].pos = p
    <3> SUFFICES ASSUME NEW p \in 1 .. pos PROVE \E a \in DOMAIN log' : log'[a].id = cur.id /\ log'[a].pos = p
      OBVIOUS
    <3>1. CASE p = pos
      BY <2>2, <3>1
    <3>2. CASE p # pos
      <4>1. p \in 1 .. pos - 1
        BY <1>1, <3>2
      <4> QED BY <2>2, <2>3, <4>1 DEF Walked
    <3> QED BY <3>1, <3>2
  <2>5. Walked'
    BY <1>1, <2>3, <2>4, NobodyFacts DEF Walked
  <2>6. Stranded' \subseteq Stranded
    <3> SUFFICES ASSUME NEW i \in Stranded' PROVE i \in Stranded
      OBVIOUS
    <3>1. /\ i \in Ids /\ rows[i].status = 1 /\ cur'.id # i
          /\ \E p \in DOMAIN rows[i].rooms : \A a \in DOMAIN log' : ~(log'[a].id = i /\ log'[a].pos = p)
      BY <2>3 DEF Stranded
    <3>2. PICK p \in DOMAIN rows[i].rooms : \A a \in DOMAIN log' : ~(log'[a].id = i /\ log'[a].pos = p)
      BY <3>1
    <3>3. cur.id # i
      <4> SUFFICES ASSUME cur.id = i PROVE FALSE
        OBVIOUS
      <4>1. pos = Len(rows[i].rooms)
        BY <2>3, <3>1 DEF Walked
      <4>2. DOMAIN rows[i].rooms = 1 .. pos
        BY <1>0, <3>1, <4>1, TableFacts, LenProperties DEF Row, RoomLists
      <4> QED BY <2>4, <3>2, <4>2
    <3> QED BY <2>2, <3>1, <3>2, <3>3 DEF Stranded
  <2> QED BY <1>0, <1>8, <2>5, <2>6, StrandedKept DEF Deals
<1>9. CASE Restarts
  <2>1. /\ UNCHANGED <<rows, log>> /\ DOMAIN batch' = {} /\ cur' = Nobody /\ faults' = faults + 1 /\ Ids' = Ids
    BY <1>9 DEF Restarts, Restart, NoBatch, Ids
  <2>2. Walked'
    BY <2>1, NobodyFacts DEF Walked
  <2>3. Stranded' \subseteq Stranded \cup {cur.id}
    BY <2>1 DEF Stranded
  <2>4. IsFiniteSet(Stranded) /\ Cardinality(Stranded) \in Nat
    BY <1>0, StrandedFinite, FS_CardinalityType
  <2>5. /\ IsFiniteSet(Stranded \cup {cur.id})
        /\ Cardinality(Stranded \cup {cur.id}) <= Cardinality(Stranded) + 1
    BY <2>4, FS_AddElement
  <2>6. Cardinality(Stranded') <= Cardinality(Stranded \cup {cur.id}) /\ IsFiniteSet(Stranded')
    BY <2>3, <2>5, FS_Subset
  <2>7. Cardinality(Stranded') \in Nat /\ Cardinality(Stranded \cup {cur.id}) \in Nat
    BY <2>5, <2>6, FS_CardinalityType
  <2>8. StrandedByFaults'
    BY <1>1, <2>1, <2>4, <2>5, <2>6, <2>7 DEF StrandedByFaults
  <2> QED BY <2>2, <2>8
<1>10. CASE PumpWork \/ PumpFault
  BY <1>6, <1>7, <1>8, <1>9, <1>10, PumpSteps
<1> QED BY <1>3, <1>4, <1>5, <1>10, NextSteps

LEMMA InitWalked == Init => Walked /\ StrandedByFaults
<1> SUFFICES ASSUME Init PROVE Walked /\ StrandedByFaults
  OBVIOUS
<1>1. DOMAIN batch = {} /\ cur.id = NoRow /\ Ids = {} /\ faults = 0
  BY NobodyFacts DEF Init, NoBatch, Ids
<1>2. Stranded = {}
  BY <1>1 DEF Stranded
<1> QED BY <1>1, <1>2, FS_EmptySet DEF Walked, StrandedByFaults

\* A failed publish or a crash strands at most the one row in hand: the rest of
\* the loaded batch is not claimed yet and is loaded again (mqueue.go 157-168).
THEOREM FaultsStrandOne == Spec => []StrandedByFaults
<1>1. Init => IndInv /\ Walked /\ StrandedByFaults
  BY InitIndInv, InitWalked
<1>2. IndInv /\ Walked /\ StrandedByFaults /\ [Next]_vars => IndInv' /\ Walked' /\ StrandedByFaults'
  BY NextIndInv, NextWalked
<1> QED BY <1>1, <1>2, PTL DEF Spec

-----------------------------------------------------------------------------
(* Every send is paid for.                                                 *)

\* Handlers that have begun are finitely many, and no other has written a row.
Begun ==
  /\ \A h \in Replies : reply[h].pc = "idle" => reply[h].id = NoRow
  /\ IsFiniteSet({h \in Replies : reply[h].pc # "idle"})
  /\ IsFiniteSet({j \in Joins : join[j].pc # "idle"})

One(b) == IF b THEN 1 ELSE 0

\* A pending row will be sent once more, and the row in hand to the rooms that
\* the pump has not passed.
Paid ==
  \A i \in Ids : \A p \in DOMAIN rows[i].rooms :
    Cardinality(SentAt(i, p)) + One(rows[i].status = 0) + One(cur.id = i /\ pos <= p) <= Wakes(i)


\* The handlers that wrote row i: those that created it, and those that saved it
Authors(i) == {h \in Replies : reply[h].id = i}
Savers(i) == {h \in Replies : reply[h].id = i /\ reply[h].pc = "done"}
Joiners(i) == {j \in Joins : join[j].pc = "done" /\ join[j].id = i}

\* Wakes(i) in their terms
Written(i) ==
  /\ IsFiniteSet(Authors(i)) /\ IsFiniteSet(Savers(i)) /\ IsFiniteSet(Joiners(i))
  /\ Cardinality(Authors(i)) \in Nat /\ Cardinality(Savers(i)) \in Nat /\ Cardinality(Joiners(i)) \in Nat
  /\ rows[i].type = 2 => Wakes(i) = 1
  /\ rows[i].type = 1 => Wakes(i) = Cardinality(Authors(i)) + Cardinality(Savers(i))
  /\ rows[i].type = 10 => Wakes(i) = Cardinality(Joiners(i))
  /\ i # NoRow /\ rows[i].type \in {1, 2, 10} /\ Wakes(i) \in Nat

AllWritten == \A i \in Ids : Written(i)

LEMMA WakesFacts == TypeOK /\ Begun => AllWritten
<1> SUFFICES ASSUME TypeOK, Begun, NEW i \in Ids PROVE Written(i)
  BY DEF AllWritten
<1>1. /\ Authors(i) \subseteq {h \in Replies : reply[h].pc # "idle"}
      /\ Savers(i) \subseteq {h \in Replies : reply[h].pc # "idle"}
      /\ Joiners(i) \subseteq {j \in Joins : join[j].pc # "idle"}
  BY TableFacts DEF Begun, Authors, Savers, Joiners
<1>2. IsFiniteSet(Authors(i)) /\ IsFiniteSet(Savers(i)) /\ IsFiniteSet(Joiners(i))
  BY <1>1, FS_Subset DEF Begun
<1>3. Cardinality(Authors(i)) \in Nat /\ Cardinality(Savers(i)) \in Nat /\ Cardinality(Joiners(i)) \in Nat
  BY <1>2, FS_CardinalityType
<1>4. rows[i].type \in {1, 2, 10} /\ i # NoRow
  BY TableFacts DEF Row
<1>5. /\ rows[i].type = 2 => Wakes(i) = 1
      /\ rows[i].type = 1 => Wakes(i) = Cardinality(Authors(i)) + Cardinality(Savers(i))
      /\ rows[i].type = 10 => Wakes(i) = Cardinality(Joiners(i))
  BY <1>4 DEF Wakes, Authors, Savers, Joiners
<1> QED BY <1>2, <1>3, <1>4, <1>5 DEF Written

LEMMA WakesNext == TypeOK' /\ Begun' => AllWritten'
BY WakesFacts, PTL

\* A set that grows has no fewer members, and more if one is new.
LEMMA Grows ==
  ASSUME NEW S, NEW T, IsFiniteSet(T), S \subseteq T
  PROVE  /\ Cardinality(S) <= Cardinality(T)
         /\ S # T => Cardinality(S) + 1 <= Cardinality(T)
<1>1. IsFiniteSet(S) /\ Cardinality(S) <= Cardinality(T) /\ (Cardinality(T) = Cardinality(S) => S = T)
  BY FS_Subset
<1>2. Cardinality(S) \in Nat /\ Cardinality(T) \in Nat
  BY <1>1, FS_CardinalityType
<1> QED BY <1>1, <1>2

\* What a handler has written is not taken back; a write that wakes a row counts.
LEMMA WakesGrow ==
  ASSUME TypeOK, TypeOK', Begun, Begun', NEW i \in Ids, i \in Ids', rows'[i].type = rows[i].type,
         \A h \in Replies : reply[h].id = i => /\ reply'[h].id = i
                                               /\ reply[h].pc = "done" => reply'[h].pc = "done",
         \A j \in Joins : (join[j].pc = "done" /\ join[j].id = i) => (join'[j].pc = "done" /\ join'[j].id = i)
  PROVE  /\ Wakes(i) <= Wakes(i)'
         /\ (rows[i].type = 1 /\ Savers(i) # Savers(i)') => Wakes(i) + 1 <= Wakes(i)'
         /\ (rows[i].type = 10 /\ Joiners(i) # Joiners(i)') => Wakes(i) + 1 <= Wakes(i)'
<1>1. Authors(i) \subseteq Authors(i)' /\ Savers(i) \subseteq Savers(i)' /\ Joiners(i) \subseteq Joiners(i)'
  BY DEF Authors, Savers, Joiners
<1>2. /\ IsFiniteSet(Authors(i))' /\ IsFiniteSet(Savers(i))' /\ IsFiniteSet(Joiners(i))'
      /\ Cardinality(Authors(i))' \in Nat /\ Cardinality(Savers(i))' \in Nat /\ Cardinality(Joiners(i))' \in Nat
      /\ rows[i].type = 2 => Wakes(i)' = 1
      /\ rows[i].type = 1 => Wakes(i)' = Cardinality(Authors(i))' + Cardinality(Savers(i))'
      /\ rows[i].type = 10 => Wakes(i)' = Cardinality(Joiners(i))'
  BY WakesNext DEF AllWritten, Written
<1>3. /\ Cardinality(Authors(i)) <= Cardinality(Authors(i))'
      /\ Cardinality(Savers(i)) <= Cardinality(Savers(i))'
      /\ Savers(i) # Savers(i)' => Cardinality(Savers(i)) + 1 <= Cardinality(Savers(i))'
      /\ Cardinality(Joiners(i)) <= Cardinality(Joiners(i))'
      /\ Joiners(i) # Joiners(i)' => Cardinality(Joiners(i)) + 1 <= Cardinality(Joiners(i))'
  BY <1>1, <1>2, Grows
<1> QED BY <1>2, <1>3, WakesFacts DEF AllWritten, Written

LEMMA SentFacts ==
  ASSUME TypeOK
  PROVE  \A i, p : IsFiniteSet(SentAt(i, p)) /\ Cardinality(SentAt(i, p)) \in Nat
BY LenFacts, FS_Subset, FS_CardinalityType DEF SentAt

LEMMA OneFacts == \A b \in BOOLEAN : One(b) \in {0, 1} /\ (b => One(b) = 1) /\ (~b => One(b) = 0)
BY DEF One

\* A writer pays for the row it leaves pending.
LEMMA PaidKept ==
  ASSUME IndInv, TypeOK', Paid, Begun, Begun', Evolves, UNCHANGED <<cur, pos, log>>,
         \A i \in Ids : Wakes(i) <= Wakes(i)',
         \A i \in Ids : rows'[i].status # rows[i].status => Wakes(i) + 1 <= Wakes(i)',
         \A i \in Ids' \ Ids : 1 <= Wakes(i)'
  PROVE  Paid'
<1> SUFFICES ASSUME NEW i \in Ids', NEW p \in DOMAIN rows'[i].rooms
             PROVE  Cardinality(SentAt(i, p))' + One(rows'[i].status = 0) + One(cur.id = i /\ pos <= p) <= Wakes(i)'
  BY DEF Paid
<1>0. TypeOK
  BY DEF IndInv
<1>1. SentAt(i, p)' = SentAt(i, p) /\ Cardinality(SentAt(i, p)) \in Nat
  <2>1. SentAt(i, p)' = SentAt(i, p)
    BY DEF SentAt
  <2> QED BY <1>0, <2>1, SentFacts
<1>2. CASE i \in Ids
  <2>1. p \in DOMAIN rows[i].rooms
    BY <1>2 DEF Evolves
  <2>2. Cardinality(SentAt(i, p)) + One(rows[i].status = 0) + One(cur.id = i /\ pos <= p) <= Wakes(i)
    BY <1>2, <2>1 DEF Paid
  <2>3. Wakes(i) \in Nat /\ Wakes(i)' \in Nat
    BY <1>0, <1>2, WakesFacts, WakesNext DEF AllWritten, Written
  <2>4. One(rows[i].status = 0) \in {0, 1} /\ One(rows'[i].status = 0) \in {0, 1} /\ One(cur.id = i /\ pos <= p) \in {0, 1}
    BY OneFacts
  <2>5. CASE rows'[i].status = rows[i].status
    BY <1>1, <1>2, <2>2, <2>3, <2>4, <2>5
  <2>6. CASE rows'[i].status # rows[i].status
    <3>1. One(rows[i].status = 0) = 0
      BY <1>2, <2>6, OneFacts DEF Evolves
    <3> QED BY <1>1, <1>2, <2>2, <2>3, <2>4, <2>6, <3>1
  <2> QED BY <2>5, <2>6
<1>3. CASE i \notin Ids
  <2>1. \A a \in DOMAIN log : log[a].id # i
    BY <1>3 DEF IndInv, LogClaimed
  <2>2. SentAt(i, p) = {}
    BY <2>1 DEF SentAt
  <2>3. cur.id # i /\ rows'[i].status = 0
    <3>1. i # NoRow
      BY WakesNext DEF AllWritten, Written
    <3> QED BY <1>0, <1>3, <3>1 DEF TypeOK, Evolves
  <2>4. Wakes(i)' \in Nat
    BY WakesNext DEF AllWritten, Written
  <2> QED BY <1>1, <1>3, <2>2, <2>3, <2>4, FS_EmptySet DEF One
<1> QED BY <1>2, <1>3


\* At most one handler begins in a step, and none forgets its row.
LEMMA BegunKept ==
  ASSUME Begun, NEW h0, NEW j0,
         \A h \in Replies : reply'[h] = reply[h] \/ (h = h0 /\ reply'[h].pc # "idle"),
         \A j \in Joins : j # j0 => join'[j] = join[j]
  PROVE  Begun'
<1>1. IsFiniteSet({h \in Replies : reply[h].pc # "idle"} \cup {h0})
      /\ IsFiniteSet({j \in Joins : join[j].pc # "idle"} \cup {j0})
  BY FS_AddElement DEF Begun
<1>2. /\ {h \in Replies : reply'[h].pc # "idle"} \subseteq {h \in Replies : reply[h].pc # "idle"} \cup {h0}
      /\ {j \in Joins : join'[j].pc # "idle"} \subseteq {j \in Joins : join[j].pc # "idle"} \cup {j0}
  OBVIOUS
<1>3. \A h \in Replies : reply'[h].pc = "idle" => reply'[h].id = NoRow
  BY DEF Begun
<1> QED BY <1>1, <1>2, <1>3, FS_Subset DEF Begun

LEMMA NextBegun ==
  ASSUME TypeOK, Begun, [Next]_vars
  PROVE  Begun'
<1> USE DEF tableVars, handlerVars, pumpVars
<1>1. CASE \E h \in Replies : ReplyCreate(h) \/ ReplySave(h) \/ ReplyFails(h)
  <2>1. PICK h \in Replies : ReplyCreate(h) \/ ReplySave(h) \/ ReplyFails(h)
    BY <1>1
  <2>2. join' = join /\ \A k \in Replies : reply'[k] = reply[k] \/ (k = h /\ reply'[k].pc # "idle")
    BY <2>1 DEF ReplyCreate, ReplySave, ReplyFails, TypeOK
  <2> QED BY <2>2, BegunKept
<1>2. CASE \E j \in Joins : JoinStep(j)
  <2>1. PICK j \in Joins : JoinStep(j)
    BY <1>2
  <2>2. reply' = reply /\ \A k \in Joins : k # j => join'[k] = join[k]
    BY <2>1 DEF JoinStep, JoinRead, JoinReadFails, JoinUpdate, JoinCreate, JoinFails, TypeOK
  <2> QED BY <2>2, BegunKept
<1>3. CASE \/ \E b \in Broadcasts : PostBroadcast(b)
           \/ PumpWork \/ PumpFault \/ Tick \/ UNCHANGED vars
  <2>1. UNCHANGED <<join, reply>>
    BY <1>3 DEF PostBroadcast, PumpWork, PumpFault, Connect, LoadImmediate, LoadScheduled, Claim, Sleep,
                Publish, SkipRoom, LoadScheduledFails, ClaimFails, LookupFails, PublishFails, Crash, Tick, vars
  <2> QED BY <2>1, BegunKept
<1> QED BY <1>1, <1>2, <1>3 DEF Next, ReplyStep

\* The writers pay.
LEMMA WritersPay ==
  ASSUME IndInv, TypeOK', Begun, Begun', Paid,
         \/ \E b \in Broadcasts : PostBroadcast(b)
         \/ \E h \in Replies : ReplyCreate(h) \/ ReplySave(h)
         \/ \E j \in Joins : JoinUpdate(j) \/ JoinCreate(j)
  PROVE  Paid'
<1> USE DEF tableVars, handlerVars, pumpVars
<1>0. TypeOK /\ HandlersOwn
  BY DEF IndInv
<1>1. ASSUME NEW b \in Broadcasts, PostBroadcast(b) PROVE Paid'
  <2> DEFINE r == [type |-> 2, rooms |-> BroadcastRooms[b], names |-> {},
                   due |-> BroadcastDue[b], status |-> 0, hashed |-> TRUE]
  <2>1. Inserted(r) /\ r.type = 2
    BY <1>0, <1>1, Inserts
  <2> HIDE DEF r
  <2>2. Evolves /\ (\A i \in Ids : rows'[i] = rows[i]) /\ \A i \in Ids' \ Ids : rows'[i].type = 2
    BY <1>0, <2>1, AppendEvolves DEF Inserted
  <2>3. UNCHANGED <<join, reply, cur, pos, log>>
    BY <1>1 DEF PostBroadcast
  <2>4. \A i \in Ids : Wakes(i) <= Wakes(i)'
    BY <1>0, <2>2, <2>3, WakesGrow DEF Evolves
  <2>5. \A i \in Ids' \ Ids : 1 <= Wakes(i)'
    BY <2>2, WakesNext DEF AllWritten, Written
  <2> QED BY <2>2, <2>3, <2>4, <2>5, PaidKept
<1>2. ASSUME NEW h \in Replies, ReplyCreate(h) PROVE Paid'
  <2> DEFINE r == [type |-> 1, rooms |-> <<ReplyRoom[h]>>, names |-> {},
                   due |-> 0, status |-> 0, hashed |-> FALSE]
  <2>1. Inserted(r) /\ r.type = 1
    BY <1>0, <1>2, Inserts
  <2> HIDE DEF r
  <2>2. /\ Evolves /\ \A i \in Ids : rows'[i] = rows[i]
        /\ \A i \in Ids' \ Ids : i = Len(rows) + 1 /\ rows'[i].type = 1
    BY <1>0, <2>1, AppendEvolves DEF Inserted
  <2>3. /\ UNCHANGED <<join, cur, pos, log>> /\ reply[h].pc = "idle"
        /\ reply'[h].id = Len(rows) + 1 /\ \A k \in Replies : k # h => reply'[k] = reply[k]
    BY <1>0, <1>2 DEF ReplyCreate, TypeOK
  <2>4. ASSUME NEW i \in Ids PROVE Wakes(i) <= Wakes(i)'
    <3>1. reply[h].id # i
      BY <1>0, <2>3, TableFacts DEF Begun
    <3>2. \A k \in Replies : reply[k].id = i => reply'[k].id = i /\ (reply[k].pc = "done" => reply'[k].pc = "done")
      BY <2>3, <3>1
    <3> QED BY <1>0, <2>2, <2>3, <3>2, WakesGrow DEF Evolves
  <2>5. ASSUME NEW i \in Ids' \ Ids PROVE 1 <= Wakes(i)'
    <3>1. h \in Authors(i)' /\ rows'[i].type = 1
      BY <2>2, <2>3 DEF Authors
    <3>2. Cardinality(Authors(i))' # 0
      BY <3>1, WakesNext, FS_EmptySet DEF AllWritten, Written
    <3> QED BY <3>1, <3>2, WakesNext DEF AllWritten, Written
  <2> QED BY <2>2, <2>3, <2>4, <2>5, PaidKept
<1>3. ASSUME NEW h \in Replies, ReplySave(h) PROVE Paid'
  <2>1. /\ Evolves /\ Ids' = Ids /\ reply[h].id \in Ids /\ rows[reply[h].id].type = 1
        /\ \A i \in Ids : rows'[i].status # rows[i].status => i = reply[h].id
    BY <1>0, <1>3, ReplySaves
  <2>2. /\ UNCHANGED <<join, cur, pos, log>> /\ reply[h].pc = "created"
        /\ reply'[h].pc = "done" /\ reply'[h].id = reply[h].id
        /\ \A k \in Replies : k # h => reply'[k] = reply[k]
    BY <1>0, <1>3 DEF ReplySave, TypeOK
  <2>3. \A i \in Ids : \A k \in Replies :
          reply[k].id = i => reply'[k].id = i /\ (reply[k].pc = "done" => reply'[k].pc = "done")
    BY <2>2
  <2>4. \A i \in Ids : Wakes(i) <= Wakes(i)'
    BY <1>0, <2>1, <2>2, <2>3, WakesGrow DEF Evolves
  <2>5. ASSUME NEW i \in Ids, rows'[i].status # rows[i].status PROVE Wakes(i) + 1 <= Wakes(i)'
    <3>1. i = reply[h].id /\ rows[i].type = 1
      BY <2>1, <2>5
    <3>2. h \in Savers(i)' /\ h \notin Savers(i)
      BY <2>2, <3>1 DEF Savers
    <3> QED BY <1>0, <2>1, <2>2, <2>3, <3>1, <3>2, WakesGrow DEF Evolves
  <2> QED BY <2>1, <2>2, <2>4, <2>5, PaidKept
<1>4. ASSUME NEW j \in Joins, JoinUpdate(j) PROVE Paid'
  <2>1. /\ Evolves /\ Ids' = Ids /\ join[j].id \in Ids /\ rows[join[j].id].type = 10
        /\ \A i \in Ids : rows'[i].status # rows[i].status => i = join[j].id
    BY <1>0, <1>4, JoinUpdates
  <2>2. /\ UNCHANGED <<reply, cur, pos, log>> /\ join[j].pc = "update"
        /\ join'[j].pc = "done" /\ join'[j].id = join[j].id
        /\ \A k \in Joins : k # j => join'[k] = join[k]
    BY <1>0, <1>4 DEF JoinUpdate, Ended, TypeOK
  <2>3. \A k \in Joins : join[k].pc = "done" => join'[k] = join[k]
    BY <2>2
  <2>4. \A i \in Ids : Wakes(i) <= Wakes(i)'
    BY <1>0, <2>1, <2>2, <2>3, WakesGrow DEF Evolves
  <2>5. ASSUME NEW i \in Ids, rows'[i].status # rows[i].status PROVE Wakes(i) + 1 <= Wakes(i)'
    <3>1. i = join[j].id /\ rows[i].type = 10
      BY <2>1, <2>5
    <3>2. j \in Joiners(i)' /\ j \notin Joiners(i)
      BY <2>2, <3>1 DEF Joiners
    <3> QED BY <1>0, <2>1, <2>2, <2>3, <3>1, <3>2, WakesGrow DEF Evolves
  <2> QED BY <2>1, <2>2, <2>4, <2>5, PaidKept
<1>5. ASSUME NEW j \in Joins, JoinCreate(j) PROVE Paid'
  <2>1. PICK t \in Nat : Inserted([type |-> 10, rooms |-> <<JoinRoom[j]>>, names |-> NamesOf(j),
                                   due |-> t, status |-> 0, hashed |-> TRUE])
    BY <1>0, <1>5, Inserts
  <2> DEFINE r == [type |-> 10, rooms |-> <<JoinRoom[j]>>, names |-> NamesOf(j),
                   due |-> t, status |-> 0, hashed |-> TRUE]
  <2>2. Inserted(r) /\ r.type = 10
    BY <2>1
  <2> HIDE DEF r
  <2>3. /\ Evolves /\ \A i \in Ids : rows'[i] = rows[i]
        /\ \A i \in Ids' \ Ids : i = Len(rows) + 1 /\ rows'[i].type = 10
    BY <1>0, <2>2, AppendEvolves DEF Inserted
  <2>4. /\ UNCHANGED <<reply, cur, pos, log>> /\ join[j].pc = "create"
        /\ join'[j].pc = "done" /\ join'[j].id = Len(rows) + 1
        /\ \A k \in Joins : k # j => join'[k] = join[k]
    BY <1>0, <1>5 DEF JoinCreate, Ended, TypeOK
  <2>5. \A k \in Joins : join[k].pc = "done" => join'[k] = join[k]
    BY <2>4
  <2>6. \A i \in Ids : Wakes(i) <= Wakes(i)'
    BY <1>0, <2>3, <2>4, <2>5, WakesGrow DEF Evolves
  <2>7. ASSUME NEW i \in Ids' \ Ids PROVE 1 <= Wakes(i)'
    <3>1. j \in Joiners(i)' /\ rows'[i].type = 10
      BY <2>3, <2>4 DEF Joiners
    <3>2. Cardinality(Joiners(i))' # 0
      BY <3>1, WakesNext, FS_EmptySet DEF AllWritten, Written
    <3> QED BY <3>1, <3>2, WakesNext DEF AllWritten, Written
  <2> QED BY <2>3, <2>4, <2>6, <2>7, PaidKept
<1> QED BY <1>1, <1>2, <1>3, <1>4, <1>5


\* The pump spends: a claim turns a pending row into the row in hand, a send
\* takes the row in hand past a room.
LEMMA PumpSpends ==
  ASSUME IndInv, TypeOK', Walked, Begun, Begun', Paid, PumpWork \/ PumpFault
  PROVE  Paid'
<1> USE DEF tableVars, handlerVars, pumpVars
<1>0. TypeOK
  BY DEF IndInv
<1>1. ASSUME UNCHANGED <<rows, join, reply, log>>, (cur' = cur /\ pos' = pos) \/ cur' = Nobody PROVE Paid'
  <2> SUFFICES ASSUME NEW i \in Ids', NEW p \in DOMAIN rows'[i].rooms
               PROVE  Cardinality(SentAt(i, p))' + One(rows'[i].status = 0) + One(cur'.id = i /\ pos' <= p)
                        <= Wakes(i)'
    BY DEF Paid
  <2>1. /\ i \in Ids /\ p \in DOMAIN rows[i].rooms /\ SentAt(i, p)' = SentAt(i, p) /\ Wakes(i)' = Wakes(i)
        /\ rows'[i] = rows[i]
    BY <1>1 DEF Ids, SentAt, Wakes
  <2>2. /\ Cardinality(SentAt(i, p)) + One(rows[i].status = 0) + One(cur.id = i /\ pos <= p) <= Wakes(i)
        /\ i # NoRow /\ Wakes(i) \in Nat /\ Cardinality(SentAt(i, p)) \in Nat
    BY <1>0, <2>1, WakesFacts, SentFacts DEF Paid, AllWritten, Written
  <2>3. One(rows[i].status = 0) \in {0, 1} /\ One(cur.id = i /\ pos <= p) \in {0, 1}
    BY OneFacts
  <2>4. CASE cur' = cur /\ pos' = pos
    BY <2>1, <2>2, <2>4
  <2>5. CASE cur' = Nobody
    <3>1. One(cur'.id = i /\ pos' <= p) = 0
      BY <2>2, <2>5, NobodyFacts, OneFacts
    <3> QED BY <2>1, <2>2, <2>3, <3>1
  <2> QED BY <1>1, <2>4, <2>5
<1>2. CASE Loads \/ Restarts
  BY <1>1, <1>2 DEF Loads, Restarts, Restart
<1>3. ASSUME NEW k \in Ids, ClaimsRow(k) PROVE Paid'
  <2> SUFFICES ASSUME NEW i \in Ids', NEW p \in DOMAIN rows'[i].rooms
               PROVE  Cardinality(SentAt(i, p))' + One(rows'[i].status = 0) + One(cur'.id = i /\ pos' <= p)
                        <= Wakes(i)'
    BY DEF Paid
  <2>1. /\ Ids' = Ids /\ i \in Ids /\ rows[k].status = 0 /\ cur.id = NoRow /\ cur'.id = k
        /\ k # i => rows'[i] = rows[i]
        /\ rows'[k].status = 1 /\ rows'[i].type = rows[i].type
        /\ UNCHANGED <<join, reply, log>>
    BY <1>3 DEF ClaimsRow
  <2>2. SentAt(i, p)' = SentAt(i, p) /\ Wakes(i)' = Wakes(i)
    BY <2>1 DEF SentAt, Wakes
  <2>3. rows'[i].rooms = rows[i].rooms
    BY <1>3, <2>1 DEF ClaimsRow, Walked
  <2>4. /\ Cardinality(SentAt(i, p)) + One(rows[i].status = 0) + One(cur.id = i /\ pos <= p) <= Wakes(i)
        /\ i # NoRow /\ Wakes(i) \in Nat /\ Cardinality(SentAt(i, p)) \in Nat
    BY <1>0, <2>1, <2>3, WakesFacts, SentFacts DEF Paid, AllWritten, Written
  <2>5. /\ One(cur.id = i /\ pos <= p) = 0 /\ One(cur'.id = i /\ pos' <= p) \in {0, 1}
        /\ i # k => One(cur'.id = i /\ pos' <= p) = 0
        /\ i = k => One(rows[i].status = 0) = 1 /\ One(rows'[i].status = 0) = 0
    BY <2>1, <2>4, OneFacts
  <2>6. One(rows[i].status = 0) \in {0, 1}
    BY OneFacts
  <2> QED BY <2>1, <2>2, <2>4, <2>5, <2>6
<1>4. CASE Deals
  <2> SUFFICES ASSUME NEW i \in Ids', NEW p \in DOMAIN rows'[i].rooms
               PROVE  Cardinality(SentAt(i, p))' + One(rows'[i].status = 0) + One(cur'.id = i /\ pos' <= p)
                        <= Wakes(i)'
    BY DEF Paid
  <2>1. /\ UNCHANGED <<rows, join, reply>> /\ cur.id # NoRow /\ pos \in Nat
        /\ (cur' = cur /\ pos' = pos + 1) \/ cur' = Nobody
    <3>1. pos \in Nat
      BY <1>0, RoomListsFacts DEF TypeOK, Row
    <3> QED BY <1>0, <1>4, <3>1 DEF Deals, NextRoom, LeaveRow, TypeOK
  <2>2. /\ i \in Ids /\ p \in DOMAIN rows[i].rooms /\ p \in Nat /\ Wakes(i)' = Wakes(i) /\ rows'[i] = rows[i]
    <3>1. i \in Ids /\ p \in DOMAIN rows[i].rooms /\ Wakes(i)' = Wakes(i) /\ rows'[i] = rows[i]
      BY <2>1 DEF Ids, Wakes
    <3>2. rows[i].rooms \in Seq(Rooms \cup {Blank})
      BY <1>0, <3>1, TableFacts DEF Row, RoomLists
    <3> QED BY <3>1, <3>2, LenProperties
  <2>3. /\ Cardinality(SentAt(i, p)) + One(rows[i].status = 0) + One(cur.id = i /\ pos <= p) <= Wakes(i)
        /\ i # NoRow /\ Wakes(i) \in Nat /\ IsFiniteSet(SentAt(i, p)) /\ Cardinality(SentAt(i, p)) \in Nat
    BY <1>0, <2>2, WakesFacts, SentFacts DEF Paid, AllWritten, Written
  <2>4. PICK w \in {"sent", "skipped"}, n \in DOMAIN log' :
          /\ n \notin DOMAIN log /\ DOMAIN log' = DOMAIN log \cup {n}
          /\ log'[n] = [id |-> cur.id, pos |-> pos, what |-> w, hashed |-> cur.row.hashed]
          /\ \A a \in DOMAIN log : log'[a] = log[a]
    BY <1>0, <1>4, Recorded DEF Deals
  <2>5. /\ One(rows[i].status = 0) \in {0, 1}
        /\ One(cur.id = i /\ pos <= p) \in {0, 1} /\ One(cur'.id = i /\ pos' <= p) \in {0, 1}
    BY OneFacts
  <2>6. CASE cur.id = i /\ pos = p
    <3>1. SentAt(i, p)' \subseteq SentAt(i, p) \cup {n}
      BY <2>4 DEF SentAt
    <3>2. Cardinality(SentAt(i, p))' <= Cardinality(SentAt(i, p)) + 1 /\ Cardinality(SentAt(i, p))' \in Nat
      <4>0. /\ IsFiniteSet(SentAt(i, p) \cup {n})
            /\ \/ Cardinality(SentAt(i, p) \cup {n}) = Cardinality(SentAt(i, p))
               \/ Cardinality(SentAt(i, p) \cup {n}) = Cardinality(SentAt(i, p)) + 1
        BY <2>3, FS_AddElement, Zenon
      <4>1. /\ IsFiniteSet(SentAt(i, p) \cup {n})
            /\ Cardinality(SentAt(i, p) \cup {n}) <= Cardinality(SentAt(i, p)) + 1
        BY <4>0, <2>3
      <4>2. IsFiniteSet(SentAt(i, p)') /\ Cardinality(SentAt(i, p)') <= Cardinality(SentAt(i, p) \cup {n})
        BY <3>1, <4>1, FS_Subset
      <4>3. Cardinality(SentAt(i, p)') \in Nat /\ Cardinality(SentAt(i, p) \cup {n}) \in Nat
        BY <4>1, <4>2, FS_CardinalityType
      <4> QED BY <2>3, <4>1, <4>2, <4>3
    <3>3. One(cur.id = i /\ pos <= p) = 1
      <4>1. cur.id = i /\ pos <= p
        BY <2>1, <2>6
      <4> QED BY <4>1 DEF One
    <3>4. One(cur'.id = i /\ pos' <= p) = 0
      <4>1. ~(cur'.id = i /\ pos' <= p)
        <5>1. CASE cur' = Nobody
          BY <5>1, <2>3, NobodyFacts
        <5>2. CASE cur' = cur /\ pos' = pos + 1
          BY <5>2, <2>1, <2>2, <2>6
        <5> QED BY <5>1, <5>2, <2>1
      <4> QED BY <4>1 DEF One
    <3> QED BY <2>2, <2>3, <2>5, <3>2, <3>3, <3>4
  <2>7. CASE ~(cur.id = i /\ pos = p)
    <3>1. SentAt(i, p)' = SentAt(i, p)
      BY <2>4, <2>7 DEF SentAt
    <3>2. (cur'.id = i /\ pos' <= p) => (cur.id = i /\ pos <= p)
      BY <2>1, <2>2, <2>3, NobodyFacts
    <3>3. One(cur'.id = i /\ pos' <= p) <= One(cur.id = i /\ pos <= p)
      BY <3>2 DEF One
    <3> QED BY <2>2, <2>3, <2>5, <3>1, <3>3
  <2> QED BY <2>6, <2>7
<1> QED BY <1>2, <1>3, <1>4, PumpSteps

LEMMA NextPaid ==
  ASSUME IndInv, TypeOK', Walked, Begun, Begun', Paid, [Next]_vars
  PROVE  Paid'
<1>0. TypeOK
  BY DEF IndInv
<1>1. CASE (\E j \in Joins : JoinRead(j)) \/ Quiet \/ UNCHANGED vars
  <2>1. UNCHANGED <<rows, cur, pos, log>>
    BY <1>1 DEF JoinRead, Quiet, ReplyFails, JoinReadFails, JoinFails, Tick, vars, pumpVars
  <2>2. /\ \A h \in Replies : reply'[h].id = reply[h].id /\ (reply[h].pc = "done" => reply'[h].pc = "done")
        /\ \A j \in Joins : join[j].pc = "done" => join'[j] = join[j]
    <3>1. CASE \E h \in Replies : ReplyFails(h)
      BY <1>0, <3>1 DEF ReplyFails, TypeOK
    <3>2. CASE \E j \in Joins : JoinRead(j) \/ JoinReadFails(j) \/ JoinFails(j)
      BY <1>0, <3>2 DEF JoinRead, JoinReadFails, JoinFails, TypeOK
    <3>3. CASE UNCHANGED <<join, reply>>
      BY <3>3
    <3> QED BY <1>1, <3>1, <3>2, <3>3 DEF Quiet, Tick, vars, handlerVars
  <2>3. \A i \in Ids : Wakes(i) <= Wakes(i)'
    BY <1>0, <2>1, <2>2, WakesGrow DEF Ids
  <2> QED BY <2>1, <2>3, PaidKept, SameEvolves DEF Ids
<1> QED BY <1>1, WritersPay, PumpSpends, NextSteps

LEMMA InitPaid == Init => Begun /\ Paid
<1> SUFFICES ASSUME Init PROVE Begun /\ Paid
  OBVIOUS
<1>1. /\ \A h \in Replies : reply[h].pc = "idle" /\ reply[h].id = NoRow
      /\ \A j \in Joins : join[j].pc = "idle"
      /\ Ids = {}
  BY DEF Init, Ids
<1>2. {h \in Replies : reply[h].pc # "idle"} = {} /\ {j \in Joins : join[j].pc # "idle"} = {}
  BY <1>1
<1> QED BY <1>1, <1>2, FS_EmptySet DEF Begun, Paid

\* A row goes to a room at most once for every handler write that left it
\* pending, whatever the pump's stale saves, errors and restarts: the claim is
\* saved before the first publish (mqueue.go 104-111).
THEOREM EverySendPaid == Spec => []SendsPaid
<1>1. Init => IndInv /\ Walked /\ StrandedByFaults /\ Begun /\ Paid
  BY InitIndInv, InitWalked, InitPaid
<1>2. IndInv /\ Walked /\ StrandedByFaults /\ Begun /\ Paid /\ [Next]_vars
        => IndInv' /\ Walked' /\ StrandedByFaults' /\ Begun' /\ Paid'
  BY NextIndInv, NextWalked, NextBegun, NextPaid DEF IndInv
<1>3. IndInv /\ Begun /\ Paid => SendsPaid
  <2> SUFFICES ASSUME IndInv, Begun, Paid, NEW i \in Ids, NEW p \in DOMAIN rows[i].rooms
               PROVE  Cardinality(SentAt(i, p)) <= Wakes(i)
    BY DEF SendsPaid
  <2>1. Cardinality(SentAt(i, p)) + One(rows[i].status = 0) + One(cur.id = i /\ pos <= p) <= Wakes(i)
    BY DEF Paid
  <2>2. Cardinality(SentAt(i, p)) \in Nat /\ Wakes(i) \in Nat
    BY WakesFacts, SentFacts DEF IndInv, AllWritten, Written
  <2>3. One(rows[i].status = 0) \in {0, 1} /\ One(cur.id = i /\ pos <= p) \in {0, 1}
    BY OneFacts
  <2> QED BY <2>1, <2>2, <2>3
<1> QED BY <1>1, <1>2, <1>3, PTL DEF Spec
=============================================================================
