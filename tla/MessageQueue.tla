---------------------------- MODULE MessageQueue ----------------------------
(***************************************************************************)
(* The message_queue table and the processes that share it: the handlers   *)
(* that insert replies and welcomes (uchat/sync.go), the back office that  *)
(* inserts broadcasts, and the one pump that turns rows into RabbitMQ      *)
(* messages (cmd/mqueue.go).                                               *)
(*                                                                         *)
(* gorm's Save writes EVERY column of the struct it is given, so whoever   *)
(* saves a row writes back the copy it read earlier.  The copies held by   *)
(* the pump (batch, cur) and by the handlers (join, reply) are therefore   *)
(* state of this model: the hard behaviour comes from them.                *)
(***************************************************************************)
EXTENDS Integers, Sequences, FiniteSets

CONSTANTS
  Rooms,           \* chat room serial numbers
  Blank,           \* an empty element of a room list ("r1,,r2")
  Linked,          \* rooms with an open robot link
  Joins,           \* member-join events, one handler run each
  JoinRoom,        \* [Joins -> Rooms]
  Mentions,        \* rooms whose welcome text contains "@新成员名称"
  Replies,         \* keyword replies (SendShopCustomSearch and the like)
  ReplyRoom,       \* [Replies -> Rooms]
  Broadcasts,      \* rows the back office inserts with send_type 2
  BroadcastRooms,  \* [Broadcasts -> Seq(Rooms \cup {Blank})]
  BroadcastDue,    \* [Broadcasts -> Nat] their send_time
  Interval,        \* time from the first join to the welcome
  BatchLimit,      \* LIMIT of the two queries of the pump (100 in the code)
  MaxNow,          \* bound on the clock
  MaxFaults        \* bound on database errors, broker errors and crashes

RoomLists == Seq(Rooms \cup {Blank}) \ {<<>>}

ASSUME MessageQueueAssumption ==
  /\ Blank \notin Rooms
  /\ Linked \subseteq Rooms
  /\ JoinRoom \in [Joins -> Rooms]
  /\ ReplyRoom \in [Replies -> Rooms]
  /\ \A b \in Broadcasts : /\ BroadcastRooms[b] \in Seq(Rooms \cup {Blank})
                           /\ BroadcastRooms[b] # <<>>
  /\ BroadcastDue \in [Broadcasts -> Nat]
  /\ Interval \in Nat
  /\ BatchLimit \in Nat \ {0}
  /\ MaxNow \in Nat
  /\ MaxFaults \in Nat

VARIABLES
  rows,      \* the table: rows[id], ids are AUTO_INCREMENT
  now,       \* the clock
  join,      \* per join: the handler's transaction and the names it read
  reply,     \* per reply: the handler and the id of the row it created
  posted,    \* broadcasts the back office has inserted
  pc,        \* the pump: "down", "load1", "load2", "claim" or "rooms"
  batch,     \* the pump: copies loaded and not yet claimed, [ids -> Row]
  cur,       \* the pump: the claimed copy it is publishing, with its id
  pos,       \* the pump: index of the next room of cur
  log,       \* history: what the pump did for each room
  faults     \* history: errors and crashes so far

tableVars   == <<rows, now>>
handlerVars == <<join, reply, posted>>
pumpVars    == <<pc, batch, cur, pos>>
vars == <<rows, now, join, reply, posted, pc, batch, cur, pos, log, faults>>

\* send_type: 1 at once, 2 at send_time, 10 a welcome that collects joiners.
\* names are the joins behind WeixinSerialNo; hashed says QueueId is set.
Row == [type : {1, 2, 10}, rooms : RoomLists, names : SUBSET Joins,
        due : Nat, status : {0, 1}, hashed : BOOLEAN]

Ids == DOMAIN rows

NoRow == 0   \* AUTO_INCREMENT starts at 1

-----------------------------------------------------------------------------
(* Queries.                                                                *)

\* ORDER BY id ASC LIMIT n over the ids in S
Oldest(S, n) == {i \in S : Cardinality({k \in S : k < i}) < n}

Pending == {i \in Ids : rows[i].status = 0}

\* send_type = 1 AND send_status = 0
Immediate == {i \in Pending : rows[i].type = 1}
\* Mutant: welcomes are forgotten.
ScheduledWithoutWelcomes == {i \in Pending : rows[i].type = 2 /\ rows[i].due <= now}

\* send_type IN (2, 10) AND send_status = 0 AND send_time <= now
Scheduled == {i \in Pending : rows[i].type \in {2, 10} /\ rows[i].due <= now}

\* The welcomes of a room that still wait
OpenWelcomes(r) == {i \in Pending : rows[i].type = 10 /\ rows[i].rooms = <<r>>}

-----------------------------------------------------------------------------
(* Handlers.                                                               *)

\* The back office inserts a scheduled broadcast.
PostBroadcast(b) ==
  /\ b \notin posted
  /\ rows' = Append(rows, [type |-> 2, rooms |-> BroadcastRooms[b], names |-> {},
                           due |-> BroadcastDue[b], status |-> 0, hashed |-> TRUE])
  /\ posted' = posted \cup {b}
  /\ UNCHANGED <<now, join, reply, pumpVars, log, faults>>

\* db.Create(message): the row is committed before it has a QueueId.
ReplyCreate(h) ==
  /\ reply[h].pc = "idle"
  /\ rows' = Append(rows, [type |-> 1, rooms |-> <<ReplyRoom[h]>>, names |-> {},
                           due |-> 0, status |-> 0, hashed |-> FALSE])
  /\ reply' = [reply EXCEPT ![h] = [pc |-> "created", id |-> Len(rows) + 1]]
  /\ UNCHANGED <<now, join, posted, pumpVars, log, faults>>
\* db.Save(message): the struct still says send_status = 0.
ReplySave(h) ==
  /\ reply[h].pc = "created"
  /\ rows' = [rows EXCEPT ![reply[h].id] = [@ EXCEPT !.status = 0, !.hashed = TRUE]]
  /\ reply' = [reply EXCEPT ![h].pc = "done"]
  /\ UNCHANGED <<now, join, posted, pumpVars, log, faults>>

\* The Save fails, or the process dies between the two statements.
ReplyFails(h) ==
  /\ faults < MaxFaults
  /\ reply[h].pc = "created"
  /\ reply' = [reply EXCEPT ![h].pc = "failed"]
  /\ faults' = faults + 1
  /\ UNCHANGED <<rows, now, join, posted, pumpVars, log>>

Copy(step, i, names) == [pc |-> step, id |-> i, names |-> names, at |-> now]

\* What is left of a transaction: how it ended and the row it wrote
Ended(step, i) == [pc |-> step, id |-> i, names |-> {}, at |-> 0]

\* Begin; First(pending welcome of the room): a snapshot read, it locks nothing.
JoinRead(j) ==
  /\ join[j].pc = "idle"
  /\ \/ /\ OpenWelcomes(JoinRoom[j]) = {}
        /\ join' = [join EXCEPT ![j] = Copy("create", NoRow, {})]
     \/ \E i \in Oldest(OpenWelcomes(JoinRoom[j]), 1) :
          join' = [join EXCEPT ![j] = Copy("update", i, rows[i].names)]
  /\ UNCHANGED <<rows, now, reply, posted, pumpVars, log, faults>>

\* Any error of First, not only "record not found", leads to a new row.
JoinReadFails(j) ==
  /\ faults < MaxFaults
  /\ join[j].pc = "idle"
  /\ join' = [join EXCEPT ![j] = Copy("create", NoRow, {})]
  /\ faults' = faults + 1
  /\ UNCHANGED <<rows, now, reply, posted, pumpVars, log>>

\* The names to write: those of the copy, with the joiner if the text asks for it.
NamesOf(j) == join[j].names \cup (IF JoinRoom[j] \in Mentions THEN {j} ELSE {})

\* Save and Commit: names and send_status go back to what was read.
JoinUpdate(j) ==
  /\ join[j].pc = "update"
  /\ rows' = [rows EXCEPT ![join[j].id] = [@ EXCEPT !.status = 0, !.names = NamesOf(j)]]
  /\ join' = [join EXCEPT ![j] = Ended("done", @.id)]
  /\ UNCHANGED <<now, reply, posted, pumpVars, log, faults>>

\* Create, Save of the QueueId and Commit: one transaction.  SendTime is taken
\* from the clock at some point between the read and the commit.
JoinCreate(j) ==
  /\ join[j].pc = "create"
  /\ \E t \in join[j].at .. now :
       rows' = Append(rows, [type |-> 10, rooms |-> <<JoinRoom[j]>>, names |-> NamesOf(j),
                             due |-> t + Interval, status |-> 0, hashed |-> TRUE])
  /\ join' = [join EXCEPT ![j] = Ended("done", Len(rows) + 1)]
  /\ UNCHANGED <<now, reply, posted, pumpVars, log, faults>>

\* Mutant: the row is inserted outside the transaction that is rolled back.
JoinFailsHalfway(j) ==
  /\ faults < MaxFaults
  /\ join[j].pc = "create"
  /\ rows' = Append(rows, [type |-> 10, rooms |-> <<JoinRoom[j]>>, names |-> NamesOf(j),
                           due |-> now + Interval, status |-> 0, hashed |-> FALSE])
  /\ join' = [join EXCEPT ![j] = Ended("failed", NoRow)]
  /\ faults' = faults + 1
  /\ UNCHANGED <<now, reply, posted, pumpVars, log>>

\* Create or Save fails and the transaction is rolled back, or the process dies.
JoinFails(j) ==
  /\ faults < MaxFaults
  /\ join[j].pc \in {"create", "update"}
  /\ join' = [join EXCEPT ![j] = Ended("failed", NoRow)]
  /\ faults' = faults + 1
  /\ UNCHANGED <<rows, now, reply, posted, pumpVars, log>>

-----------------------------------------------------------------------------
(* The pump.                                                               *)

Nobody == [id |-> NoRow, row |-> [type |-> 1, rooms |-> <<Blank>>, names |-> {},
                                  due |-> 0, status |-> 1, hashed |-> FALSE]]

NoBatch == [i \in {} |-> Nobody.row]

\* Dial, Channel and ExchangeDeclare succeed; their failure is a retry.
Connect ==
  /\ pc = "down"
  /\ pc' = "load1"
  /\ UNCHANGED <<tableVars, handlerVars, batch, cur, pos, log, faults>>

\* Find the immediate rows.  An error restarts the loop and changes nothing.
LoadImmediate ==
  /\ pc = "load1"
  /\ batch' = [i \in Oldest(Immediate, BatchLimit) |-> rows[i]]
  /\ pc' = "load2"
  /\ UNCHANGED <<tableVars, handlerVars, cur, pos, log, faults>>

\* Find the scheduled rows that are due and append them.
LoadScheduled ==
  /\ pc = "load2"
  /\ batch' = [i \in DOMAIN batch \cup Oldest(Scheduled, BatchLimit) |->
                 IF i \in DOMAIN batch THEN batch[i] ELSE rows[i]]
  /\ pc' = "claim"
  /\ UNCHANGED <<tableVars, handlerVars, cur, pos, log, faults>>

\* An error of the second query is logged and the batch is msg1 alone.
LoadScheduledFails ==
  /\ faults < MaxFaults
  /\ pc = "load2"
  /\ pc' = "claim"
  /\ faults' = faults + 1
  /\ UNCHANGED <<tableVars, handlerVars, batch, cur, pos, log>>

\* The row at the head of the batch: msg1 comes before msg2, each in id order.
LoadedImmediate == {i \in DOMAIN batch : batch[i].type = 1}
HeadOfBatch == Oldest(IF LoadedImmediate # {} THEN LoadedImmediate ELSE DOMAIN batch, 1)

Without(i) == [k \in DOMAIN batch \ {i} |-> batch[k]]

\* Mutant: the status is saved unchanged.
Unclaimed(msg) == msg

\* SendStatus = 1 on the loaded copy
Claimed(msg) == [msg EXCEPT !.status = 1]

\* Save of the loaded copy, before anything is published.
Claim ==
  /\ pc = "claim"
  /\ \E i \in HeadOfBatch :
       /\ rows' = [rows EXCEPT ![i] = Claimed(batch[i])]
       /\ cur' = [id |-> i, row |-> Claimed(batch[i])]
       /\ batch' = Without(i)
  /\ pos' = 1
  /\ pc' = "rooms"
  /\ UNCHANGED <<now, handlerVars, log, faults>>

\* The Save fails: the row is logged, skipped and still pending.
ClaimFails ==
  /\ faults < MaxFaults
  /\ pc = "claim"
  /\ \E i \in HeadOfBatch : batch' = Without(i)
  /\ faults' = faults + 1
  /\ UNCHANGED <<tableVars, handlerVars, pc, cur, pos, log>>

\* The batch is used up: sleep a second and load again.
Sleep ==
  /\ pc = "claim"
  /\ DOMAIN batch = {}
  /\ pc' = "load1"
  /\ UNCHANGED <<tableVars, handlerVars, batch, cur, pos, log, faults>>

LeaveRow ==
  /\ pc' = "claim"
  /\ cur' = Nobody
  /\ pos' = 1
\* The loop over the rooms goes on to the next room, or ends with the last.
NextRoom ==
  \/ /\ pos < Len(cur.row.rooms)
     /\ pos' = pos + 1
     /\ UNCHANGED <<pc, cur>>
  \/ /\ pos = Len(cur.row.rooms)
     /\ LeaveRow

Record(what) ==
  log' = Append(log, [id |-> cur.id, pos |-> pos, what |-> what,
                      hashed |-> cur.row.hashed])

\* The room has an open robot link: the message is handed to the channel.
Publish ==
  /\ pc = "rooms"
  /\ cur.row.rooms[pos] \in Linked
  /\ Record("sent")
  /\ NextRoom
  /\ UNCHANGED <<tableVars, handlerVars, batch, faults>>

\* Mutant: break instead of continue.
SkipRow ==
  /\ pc = "rooms"
  /\ cur.row.rooms[pos] \notin Linked
  /\ Record("skipped")
  /\ LeaveRow
  /\ UNCHANGED <<tableVars, handlerVars, batch, faults>>

\* A blank room, or one without an open robot link: continue.
SkipRoom ==
  /\ pc = "rooms"
  /\ cur.row.rooms[pos] \notin Linked
  /\ Record("skipped")
  /\ NextRoom
  /\ UNCHANGED <<tableVars, handlerVars, batch, faults>>

\* The query for the robot link fails: continue, as if there were none.
LookupFails ==
  /\ faults < MaxFaults
  /\ pc = "rooms"
  /\ cur.row.rooms[pos] \in Linked
  /\ Record("skipped")
  /\ NextRoom
  /\ faults' = faults + 1
  /\ UNCHANGED <<tableVars, handlerVars, batch>>

\* Whatever the pump held is gone; it starts from RetryConnect.
Restart ==
  /\ pc' = "down"
  /\ batch' = NoBatch
  /\ cur' = Nobody
  /\ pos' = 1

\* channel.Publish fails: break BreakFor drops the rest of the row and the batch.
PublishFails ==
  /\ faults < MaxFaults
  /\ pc = "rooms"
  /\ cur.row.rooms[pos] \in Linked
  /\ Restart
  /\ faults' = faults + 1
  /\ UNCHANGED <<tableVars, handlerVars, log>>

\* The process is killed and started again.
Crash ==
  /\ faults < MaxFaults
  /\ Restart
  /\ faults' = faults + 1
  /\ UNCHANGED <<tableVars, handlerVars, log>>

Tick ==
  /\ now < MaxNow
  /\ now' = now + 1
  /\ UNCHANGED <<rows, handlerVars, pumpVars, log, faults>>

-----------------------------------------------------------------------------
Init ==
  /\ rows = <<>>
  /\ now = 0
  /\ join = [j \in Joins |-> [pc |-> "idle", id |-> NoRow, names |-> {}, at |-> 0]]
  /\ reply = [h \in Replies |-> [pc |-> "idle", id |-> NoRow]]
  /\ posted = {}
  /\ pc = "down"
  /\ batch = NoBatch
  /\ cur = Nobody
  /\ pos = 1
  /\ log = <<>>
  /\ faults = 0

ReplyStep(h) == ReplyCreate(h) \/ ReplySave(h) \/ ReplyFails(h)

JoinStep(j) ==
  JoinRead(j) \/ JoinReadFails(j) \/ JoinUpdate(j) \/ JoinCreate(j) \/ JoinFails(j)

\* What the pump does when nothing goes wrong
PumpWork ==
  Connect \/ LoadImmediate \/ LoadScheduled \/ Claim \/ Sleep \/ Publish \/ SkipRoom

PumpFault == LoadScheduledFails \/ ClaimFails \/ LookupFails \/ PublishFails \/ Crash

Next ==
  \/ \E b \in Broadcasts : PostBroadcast(b)
  \/ \E h \in Replies : ReplyStep(h)
  \/ \E j \in Joins : JoinStep(j)
  \/ PumpWork
  \/ PumpFault
  \/ Tick

Spec == Init /\ [][Next]_vars

\* The pump is one goroutine in an endless loop whose sleeps end: it never
\* stops taking steps.  Nothing is assumed of handlers, clock or faults.
FairSpec == Spec /\ WF_vars(PumpWork)

-----------------------------------------------------------------------------
(* Properties.                                                             *)

HandlerPc == {"idle", "create", "update", "created", "done", "failed"}

Entry == [id : Nat, pos : Nat, what : {"sent", "skipped"}, hashed : BOOLEAN]

\* The types of the variables, and the pump's place in its loops: it holds a
\* row exactly while it walks that row's rooms (mqueue.go 102-165).
TypeOK ==
  /\ rows \in Seq(Row)
  /\ now \in Nat
  /\ join \in [Joins -> [pc : HandlerPc, id : Nat, names : SUBSET Joins, at : Nat]]
  /\ reply \in [Replies -> [pc : HandlerPc, id : Nat]]
  /\ posted \subseteq Broadcasts
  /\ pc \in {"down", "load1", "load2", "claim", "rooms"}
  /\ batch \in [DOMAIN batch -> Row]
  /\ DOMAIN batch \subseteq Ids
  /\ cur \in [id : Nat, row : Row]
  /\ pc = "rooms" <=> cur.id # NoRow
  /\ cur.id # NoRow => cur.id \in Ids
  /\ pos \in 1..Len(cur.row.rooms)
  /\ log \in Seq(Entry)
  /\ faults \in Nat

SentAt(i, p) == {a \in DOMAIN log : log[a].what = "sent" /\ log[a].id = i /\ log[a].pos = p}

\* The writes that left row i pending: its insertion and every later Save of a
\* copy whose send_status was 0.
Wakes(i) ==
  CASE rows[i].type = 2  -> 1
    [] rows[i].type = 1  -> Cardinality({h \in Replies : reply[h].id = i})
                            + Cardinality({h \in Replies : reply[h].id = i /\ reply[h].pc = "done"})
    [] rows[i].type = 10 -> Cardinality({j \in Joins : join[j].pc = "done" /\ join[j].id = i})

\* A row goes to a room at most once for every handler write that left it
\* pending, whatever the pump's stale saves, errors and restarts: the claim is
\* saved before the first publish (mqueue.go 104-111).
SendsPaid == \A i \in Ids : \A p \in DOMAIN rows[i].rooms : Cardinality(SentAt(i, p)) <= Wakes(i)

\* A broadcast reaches each position of its room list at most once, even when
\* the pump dies or the broker refuses in the middle of the list.
BroadcastAtMostOnce ==
  \A a, b \in DOMAIN log :
    /\ rows[log[a].id].type = 2
    /\ log[a].what = "sent"
    /\ log[b].what = "sent"
    /\ log[a].id = log[b].id
    /\ log[a].pos = log[b].pos
    => a = b
\* Nothing scheduled leaves before its send_time: no stale copy carries another
\* due time into the row (mqueue.go 97).
NotBeforeDue ==
  [][\A a \in DOMAIN log' \ DOMAIN log :
       rows[log'[a].id].type \in {2, 10} => rows[log'[a].id].due <= now]_vars

\* A welcome names only members whose own transaction committed for that very
\* row, for a room whose text asks for names (sync.go 528-548).
NamesCommitted ==
  \A i \in Ids : \A j \in rows[i].names :
    /\ join[j].pc = "done"
    /\ join[j].id = i
    /\ rows[i].rooms = <<JoinRoom[j]>>
    /\ JoinRoom[j] \in Mentions

\* Rows the pump has claimed and left with rooms it never dealt with
Stranded ==
  {i \in Ids : /\ rows[i].status = 1
               /\ cur.id # i
               /\ \E p \in DOMAIN rows[i].rooms :
                    \A a \in DOMAIN log : ~(log[a].id = i /\ log[a].pos = p)}

\* A failed publish or a crash strands at most the one row in hand: the rest of
\* the loaded batch is not claimed yet and is loaded again (mqueue.go 157-168).
StrandedByFaults == Cardinality(Stranded) <= faults

\* Every row that is pending and due is claimed in the end, in spite of the
\* LIMIT of the queries, failed saves and restarts (mqueue.go 89-167).
DueClaimed ==
  \A i \in 1 .. Cardinality(Joins) + Cardinality(Replies) + Cardinality(Broadcasts) :
    (i \in Ids /\ rows[i].status = 0 /\ (rows[i].type = 1 \/ rows[i].due <= now))
      ~> (i \in Ids /\ rows[i].status = 1)

\* "第一个新成员加入后，30秒内所有加入成员一起发送" (sync.go 557): all the members
\* who join are sent together, so a member whose join committed is in a welcome.
AllJoinersNamed ==
  \A j \in Joins : (join[j].pc = "done" /\ JoinRoom[j] \in Mentions) => \E i \in Ids : j \in rows[i].names

=============================================================================
