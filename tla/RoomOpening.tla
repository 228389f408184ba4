---------------------------- MODULE RoomOpening ----------------------------
(***************************************************************************)
(* How a chat room comes to a merchant, for one robot: somebody pulls the  *)
(* robot into a room and the merchant opens or deletes that join           *)
(* (apis/api_v2.go), or somebody sends a code that the merchant fetched    *)
(* (apis/apply_code.go).  The platform then calls back and the link of     *)
(* robot and room (robot_chat_room) is written; lists and states that are  *)
(* fetched from the platform write it too (uchat/sync.go).                 *)
(*                                                                         *)
(* API requests, goroutines of the consumer and runs of the sync command   *)
(* are all processes here: each reads, holds what it read, calls the       *)
(* platform and saves whole rows.  The rows of the table chat_room, saved  *)
(* by the same code, are left out.                                         *)
(***************************************************************************)
EXTENDS Integers, FiniteSets, Sequences

CONSTANTS
  Rooms,      \* chat rooms
  Logs,       \* log_serial_no: every pull of the robot into a room
  Room,       \* [Logs -> Rooms]
  User,       \* [Logs -> Users], who pulled
  Owner,      \* [Logs -> merchants or Nobody], who had the robot then
  Users,      \* users of the chat
  Codes,      \* codes the platform can issue
  CodeOwner,  \* [Codes -> owners], the my_id and sub_id it is fetched for
  NoCode,     \* the empty vcApplyCodeSerialNo
  NoLog,      \* the log of a callback that answers a code
  Nobody,     \* the empty my_id
  NoShop,     \* the empty sub_id
  Limit,      \* codes of the robot used per day
  Processes,  \* each does one request, callback or run of a command
  MaxFaults   \* bound on errors and crashes

Merchants == {Owner[l] : l \in Logs} \cup {CodeOwner[c].my : c \in Codes}
Shops == {CodeOwner[c].sub : c \in Codes}

ASSUME RoomOpeningAssumption ==
  /\ Room \in [Logs -> Rooms]
  /\ User \in [Logs -> Users]
  /\ DOMAIN Owner = Logs
  /\ \A c \in Codes : CodeOwner[c] = [my |-> CodeOwner[c].my, sub |-> CodeOwner[c].sub]
  /\ \A c \in Codes : CodeOwner[c].my # Nobody
  /\ NoCode \notin Codes /\ NoLog \notin Logs
  /\ Limit \in Nat /\ MaxFaults \in Nat

VARIABLES
  joins,   \* the table robot_join: [logs received -> [status, recent]]
  links,   \* the table robot_chat_room, a sequence: the id is the position
  codes,   \* the table robot_apply_code
  opened,  \* the platform: rooms it serves
  calls,   \* the platform: the create callbacks it has sent
  proc,    \* what each process has read and is about to do
  raced,   \* history: rooms, logs and owners two processes worked on at once
  stale,   \* history: saves of a copy whose row had changed since
  faults   \* history: errors and crashes

vars == <<joins, links, codes, opened, calls, proc, raced, stale, faults>>

Idle == [pc |-> "idle"]
Done == [pc |-> "done"]

\* Status of a join: 0 not handled, 1 open clicked, 2 deleted.
Joins == [status : 0..2, recent : BOOLEAN]

Row == [room : Rooms, my : Merchants \cup {Nobody}, sub : Shops \cup {NoShop}, open : BOOLEAN]

\* A create callback; it does not say which join it answers (log is history).
Call == [room : Rooms, user : Users, code : Codes \cup {NoCode}, log : Logs \cup {NoLog}]

-----------------------------------------------------------------------------
(* Joins: opened or deleted by the merchant.                               *)

\* The rows of a list are inserted in one transaction; a list that comes again
\* hits the unique index and is rolled back.
RobotChatJoin(list) ==
  /\ list \cap DOMAIN joins = {}
  /\ joins' = [l \in DOMAIN joins \cup list |->
                 IF l \in list THEN [status |-> 0, recent |-> TRUE] ELSE joins[l]]
  /\ UNCHANGED <<links, codes, opened, calls, proc, raced, stale, faults>>

\* Mutant: joins that are decided are found too.
PendingOrNot(my, list) == {l \in list \cap DOMAIN joins : Owner[l] = my}

\* What the merchant may still open or delete
Pending(my, list) == {l \in list \cap DOMAIN joins : Owner[l] = my /\ joins[l].status = 0}

\* The logs that others have read and not yet decided
OthersLogs(p) ==
  UNION {proc[q].logs : q \in {o \in Processes \ {p} : proc[o].pc \in {"open", "opening", "delete"}}}

\* Both requests read the joins before their transaction.
JoinsRead(p, my, list) ==
  /\ proc[p] = Idle
  /\ my # Nobody
  /\ Pending(my, list) # {}
  /\ \E pc \in {"open", "delete"} : proc' = [proc EXCEPT ![p] = [pc |-> pc, logs |-> Pending(my, list)]]
  /\ raced' = raced \cup (Pending(my, list) \cap OthersLogs(p))
  /\ UNCHANGED <<joins, links, codes, opened, calls, stale, faults>>

\* Rows saved by a transaction that waits for the platform
Locked == UNION {proc[q].logs : q \in {o \in Processes : proc[o].pc = "opening"}}

\* SetStatusOpen of the copies, then the call.  The platform opens all of them
\* or some, the answer lists the others and is only logged; or it fails, and
\* the transaction is rolled back.
OpenCall(p) ==
  /\ proc[p].pc = "open"
  /\ proc[p].logs \cap Locked = {}
  /\ \/ \E list \in SUBSET proc[p].logs :
          /\ opened' = opened \cup {Room[l] : l \in list}
          /\ calls' = calls \cup {[room |-> Room[l], user |-> User[l], code |-> NoCode, log |-> l] : l \in list}
          /\ proc' = [proc EXCEPT ![p].pc = "opening"]
     \/ /\ proc' = [proc EXCEPT ![p] = Done]
        /\ UNCHANGED <<opened, calls>>
  /\ UNCHANGED <<joins, links, codes, raced, stale, faults>>

\* The joins of p get the status, whatever they have become since.
Decide(p, status) ==
  joins' = [l \in DOMAIN joins |->
              IF l \in proc[p].logs THEN [status |-> status, recent |-> TRUE] ELSE joins[l]]

OpenCommit(p) ==
  /\ proc[p].pc = "opening"
  /\ Decide(p, 1)
  /\ proc' = [proc EXCEPT ![p] = Done]
  /\ UNCHANGED <<links, codes, opened, calls, raced, stale, faults>>

DeleteCommit(p) ==
  /\ proc[p].pc = "delete"
  /\ proc[p].logs \cap Locked = {}
  /\ Decide(p, 2)
  /\ proc' = [proc EXCEPT ![p] = Done]
  /\ UNCHANGED <<links, codes, opened, calls, raced, stale, faults>>

\* An hour passes after the row was saved.
JoinAges(l) ==
  /\ l \in DOMAIN joins /\ joins[l].status = 1 /\ joins[l].recent
  /\ joins' = [joins EXCEPT ![l].recent = FALSE]
  /\ UNCHANGED <<links, codes, opened, calls, proc, raced, stale, faults>>

-----------------------------------------------------------------------------
(* Codes.                                                                  *)

Free(owner) == {c \in Codes : codes[c] = "free" /\ CodeOwner[c] = owner}
Used == {c \in Codes : codes[c] = "used"}
\* Codes of the owner that are not used and not expired: one is returned again.
ToReturn(owner) == Free(owner)

OthersOwners(p) == {proc[q].owner : q \in {o \in Processes \ {p} : proc[o].pc = "fetch"}}

\* If there is none, the robot may issue another one while it is below the limit.
FetchRead(p, owner) ==
  /\ proc[p] = Idle
  /\ ToReturn(owner) = {}
  /\ Cardinality(Used) < Limit
  /\ proc' = [proc EXCEPT ![p] = [pc |-> "fetch", owner |-> owner]]
  /\ raced' = IF owner \in OthersOwners(p) THEN raced \cup {owner} ELSE raced
  /\ UNCHANGED <<joins, links, codes, opened, calls, stale, faults>>

\* The platform issues a code, and it is stored.
FetchCreate(p) ==
  /\ proc[p].pc = "fetch"
  /\ \E c \in Codes : /\ codes[c] = "none" /\ CodeOwner[c] = proc[p].owner
                      /\ codes' = [codes EXCEPT ![c] = "free"]
  /\ proc' = [proc EXCEPT ![p] = Done]
  /\ UNCHANGED <<joins, links, opened, calls, raced, stale, faults>>

CodeExpires(c) ==
  /\ codes[c] = "free"
  /\ codes' = [codes EXCEPT ![c] = "expired"]
  /\ UNCHANGED <<joins, links, opened, calls, proc, raced, stale, faults>>

-----------------------------------------------------------------------------
(* The platform.                                                           *)

\* A user sends a code in a room; the platform takes it once while it is valid.
UseCode(c, room, user) ==
  /\ codes[c] = "free"
  /\ \A k \in calls : k.code # c
  /\ opened' = opened \cup {room}
  /\ calls' = calls \cup {[room |-> room, user |-> user, code |-> c, log |-> NoLog]}
  /\ UNCHANGED <<joins, links, codes, proc, raced, stale, faults>>

\* The room is closed on the platform: by itself or by a call that leaves the
\* table alone.
PlatformOver(room) ==
  /\ room \in opened
  /\ opened' = opened \ {room}
  /\ UNCHANGED <<joins, links, codes, calls, proc, raced, stale, faults>>

-----------------------------------------------------------------------------
(* Saving a link.                                                          *)

NewLink(room) == [room |-> room, my |-> Nobody, sub |-> NoShop, open |-> FALSE]

Ids(room) == {i \in DOMAIN links : links[i].room = room}
First(room) == CHOOSE i \in Ids(room) : \A j \in Ids(room) : i <= j

\* Mutant: the row is not looked for.
EnsuredNew(room) == [id |-> 0, read |-> NewLink(room)]

\* FirstOrInit: the copy, and the id of its row or 0 for a row to insert
Ensured(room) ==
  IF Ids(room) = {} THEN [id |-> 0, read |-> NewLink(room)]
  ELSE [id |-> First(room), read |-> links[First(room)]]

\* Others that found no row for the room and have not inserted theirs
Inserting(p, room) ==
  {q \in Processes \ {p} : /\ proc[q].pc \in {"create", "save"}
                           /\ proc[q].link.id = 0 /\ proc[q].link.read.room = room}

\* One more room with two insertions, if p is about to insert
Overlap(p, room) == IF Ids(room) = {} /\ Inserting(p, room) # {} THEN {room} ELSE {}

\* A row is locked while a transaction has closed it and calls the platform.
RowFree(id) == \A q \in Processes : proc[q].pc = "closing" => proc[q].id # id

\* db.Save of the copy: an insert or the whole row.  Then the process goes on.
Save(p) ==
  /\ proc[p].pc = "save"
  /\ LET link == proc[p].link
     IN  IF link.id = 0
         THEN /\ links' = Append(links, proc[p].write)
              /\ stale' = stale
         ELSE /\ RowFree(link.id)
              /\ links' = [links EXCEPT ![link.id] = proc[p].write]
              /\ stale' = IF links[link.id] = link.read THEN stale ELSE stale + 1
  /\ proc' = [proc EXCEPT ![p] = proc[p].next]
  /\ UNCHANGED <<joins, codes, opened, calls, raced, faults>>

-----------------------------------------------------------------------------
(* The create callback.                                                    *)

\* A callback may be delivered more than once.
CreateRead(p, call) ==
  /\ proc[p] = Idle
  /\ call \in calls
  /\ proc' = [proc EXCEPT ![p] = [pc |-> "create", call |-> call, link |-> Ensured(call.room)]]
  /\ raced' = raced \cup Overlap(p, call.room)
  /\ UNCHANGED <<joins, links, codes, opened, calls, stale, faults>>

\* Mutant: the joins nobody has opened.
RecentPending(call) ==
  {l \in DOMAIN joins : /\ Room[l] = call.room /\ User[l] = call.user
                        /\ joins[l].status = 0 /\ joins[l].recent}

\* The joins opened within the hour by the user in the room
Recent(call) ==
  {l \in DOMAIN joins : /\ Room[l] = call.room /\ User[l] = call.user
                        /\ joins[l].status = 1 /\ joins[l].recent}

\* The owners the callback may find: that of the code, which is now used, or
\* those of the joins; a join leaves the sub_id alone.
CodeFound(call) == {CodeOwner[c] : c \in {call.code} \cap Codes}
JoinFound(call, read) == {[my |-> Owner[l], sub |-> read.sub] : l \in Recent(call)}

\* Mutant: a callback without an owner clears the link.
NoneKept(read) == [my |-> Nobody, sub |-> NoShop]

\* Without one the link keeps its owner.
Kept(read) == [my |-> read.my, sub |-> read.sub]

\* The owner of the link is one of these; it is saved next.
Owned(p, owners) ==
  \E o \in owners :
    proc' = [proc EXCEPT ![p] =
      [pc |-> "save", link |-> proc[p].link, next |-> Done,
       write |-> [room |-> proc[p].call.room, my |-> o.my, sub |-> o.sub, open |-> TRUE]]]

OwnerByCode(p) ==
  /\ proc[p].pc = "create"
  /\ CodeFound(proc[p].call) # {}
  /\ Owned(p, CodeFound(proc[p].call))
  /\ codes' = [codes EXCEPT ![proc[p].call.code] = "used"]
  /\ UNCHANGED <<joins, links, opened, calls, raced, stale, faults>>

\* No code, or an error of the statements that look for it and use it: the join
\* is looked for, and an error of that counts as no join.
OwnerByJoin(p) ==
  /\ proc[p].pc = "create"
  /\ LET call == proc[p].call
         read == proc[p].link.read
         found == JoinFound(call, read)
         errors == IF CodeFound(call) = {} THEN 0 ELSE 1
     IN  \/ /\ Owned(p, IF found # {} THEN found ELSE {Kept(read)})
            /\ faults' = faults + errors
         \/ /\ Owned(p, {Kept(read)})
            /\ faults' = faults + errors + 1
  /\ faults' <= MaxFaults
  /\ UNCHANGED <<joins, links, codes, opened, calls, raced, stale>>

-----------------------------------------------------------------------------
(* The list of the robot's rooms, as a callback or fetched by the command. *)

\* A process that has the rooms todo to save as open; if it fetched the list
\* (full) it asks for the state of each, and closes the rows in last.
Listing(todo, full, last) == [pc |-> "list", todo |-> todo, full |-> full, last |-> last]

\* The callback: the list that the platform sent
ListBegin(p) ==
  /\ proc[p] = Idle
  /\ proc' = [proc EXCEPT ![p] = Listing(opened, FALSE, {})]
  /\ UNCHANGED <<joins, links, codes, opened, calls, raced, stale, faults>>

\* The command: the list, and after it the open rows
FetchList(p) ==
  /\ proc[p] = Idle
  /\ proc' = [proc EXCEPT ![p] = [pc |-> "fetched", list |-> opened]]
  /\ UNCHANGED <<joins, links, codes, opened, calls, raced, stale, faults>>

OpenRows(p) ==
  /\ proc[p].pc = "fetched"
  /\ proc' = [proc EXCEPT ![p] =
       Listing(proc[p].list, TRUE, {i \in DOMAIN links : links[i].open /\ links[i].room \notin proc[p].list})]
  /\ UNCHANGED <<joins, links, codes, opened, calls, raced, stale, faults>>

\* is_open is all that a list changes.
Opened(read) == [read EXCEPT !.open = TRUE]

ListNext(p) ==
  /\ proc[p].pc = "list"
  /\ \E room \in proc[p].todo :
       LET rest == Listing(proc[p].todo \ {room}, proc[p].full, proc[p].last)
       IN  /\ proc' = [proc EXCEPT ![p] =
                [pc |-> "save", link |-> Ensured(room), write |-> Opened(Ensured(room).read),
                 next |-> IF proc[p].full THEN [pc |-> "ask", room |-> room, next |-> rest] ELSE rest]]
           /\ raced' = raced \cup Overlap(p, room)
  /\ UNCHANGED <<joins, links, codes, opened, calls, stale, faults>>

\* Rows that were open and are not in the list: one column, by id
ListClose(p) ==
  /\ proc[p].pc = "list" /\ proc[p].todo = {}
  /\ \E i \in proc[p].last :
       /\ RowFree(i)
       /\ links' = [links EXCEPT ![i].open = FALSE]
       /\ proc' = [proc EXCEPT ![p].last = @ \ {i}]
  /\ UNCHANGED <<joins, codes, opened, calls, raced, stale, faults>>

ListEnds(p) ==
  /\ proc[p].pc = "list" /\ proc[p].todo = {} /\ proc[p].last = {}
  /\ proc' = [proc EXCEPT ![p] = Done]
  /\ UNCHANGED <<joins, links, codes, opened, calls, raced, stale, faults>>

\* The state of one room: asked by the command for every room in the table, or
\* after a list; then the first row gets it.
StatusBegin(p, room) ==
  /\ proc[p] = Idle
  /\ proc' = [proc EXCEPT ![p] = [pc |-> "ask", room |-> room, next |-> Done]]
  /\ UNCHANGED <<joins, links, codes, opened, calls, raced, stale, faults>>

StatusAsk(p) ==
  /\ proc[p].pc = "ask"
  /\ proc' = [proc EXCEPT ![p] =
       [pc |-> "set", room |-> proc[p].room, open |-> proc[p].room \in opened, next |-> proc[p].next]]
  /\ UNCHANGED <<joins, links, codes, opened, calls, raced, stale, faults>>

\* Errors are ignored; the row of a room that is not open is looked for with the
\* robot of the room's own row, which may not be filled in.
StatusSet(p) ==
  /\ proc[p].pc = "set"
  /\ \/ /\ Ids(proc[p].room) # {}
        /\ RowFree(First(proc[p].room))
        /\ links' = [links EXCEPT ![First(proc[p].room)].open = proc[p].open]
     \/ links' = links
  /\ proc' = [proc EXCEPT ![p] = proc[p].next]
  /\ UNCHANGED <<joins, codes, opened, calls, raced, stale, faults>>

-----------------------------------------------------------------------------
(* Closing a room.                                                         *)

\* The row is read, then closed in a transaction that calls the platform.
OverRead(p, room) ==
  /\ proc[p] = Idle
  /\ Ids(room) # {}
  /\ proc' = [proc EXCEPT ![p] = [pc |-> "close", id |-> First(room)]]
  /\ UNCHANGED <<joins, links, codes, opened, calls, raced, stale, faults>>

OverCall(p) ==
  /\ proc[p].pc = "close"
  /\ RowFree(proc[p].id)
  /\ \/ /\ opened' = opened \ {links[proc[p].id].room}
        /\ proc' = [proc EXCEPT ![p].pc = "closing"]
     \/ /\ proc' = [proc EXCEPT ![p] = Done]
        /\ UNCHANGED opened
  /\ UNCHANGED <<joins, links, codes, calls, raced, stale, faults>>

OverCommit(p) ==
  /\ proc[p].pc = "closing"
  /\ links' = [links EXCEPT ![proc[p].id].open = FALSE]
  /\ proc' = [proc EXCEPT ![p] = Done]
  /\ UNCHANGED <<joins, codes, opened, calls, raced, stale, faults>>

-----------------------------------------------------------------------------
\* A statement fails, a Commit fails (nobody looks at it) or the process dies:
\* transactions are rolled back, calls to the platform are not.
Fails(p) ==
  /\ faults < MaxFaults
  /\ proc[p].pc \notin {"idle", "done"}
  /\ proc' = [proc EXCEPT ![p] = Done]
  /\ faults' = faults + 1
  /\ UNCHANGED <<joins, links, codes, opened, calls, raced, stale>>

Init ==
  /\ joins = [l \in {} |-> 0]
  /\ links = <<>>
  /\ codes = [c \in Codes |-> "none"]
  /\ opened = {}
  /\ calls = {}
  /\ proc = [p \in Processes |-> Idle]
  /\ raced = {}
  /\ stale = 0
  /\ faults = 0

Begin(p) ==
  \/ \E my \in Merchants, list \in SUBSET Logs : JoinsRead(p, my, list)
  \/ \E c \in Codes : FetchRead(p, CodeOwner[c])
  \/ \E call \in calls : CreateRead(p, call)
  \/ ListBegin(p) \/ FetchList(p)
  \/ \E room \in Rooms : StatusBegin(p, room) \/ OverRead(p, room)

Continue(p) ==
  \/ OpenCall(p) \/ OpenCommit(p) \/ DeleteCommit(p)
  \/ FetchCreate(p)
  \/ OwnerByCode(p) \/ OwnerByJoin(p) \/ Save(p)
  \/ OpenRows(p) \/ ListNext(p) \/ ListClose(p) \/ ListEnds(p)
  \/ StatusAsk(p) \/ StatusSet(p)
  \/ OverCall(p) \/ OverCommit(p)
  \/ Fails(p)

Outside ==
  \/ \E list \in SUBSET Logs \ {{}} : RobotChatJoin(list)
  \/ \E l \in Logs : JoinAges(l)
  \/ \E c \in Codes : CodeExpires(c)
  \/ \E c \in Codes, room \in Rooms, user \in Users : UseCode(c, room, user)
  \/ \E room \in Rooms : PlatformOver(room)

Next == Outside \/ \E p \in Processes : Begin(p) \/ Continue(p)

Spec == Init /\ [][Next]_vars

-----------------------------------------------------------------------------
(* Properties.                                                             *)

Link == [id : 0..Len(links), read : Row]

Owners == {CodeOwner[c] : c \in Codes}

\* What a process goes on with after saving a link
After ==
  LET list == [pc : {"list"}, todo : SUBSET Rooms, full : BOOLEAN, last : SUBSET DOMAIN links]
  IN  {Done} \cup list \cup [pc : {"ask"}, room : Rooms, next : {Done} \cup list]

Process ==
  {Idle} \cup After
  \cup [pc : {"open", "opening", "delete"}, logs : SUBSET DOMAIN joins]
  \cup [pc : {"fetch"}, owner : Owners]
  \cup [pc : {"create"}, call : calls, link : Link]
  \cup [pc : {"save"}, link : Link, write : Row, next : After]
  \cup [pc : {"fetched"}, list : SUBSET Rooms]
  \cup [pc : {"set"}, room : Rooms, open : BOOLEAN, next : After]
  \cup [pc : {"close", "closing"}, id : DOMAIN links]

\* The types of the variables.
TypeOK ==
  /\ DOMAIN joins \subseteq Logs /\ \A l \in DOMAIN joins : joins[l] \in Joins
  /\ links \in Seq(Row)
  /\ codes \in [Codes -> {"none", "free", "expired", "used"}]
  /\ opened \subseteq Rooms
  /\ calls \subseteq Call
  /\ DOMAIN proc = Processes /\ \A p \in Processes : proc[p] \in Process
  /\ raced \subseteq Rooms \cup Logs \cup Owners
  /\ stale \in Nat
  /\ faults \in Nat

\* A room that the platform opened for a merchant's join goes to that merchant,
\* unless the callback overtook the commit, came an hour late, met a second
\* join, or met or followed an error or a race of two requests for the join
\* (api_v2.go 198-216, sync.go 364-383).
OpenedOwned ==
  [][\A p \in Processes : \A l \in Logs :
       (proc[p].pc = "create" /\ proc[p].call.log = l /\ proc'[p].pc = "save")
         => \/ proc'[p].write.my = Owner[l]
            \/ l \in Locked \/ ~joins[l].recent
            \/ Recent(proc[p].call) \ {l} # {}
            \/ l \in raced \/ faults' > 0]_vars

\* A merchant loses a room to nobody only when a stale copy of the link is
\* saved: neither a list of rooms nor a callback without an owner takes it away
\* (sync.go 133-140, 360-384).
OwnerKept ==
  [][\A i \in DOMAIN links :
       (links[i].my # Nobody /\ links'[i].my = Nobody) => stale' > stale]_vars

\* A room has one link, though no unique index says so, unless two processes
\* found none at a time (chat_rooms.go 98, sync.go 133, 261, 360).
LinkOnce ==
  \A i, j \in DOMAIN links : links[i].room = links[j].room => i = j \/ links[i].room \in raced
\* A join that was opened is not deleted afterwards nor the other way round,
\* unless both requests had read it before (robot_join.go 26-43).
DecidedOnce ==
  [][\A l \in DOMAIN joins :
       (joins[l].status # 0 /\ joins'[l].status # joins[l].status) => l \in raced]_vars
=============================================================================
