--------------------------- MODULE ChatRoomMembers ---------------------------
(***************************************************************************)
(* The members of one chat room and the row of the room itself             *)
(* (chat_room_member and chat_room), written side by side by the callbacks *)
(* of the platform, by the goroutines they start and by the sync command   *)
(* (uchat/sync.go, callback.go, special.go; models/chat_rooms.go,          *)
(* members.go).  The room's row exists: its create callback saved it.      *)
(*                                                                         *)
(* Nothing here runs in a transaction.  A row is read, a column of the     *)
(* copy is set, and the whole row is saved.                                *)
(***************************************************************************)
EXTENDS Integers, FiniteSets, Sequences

CONSTANTS
  Users,      \* users that join, quit and write
  Processes,  \* each runs one callback, or one run of the command
  Nothing,    \* a column that was never filled in
  MaxSums,    \* bound on the reports of messages per user
  MaxFaults   \* bound on errors and crashes

ASSUME ChatRoomMembersAssumption ==
  /\ Nothing \notin Processes
  /\ MaxSums \in Nat /\ MaxFaults \in Nat

VARIABLES
  members,   \* the table chat_room_member, a sequence: the id is the position
  room,      \* the room's row: [val : columns -> who wrote it, count]
  sent,      \* the platform: reports of messages delivered, per user
  proc,      \* what each process has read and is about to do
  behind,    \* history: processes whose copy of the room is out of date
  stale,     \* history: such a copy was saved
  raced,     \* history: users that two processes found no row for at a time
  faults     \* history: errors and crashes

vars == <<members, room, sent, proc, behind, stale, raced, faults>>

Idle == [pc |-> "idle"]
Done == [pc |-> "done"]

\* A member's row; the number of messages counts reports.
Row == [user : Users, active : BOOLEAN, msgs : Nat]

\* The columns other than member_count, by who fills them in: chat_room_id by
\* the list of members, qr_code, head_image, and name and status by the create
\* callback, the list of rooms and the status.
Columns == {"id", "qr", "head", "name"}

Room == [val : [Columns -> Processes \cup {Nothing}], count : Nat]

-----------------------------------------------------------------------------
(* Members.                                                                *)

Active == {i \in DOMAIN members : members[i].active}

Ids(user) == {i \in DOMAIN members : members[i].user = user}
First(user) == CHOOSE i \in Ids(user) : \A j \in Ids(user) : i <= j
\* FirstOrInit: the copy, and the id of its row or 0 for a row to insert
Ensured(user) ==
  IF Ids(user) = {} THEN [id |-> 0, read |-> [user |-> user, active |-> FALSE, msgs |-> 0]]
  ELSE [id |-> First(user), read |-> members[First(user)]]

\* Others that found no row for the user and have not inserted theirs
Inserting(p, user) ==
  {q \in Processes \ {p} : proc[q].pc = "put" /\ proc[q].member.id = 0 /\ proc[q].member.read.user = user}

\* The next read of the room's row is for the column.  list tells a list of
\* members from the other callbacks.
Loading(list, column) == [pc |-> "load", list |-> list, column |-> column]

\* A process that has to save the users todo as active, then to deactivate the
\* rows gone.  After a join the members are counted; a list of members fills in
\* chat_room_id first.
Updating(list, todo, gone) ==
  IF todo = {} /\ gone = {} THEN Loading(list, IF list THEN "id" ELSE "count")
  ELSE [pc |-> "members", list |-> list, todo |-> todo, gone |-> gone]

JoinBegin(p, user) ==
  /\ proc[p] = Idle
  /\ proc' = [proc EXCEPT ![p] = Updating(FALSE, {user}, {})]
  /\ UNCHANGED <<members, room, sent, behind, stale, raced, faults>>

\* The list names all members there were when it was sent, one at least, the
\* robot; the active rows that it does not name are remembered before it is
\* applied.
ListBegin(p, users) ==
  /\ proc[p] = Idle
  /\ proc' = [proc EXCEPT ![p] =
                Updating(TRUE, users, {i \in Active : members[i].user \notin users})]
  /\ UNCHANGED <<members, room, sent, behind, stale, raced, faults>>

MemberRead(p) ==
  /\ proc[p].pc = "members"
  /\ \E user \in proc[p].todo :
       /\ proc' = [proc EXCEPT ![p] =
            [pc |-> "put", member |-> Ensured(user),
             next |-> Updating(proc[p].list, proc[p].todo \ {user}, proc[p].gone)]]
       /\ raced' = IF Ids(user) = {} /\ Inserting(p, user) # {} THEN raced \cup {user} ELSE raced
  /\ UNCHANGED <<members, room, sent, behind, stale, faults>>

\* Mutant: the whole row comes from the callback.
JoinedAnew(read) == [user |-> read.user, active |-> TRUE, msgs |-> 0]

\* The columns of the callback, without the number of messages
Joined(read) == [read EXCEPT !.active = TRUE]

\* db.Save of the copy: an insert or the whole row
MemberSave(p) ==
  /\ proc[p].pc = "put"
  /\ LET member == proc[p].member
     IN  members' = IF member.id = 0 THEN Append(members, Joined(member.read))
                    ELSE [members EXCEPT ![member.id] = Joined(member.read)]
  /\ proc' = [proc EXCEPT ![p] = proc[p].next]
  /\ UNCHANGED <<room, sent, behind, stale, raced, faults>>

\* One column of a remembered row
Unactive(p) ==
  /\ proc[p].pc = "members" /\ proc[p].todo = {}
  /\ \E i \in proc[p].gone :
       /\ members' = [members EXCEPT ![i].active = FALSE]
       /\ proc' = [proc EXCEPT ![p] = Updating(proc[p].list, {}, proc[p].gone \ {i})]
  /\ UNCHANGED <<room, sent, behind, stale, raced, faults>>

\* One UPDATE of all rows of the user, then the count
Quit(p, user) ==
  /\ proc[p] = Idle
  /\ members' = [i \in DOMAIN members |->
                   IF members[i].user = user THEN [members[i] EXCEPT !.active = FALSE] ELSE members[i]]
  /\ proc' = [proc EXCEPT ![p] = Loading(FALSE, "count")]
  /\ UNCHANGED <<room, sent, behind, stale, raced, faults>>

\* msg_count + n in one UPDATE of all rows of the user.  The report is a new one,
\* or one that was delivered before.
MessageSum(p, user) ==
  /\ proc[p] = Idle
  /\ \/ sent[user] < MaxSums /\ sent' = [sent EXCEPT ![user] = @ + 1]
     \/ sent[user] > 0 /\ UNCHANGED sent
  /\ members' = [i \in DOMAIN members |->
                   IF members[i].user = user THEN [members[i] EXCEPT !.msgs = @ + 1] ELSE members[i]]
  /\ proc' = [proc EXCEPT ![p] = Done]
  /\ UNCHANGED <<room, behind, stale, raced, faults>>

-----------------------------------------------------------------------------
(* The row of the room.                                                    *)

\* The QR code arrives; a create callback, a list of rooms or a status that was
\* fetched names the room; a command makes the head image.
RoomBegin(p) ==
  /\ proc[p] = Idle
  /\ \E column \in {"qr", "head", "name"} : proc' = [proc EXCEPT ![p] = Loading(FALSE, column)]
  /\ UNCHANGED <<members, room, sent, behind, stale, raced, faults>>

RoomRead(p) ==
  /\ proc[p].pc = "load"
  /\ proc' = [proc EXCEPT ![p] =
       [pc |-> IF proc[p].column = "count" THEN "count" ELSE "store",
        list |-> proc[p].list, column |-> proc[p].column, copy |-> room]]
  /\ UNCHANGED <<members, room, sent, behind, stale, raced, faults>>

\* Mutant: all rows are counted.
Counted == Cardinality(DOMAIN members)

\* The rows that are active
MemberCount == Cardinality(Active)

\* The count goes into the copy, whatever has become of the row.
Count(p) ==
  /\ proc[p].pc = "count"
  /\ proc' = [proc EXCEPT ![p].pc = "store", ![p].copy.count = MemberCount]
  /\ UNCHANGED <<members, room, sent, behind, stale, raced, faults>>

\* Mutant: the row is saved from the callback alone.
FilledAlone(p) ==
  [val |-> [c \in Columns |-> IF c = proc[p].column THEN p ELSE Nothing], count |-> proc[p].copy.count]

\* The copy of p with its column filled in
Filled(p) ==
  IF proc[p].column = "count" THEN proc[p].copy
  ELSE [proc[p].copy EXCEPT !.val[proc[p].column] = p]

\* Processes with a copy of the row
Holding == {q \in Processes : proc[q].pc \in {"count", "store"}}

\* After its id a list counts the members on the same copy; after the count it
\* starts the goroutine that makes the head image.
RoomNext(p) ==
  IF ~proc[p].list THEN Done
  ELSE IF proc[p].column = "id"
       THEN [pc |-> "count", list |-> TRUE, column |-> "count", copy |-> Filled(p)]
  ELSE IF proc[p].column = "count" THEN Loading(TRUE, "head")
  ELSE Done

\* db.Save of the copy
RoomSave(p) ==
  /\ proc[p].pc = "store"
  /\ room' = Filled(p)
  /\ stale' = (stale \/ p \in behind)
  /\ behind' = (behind \cup Holding) \ {p}
  /\ proc' = [proc EXCEPT ![p] = RoomNext(p)]
  /\ UNCHANGED <<members, sent, raced, faults>>

-----------------------------------------------------------------------------
\* A statement fails or the process dies.  What was saved stays.
Fails(p) ==
  /\ faults < MaxFaults
  /\ proc[p].pc \notin {"idle", "done"}
  /\ proc' = [proc EXCEPT ![p] = Done]
  /\ behind' = behind \ {p}
  /\ faults' = faults + 1
  /\ UNCHANGED <<members, room, sent, stale, raced>>

\* The count, or a save of the row, fails and the callback goes on.
Ignored(p) ==
  /\ faults < MaxFaults
  /\ p \in Holding
  /\ proc' = [proc EXCEPT ![p] = RoomNext(p)]
  /\ behind' = IF RoomNext(p).pc = "count" THEN behind ELSE behind \ {p}
  /\ faults' = faults + 1
  /\ UNCHANGED <<members, room, sent, stale, raced>>

Init ==
  /\ members = <<>>
  /\ room = [val |-> [c \in Columns |-> Nothing], count |-> 0]
  /\ sent = [u \in Users |-> 0]
  /\ proc = [p \in Processes |-> Idle]
  /\ behind = {}
  /\ stale = FALSE
  /\ raced = {}
  /\ faults = 0

Begin(p) ==
  \/ \E user \in Users : JoinBegin(p, user) \/ Quit(p, user) \/ MessageSum(p, user)
  \/ \E users \in SUBSET Users \ {{}} : ListBegin(p, users)
  \/ RoomBegin(p)

Continue(p) ==
  \/ MemberRead(p) \/ MemberSave(p) \/ Unactive(p)
  \/ RoomRead(p) \/ Count(p) \/ RoomSave(p)
  \/ Fails(p) \/ Ignored(p)

Next == \E p \in Processes : Begin(p) \/ Continue(p)

Spec == Init /\ [][Next]_vars

-----------------------------------------------------------------------------
(* Properties.                                                             *)

Updates ==
  [pc : {"members"}, list : BOOLEAN, todo : SUBSET Users, gone : SUBSET DOMAIN members]
  \cup [pc : {"load"}, list : BOOLEAN, column : Columns \cup {"count"}]

Process ==
  {Idle, Done} \cup Updates
  \cup [pc : {"put"}, member : [id : 0..Len(members), read : Row], next : Updates]
  \cup [pc : {"count", "store"}, list : BOOLEAN, column : Columns \cup {"count"}, copy : Room]

\* The types of the variables; only a process with a copy can be behind.
TypeOK ==
  /\ members \in Seq(Row)
  /\ room \in Room
  /\ sent \in [Users -> 0..MaxSums]
  /\ proc \in [Processes -> Process]
  /\ behind \subseteq Holding
  /\ stale \in BOOLEAN
  /\ raced \subseteq Users
  /\ faults \in Nat

\* Once every callback has ended, member_count is the number of active rows,
\* however joins, quits and lists overlapped, unless an outdated copy of the
\* room's row was saved or something failed (chat_rooms.go 47-55).
CountRight ==
  (\A p \in Processes : proc[p].pc \in {"idle", "done"}) /\ ~stale /\ faults = 0
    => room.count = Cardinality(Active)

\* A callback that saves the row changes a column that it does not fill in only
\* from a copy that is out of date (callback.go 103-109, 116-136, special.go 30-49).
ColumnsKept ==
  [][\A c \in Columns :
       room'.val[c] # room.val[c]
         => \E p \in Processes : proc[p].pc = "store" /\ (room'.val[c] = p \/ p \in behind)]_vars

\* A user has one row, though no unique index says so, unless two processes
\* found none at a time (members.go 49, callback.go 63, sync.go 467).
MemberOnce ==
  \A i, j \in DOMAIN members :
    members[i].user = members[j].user => i = j \/ members[i].user \in raced

\* The messages counted for a member are lost only to a callback that read the
\* row before they were counted (callback.go 63-90, sync.go 321).
MsgsKept ==
  [][\A i \in DOMAIN members :
       members'[i].msgs < members[i].msgs
         => \E p \in Processes : /\ proc[p].pc = "put" /\ proc[p].member.id = i
                                 /\ proc[p].member.read.msgs < members[i].msgs]_vars
=============================================================================
