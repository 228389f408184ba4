---------------------------- MODULE WorkTemplate ----------------------------
(***************************************************************************)
(* The templates a merchant writes for its chat rooms and the table that   *)
(* binds them to rooms (uchat/template.go).  API requests run              *)
(* concurrently; each reads a template, works on its copy and saves the    *)
(* whole row.  An apply ends in a goroutine (CountWorkTemplateChatRoom)    *)
(* that saves copies of all templates of the type; the count itself is     *)
(* left out.                                                               *)
(*                                                                         *)
(* A transaction that writes is one step: its UPDATEs lock the rows and    *)
(* gaps it goes on to write, so that two of them never overlap (REPEATABLE *)
(* READ, the default of InnoDB); a deadlock is one of its failures.        *)
(***************************************************************************)
EXTENDS Integers, FiniteSets, Sequences, Functions

CONSTANTS
  Templates,  \* the templates ever created, all of one merchant (my_id)
  Sub,        \* [Templates -> sub shops or NoShop], sub_id
  Type,       \* [Templates -> command types]
  Multi,      \* AllowMultiTemplatesCmdType
  Rooms,      \* chat rooms
  Links,      \* open rows of robot_chat_room of the merchant, one per robot
  Room,       \* [Links -> Rooms]
  Shop,       \* [Links -> sub shops or NoShop], the sub_id of the link
  NoShop,     \* the empty sub_id
  Blank,      \* the "room" of an empty list: strings.Split("", ",")
  Unbound,    \* the empty work_template_id of a binding
  Lists,      \* chat_rooms_list of the requests, split: sequences
  NewStatus,  \* the status values the create form sends
  Requests,   \* update, set-default and apply requests, each made once
  MaxFaults   \* bound on database errors and crashes

ASSUME WorkTemplateAssumption ==
  /\ Room \in [Links -> Rooms]
  /\ Blank \notin Rooms
  /\ Lists \subseteq Seq(Rooms \cup {Blank})
  /\ Unbound \notin Templates
  /\ NewStatus \subseteq 0..2
  /\ MaxFaults \in Nat

VARIABLES
  templates,  \* the table work_template: [ids -> Row]
  bindings,   \* the table chat_room_work_template
  req,        \* what each request has read and is about to do
  chosen,     \* history: groups for which a default was set
  stale,      \* history: saves of a copy whose row had changed since
  raced,      \* history: templates with two applies between delete and insert
  faults      \* history: errors and crashes

vars == <<templates, bindings, req, chosen, stale, raced, faults>>

Enabled == 0
Stopped == 1
Deleted == 2

Row == [status : {Enabled, Stopped, Deleted}, default : BOOLEAN]

Created == DOMAIN templates

\* A default is one per sub shop and command type.
Group(t) == <<Sub[t], Type[t]>>
InGroup(g) == {t \in Created : Group(t) = g}

\* The rooms with an open link
Open == {Room[l] : l \in Links}

\* What an apply goes through, element by element: the links it has found, or the
\* positions of its list.  A room may be there more than once.
Entries == Links \cup Nat
RoomLists == UNION {[D -> Rooms \cup {Blank}] : D \in SUBSET Entries}

\* A binding is known by the request that inserted it, and by the entry.
Binding == [by : Requests, entry : Entries, room : Rooms \cup {Blank},
            type : {Type[t] : t \in Templates}, tpl : Templates \cup {Unbound}]

Idle == [pc |-> "idle"]
Done == [pc |-> "done"]

\* ORDER BY and the choice among equals do not matter to the properties.
Bound(t) == {b \in bindings : b.tpl = t}

-----------------------------------------------------------------------------
(* Lookups of the handlers that answer in a room.                          *)

\* A template that answers in a room must be enabled, and the room open.
Usable(t) == t \in Created /\ templates[t].status = Enabled

\* The bound template, if it is usable
BoundUsable(r, type) ==
  {t \in Templates : Usable(t) /\ \E b \in Bound(t) : b.room = r /\ b.type = type}

\* or else the default of the merchant, of whatever sub shop
DefaultUsable(type) == {t \in Created : Type[t] = type /\ templates[t].default /\ Usable(t)}

Served(r, type) ==
  IF r \notin Open THEN {}
  ELSE IF BoundUsable(r, type) # {} THEN BoundUsable(r, type)
  ELSE DefaultUsable(type)

-----------------------------------------------------------------------------
(* Create and update.                                                      *)

\* Insert, Save of the id and Commit.  The status comes from the form.
Create(t) ==
  /\ t \notin Created
  /\ \E s \in NewStatus :
       templates' = [u \in Created \cup {t} |->
                       IF u = t THEN [status |-> s, default |-> FALSE] ELSE templates[u]]
  /\ UNCHANGED <<bindings, req, chosen, stale, raced, faults>>

\* A request has read row and is going to write the row row2.
Saving(t, row, row2) == [pc |-> "save", tpl |-> t, read |-> row, write |-> row2]

\* Mutant: a default template may be deleted.
NothingRefused(row, status) == FALSE

\* "default template don't delete, please change default template"
Refused(row, status) == row.default /\ status = Deleted

\* First(work_template_id), whatever its status; -1 leaves the status alone.
UpdateRead(p, t) ==
  /\ req[p] = Idle
  /\ t \in Created
  /\ \E status \in {-1, Enabled, Stopped, Deleted} :
       LET row == templates[t]
       IN  req' = [req EXCEPT ![p] =
             IF Refused(row, status) THEN Done
             ELSE Saving(t, row, IF status = -1 THEN row ELSE [row EXCEPT !.status = status])]
  /\ UNCHANGED <<templates, bindings, chosen, stale, raced, faults>>

\* One more stale save if the row is not what the request has read
Staleness(t, row) == IF templates[t] = row THEN 0 ELSE 1

\* db.Save(ret): every column of the copy
UpdateSave(p) ==
  /\ req[p].pc = "save"
  /\ LET t == req[p].tpl
     IN  /\ templates' = [templates EXCEPT ![t] = req[p].write]
         /\ stale' = stale + Staleness(t, req[p].read)
  /\ req' = [req EXCEPT ![p] = Done]
  /\ UNCHANGED <<bindings, chosen, raced, faults>>

-----------------------------------------------------------------------------
(* The default of a group.                                                 *)

\* Only an enabled template can become the default; read before the transaction.
DefaultRead(p, t) ==
  /\ req[p] = Idle
  /\ Usable(t)
  /\ req' = [req EXCEPT ![p] = [pc |-> "default", tpl |-> t, read |-> templates[t]]]
  /\ UNCHANGED <<templates, bindings, chosen, stale, raced, faults>>

\* Mutants: the other defaults are not cleared; the copy is not saved; clearing
\* writes a whole row with status 0.
DefaultNotCleared(t, row) == [templates EXCEPT ![t] = [row EXCEPT !.default = TRUE]]
DefaultOnlyCleared(t, row) ==
  [u \in Created |-> IF Group(u) = Group(t) THEN [templates[u] EXCEPT !.default = FALSE] ELSE templates[u]]

DefaultClearsRow(t, row) ==
  [u \in Created |->
     IF u = t THEN [row EXCEPT !.default = TRUE]
     ELSE IF Group(u) = Group(t) THEN [status |-> Enabled, default |-> FALSE]
     ELSE templates[u]]

\* Clear the default of the group, then save the copy with is_default = true.
WithDefault(t, row) ==
  [u \in Created |->
     IF u = t THEN [row EXCEPT !.default = TRUE]
     ELSE IF Group(u) = Group(t) THEN [templates[u] EXCEPT !.default = FALSE]
     ELSE templates[u]]

DefaultCommit(p) ==
  /\ req[p].pc = "default"
  /\ LET t == req[p].tpl
     IN  /\ templates' = WithDefault(t, req[p].read)
         /\ chosen' = chosen \cup {Group(t)}
         /\ stale' = stale + Staleness(t, req[p].read)
  /\ req' = [req EXCEPT ![p] = Done]
  /\ UNCHANGED <<bindings, raced, faults>>

-----------------------------------------------------------------------------
(* Apply.                                                                  *)

\* The open links of the rooms of the list, of the sub shop if the request names one
Real(list, sub) ==
  [l \in {k \in Links : Room[k] \in Range(list) /\ sub \in {NoShop, Shop[k]}} |-> Room[l]]

\* The template must not be deleted, and be of the sub shop if the request names
\* one.  Types with one template per room keep the real links (read here too,
\* before the transaction), the others the list as it came.
ApplyRead(p, t) ==
  /\ req[p] = Idle
  /\ t \in Created
  /\ templates[t].status \in {Enabled, Stopped}
  /\ \E list \in Lists, sub \in {Sub[t], NoShop} :
       req' = [req EXCEPT ![p] =
         IF Type[t] \in Multi
         THEN [pc |-> "delete", tpl |-> t, rooms |-> list, sub |-> sub]
         ELSE [pc |-> "bind", tpl |-> t, rooms |-> Real(list, sub), sub |-> sub]]
  /\ UNCHANGED <<templates, bindings, chosen, stale, raced, faults>>

\* The goroutine that recounts comes next, with the sub_id of the request.
Recount(p) ==
  req' = [req EXCEPT ![p] = [pc |-> "count", group |-> <<req[p].sub, Type[req[p].tpl]>>]]

\* One row for each of the entries
Inserted(p, entries) ==
  {[by |-> p, entry |-> e, room |-> req[p].rooms[e], type |-> Type[req[p].tpl],
    tpl |-> req[p].tpl] : e \in entries}

\* The two UPDATEs of the transaction: the rooms of t lose it, those of the
\* list that have a binding of the type get it.
Rebound(b, t, rooms) ==
  IF b.type = Type[t] /\ b.room \in Range(rooms) THEN [b EXCEPT !.tpl = t]
  ELSE IF b.tpl = t THEN [b EXCEPT !.tpl = Unbound]
  ELSE b

\* Mutant: every entry gets a new binding.
ToInsert(updated, t, rooms) == DOMAIN rooms

\* The entries whose room had none before the loop: two links of one room both
\* count.
Missing(updated, t, rooms) ==
  {e \in DOMAIN rooms : \A b \in updated : b.tpl = t => b.room # rooms[e]}

\* One template per room: update, insert what is missing, Commit.
Bind(p) ==
  /\ req[p].pc = "bind"
  /\ LET updated == {Rebound(b, req[p].tpl, req[p].rooms) : b \in bindings}
     IN  bindings' = updated \cup Inserted(p, Missing(updated, req[p].tpl, req[p].rooms))
  /\ Recount(p)
  /\ UNCHANGED <<templates, chosen, stale, raced, faults>>

\* Other requests that have deleted the bindings of t and not inserted theirs
Between(p, t) == {q \in Requests \ {p} : req[q].pc = "insert" /\ req[q].tpl = t}

\* Mutant: nothing is deleted.
KeepAll(t) == bindings

DeleteAll(t) == bindings \ {b \in Bound(t) : b.type = Type[t]}

\* Several templates per room: the physical delete runs on db, not on tx, and
\* is committed at once.
Delete(p) ==
  /\ req[p].pc = "delete"
  /\ bindings' = DeleteAll(req[p].tpl)
  /\ raced' = IF Between(p, req[p].tpl) = {} THEN raced ELSE raced \cup {req[p].tpl}
  /\ req' = [req EXCEPT ![p].pc = "insert"]
  /\ UNCHANGED <<templates, chosen, stale, faults>>

\* The insert and its Commit
Insert(p) ==
  /\ req[p].pc = "insert"
  /\ bindings' = bindings \cup Inserted(p, DOMAIN req[p].rooms)
  /\ Recount(p)
  /\ UNCHANGED <<templates, chosen, stale, raced, faults>>

\* Find the templates of the group that are not deleted: copies of them all.
CountRead(p) ==
  /\ req[p].pc = "count"
  /\ LET list == {t \in InGroup(req[p].group) : templates[t].status \in {Enabled, Stopped}}
     IN  req' = [req EXCEPT ![p] = [pc |-> "counting", todo |-> [t \in list |-> templates[t]]]]
  /\ UNCHANGED <<templates, bindings, chosen, stale, raced, faults>>

\* The copies of p without that of t
Rest(p, t) == [u \in DOMAIN req[p].todo \ {t} |-> req[p].todo[u]]

\* Save of one copy; only its count has changed.
CountSave(p) ==
  /\ req[p].pc = "counting"
  /\ \E t \in DOMAIN req[p].todo :
       /\ templates' = [templates EXCEPT ![t] = req[p].todo[t]]
       /\ stale' = stale + Staleness(t, req[p].todo[t])
       /\ req' = [req EXCEPT ![p].todo = Rest(p, t)]
  /\ UNCHANGED <<bindings, chosen, raced, faults>>

CountEnds(p) ==
  /\ req[p].pc = "counting"
  /\ DOMAIN req[p].todo = {}
  /\ req' = [req EXCEPT ![p] = Done]
  /\ UNCHANGED <<templates, bindings, chosen, stale, raced, faults>>

-----------------------------------------------------------------------------
(* Faults.                                                                 *)

\* A statement fails and the transaction, if there is one, is rolled back: the
\* request answers with the error.  What Delete removed stays removed.
Fails(p) ==
  /\ faults < MaxFaults
  /\ req[p].pc \in {"save", "default", "bind", "delete", "insert", "count"}
  /\ req' = [req EXCEPT ![p] = Done]
  /\ faults' = faults + 1
  /\ UNCHANGED <<templates, bindings, chosen, stale, raced>>

\* A count or a Save of the goroutine fails: continue with the next template.
CountFails(p) ==
  /\ faults < MaxFaults
  /\ req[p].pc = "counting"
  /\ \E t \in DOMAIN req[p].todo : req' = [req EXCEPT ![p].todo = Rest(p, t)]
  /\ faults' = faults + 1
  /\ UNCHANGED <<templates, bindings, chosen, stale, raced>>

\* The API server is killed: every request and goroutine is gone.
Crash ==
  /\ faults < MaxFaults
  /\ req' = [p \in Requests |-> IF req[p] = Idle THEN Idle ELSE Done]
  /\ faults' = faults + 1
  /\ UNCHANGED <<templates, bindings, chosen, stale, raced>>

-----------------------------------------------------------------------------
Init ==
  /\ templates = [t \in {} |-> 0]
  /\ bindings = {}
  /\ req = [p \in Requests |-> Idle]
  /\ chosen = {}
  /\ stale = 0
  /\ raced = {}
  /\ faults = 0

Begin(p) == \E t \in Templates : UpdateRead(p, t) \/ DefaultRead(p, t) \/ ApplyRead(p, t)

Continue(p) ==
  \/ UpdateSave(p) \/ DefaultCommit(p)
  \/ Bind(p) \/ Delete(p) \/ Insert(p)
  \/ CountRead(p) \/ CountSave(p) \/ CountEnds(p)
  \/ Fails(p) \/ CountFails(p)

Next ==
  \/ \E t \in Templates : Create(t)
  \/ \E p \in Requests : Begin(p) \/ Continue(p)
  \/ Crash

Spec == Init /\ [][Next]_vars

-----------------------------------------------------------------------------
(* Properties.                                                             *)

Shops == {Sub[t] : t \in Templates} \cup {NoShop}

Copies == UNION {[S -> Row] : S \in SUBSET Templates}

Request ==
  {Idle, Done}
  \cup [pc : {"save"}, tpl : Templates, read : Row, write : Row]
  \cup [pc : {"default"}, tpl : Templates, read : Row]
  \cup [pc : {"bind", "delete", "insert"}, tpl : Templates, rooms : RoomLists, sub : Shops]
  \cup [pc : {"count"}, group : Shops \X {Type[t] : t \in Templates}]
  \cup [pc : {"counting"}, todo : Copies]

\* The types of the variables; requests work on templates that exist.
TypeOK ==
  /\ templates \in Copies
  /\ bindings \subseteq Binding
  /\ req \in [Requests -> Request]
  /\ \A p \in Requests :
       /\ req[p].pc \in {"save", "default", "bind", "delete", "insert"} => req[p].tpl \in Created
       /\ req[p].pc = "counting" => DOMAIN req[p].todo \subseteq Created
  /\ stale \in Nat
  /\ raced \subseteq Templates
  /\ faults \in Nat

Defaults(g) == {t \in InGroup(g) : templates[t].default}

\* A group has one default at most, and has one once it was set: a second one,
\* or none, is the work of saves of copies that were out of date (template.go
\* 88, 132, 177).
OneDefault ==
  \A g \in {Group(t) : t \in Templates} :
    /\ Cardinality(Defaults(g)) <= 1 + stale
    /\ g \in chosen /\ stale = 0 => Defaults(g) # {}

\* No deleted template is a default, in spite of all stale copies: whoever
\* writes one of the two columns writes the other one with it, from one copy
\* that was checked (template.go 73-76).
DeletedNotDefault ==
  \A t \in Created : ~(templates[t].default /\ templates[t].status = Deleted)

\* A deleted template comes back only when an update asks for it or a stale
\* copy is saved; the recount, which saves templates nobody asked to change,
\* does not revive those that were deleted before it read them.
OnlyStaleUndeletes ==
  [][\A t \in Created :
       (templates[t].status = Deleted /\ templates'[t].status # Deleted)
         => \/ stale' > stale
            \/ \E p \in Requests : /\ req[p].pc = "save" /\ req'[p] = Done
                                   /\ req[p].tpl = t
                                   /\ req[p].read.status = Deleted]_vars

\* A room has one binding for a type with one template per room, though no
\* unique index says so: the transaction updates before it inserts.  Where the
\* merchant has several open links in a room one apply inserts several, but
\* no later one does, and they name one template (template.go 240-289).
BoundAlike ==
  \A a, b \in bindings :
    a.type \notin Multi /\ a.type = b.type /\ a.room = b.room
      => \/ a = b
         \/ /\ a.by = b.by /\ a.tpl = b.tpl
            /\ \E l, k \in Links : l # k /\ Room[l] = a.room /\ Room[k] = a.room

\* A template is bound to a room by two applies only if two of them overlapped
\* between the delete and the insert (template.go 195-221); what one apply
\* inserts twice was twice in its list, or has two links.
BoundTwiceRaced ==
  \A a, b \in bindings :
    a.tpl = b.tpl /\ a.tpl \in Templates /\ a.room = b.room => a.by = b.by \/ a.tpl \in raced

\* As long as no stale copy is saved, a merchant who has set a default and not
\* stopped it answers in every open room: neither an apply nor an error leaves
\* a room without a template (template.go 371-394).
NeverSilent ==
  \A g \in chosen : \A r \in Open :
    (stale = 0 /\ \A t \in Defaults(g) : templates[t].status # Stopped)
      => Served(r, g[2]) # {}
=============================================================================
