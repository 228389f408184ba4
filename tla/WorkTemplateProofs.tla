------------------------- MODULE WorkTemplateProofs -------------------------
(***************************************************************************)
(* The type invariant of WorkTemplate, and what races can and cannot do to *)
(* its tables (bindings, deleted templates, the defaults of a group and    *)
(* what they serve): for any number of templates, rooms, requests, faults. *)
(***************************************************************************)
EXTENDS WorkTemplate, FiniteSetTheorems, TLAPS

\* What the copies in flight may say: whoever writes is_default and status
\* together took both from a copy that was checked.  The branch of an apply is
\* that of its template's type, and the entries of the old branch are links.
Clean(q) ==
  /\ q.pc = "save" => ~(q.write.default /\ q.write.status = Deleted)
  /\ q.pc = "default" => q.read.status = Enabled
  /\ q.pc = "counting" => \A t \in DOMAIN q.todo : q.todo[t].status # Deleted
  /\ q.pc = "bind" => /\ Type[q.tpl] \notin Multi
                      /\ \A e \in DOMAIN q.rooms : e \in Links /\ q.rooms[e] = Room[e]
  /\ q.pc \in {"delete", "insert"} => Type[q.tpl] \in Multi

RequestsClean == \A p \in Requests : Clean(req[p])

RowInv == RequestsClean /\ DeletedNotDefault

\* A binding has the type of its template.
BindingsTyped == \A b \in bindings : b.tpl \in Templates => b.type = Type[b.tpl]

\* Unless two applies raced, the one between its delete and its insert is alone
\* and has left no binding of its template.
AloneBetween ==
  \A p \in Requests :
    (req[p].pc = "insert" /\ req[p].tpl \notin raced)
      => Bound(req[p].tpl) = {} /\ Between(p, req[p].tpl) = {}

\* A binding of a type with one template per room came with a link of the room.
LinksBound ==
  \A b \in bindings : b.type \notin Multi => b.entry \in Links /\ b.room = Room[b.entry]

BindInv == BindingsTyped /\ LinksBound /\ BoundAlike /\ AloneBetween /\ BoundTwiceRaced

IndInv == TypeOK /\ RowInv /\ BindInv

-----------------------------------------------------------------------------
(* Types.                                                                  *)

\* The rows of the table, of any subset of it or of it with one row more
LEMMA CopiesFacts ==
  /\ \A f \in Copies : f \in [DOMAIN f -> Row] /\ DOMAIN f \subseteq Templates
  /\ \A S \in SUBSET Templates : \A f \in [S -> Row] : f \in Copies
BY DEF Copies

\* What the record of a request holds, by its pc
LEMMA RequestFacts ==
  ASSUME NEW q \in Request
  PROVE  /\ q.pc = "save" => q \in [pc : {"save"}, tpl : Templates, read : Row, write : Row]
         /\ q.pc = "default" => q \in [pc : {"default"}, tpl : Templates, read : Row]
         /\ q.pc \in {"bind", "delete", "insert"} =>
              q \in [pc : {"bind", "delete", "insert"}, tpl : Templates,
                     rooms : RoomLists, sub : Shops]
         /\ q.pc = "count" => q \in [pc : {"count"}, group : Shops \X {Type[t] : t \in Templates}]
         /\ q.pc = "counting" => q \in [pc : {"counting"}, todo : Copies]
BY DEF Request, Idle, Done

\* A step that changes the record of one request
LEMMA OneRequest ==
  ASSUME TypeOK, NEW p \in Requests, NEW q \in Request, req' = [req EXCEPT ![p] = q]
  PROVE  /\ req' \in [Requests -> Request]
         /\ req'[p] = q
         /\ \A o \in Requests \ {p} : req'[o] = req[o]
BY DEF TypeOK
\* A step that saves a row of the table
LEMMA RowSaved ==
  ASSUME TypeOK, NEW t \in Created, NEW row \in Row, templates' = [templates EXCEPT ![t] = row]
  PROVE  /\ templates' \in Copies
         /\ Created' = Created
         /\ \A u \in Created : templates'[u] = IF u = t THEN row ELSE templates[u]
<1>1. templates \in [Created -> Row] /\ Created \subseteq Templates
  BY CopiesFacts DEF TypeOK, Created
<1>2. templates' \in [Created -> Row] /\ DOMAIN templates' = Created
  BY <1>1
<1>3. templates' \in Copies
  BY <1>1, <1>2, CopiesFacts
<1> QED BY <1>1, <1>2, <1>3 DEF Created

\* What a change of the records leaves of the facts about requests
LEMMA RequestsOnly ==
  ASSUME TypeOK, NEW p \in Requests, NEW q \in Request, req' = [req EXCEPT ![p] = q],
         templates' \in Copies, Created \subseteq Created',
         q.pc \in {"save", "default", "bind", "delete", "insert"} => q.tpl \in Created',
         q.pc = "counting" => DOMAIN q.todo \subseteq Created',
         bindings' \subseteq Binding, stale' \in Nat, raced' \subseteq Templates, faults' \in Nat
  PROVE  TypeOK'
<1>1. /\ req' \in [Requests -> Request] /\ req'[p] = q
      /\ \A o \in Requests \ {p} : req'[o] = req[o]
  BY OneRequest
<1>2. ASSUME NEW o \in Requests
      PROVE  /\ req'[o].pc \in {"save", "default", "bind", "delete", "insert"} => req'[o].tpl \in Created'
             /\ req'[o].pc = "counting" => DOMAIN req'[o].todo \subseteq Created'
  <2>1. CASE o = p
    BY <1>1, <2>1
  <2>2. CASE o # p
    BY <1>1, <2>2 DEF TypeOK
  <2> QED BY <2>1, <2>2
<1> QED BY <1>1, <1>2 DEF TypeOK

-----------------------------------------------------------------------------
(* Each action keeps the types.                                            *)

LEMMA CreateTypes ==
  ASSUME TypeOK, WorkTemplateAssumption, NEW t \in Templates, Create(t)
  PROVE  TypeOK'
<1>1. templates \in [Created -> Row] /\ Created \subseteq Templates
  BY CopiesFacts DEF TypeOK, Created
<1>2. PICK s \in NewStatus :
        templates' = [u \in Created \cup {t} |->
                        IF u = t THEN [status |-> s, default |-> FALSE] ELSE templates[u]]
  BY DEF Create
<1>3. [status |-> s, default |-> FALSE] \in Row
  BY DEF WorkTemplateAssumption, Row, Enabled, Stopped, Deleted
<1>4. templates' \in [Created \cup {t} -> Row] /\ DOMAIN templates' = Created \cup {t}
  BY <1>1, <1>2, <1>3
<1>5. templates' \in Copies
  BY <1>1, <1>4, CopiesFacts
<1>6. Created \subseteq Created'
  BY <1>4 DEF Created
<1>7. UNCHANGED <<bindings, req, stale, raced, faults>>
  BY DEF Create
<1> QED BY <1>5, <1>6, <1>7 DEF TypeOK

LEMMA UpdateReadTypes ==
  ASSUME TypeOK, NEW p \in Requests, NEW t \in Templates, UpdateRead(p, t)
  PROVE  TypeOK'
<1>1. templates \in [Created -> Row] /\ t \in Created
  BY CopiesFacts DEF TypeOK, Created, UpdateRead
<1>2. PICK status \in {-1, Enabled, Stopped, Deleted} :
        req' = [req EXCEPT ![p] =
          IF Refused(templates[t], status) THEN Done
          ELSE Saving(t, templates[t],
                      IF status = -1 THEN templates[t] ELSE [templates[t] EXCEPT !.status = status])]
  BY DEF UpdateRead
<1> DEFINE w == IF status = -1 THEN templates[t] ELSE [templates[t] EXCEPT !.status = status]
           q == IF Refused(templates[t], status) THEN Done ELSE Saving(t, templates[t], w)
<1>3. templates[t] \in Row /\ w \in Row
  BY <1>1 DEF Row, Enabled, Stopped, Deleted
<1>4. /\ q \in Request
      /\ q.pc \in {"save", "done"}
      /\ q.pc = "save" => q.tpl = t
  BY <1>3 DEF Saving, Done, Request
<1>5. req' = [req EXCEPT ![p] = q]
  BY <1>2
<1>6. UNCHANGED <<templates, bindings, stale, raced, faults>>
  BY DEF UpdateRead
<1> HIDE DEF q
<1> QED BY <1>1, <1>4, <1>5, <1>6, RequestsOnly DEF TypeOK, Created

LEMMA DefaultReadTypes ==
  ASSUME TypeOK, NEW p \in Requests, NEW t \in Templates, DefaultRead(p, t)
  PROVE  TypeOK'
<1> DEFINE q == [pc |-> "default", tpl |-> t, read |-> templates[t]]
<1>1. templates \in [Created -> Row] /\ t \in Created
  BY CopiesFacts DEF TypeOK, Created, DefaultRead, Usable
<1>2. q \in Request /\ q.pc = "default" /\ q.tpl = t
  BY <1>1 DEF Request
<1>3. req' = [req EXCEPT ![p] = q] /\ UNCHANGED <<templates, bindings, stale, raced, faults>>
  BY DEF DefaultRead
<1> HIDE DEF q
<1> QED BY <1>1, <1>2, <1>3, RequestsOnly DEF TypeOK, Created

\* What an apply goes through: a list of the request, or links and their rooms
LEMMA ListFacts ==
  ASSUME WorkTemplateAssumption
  PROVE  /\ \A list \in Lists : list \in RoomLists
         /\ \A list, sub : /\ Real(list, sub) \in RoomLists
                          /\ \A e \in DOMAIN Real(list, sub) :
                               e \in Links /\ Real(list, sub)[e] = Room[e]
<1>1. ASSUME NEW list \in Lists
      PROVE  list \in RoomLists
  <2>1. list \in Seq(Rooms \cup {Blank})
    BY <1>1 DEF WorkTemplateAssumption
  <2>2. Len(list) \in Nat /\ list \in [1..Len(list) -> Rooms \cup {Blank}]
    BY <2>1
  <2>3. 1..Len(list) \in SUBSET Entries
    BY <2>2 DEF Entries
  <2> QED BY <2>2, <2>3 DEF RoomLists
<1>2. ASSUME NEW list, NEW sub
      PROVE  /\ Real(list, sub) \in RoomLists
             /\ \A e \in DOMAIN Real(list, sub) : e \in Links /\ Real(list, sub)[e] = Room[e]
  <2> DEFINE D == {k \in Links : Room[k] \in Range(list) /\ sub \in {NoShop, Shop[k]}}
  <2>1. D \subseteq Links
    OBVIOUS
  <2>2. Real(list, sub) = [l \in D |-> Room[l]]
    BY DEF Real
  <2> HIDE DEF D
  <2>3. Real(list, sub) \in [D -> Rooms \cup {Blank}] /\ D \in SUBSET Entries
    BY <2>1, <2>2 DEF WorkTemplateAssumption, Entries
  <2> QED BY <2>1, <2>2, <2>3 DEF RoomLists
<1> QED BY <1>1, <1>2

LEMMA ApplyReadTypes ==
  ASSUME TypeOK, WorkTemplateAssumption, NEW p \in Requests, NEW t \in Templates, ApplyRead(p, t)
  PROVE  TypeOK'
<1>1. t \in Created
  BY DEF ApplyRead
<1>2. PICK list \in Lists, sub \in {Sub[t], NoShop} :
        req' = [req EXCEPT ![p] =
          IF Type[t] \in Multi
          THEN [pc |-> "delete", tpl |-> t, rooms |-> list, sub |-> sub]
          ELSE [pc |-> "bind", tpl |-> t, rooms |-> Real(list, sub), sub |-> sub]]
  BY DEF ApplyRead
<1> DEFINE q == IF Type[t] \in Multi
                THEN [pc |-> "delete", tpl |-> t, rooms |-> list, sub |-> sub]
                ELSE [pc |-> "bind", tpl |-> t, rooms |-> Real(list, sub), sub |-> sub]
<1>3. sub \in Shops
  BY DEF Shops
<1>4. list \in RoomLists /\ Real(list, sub) \in RoomLists
  BY ListFacts
<1>5. q \in Request /\ q.pc \in {"bind", "delete"} /\ q.tpl = t
  BY <1>3, <1>4 DEF Request
<1>6. req' = [req EXCEPT ![p] = q] /\ UNCHANGED <<templates, bindings, stale, raced, faults>>
  BY <1>2 DEF ApplyRead
<1> HIDE DEF q
<1> QED BY <1>1, <1>5, <1>6, RequestsOnly DEF TypeOK, Created

LEMMA UpdateSaveTypes ==
  ASSUME TypeOK, NEW p \in Requests, UpdateSave(p)
  PROVE  TypeOK'
<1>1. req[p] \in [pc : {"save"}, tpl : Templates, read : Row, write : Row] /\ req[p].tpl \in Created
  BY RequestFacts DEF TypeOK, UpdateSave
<1>2. templates' = [templates EXCEPT ![req[p].tpl] = req[p].write] /\ req[p].write \in Row
  BY <1>1 DEF UpdateSave
<1>3. templates' \in Copies /\ Created' = Created
  BY <1>1, <1>2, RowSaved
<1>4. stale' \in Nat
  BY DEF UpdateSave, TypeOK, Staleness
<1>5. req' = [req EXCEPT ![p] = Done] /\ UNCHANGED <<bindings, raced, faults>>
  BY DEF UpdateSave
<1>6. Done \in Request /\ Done.pc = "done"
  BY DEF Done, Request
<1> QED BY <1>3, <1>4, <1>5, <1>6, RequestsOnly DEF TypeOK

\* The table after a default was set
LEMMA WithDefaultFacts ==
  ASSUME TypeOK, NEW t \in Created, NEW row \in Row, templates' = WithDefault(t, row)
  PROVE  /\ templates' \in Copies
         /\ Created' = Created
         /\ \A u \in Created :
              IF u = t THEN templates'[u] = [row EXCEPT !.default = TRUE]
              ELSE \/ templates'[u] = templates[u]
                   \/ templates'[u] = [templates[u] EXCEPT !.default = FALSE]
<1>1. templates \in [Created -> Row] /\ Created \subseteq Templates
  BY CopiesFacts DEF TypeOK, Created
<1>2. \A r \in Row : [r EXCEPT !.default = TRUE] \in Row /\ [r EXCEPT !.default = FALSE] \in Row
  BY DEF Row
<1>3. templates' \in [Created -> Row] /\ DOMAIN templates' = Created
  BY <1>1, <1>2 DEF WithDefault
<1>4. templates' \in Copies /\ Created' = Created
  BY <1>1, <1>3, CopiesFacts DEF Created
<1>5. \A u \in Created :
              IF u = t THEN templates'[u] = [row EXCEPT !.default = TRUE]
              ELSE \/ templates'[u] = templates[u]
                   \/ templates'[u] = [templates[u] EXCEPT !.default = FALSE]
  BY DEF WithDefault
<1> QED BY <1>4, <1>5

LEMMA DefaultCommitTypes ==
  ASSUME TypeOK, NEW p \in Requests, DefaultCommit(p)
  PROVE  TypeOK'
<1>1. req[p] \in [pc : {"default"}, tpl : Templates, read : Row] /\ req[p].tpl \in Created
  BY RequestFacts DEF TypeOK, DefaultCommit
<1>2. templates' = WithDefault(req[p].tpl, req[p].read) /\ req[p].read \in Row
  BY <1>1 DEF DefaultCommit
<1>3. templates' \in Copies /\ Created' = Created
  BY <1>1, <1>2, WithDefaultFacts
<1>4. stale' \in Nat
  BY DEF DefaultCommit, TypeOK, Staleness
<1>5. req' = [req EXCEPT ![p] = Done] /\ UNCHANGED <<bindings, raced, faults>>
  BY DEF DefaultCommit
<1>6. Done \in Request /\ Done.pc = "done"
  BY DEF Done, Request
<1> QED BY <1>3, <1>4, <1>5, <1>6, RequestsOnly DEF TypeOK
LEMMA RebindTypes ==
  ASSUME TypeOK, NEW b \in bindings, NEW t \in Templates, NEW rooms
  PROVE  Rebound(b, t, rooms) \in Binding
BY DEF Rebound, Binding, TypeOK

\* What an apply inserts, and what its record becomes
LEMMA ApplyFacts ==
  ASSUME TypeOK, NEW p \in Requests, req[p].pc \in {"bind", "delete", "insert"}
  PROVE  /\ req[p].tpl \in Templates /\ req[p].tpl \in Created
         /\ \A S \in SUBSET DOMAIN req[p].rooms : Inserted(p, S) \subseteq Binding
         /\ [pc |-> "count", group |-> <<req[p].sub, Type[req[p].tpl]>>] \in Request
         /\ [req[p] EXCEPT !.pc = "insert"] \in Request
         /\ [req[p] EXCEPT !.pc = "insert"].pc = "insert"
         /\ [req[p] EXCEPT !.pc = "insert"].tpl = req[p].tpl
<1>1. /\ req[p] \in [pc : {"bind", "delete", "insert"}, tpl : Templates,
                     rooms : RoomLists, sub : Shops]
      /\ req[p].tpl \in Created
  BY RequestFacts DEF TypeOK
<1>2. \A S \in SUBSET DOMAIN req[p].rooms : Inserted(p, S) \subseteq Binding
  <2>1. req[p].rooms \in RoomLists
    BY <1>1
  <2>2. \A e \in DOMAIN req[p].rooms : e \in Entries /\ req[p].rooms[e] \in Rooms \cup {Blank}
    BY <2>1 DEF RoomLists
  <2> QED BY <1>1, <2>2 DEF Inserted, Binding
<1>3. [pc |-> "count", group |-> <<req[p].sub, Type[req[p].tpl]>>] \in Request
  BY <1>1 DEF Request
<1>4. [req[p] EXCEPT !.pc = "insert"] \in [pc : {"bind", "delete", "insert"}, tpl : Templates,
                                          rooms : RoomLists, sub : Shops]
  BY <1>1
<1>5. /\ [req[p] EXCEPT !.pc = "insert"].pc = "insert"
      /\ [req[p] EXCEPT !.pc = "insert"].tpl = req[p].tpl
  BY <1>1
<1> QED BY <1>1, <1>2, <1>3, <1>4, <1>5 DEF Request

LEMMA BindTypes ==
  ASSUME TypeOK, NEW p \in Requests, Bind(p)
  PROVE  TypeOK'
<1> DEFINE q == [pc |-> "count", group |-> <<req[p].sub, Type[req[p].tpl]>>]
           updated == {Rebound(b, req[p].tpl, req[p].rooms) : b \in bindings}
           missing == Missing(updated, req[p].tpl, req[p].rooms)
<1>1. req[p].pc \in {"bind", "delete", "insert"}
  BY DEF Bind
<1>2. updated \subseteq Binding
  <2>1. req[p].tpl \in Templates
    BY <1>1, ApplyFacts
  <2>2. \A b \in bindings : Rebound(b, req[p].tpl, req[p].rooms) \in Binding
    BY <2>1, RebindTypes
  <2> QED BY <2>2
<1>3. missing \in SUBSET DOMAIN req[p].rooms
  BY DEF Missing
<1>4. bindings' = updated \cup Inserted(p, missing)
  BY DEF Bind
<1>5. bindings' \subseteq Binding
  <2> HIDE DEF missing, updated
  <2> QED BY <1>1, <1>2, <1>3, <1>4, ApplyFacts
<1>6. q \in Request /\ q.pc = "count"
  BY <1>1, ApplyFacts
<1>7. req' = [req EXCEPT ![p] = q] /\ UNCHANGED <<templates, stale, raced, faults>>
  BY DEF Bind, Recount
<1> HIDE DEF q, updated, missing
<1> QED BY <1>5, <1>6, <1>7, RequestsOnly DEF TypeOK, Created

LEMMA DeleteTypes ==
  ASSUME TypeOK, NEW p \in Requests, Delete(p)
  PROVE  TypeOK'
<1> DEFINE q == [req[p] EXCEPT !.pc = "insert"]
<1>1. req[p].pc \in {"bind", "delete", "insert"}
  BY DEF Delete
<1>2. q \in Request /\ q.pc = "insert" /\ q.tpl \in Created
  BY <1>1, ApplyFacts
<1>3. bindings' \subseteq Binding /\ raced' \subseteq Templates
  BY <1>1, ApplyFacts DEF Delete, DeleteAll, TypeOK
<1>4. req' = [req EXCEPT ![p] = q] /\ UNCHANGED <<templates, stale, faults>>
  BY DEF Delete
<1> HIDE DEF q
<1> QED BY <1>2, <1>3, <1>4, RequestsOnly DEF TypeOK, Created

LEMMA InsertTypes ==
  ASSUME TypeOK, NEW p \in Requests, Insert(p)
  PROVE  TypeOK'
<1> DEFINE q == [pc |-> "count", group |-> <<req[p].sub, Type[req[p].tpl]>>]
<1>1. req[p].pc \in {"bind", "delete", "insert"}
  BY DEF Insert
<1>2. bindings' \subseteq Binding
  BY <1>1, ApplyFacts DEF Insert, TypeOK
<1>3. q \in Request /\ q.pc = "count"
  BY <1>1, ApplyFacts
<1>4. req' = [req EXCEPT ![p] = q] /\ UNCHANGED <<templates, stale, raced, faults>>
  BY DEF Insert, Recount
<1> HIDE DEF q
<1> QED BY <1>2, <1>3, <1>4, RequestsOnly DEF TypeOK, Created

LEMMA CountReadTypes ==
  ASSUME TypeOK, NEW p \in Requests, CountRead(p)
  PROVE  TypeOK'
<1> DEFINE list == {t \in InGroup(req[p].group) : templates[t].status \in {Enabled, Stopped}}
           q == [pc |-> "counting", todo |-> [t \in list |-> templates[t]]]
<1>1. templates \in [Created -> Row] /\ Created \subseteq Templates
  BY CopiesFacts DEF TypeOK, Created
<1>2. list \subseteq Created
  BY DEF InGroup
<1> HIDE DEF list
<1>3. [t \in list |-> templates[t]] \in [list -> Row] /\ list \in SUBSET Templates
  BY <1>1, <1>2
<1>4. [t \in list |-> templates[t]] \in Copies
  BY <1>3, CopiesFacts
<1>5. q \in Request /\ q.pc = "counting" /\ DOMAIN q.todo \subseteq Created
  BY <1>2, <1>4 DEF Request
<1>6. req' = [req EXCEPT ![p] = q] /\ UNCHANGED <<templates, bindings, stale, raced, faults>>
  BY DEF CountRead, list
<1> HIDE DEF q
<1> QED BY <1>5, <1>6, RequestsOnly DEF TypeOK, Created

\* The copies left of a recount
LEMMA RestFacts ==
  ASSUME TypeOK, NEW p \in Requests, req[p].pc = "counting", NEW t
  PROVE  /\ req[p].todo \in [DOMAIN req[p].todo -> Row]
         /\ DOMAIN req[p].todo \subseteq Created
         /\ [req[p] EXCEPT !.todo = Rest(p, t)] \in Request
         /\ [req[p] EXCEPT !.todo = Rest(p, t)].pc = "counting"
         /\ [req[p] EXCEPT !.todo = Rest(p, t)].todo = Rest(p, t)
         /\ DOMAIN Rest(p, t) \subseteq DOMAIN req[p].todo
<1>1. req[p] \in [pc : {"counting"}, todo : Copies] /\ DOMAIN req[p].todo \subseteq Created
  BY RequestFacts DEF TypeOK
<1>2. req[p].todo \in [DOMAIN req[p].todo -> Row] /\ DOMAIN req[p].todo \subseteq Templates
  BY <1>1, CopiesFacts
<1> DEFINE S == DOMAIN req[p].todo \ {t}
<1>3. Rest(p, t) \in [S -> Row] /\ S \in SUBSET Templates /\ DOMAIN Rest(p, t) = S
  BY <1>2 DEF Rest
<1>4. Rest(p, t) \in Copies
  <2> HIDE DEF S
  <2> QED BY <1>3, CopiesFacts
<1>5. [req[p] EXCEPT !.todo = Rest(p, t)] \in [pc : {"counting"}, todo : Copies]
  BY <1>1, <1>4
<1>6. /\ [req[p] EXCEPT !.todo = Rest(p, t)].pc = "counting"
      /\ [req[p] EXCEPT !.todo = Rest(p, t)].todo = Rest(p, t)
  BY <1>1
<1> QED BY <1>1, <1>2, <1>3, <1>5, <1>6 DEF Request

LEMMA CountSaveTypes ==
  ASSUME TypeOK, NEW p \in Requests, CountSave(p)
  PROVE  TypeOK'
<1>1. req[p].pc = "counting"
  BY DEF CountSave
<1>2. PICK t \in DOMAIN req[p].todo :
        /\ templates' = [templates EXCEPT ![t] = req[p].todo[t]]
        /\ stale' = stale + Staleness(t, req[p].todo[t])
        /\ req' = [req EXCEPT ![p].todo = Rest(p, t)]
  BY DEF CountSave
<1> DEFINE q == [req[p] EXCEPT !.todo = Rest(p, t)]
<1>3. t \in Created /\ req[p].todo[t] \in Row
  BY <1>1, RestFacts
<1>4. templates' \in Copies /\ Created' = Created
  BY <1>2, <1>3, RowSaved
<1>5. q \in Request /\ q.pc = "counting" /\ DOMAIN q.todo \subseteq Created
  BY <1>1, RestFacts
<1>6. req' = [req EXCEPT ![p] = q] /\ UNCHANGED <<bindings, raced, faults>>
  BY <1>2 DEF CountSave
<1>7. stale' \in Nat
  BY <1>2 DEF TypeOK, Staleness
<1> HIDE DEF q
<1> QED BY <1>4, <1>5, <1>6, <1>7, RequestsOnly DEF TypeOK

LEMMA CountFailsTypes ==
  ASSUME TypeOK, NEW p \in Requests, CountFails(p)
  PROVE  TypeOK'
<1>1. req[p].pc = "counting"
  BY DEF CountFails
<1>2. PICK t \in DOMAIN req[p].todo : req' = [req EXCEPT ![p].todo = Rest(p, t)]
  BY DEF CountFails
<1> DEFINE q == [req[p] EXCEPT !.todo = Rest(p, t)]
<1>3. q \in Request /\ q.pc = "counting" /\ DOMAIN q.todo \subseteq Created
  BY <1>1, RestFacts
<1>4. req' = [req EXCEPT ![p] = q] /\ UNCHANGED <<templates, bindings, stale, raced>>
  BY <1>2 DEF CountFails
<1>5. faults' \in Nat
  BY DEF CountFails, TypeOK
<1> HIDE DEF q
<1> QED BY <1>3, <1>4, <1>5, RequestsOnly DEF TypeOK, Created

LEMMA EndTypes ==
  ASSUME TypeOK, NEW p \in Requests, CountEnds(p) \/ Fails(p)
  PROVE  TypeOK'
<1>1. Done \in Request /\ Done.pc = "done"
  BY DEF Done, Request
<1>2. /\ req' = [req EXCEPT ![p] = Done]
      /\ UNCHANGED <<templates, bindings, stale, raced>>
      /\ faults' \in {faults, faults + 1}
  BY DEF CountEnds, Fails
<1>3. faults' \in Nat
  BY <1>2 DEF TypeOK
<1> QED BY <1>1, <1>2, <1>3, RequestsOnly DEF TypeOK, Created

LEMMA CrashTypes ==
  ASSUME TypeOK, Crash
  PROVE  TypeOK'
<1>1. \A p \in Requests : req'[p] = Idle \/ req'[p] = Done
  BY DEF Crash
<1>2. req' \in [Requests -> Request]
  BY DEF Crash, Request
<1>3. \A p \in Requests : req'[p].pc \in {"idle", "done"}
  BY <1>1 DEF Idle, Done
<1>4. UNCHANGED <<templates, bindings, stale, raced>> /\ faults' \in Nat
  BY DEF Crash, TypeOK
<1> QED BY <1>2, <1>3, <1>4 DEF TypeOK, Created

LEMMA InitTypes == WorkTemplateAssumption /\ Init => TypeOK
<1> SUFFICES ASSUME Init PROVE TypeOK
  OBVIOUS
<1>1. templates \in [{} -> Row]
  BY DEF Init
<1>2. templates \in Copies
  BY <1>1, CopiesFacts
<1>3. \A p \in Requests : req[p] = Idle
  BY DEF Init
<1>4. \A p \in Requests : req[p].pc = "idle"
  BY <1>3 DEF Idle
<1>5. req \in [Requests -> Request]
  BY DEF Init, Request
<1> QED BY <1>2, <1>4, <1>5 DEF Init, TypeOK

LEMMA NextTypes ==
  ASSUME TypeOK, WorkTemplateAssumption, [Next]_vars
  PROVE  TypeOK'
<1>1. CASE \E t \in Templates : Create(t)
  BY <1>1, CreateTypes
<1>2. ASSUME NEW p \in Requests, Begin(p)
      PROVE  TypeOK'
  BY <1>2, UpdateReadTypes, DefaultReadTypes, ApplyReadTypes DEF Begin
<1>3. ASSUME NEW p \in Requests, Continue(p)
      PROVE  TypeOK'
  BY <1>3, UpdateSaveTypes, DefaultCommitTypes, BindTypes, DeleteTypes, InsertTypes,
     CountReadTypes, CountSaveTypes, CountFailsTypes, EndTypes DEF Continue
<1>4. CASE Crash
  BY <1>4, CrashTypes
<1>5. CASE UNCHANGED vars
  BY <1>5 DEF TypeOK, vars, Created
<1> QED BY <1>1, <1>2, <1>3, <1>4, <1>5 DEF Next

-----------------------------------------------------------------------------
(* Rows: defaults and deletions.                                           *)

\* A step of one request that leaves the table alone
LEMMA ReadOnly ==
  ASSUME TypeOK, RowInv, NEW p \in Requests, NEW q \in Request,
         req' = [req EXCEPT ![p] = q], Clean(q), templates' = templates
  PROVE  RowInv'
<1>1. req'[p] = q /\ \A o \in Requests \ {p} : req'[o] = req[o]
  BY OneRequest
<1>2. ASSUME NEW o \in Requests
      PROVE  Clean(req'[o])
  <2>1. CASE o = p
    BY <1>1, <2>1
  <2>2. CASE o # p
    BY <1>1, <2>2 DEF RowInv, RequestsClean
  <2> QED BY <2>1, <2>2
<1>3. RequestsClean'
  BY <1>2 DEF RequestsClean, Clean
<1>4. DeletedNotDefault'
  BY DEF RowInv, DeletedNotDefault, Created
<1> QED BY <1>3, <1>4 DEF RowInv

\* A step of one request that writes the table
LEMMA Writing ==
  ASSUME TypeOK, RowInv, NEW p \in Requests, NEW q \in Request,
         req' = [req EXCEPT ![p] = q], Clean(q), DeletedNotDefault'
  PROVE  RowInv'
<1>1. req'[p] = q /\ \A o \in Requests \ {p} : req'[o] = req[o]
  BY OneRequest
<1>2. ASSUME NEW o \in Requests
      PROVE  Clean(req'[o])
  <2>1. CASE o = p
    BY <1>1, <2>1
  <2>2. CASE o # p
    BY <1>1, <2>2 DEF RowInv, RequestsClean
  <2> QED BY <2>1, <2>2
<1>3. RequestsClean'
  BY <1>2 DEF RequestsClean, Clean
<1> QED BY <1>3 DEF RowInv

LEMMA DoneClean == Done \in Request /\ Clean(Done) /\ Done.pc = "done"
BY DEF Done, Request, Clean

LEMMA CreateRows ==
  ASSUME RowInv, NEW t \in Templates, Create(t)
  PROVE  RowInv'
<1>1. RequestsClean'
  BY DEF Create, RowInv, RequestsClean, Clean
<1>2. PICK s \in NewStatus :
        templates' = [u \in Created \cup {t} |->
                        IF u = t THEN [status |-> s, default |-> FALSE] ELSE templates[u]]
  BY DEF Create
<1>3. ASSUME NEW u \in Created'
      PROVE  ~(templates'[u].default /\ templates'[u].status = Deleted)
  <2>1. u \in Created \cup {t}
    BY <1>2 DEF Created
  <2>2. CASE u = t
    <3>1. templates'[u] = [status |-> s, default |-> FALSE]
      BY <1>2, <2>1, <2>2
    <3>2. ~templates'[u].default
      BY <3>1
    <3> QED BY <3>2
  <2>3. CASE u # t
    BY <1>2, <2>1, <2>3 DEF RowInv, DeletedNotDefault
  <2> QED BY <2>2, <2>3
<1> QED BY <1>1, <1>3 DEF RowInv, DeletedNotDefault

LEMMA UpdateReadRows ==
  ASSUME TypeOK, RowInv, NEW p \in Requests, NEW t \in Templates, UpdateRead(p, t)
  PROVE  RowInv'
<1>1. templates \in [Created -> Row] /\ t \in Created
  BY CopiesFacts DEF TypeOK, Created, UpdateRead
<1>2. PICK status \in {-1, Enabled, Stopped, Deleted} :
        req' = [req EXCEPT ![p] =
          IF Refused(templates[t], status) THEN Done
          ELSE Saving(t, templates[t],
                      IF status = -1 THEN templates[t] ELSE [templates[t] EXCEPT !.status = status])]
  BY DEF UpdateRead
<1> DEFINE w == IF status = -1 THEN templates[t] ELSE [templates[t] EXCEPT !.status = status]
           q == IF Refused(templates[t], status) THEN Done ELSE Saving(t, templates[t], w)
<1>3. templates[t] \in Row /\ w \in Row
  BY <1>1 DEF Row, Enabled, Stopped, Deleted
<1>4. q \in Request
  BY <1>3 DEF Saving, Done, Request
<1>5. ASSUME ~Refused(templates[t], status)
      PROVE  ~(w.default /\ w.status = Deleted)
  <2>1. w.default = templates[t].default
    BY <1>3 DEF Row
  <2>2. CASE status = -1
    BY <1>1, <2>2 DEF RowInv, DeletedNotDefault
  <2>3. CASE status # -1
    <3>1. w.status = status
      BY <1>3, <2>3 DEF Row
    <3>2. ~(templates[t].default /\ status = Deleted)
      BY <1>5 DEF Refused
    <3> QED BY <2>1, <3>1, <3>2
  <2> QED BY <2>2, <2>3
<1>6. Clean(q)
  <2>1. CASE Refused(templates[t], status)
    BY <2>1, DoneClean
  <2>2. CASE ~Refused(templates[t], status)
    <3>1. q = [pc |-> "save", tpl |-> t, read |-> templates[t], write |-> w]
      BY <2>2 DEF Saving
    <3>2. q.pc = "save" /\ q.write = w
      BY <3>1
    <3> HIDE DEF q, w
    <3> QED BY <1>5, <2>2, <3>2 DEF Clean
  <2> QED BY <2>1, <2>2
<1>7. req' = [req EXCEPT ![p] = q] /\ templates' = templates
  BY <1>2 DEF UpdateRead
<1> HIDE DEF q
<1> QED BY <1>4, <1>6, <1>7, ReadOnly

LEMMA UpdateSaveRows ==
  ASSUME TypeOK, RowInv, NEW p \in Requests, UpdateSave(p)
  PROVE  RowInv'
<1>1. req[p] \in [pc : {"save"}, tpl : Templates, read : Row, write : Row] /\ req[p].tpl \in Created
  BY RequestFacts DEF TypeOK, UpdateSave
<1>2. templates' = [templates EXCEPT ![req[p].tpl] = req[p].write] /\ req[p].write \in Row
  BY <1>1 DEF UpdateSave
<1>3. /\ Created' = Created
      /\ \A u \in Created : templates'[u] = IF u = req[p].tpl THEN req[p].write ELSE templates[u]
  BY <1>1, <1>2, RowSaved
<1>4. ~(req[p].write.default /\ req[p].write.status = Deleted)
  BY <1>1 DEF RowInv, RequestsClean, Clean
<1>5. DeletedNotDefault'
  BY <1>3, <1>4 DEF RowInv, DeletedNotDefault
<1>6. req' = [req EXCEPT ![p] = Done]
  BY DEF UpdateSave
<1> QED BY <1>5, <1>6, DoneClean, Writing

LEMMA DefaultReadRows ==
  ASSUME TypeOK, RowInv, NEW p \in Requests, NEW t \in Templates, DefaultRead(p, t)
  PROVE  RowInv'
<1> DEFINE q == [pc |-> "default", tpl |-> t, read |-> templates[t]]
<1>1. templates \in [Created -> Row] /\ t \in Created /\ templates[t].status = Enabled
  BY CopiesFacts DEF TypeOK, Created, DefaultRead, Usable
<1>2. q \in Request /\ q.pc = "default" /\ q.read.status = Enabled
  BY <1>1 DEF Request
<1>3. req' = [req EXCEPT ![p] = q] /\ templates' = templates
  BY DEF DefaultRead
<1> HIDE DEF q
<1>4. Clean(q)
  BY <1>2 DEF Clean
<1> QED BY <1>2, <1>3, <1>4, ReadOnly

LEMMA DefaultCommitRows ==
  ASSUME TypeOK, RowInv, NEW p \in Requests, DefaultCommit(p)
  PROVE  RowInv'
<1>1. /\ req[p] \in [pc : {"default"}, tpl : Templates, read : Row]
      /\ req[p].tpl \in Created /\ req[p].read.status = Enabled
  BY RequestFacts DEF TypeOK, DefaultCommit, RowInv, RequestsClean, Clean
<1>2. templates' = WithDefault(req[p].tpl, req[p].read) /\ req[p].read \in Row
  BY <1>1 DEF DefaultCommit
<1>3. /\ Created' = Created
      /\ \A u \in Created :
           IF u = req[p].tpl THEN templates'[u] = [req[p].read EXCEPT !.default = TRUE]
           ELSE \/ templates'[u] = templates[u]
                \/ templates'[u] = [templates[u] EXCEPT !.default = FALSE]
  BY <1>1, <1>2, WithDefaultFacts
<1>4. \A u \in Created : templates[u] \in Row
  BY CopiesFacts DEF TypeOK, Created
<1>5. ASSUME NEW u \in Created
      PROVE  ~(templates'[u].default /\ templates'[u].status = Deleted)
  <2>1. CASE u = req[p].tpl
    <3>1. templates'[u].status = Enabled
      BY <1>1, <1>2, <1>3, <2>1 DEF Row
    <3> QED BY <3>1 DEF Enabled, Deleted
  <2>2. CASE u # req[p].tpl /\ templates'[u] = templates[u]
    BY <2>2 DEF RowInv, DeletedNotDefault
  <2>3. CASE u # req[p].tpl /\ templates'[u] = [templates[u] EXCEPT !.default = FALSE]
    <3>1. ~templates'[u].default
      BY <1>4, <2>3 DEF Row
    <3> QED BY <3>1
  <2> QED BY <1>3, <2>1, <2>2, <2>3
<1>6. DeletedNotDefault'
  BY <1>3, <1>5 DEF DeletedNotDefault
<1>7. req' = [req EXCEPT ![p] = Done]
  BY DEF DefaultCommit
<1> QED BY <1>6, <1>7, DoneClean, Writing

LEMMA ApplyReadRows ==
  ASSUME TypeOK, WorkTemplateAssumption, RowInv, NEW p \in Requests, NEW t \in Templates, ApplyRead(p, t)
  PROVE  RowInv'
<1>2. PICK list \in Lists, sub \in {Sub[t], NoShop} :
        req' = [req EXCEPT ![p] =
          IF Type[t] \in Multi
          THEN [pc |-> "delete", tpl |-> t, rooms |-> list, sub |-> sub]
          ELSE [pc |-> "bind", tpl |-> t, rooms |-> Real(list, sub), sub |-> sub]]
  BY DEF ApplyRead
<1> DEFINE q == IF Type[t] \in Multi
                THEN [pc |-> "delete", tpl |-> t, rooms |-> list, sub |-> sub]
                ELSE [pc |-> "bind", tpl |-> t, rooms |-> Real(list, sub), sub |-> sub]
<1>3. sub \in Shops
  BY DEF Shops
<1>4. /\ list \in RoomLists /\ Real(list, sub) \in RoomLists
      /\ \A e \in DOMAIN Real(list, sub) : e \in Links /\ Real(list, sub)[e] = Room[e]
  BY ListFacts
<1>5. /\ q \in Request /\ q.pc \in {"bind", "delete"} /\ q.tpl = t
      /\ q.pc = "delete" => Type[t] \in Multi
      /\ q.pc = "bind" => Type[t] \notin Multi /\ q.rooms = Real(list, sub)
  BY <1>3, <1>4 DEF Request
<1>6. req' = [req EXCEPT ![p] = q] /\ templates' = templates
  BY <1>2 DEF ApplyRead
<1> HIDE DEF q
<1>7. Clean(q)
  BY <1>4, <1>5 DEF Clean
<1> QED BY <1>5, <1>6, <1>7, ReadOnly

\* The steps of an apply: none writes the table of templates.
LEMMA ApplyRows ==
  ASSUME TypeOK, RowInv, NEW p \in Requests, Bind(p) \/ Delete(p) \/ Insert(p)
  PROVE  RowInv'
<1> DEFINE c == [pc |-> "count", group |-> <<req[p].sub, Type[req[p].tpl]>>]
           i == [req[p] EXCEPT !.pc = "insert"]
<1>1. req[p].pc \in {"bind", "delete", "insert"}
  BY DEF Bind, Delete, Insert
<1>2. c \in Request /\ i \in Request /\ i.pc = "insert" /\ i.tpl = req[p].tpl /\ c.pc = "count"
  BY <1>1, ApplyFacts
<1>3. templates' = templates
  BY DEF Bind, Delete, Insert
<1>4. CASE Delete(p)
  <2>1. req' = [req EXCEPT ![p] = i] /\ Type[req[p].tpl] \in Multi
    BY <1>4 DEF Delete, RowInv, RequestsClean, Clean
  <2> HIDE DEF i
  <2>2. Clean(i)
    BY <1>2, <2>1 DEF Clean
  <2> QED BY <1>2, <1>3, <2>1, <2>2, ReadOnly
<1>5. CASE Bind(p) \/ Insert(p)
  <2>1. req' = [req EXCEPT ![p] = c]
    BY <1>5 DEF Bind, Insert, Recount
  <2> HIDE DEF c
  <2>2. Clean(c)
    BY <1>2 DEF Clean
  <2> QED BY <1>2, <1>3, <2>1, <2>2, ReadOnly
<1> QED BY <1>4, <1>5

LEMMA CountReadRows ==
  ASSUME TypeOK, RowInv, NEW p \in Requests, CountRead(p)
  PROVE  RowInv'
<1> DEFINE list == {t \in InGroup(req[p].group) : templates[t].status \in {Enabled, Stopped}}
           q == [pc |-> "counting", todo |-> [t \in list |-> templates[t]]]
<1>1. templates \in [Created -> Row] /\ Created \subseteq Templates
  BY CopiesFacts DEF TypeOK, Created
<1>2. list \subseteq Created /\ \A t \in list : templates[t].status # Deleted
  BY DEF InGroup, Enabled, Stopped, Deleted
<1>3. req' = [req EXCEPT ![p] = q] /\ templates' = templates
  BY DEF CountRead
<1> HIDE DEF list
<1>4. [t \in list |-> templates[t]] \in [list -> Row] /\ list \in SUBSET Templates
  BY <1>1, <1>2
<1>5. [t \in list |-> templates[t]] \in Copies
  BY <1>4, CopiesFacts
<1>6. q \in Request /\ q.pc = "counting" /\ q.todo = [t \in list |-> templates[t]]
  BY <1>5 DEF Request
<1>7. \A t \in DOMAIN q.todo : q.todo[t].status # Deleted
  BY <1>2, <1>6
<1> HIDE DEF q
<1>8. Clean(q)
  BY <1>6, <1>7 DEF Clean
<1> QED BY <1>3, <1>6, <1>8, ReadOnly

LEMMA RestClean ==
  ASSUME TypeOK, RowInv, NEW p \in Requests, req[p].pc = "counting", NEW t
  PROVE  Clean([req[p] EXCEPT !.todo = Rest(p, t)])
<1> DEFINE q == [req[p] EXCEPT !.todo = Rest(p, t)]
<1>1. q.pc = "counting" /\ q.todo = Rest(p, t)
  BY RestFacts
<1>2. \A u \in DOMAIN Rest(p, t) : Rest(p, t)[u].status # Deleted
  BY DEF Rest, RowInv, RequestsClean, Clean
<1> HIDE DEF q
<1>3. Clean(q)
  BY <1>1, <1>2 DEF Clean
<1> QED BY <1>3 DEF q

LEMMA CountSaveRows ==
  ASSUME TypeOK, RowInv, NEW p \in Requests, CountSave(p)
  PROVE  RowInv'
<1>1. req[p].pc = "counting"
  BY DEF CountSave
<1>2. PICK t \in DOMAIN req[p].todo :
        /\ templates' = [templates EXCEPT ![t] = req[p].todo[t]]
        /\ req' = [req EXCEPT ![p].todo = Rest(p, t)]
  BY DEF CountSave
<1> DEFINE q == [req[p] EXCEPT !.todo = Rest(p, t)]
<1>3. t \in Created /\ req[p].todo[t] \in Row
  BY <1>1, RestFacts
<1>4. /\ Created' = Created
      /\ \A u \in Created : templates'[u] = IF u = t THEN req[p].todo[t] ELSE templates[u]
  BY <1>2, <1>3, RowSaved
<1>5. req[p].todo[t].status # Deleted
  BY <1>1 DEF RowInv, RequestsClean, Clean
<1>6. DeletedNotDefault'
  BY <1>4, <1>5 DEF RowInv, DeletedNotDefault
<1>7. q \in Request /\ Clean(q) /\ req' = [req EXCEPT ![p] = q]
  BY <1>1, <1>2, RestFacts, RestClean
<1> HIDE DEF q
<1> QED BY <1>6, <1>7, Writing

LEMMA CountFailsRows ==
  ASSUME TypeOK, RowInv, NEW p \in Requests, CountFails(p)
  PROVE  RowInv'
<1>1. req[p].pc = "counting"
  BY DEF CountFails
<1>2. PICK t \in DOMAIN req[p].todo : req' = [req EXCEPT ![p].todo = Rest(p, t)]
  BY DEF CountFails
<1> DEFINE q == [req[p] EXCEPT !.todo = Rest(p, t)]
<1>3. q \in Request /\ Clean(q) /\ req' = [req EXCEPT ![p] = q] /\ templates' = templates
  BY <1>1, <1>2, RestFacts, RestClean DEF CountFails
<1> HIDE DEF q
<1> QED BY <1>3, ReadOnly

LEMMA EndRows ==
  ASSUME TypeOK, RowInv, NEW p \in Requests, CountEnds(p) \/ Fails(p)
  PROVE  RowInv'
<1>1. req' = [req EXCEPT ![p] = Done] /\ templates' = templates
  BY DEF CountEnds, Fails
<1> QED BY <1>1, DoneClean, ReadOnly

LEMMA CrashRows ==
  ASSUME RowInv, Crash
  PROVE  RowInv'
<1>1. \A p \in Requests : req'[p].pc \in {"idle", "done"}
  BY DEF Crash, Idle, Done
<1>2. RequestsClean'
  BY <1>1 DEF RequestsClean, Clean
<1> QED BY <1>2 DEF RowInv, DeletedNotDefault, Crash, Created

LEMMA NextRows ==
  ASSUME TypeOK, WorkTemplateAssumption, RowInv, [Next]_vars
  PROVE  RowInv'
<1>1. CASE \E t \in Templates : Create(t)
  BY <1>1, CreateRows
<1>2. ASSUME NEW p \in Requests, Begin(p)
      PROVE  RowInv'
  BY <1>2, UpdateReadRows, DefaultReadRows, ApplyReadRows DEF Begin
<1>3. ASSUME NEW p \in Requests, Continue(p)
      PROVE  RowInv'
  BY <1>3, UpdateSaveRows, DefaultCommitRows, ApplyRows,
     CountReadRows, CountSaveRows, CountFailsRows, EndRows DEF Continue
<1>4. CASE Crash
  BY <1>4, CrashRows
<1>5. CASE UNCHANGED vars
  BY <1>5 DEF RowInv, RequestsClean, Clean, DeletedNotDefault, vars, Created
<1> QED BY <1>1, <1>2, <1>3, <1>4, <1>5 DEF Next

LEMMA InitRows == Init => RowInv
<1> SUFFICES ASSUME Init PROVE RowInv
  OBVIOUS
<1>1. \A p \in Requests : req[p].pc = "idle"
  BY DEF Init, Idle
<1>2. Created = {}
  BY DEF Init, Created
<1> QED BY <1>1, <1>2 DEF RowInv, RequestsClean, Clean, DeletedNotDefault

-----------------------------------------------------------------------------
(* Bindings.                                                               *)

\* A step that leaves the bindings alone and brings no request to its insert
LEMMA BindingsKept ==
  ASSUME BindInv, bindings' = bindings, raced' = raced,
         \A o \in Requests : req'[o].pc = "insert" => req'[o] = req[o]
  PROVE  BindInv'
<1>1. BindingsTyped' /\ LinksBound' /\ BoundAlike' /\ BoundTwiceRaced'
  BY DEF BindInv, BindingsTyped, LinksBound, BoundAlike, BoundTwiceRaced
<1>2. AloneBetween'
  BY DEF BindInv, AloneBetween, Bound, Between
<1> QED BY <1>1, <1>2 DEF BindInv

\* The other requests after a step of p that does not end at an insert
LEMMA BetweenShrinks ==
  ASSUME TypeOK, NEW p \in Requests, NEW q, q.pc # "insert", req' = [req EXCEPT ![p] = q]
  PROVE  \A o \in Requests : req'[o].pc = "insert" =>
           /\ o # p /\ req'[o] = req[o]
           /\ \A t : Between(o, t)' \subseteq Between(o, t)
<1>1. \A o \in Requests : req'[o] = IF o = p THEN q ELSE req[o]
  BY DEF TypeOK
<1> QED BY <1>1 DEF Between

\* What the rows that one request inserts have in common
LEMMA InsertedFacts ==
  ASSUME NEW p, NEW entries, NEW b \in Inserted(p, entries)
  PROVE  /\ b.by = p /\ b.type = Type[req[p].tpl] /\ b.tpl = req[p].tpl
         /\ b.entry \in entries /\ b.room = req[p].rooms[b.entry]
BY DEF Inserted

\* Rows of the table that differ in nothing but the entry
LEMMA TwoLinks ==
  ASSUME NEW a \in Binding, NEW b \in Binding,
         a.entry \in Links /\ a.room = Room[a.entry], b.entry \in Links /\ b.room = Room[b.entry],
         a.by = b.by, a.tpl = b.tpl, a.type = b.type, a.room = b.room
  PROVE  \/ a = b
         \/ /\ a.by = b.by /\ a.tpl = b.tpl
            /\ \E l, k \in Links : l # k /\ Room[l] = a.room /\ Room[k] = a.room
<1>1. CASE a.entry = b.entry
  BY <1>1 DEF Binding
<1>2. CASE a.entry # b.entry
  BY <1>2
<1> QED BY <1>1, <1>2

LEMMA BindBind ==
  ASSUME TypeOK, RowInv, BindInv, NEW p \in Requests, Bind(p)
  PROVE  BindInv'
<1> DEFINE t == req[p].tpl
           rooms == req[p].rooms
           updated == {Rebound(b, t, rooms) : b \in bindings}
           missing == Missing(updated, t, rooms)
           c == [pc |-> "count", group |-> <<req[p].sub, Type[t]>>]
<1>1. t \in Templates /\ Type[t] \notin Multi
  BY ApplyFacts DEF Bind, RowInv, RequestsClean, Clean
<1>2. bindings' = updated \cup Inserted(p, missing) /\ raced' = raced
  BY DEF Bind
<1>3. req' = [req EXCEPT ![p] = c] /\ c.pc # "insert"
  BY DEF Bind, Recount
<1>4. \A b \in bindings : b \in Binding
  BY DEF TypeOK
<1>5. ASSUME NEW b \in bindings
      PROVE  /\ Rebound(b, t, rooms).room = b.room /\ Rebound(b, t, rooms).type = b.type
             /\ Rebound(b, t, rooms).by = b.by /\ Rebound(b, t, rooms).entry = b.entry
             /\ (b.type = Type[t] /\ b.room \in Range(rooms)) => Rebound(b, t, rooms).tpl = t
             /\ Rebound(b, t, rooms).tpl = t => b.type = Type[t] /\ b.room \in Range(rooms)
             /\ Rebound(b, t, rooms).tpl \in Templates \ {t} => Rebound(b, t, rooms) = b
  <2>1. b \in Binding
    BY <1>4
  <2>2. Unbound # t \/ Unbound \in Templates
    BY <1>1
  <2> QED BY <2>1, <1>1, WorkTemplateAssumption DEF Rebound, Binding
<1>6. \A b \in updated : \E a \in bindings : b = Rebound(a, t, rooms)
  OBVIOUS
<1>7. \A b \in Inserted(p, missing) :
        /\ b.by = p /\ b.type = Type[t] /\ b.tpl = t
        /\ b.entry \in missing /\ b.room = rooms[b.entry]
  BY InsertedFacts
<1>8. \A e \in DOMAIN rooms : e \in Links /\ rooms[e] = Room[e]
  BY DEF Bind, RowInv, RequestsClean, Clean
<1>9. /\ \A e \in missing : e \in DOMAIN rooms /\ \A b \in updated : b.tpl = t => b.room # rooms[e]
      /\ \A e \in DOMAIN rooms : rooms[e] \in Range(rooms)
  BY DEF Missing, Range
<1>10. TypeOK'
  BY BindTypes
<1> HIDE DEF updated, missing, t, rooms, c
<1>11. BindingsTyped'
  <2>1. ASSUME NEW b \in updated, b.tpl \in Templates
        PROVE  b.type = Type[b.tpl]
    <3>1. PICK a \in bindings : b = Rebound(a, t, rooms)
      BY <1>6
    <3> QED BY <1>5, <2>1, <3>1 DEF BindInv, BindingsTyped
  <2> QED BY <1>2, <1>7, <2>1 DEF BindingsTyped
<1>12. LinksBound'
  <2>1. ASSUME NEW b \in updated, b.type \notin Multi
        PROVE  b.entry \in Links /\ b.room = Room[b.entry]
    <3>1. PICK a \in bindings : b = Rebound(a, t, rooms)
      BY <1>6
    <3> QED BY <1>5, <2>1, <3>1 DEF BindInv, LinksBound
  <2>2. \A b \in Inserted(p, missing) : b.entry \in Links /\ b.room = Room[b.entry]
    BY <1>7, <1>8, <1>9
  <2> QED BY <1>2, <2>1, <2>2 DEF LinksBound
<1>13. ASSUME NEW a \in updated, NEW b \in updated, a.type \notin Multi, a.type = b.type, a.room = b.room
       PROVE  a.by = b.by /\ a.tpl = b.tpl
  <2>1. PICK a0 \in bindings : a = Rebound(a0, t, rooms)
    BY <1>6
  <2>2. PICK b0 \in bindings : b = Rebound(b0, t, rooms)
    BY <1>6
  <2>3. a0.by = b0.by /\ a0.tpl = b0.tpl /\ a0.type = b0.type /\ a0.room = b0.room
    BY <1>5, <1>13, <2>1, <2>2 DEF BindInv, BoundAlike
  <2>4. a.by = b.by
    BY <1>5, <2>1, <2>2, <2>3
  <2>5. a.tpl = b.tpl
    <3>1. a0 \in Binding /\ b0 \in Binding
      BY <1>4
    <3> QED BY <2>1, <2>2, <2>3, <3>1 DEF Rebound, Binding
  <2> QED BY <2>4, <2>5
<1>14. ASSUME NEW a \in Inserted(p, missing), NEW b \in updated, a.type = b.type
       PROVE  a.room # b.room
  <2>1. PICK b0 \in bindings : b = Rebound(b0, t, rooms)
    BY <1>6
  <2>2. a.type = Type[t] /\ a.entry \in missing /\ a.room = rooms[a.entry] /\ a.room \in Range(rooms)
    BY <1>7, <1>9
  <2>3. b.room = a.room => b.tpl = t
    BY <1>5, <1>14, <2>1, <2>2
  <2> QED BY <1>9, <2>2, <2>3
<1>15. ASSUME NEW a \in bindings', NEW b \in bindings', a.type \notin Multi, a.type = b.type, a.room = b.room
       PROVE  a.by = b.by /\ a.tpl = b.tpl
  <2>1. CASE a \in updated /\ b \in updated
    BY <1>13, <1>15, <2>1
  <2>2. CASE a \in Inserted(p, missing) /\ b \in Inserted(p, missing)
    BY <1>7, <2>2
  <2>3. CASE a \in Inserted(p, missing) /\ b \in updated
    BY <1>14, <1>15, <2>3
  <2>4. CASE a \in updated /\ b \in Inserted(p, missing)
    BY <1>14, <1>15, <2>4
  <2> QED BY <1>2, <2>1, <2>2, <2>3, <2>4
<1>16. BoundAlike'
  <2> SUFFICES ASSUME NEW a \in bindings', NEW b \in bindings',
                      a.type \notin Multi, a.type = b.type, a.room = b.room
               PROVE  \/ a = b
                      \/ /\ a.by = b.by /\ a.tpl = b.tpl
                         /\ \E l, k \in Links : l # k /\ Room[l] = a.room /\ Room[k] = a.room
    BY DEF BoundAlike
  <2>1. a \in Binding /\ b \in Binding
    BY <1>10 DEF TypeOK, Binding
  <2>2. /\ a.entry \in Links /\ a.room = Room[a.entry]
        /\ b.entry \in Links /\ b.room = Room[b.entry]
    BY <1>12 DEF LinksBound
  <2>3. a.by = b.by /\ a.tpl = b.tpl
    BY <1>15
  <2> QED BY <2>1, <2>2, <2>3, TwoLinks
<1>17. BoundTwiceRaced'
  <2> SUFFICES ASSUME NEW a \in bindings', NEW b \in bindings',
                      a.tpl = b.tpl, a.tpl \in Templates, a.room = b.room
               PROVE  a.by = b.by \/ a.tpl \in raced
    BY <1>2 DEF BoundTwiceRaced
  <2>1. CASE a.tpl = t
    <3>1. a.type = Type[t] /\ b.type = Type[t]
      BY <1>1, <1>11, <2>1 DEF BindingsTyped
    <3> QED BY <1>1, <1>15, <3>1
  <2>2. CASE a.tpl # t
    <3>1. a \in updated /\ b \in updated
      BY <1>2, <1>7, <2>2
    <3>2. a \in bindings /\ b \in bindings
      BY <1>5, <1>6, <2>2, <3>1
    <3> QED BY <3>2 DEF BindInv, BoundTwiceRaced
  <2> QED BY <2>1, <2>2
<1>18. AloneBetween'
  <2> SUFFICES ASSUME NEW o \in Requests, NEW u, req'[o].pc = "insert", req'[o].tpl = u,
                      u \notin raced
               PROVE  Bound(u)' = {} /\ Between(o, u)' = {}
    BY <1>2 DEF AloneBetween, Bound, Between
  <2>1. o # p /\ req'[o] = req[o] /\ Between(o, u)' \subseteq Between(o, u)
    BY <1>3, BetweenShrinks
  <2>2. Bound(u) = {} /\ Between(o, u) = {}
    BY <2>1 DEF BindInv, AloneBetween
  <2>3. u \in Templates /\ Type[u] \in Multi
    BY <2>1, ApplyFacts DEF RowInv, RequestsClean, Clean
  <2>4. ASSUME NEW b \in bindings', b.tpl = u
        PROVE  FALSE
    <3>1. b.tpl # t
      BY <1>1, <2>3, <2>4
    <3>2. b \in updated
      BY <1>2, <1>7, <3>1
    <3>3. b \in bindings
      BY <1>5, <1>6, <2>3, <2>4, <3>1, <3>2
    <3> QED BY <2>2, <2>4, <3>3 DEF Bound
  <2> QED BY <2>1, <2>2, <2>4 DEF Bound
<1> QED BY <1>11, <1>16, <1>17, <1>18, <1>12 DEF BindInv

LEMMA DeleteBind ==
  ASSUME TypeOK, BindInv, NEW p \in Requests, Delete(p)
  PROVE  BindInv'
<1> DEFINE t == req[p].tpl
           q == [req[p] EXCEPT !.pc = "insert"]
<1>1. bindings' = bindings \ {b \in Bound(t) : b.type = Type[t]}
  BY DEF Delete, DeleteAll
<1>2. /\ raced \subseteq raced'
      /\ t \notin raced' => Between(p, t) = {}
  BY DEF Delete
<1>3. t \in Templates /\ q.pc = "insert" /\ q.tpl = t
  BY ApplyFacts DEF Delete
<1>4. \A o \in Requests : req'[o] = IF o = p THEN q ELSE req[o]
  BY DEF Delete, TypeOK
<1> HIDE DEF t, q
<1>5. BindingsTyped' /\ LinksBound' /\ BoundAlike' /\ BoundTwiceRaced'
  BY <1>1, <1>2 DEF BindInv, BindingsTyped, LinksBound, BoundAlike, BoundTwiceRaced
<1>6. AloneBetween'
  <2> SUFFICES ASSUME NEW o \in Requests, NEW u, req'[o].pc = "insert", req'[o].tpl = u,
                      u \notin raced'
               PROVE  Bound(u)' = {} /\ Between(o, u)' = {}
    BY DEF AloneBetween, Bound, Between
  <2>1. CASE o = p
    <3>1. u = t
      BY <1>3, <1>4, <2>1
    <3>2. Bound(u)' = {}
      BY <1>1, <1>3, <3>1 DEF BindInv, BindingsTyped, Bound
    <3>3. Between(o, u)' = {}
      BY <1>2, <1>4, <2>1, <3>1 DEF Between
    <3> QED BY <3>1, <3>2, <3>3
  <2>2. CASE o # p
    <3>1. req'[o] = req[o] /\ req[o].tpl = u /\ u \notin raced
      BY <1>2, <1>4, <2>2
    <3>2. Bound(u) = {} /\ Between(o, u) = {}
      BY <3>1 DEF BindInv, AloneBetween
    <3>3. u # t
      <4>1. u = t => o \in Between(p, t)
        BY <2>2, <3>1 DEF Between
      <4> QED BY <1>2, <3>1, <4>1
    <3>4. Bound(u)' = {}
      BY <1>1, <3>2 DEF Bound
    <3>5. Between(o, u)' = {}
      BY <1>3, <1>4, <3>2, <3>3 DEF Between
    <3> QED BY <3>1, <3>4, <3>5
  <2> QED BY <2>1, <2>2
<1> QED BY <1>5, <1>6 DEF BindInv

LEMMA InsertBind ==
  ASSUME TypeOK, RowInv, BindInv, NEW p \in Requests, Insert(p)
  PROVE  BindInv'
<1> DEFINE t == req[p].tpl
           new == Inserted(p, DOMAIN req[p].rooms)
           c == [pc |-> "count", group |-> <<req[p].sub, Type[t]>>]
<1>1. t \in Templates /\ Type[t] \in Multi
  BY ApplyFacts DEF Insert, RowInv, RequestsClean, Clean
<1>2. bindings' = bindings \cup new /\ raced' = raced
  BY DEF Insert
<1>3. req' = [req EXCEPT ![p] = c] /\ c.pc # "insert"
  BY DEF Insert, Recount
<1>4. \A b \in new : b.type = Type[t] /\ b.tpl = t
  BY InsertedFacts
<1>5. \A b \in new : b.by = p
  BY InsertedFacts
<1>6. t \notin raced => Bound(t) = {}
  BY DEF Insert, BindInv, AloneBetween
<1>7. req[p].pc = "insert"
  BY DEF Insert
<1> HIDE DEF new, c
<1>8. BindingsTyped' /\ LinksBound' /\ BoundAlike'
  BY <1>1, <1>2, <1>4 DEF BindInv, BindingsTyped, LinksBound, BoundAlike
<1>9. BoundTwiceRaced'
  <2> SUFFICES ASSUME NEW a \in bindings', NEW b \in bindings',
                      a.tpl = b.tpl, a.tpl \in Templates, a.room = b.room
               PROVE  a.by = b.by \/ a.tpl \in raced
    BY <1>2 DEF BoundTwiceRaced
  <2>1. CASE a \in bindings /\ b \in bindings
    BY <2>1 DEF BindInv, BoundTwiceRaced
  <2>2. CASE a \in new /\ b \in new
    BY <1>5, <2>2
  <2>3. CASE (a \in new /\ b \in bindings) \/ (a \in bindings /\ b \in new)
    BY <1>4, <1>6, <2>3 DEF Bound
  <2> QED BY <1>2, <2>1, <2>2, <2>3
<1>10. AloneBetween'
  <2> SUFFICES ASSUME NEW o \in Requests, NEW u, req'[o].pc = "insert", req'[o].tpl = u,
                      u \notin raced
               PROVE  Bound(u)' = {} /\ Between(o, u)' = {}
    BY <1>2 DEF AloneBetween, Bound, Between
  <2>1. o # p /\ req'[o] = req[o] /\ Between(o, u)' \subseteq Between(o, u)
    BY <1>3, BetweenShrinks
  <2>2. Bound(u) = {} /\ Between(o, u) = {}
    BY <2>1 DEF BindInv, AloneBetween
  <2>3. u # t
    BY <1>7, <2>1, <2>2 DEF Between
  <2>4. Bound(u)' = {}
    BY <1>2, <1>4, <2>2, <2>3 DEF Bound
  <2> QED BY <2>1, <2>2, <2>4
<1> QED BY <1>8, <1>9, <1>10 DEF BindInv

LEMMA CrashBind ==
  ASSUME BindInv, Crash
  PROVE  BindInv'
<1>1. \A p \in Requests : req'[p].pc # "insert"
  BY DEF Crash, Idle, Done
<1>2. bindings' = bindings /\ raced' = raced
  BY DEF Crash
<1> QED BY <1>1, <1>2, BindingsKept

LEMMA BeginBind ==
  ASSUME TypeOK, BindInv, NEW p \in Requests, Begin(p)
  PROVE  BindInv'
<1>1. PICK t \in Templates : UpdateRead(p, t) \/ DefaultRead(p, t) \/ ApplyRead(p, t)
  BY DEF Begin
<1>2. bindings' = bindings /\ raced' = raced
  BY <1>1 DEF UpdateRead, DefaultRead, ApplyRead
<1>3. req'[p].pc # "insert"
  BY <1>1 DEF UpdateRead, DefaultRead, ApplyRead, Saving, Done, TypeOK
<1>4. \A o \in Requests \ {p} : req'[o] = req[o]
  BY <1>1 DEF UpdateRead, DefaultRead, ApplyRead, TypeOK
<1> QED BY <1>2, <1>3, <1>4, BindingsKept

\* Saves, counts, errors and ends
LEMMA RestBind ==
  ASSUME TypeOK, BindInv, NEW p \in Requests,
         \/ UpdateSave(p) \/ DefaultCommit(p)
         \/ CountRead(p) \/ CountSave(p) \/ CountEnds(p)
         \/ Fails(p) \/ CountFails(p)
  PROVE  BindInv'
<1>1. bindings' = bindings /\ raced' = raced
  BY DEF UpdateSave, DefaultCommit, CountRead, CountSave, CountEnds, Fails, CountFails
<1>2. \A o \in Requests \ {p} : req'[o] = req[o]
  BY DEF UpdateSave, DefaultCommit, CountRead, CountSave, CountEnds, Fails, CountFails, TypeOK
<1>3. CASE UpdateSave(p) \/ DefaultCommit(p) \/ CountEnds(p) \/ Fails(p) \/ CountRead(p)
  <2>1. req'[p].pc \in {"done", "counting"}
    BY <1>3 DEF UpdateSave, DefaultCommit, CountRead, CountEnds, Fails, Done, TypeOK
  <2> QED BY <1>1, <1>2, <2>1, BindingsKept
<1>4. CASE CountSave(p) \/ CountFails(p)
  <2>1. PICK t : req' = [req EXCEPT ![p].todo = Rest(p, t)]
    BY <1>4 DEF CountSave, CountFails
  <2>2. req[p].pc = "counting"
    BY <1>4 DEF CountSave, CountFails
  <2>3. [req[p] EXCEPT !.todo = Rest(p, t)].pc = "counting"
    BY <2>2, RestFacts
  <2>4. req'[p].pc = "counting"
    BY <2>1, <2>3 DEF TypeOK
  <2> QED BY <1>1, <1>2, <2>4, BindingsKept
<1> QED BY <1>3, <1>4

LEMMA NextBind ==
  ASSUME TypeOK, RowInv, BindInv, [Next]_vars
  PROVE  BindInv'
<1>1. CASE \E t \in Templates : Create(t)
  <2>1. UNCHANGED <<bindings, req, raced>>
    BY <1>1 DEF Create
  <2> QED BY <2>1, BindingsKept
<1>2. ASSUME NEW p \in Requests, Begin(p)
      PROVE  BindInv'
  BY <1>2, BeginBind
<1>3. ASSUME NEW p \in Requests, Continue(p)
      PROVE  BindInv'
  BY <1>3, BindBind, DeleteBind, InsertBind, RestBind DEF Continue
<1>4. CASE Crash
  BY <1>4, CrashBind
<1>5. CASE UNCHANGED vars
  BY <1>5, BindingsKept DEF vars
<1> QED BY <1>1, <1>2, <1>3, <1>4, <1>5 DEF Next

LEMMA InitBind == Init => BindInv
<1> SUFFICES ASSUME Init PROVE BindInv
  OBVIOUS
<1>1. \A p \in Requests : req[p].pc = "idle"
  BY DEF Init, Idle
<1>2. bindings = {}
  BY DEF Init
<1> QED BY <1>1, <1>2 DEF BindInv, BindingsTyped, LinksBound, BoundAlike, AloneBetween, BoundTwiceRaced

-----------------------------------------------------------------------------
(* The invariant, and the theorems.                                        *)

LEMMA InvInductive ==
  ASSUME WorkTemplateAssumption
  PROVE  Spec => []IndInv
<1>1. Init => IndInv
  BY InitTypes, InitRows, InitBind DEF IndInv
<1>2. IndInv /\ [Next]_vars => IndInv'
  BY NextTypes, NextRows, NextBind DEF IndInv
<1> QED BY <1>1, <1>2, PTL DEF Spec

\* TypeOK holds in every state: rows, bindings and the copies of the requests
\* have their types, and requests only work on rows that exist.
THEOREM TypeCorrect == Spec => []TypeOK
<1>1. IndInv => TypeOK
  BY DEF IndInv
<1> QED BY <1>1, InvInductive, WorkTemplateAssumption, PTL

\* However many requests overlap and whatever fails, a template that is deleted
\* is never the default of its group.
THEOREM DeletedNeverDefault == Spec => []DeletedNotDefault
<1>1. IndInv => DeletedNotDefault
  BY DEF IndInv, RowInv
<1> QED BY <1>1, InvInductive, WorkTemplateAssumption, PTL

\* Two applies never bind a room for a type with one template per room: its
\* bindings come from one of them, one for each link it found, and are rebound
\* together ever after, so that the first one a lookup takes stands for all
\* (template.go 240-289).
THEOREM RoomAlike == Spec => []BoundAlike
<1>1. IndInv => BoundAlike
  BY DEF IndInv, BindInv
<1> QED BY <1>1, InvInductive, WorkTemplateAssumption, PTL

\* A template is bound to a room by two applies only when two of them were
\* between their deletes and inserts at one time (template.go 195-221).
THEOREM TwiceIsRaced == Spec => []BoundTwiceRaced
<1>1. IndInv => BoundTwiceRaced
  BY DEF IndInv, BindInv
<1> QED BY <1>1, InvInductive, WorkTemplateAssumption, PTL

LEMMA UndeleteStep ==
  ASSUME TypeOK, RowInv, [Next]_vars, NEW t \in Created,
         templates[t].status = Deleted, templates'[t].status # Deleted
  PROVE  \/ stale' > stale
         \/ \E p \in Requests : /\ req[p].pc = "save" /\ req'[p] = Done
                                /\ req[p].tpl = t
                                /\ req[p].read.status = Deleted
<1>1. \A u, row : Staleness(u, row) \in Nat /\ (templates[u] # row => Staleness(u, row) = 1)
  BY DEF Staleness
<1>2. stale \in Nat /\ \A u \in Created : templates[u] \in Row
  BY CopiesFacts DEF TypeOK, Created
<1>3. ASSUME NEW u \in Templates, Create(u)
      PROVE  FALSE
  BY <1>3 DEF Create
<1>4. ASSUME NEW p \in Requests, UpdateSave(p)
      PROVE  \/ stale' > stale
             \/ /\ req[p].pc = "save" /\ req'[p] = Done
                /\ req[p].tpl = t
                /\ req[p].read.status = Deleted
  <2>1. req[p] \in [pc : {"save"}, tpl : Templates, read : Row, write : Row] /\ req[p].tpl \in Created
    BY <1>4, RequestFacts DEF TypeOK, UpdateSave
  <2>2. templates' = [templates EXCEPT ![req[p].tpl] = req[p].write]
    BY <1>4 DEF UpdateSave
  <2>3. \A u \in Created : templates'[u] = IF u = req[p].tpl THEN req[p].write ELSE templates[u]
    BY <2>1, <2>2, RowSaved
  <2>4. req[p].tpl = t
    BY <2>3
  <2>5. stale' = stale + Staleness(t, req[p].read) /\ req[p].pc = "save"
    BY <1>4, <2>4 DEF UpdateSave
  <2>6. req'[p] = Done
    BY <1>4 DEF UpdateSave, TypeOK
  <2>7. CASE templates[t] = req[p].read
    BY <2>4, <2>5, <2>6, <2>7
  <2>8. CASE templates[t] # req[p].read
    BY <1>1, <1>2, <2>5, <2>8
  <2> QED BY <2>7, <2>8
<1>5. ASSUME NEW p \in Requests, DefaultCommit(p)
      PROVE  stale' > stale
  <2>1. /\ req[p] \in [pc : {"default"}, tpl : Templates, read : Row]
        /\ req[p].tpl \in Created /\ req[p].read.status = Enabled
    BY <1>5, RequestFacts DEF TypeOK, DefaultCommit, RowInv, RequestsClean, Clean
  <2>2. templates' = WithDefault(req[p].tpl, req[p].read) /\ req[p].read \in Row
    BY <1>5, <2>1 DEF DefaultCommit
  <2>3. IF t = req[p].tpl THEN templates'[t] = [req[p].read EXCEPT !.default = TRUE]
        ELSE \/ templates'[t] = templates[t]
             \/ templates'[t] = [templates[t] EXCEPT !.default = FALSE]
    BY <2>1, <2>2, WithDefaultFacts
  <2>4. [templates[t] EXCEPT !.default = FALSE].status = Deleted
    BY <1>2 DEF Row
  <2>5. t = req[p].tpl
    BY <2>3, <2>4
  <2>6. templates[t] # req[p].read
    BY <2>1 DEF Enabled, Deleted
  <2>7. stale' = stale + Staleness(t, req[p].read)
    BY <1>5, <2>5 DEF DefaultCommit
  <2> QED BY <1>1, <1>2, <2>6, <2>7
<1>6. ASSUME NEW p \in Requests, CountSave(p)
      PROVE  stale' > stale
  <2>1. req[p].pc = "counting"
    BY <1>6 DEF CountSave
  <2>2. PICK u \in DOMAIN req[p].todo :
          /\ templates' = [templates EXCEPT ![u] = req[p].todo[u]]
          /\ stale' = stale + Staleness(u, req[p].todo[u])
    BY <1>6 DEF CountSave
  <2>3. u \in Created /\ req[p].todo[u] \in Row
    BY <2>1, RestFacts
  <2>4. \A v \in Created : templates'[v] = IF v = u THEN req[p].todo[u] ELSE templates[v]
    BY <2>2, <2>3, RowSaved
  <2>5. u = t
    BY <2>4
  <2>6. templates[t] # req[p].todo[u]
    BY <2>1, <2>5 DEF RowInv, RequestsClean, Clean
  <2> QED BY <1>1, <1>2, <2>2, <2>5, <2>6
<1>7. CASE templates' = templates
  BY <1>7
<1>8. ASSUME NEW p \in Requests, Begin(p)
      PROVE  templates' = templates
  BY <1>8 DEF Begin, UpdateRead, DefaultRead, ApplyRead
<1>9. ASSUME NEW p \in Requests,
             \/ Bind(p) \/ Delete(p) \/ Insert(p)
             \/ CountRead(p) \/ CountEnds(p) \/ Fails(p) \/ CountFails(p)
      PROVE  templates' = templates
  BY <1>9 DEF Bind, Delete, Insert, CountRead, CountEnds, Fails, CountFails
<1>10. (Crash \/ UNCHANGED vars) => templates' = templates
  BY DEF Crash, vars
<1>11. CASE \E p \in Requests : Begin(p) \/ Continue(p)
  BY <1>4, <1>5, <1>6, <1>7, <1>8, <1>9, <1>11 DEF Continue
<1> QED BY <1>3, <1>7, <1>10, <1>11 DEF Next

\* A deleted template comes back only at the hands of an update that read it
\* deleted, or of a save of a copy that was out of date.
THEOREM UndeletedStale == Spec => OnlyStaleUndeletes
<1>1. IndInv /\ [Next]_vars =>
        [\A t \in Created :
           (templates[t].status = Deleted /\ templates'[t].status # Deleted)
             => \/ stale' > stale
                \/ \E p \in Requests : /\ req[p].pc = "save" /\ req'[p] = Done
                                       /\ req[p].tpl = t
                                       /\ req[p].read.status = Deleted]_vars
  BY UndeleteStep DEF IndInv
<1>2. WorkTemplateAssumption
  BY WorkTemplateAssumption
<1> QED BY <1>1, <1>2, InvInductive, PTL DEF Spec, OnlyStaleUndeletes

-----------------------------------------------------------------------------
(* The defaults of a group.                                                *)

Groups == {Group(t) : t \in Templates}

\* An update takes the default from the row it read.
UpdatesKeepDefault ==
  \A p \in Requests : req[p].pc = "save" => req[p].write.default = req[p].read.default

DefaultInv ==
  /\ chosen \subseteq Groups
  /\ \A g \in Groups : IsFiniteSet(Defaults(g))
  /\ OneDefault
  /\ UpdatesKeepDefault

LEMMA OneMore ==
  ASSUME NEW S, IsFiniteSet(S), NEW t, NEW T \in SUBSET (S \cup {t})
  PROVE  IsFiniteSet(T) /\ Cardinality(T) <= Cardinality(S) + 1
<1>1. Cardinality(S) \in Nat
  BY FS_CardinalityType
<1>2. /\ IsFiniteSet(S \cup {t})
      /\ \/ Cardinality(S \cup {t}) = Cardinality(S)
         \/ Cardinality(S \cup {t}) = Cardinality(S) + 1
  BY FS_AddElement, Zenon
<1>3. IsFiniteSet(T) /\ Cardinality(T) <= Cardinality(S \cup {t})
  BY <1>2, FS_Subset
<1>4. Cardinality(T) \in Nat
  BY <1>3, FS_CardinalityType
<1> QED BY <1>1, <1>2, <1>3, <1>4

\* What the tables say of defaults does not change
LEMMA DefaultsSame ==
  ASSUME TypeOK, DefaultInv, UpdatesKeepDefault',
         Created \subseteq Created', chosen' = chosen, stale' = stale,
         \A u \in Created : templates'[u] = templates[u],
         \A u \in Created' \ Created : ~templates'[u].default
  PROVE  DefaultInv'
<1>1. \A g \in Groups : Defaults(g)' = Defaults(g)
  BY DEF Defaults, InGroup
<1> QED BY <1>1 DEF DefaultInv, OneDefault, Groups

\* A copy is saved whose default is that of the row it was read from.
LEMMA DefaultsSaved ==
  ASSUME TypeOK, DefaultInv, UpdatesKeepDefault', NEW t \in Created, NEW row \in Row, NEW read \in Row,
         row.default = read.default, templates' = [templates EXCEPT ![t] = row],
         stale' = stale + Staleness(t, read), chosen' = chosen
  PROVE  DefaultInv'
<1>1. Created' = Created /\ \A u \in Created : templates'[u] = IF u = t THEN row ELSE templates[u]
  BY RowSaved
<1>2. stale \in Nat
  BY DEF TypeOK
<1>3. CASE templates[t] = read
  <2>1. \A g \in Groups : Defaults(g)' = Defaults(g)
    BY <1>1, <1>3 DEF Defaults, InGroup
  <2>2. stale' = stale
    BY <1>2, <1>3 DEF Staleness
  <2> QED BY <2>1, <2>2 DEF DefaultInv, OneDefault, Groups
<1>4. CASE templates[t] # read
  <2>1. stale' = stale + 1
    BY <1>4 DEF Staleness
  <2>2. ASSUME NEW g \in Groups
        PROVE  IsFiniteSet(Defaults(g)') /\ Cardinality(Defaults(g)') <= 1 + stale'
    <3>1. Defaults(g)' \in SUBSET (Defaults(g) \cup {t})
      BY <1>1 DEF Defaults, InGroup
    <3>2. IsFiniteSet(Defaults(g)) /\ Cardinality(Defaults(g)) <= 1 + stale
      BY DEF DefaultInv, OneDefault, Groups
    <3>3. Cardinality(Defaults(g)) \in Nat
      BY <3>2, FS_CardinalityType
    <3>4. IsFiniteSet(Defaults(g)') /\ Cardinality(Defaults(g)') <= Cardinality(Defaults(g)) + 1
      BY <3>1, <3>2, OneMore
    <3>5. Cardinality(Defaults(g)') \in Nat
      BY <3>4, FS_CardinalityType
    <3> QED BY <1>2, <2>1, <3>2, <3>3, <3>4, <3>5
  <2>3. stale' # 0
    BY <1>2, <2>1
  <2>4. OneDefault'
    BY <2>2, <2>3 DEF OneDefault, Groups
  <2> QED BY <2>2, <2>4 DEF DefaultInv, Groups
<1> QED BY <1>3, <1>4

\* Setting a default leaves one in its group and the other groups alone.
LEMMA DefaultCommitDefaults ==
  ASSUME TypeOK, DefaultInv, UpdatesKeepDefault', NEW p \in Requests, DefaultCommit(p)
  PROVE  DefaultInv'
<1>1. req[p] \in [pc : {"default"}, tpl : Templates, read : Row] /\ req[p].tpl \in Created
  BY RequestFacts DEF TypeOK, DefaultCommit
<1>2. PICK t \in Created, row \in Row :
        /\ templates' = WithDefault(t, row)
        /\ chosen' = chosen \cup {Group(t)}
        /\ stale' = stale + Staleness(t, row)
  BY <1>1 DEF DefaultCommit
<1>3. /\ Created' = Created
      /\ \A u \in Created : templates'[u] =
            IF u = t THEN [row EXCEPT !.default = TRUE]
            ELSE IF Group(u) = Group(t) THEN [templates[u] EXCEPT !.default = FALSE]
            ELSE templates[u]
  BY <1>2, WithDefaultFacts DEF WithDefault
<1>4. t \in Templates /\ Group(t) \in Groups
  BY CopiesFacts DEF TypeOK, Created, Groups
<1>5. \A u \in Created : [templates[u] EXCEPT !.default = FALSE].default = FALSE
  BY CopiesFacts DEF TypeOK, Created, Row
<1>6. [row EXCEPT !.default = TRUE].default = TRUE
  BY DEF Row
<1>7. Defaults(Group(t))' = {t}
  <2>1. \A u \in Created : u # t /\ Group(u) = Group(t) => templates'[u].default = FALSE
    BY <1>3, <1>5
  <2>2. templates'[t].default = TRUE
    BY <1>3, <1>6
  <2> QED BY <1>3, <2>1, <2>2 DEF Defaults, InGroup
<1>8. \A g \in Groups : g # Group(t) => Defaults(g)' = Defaults(g)
  BY <1>3 DEF Defaults, InGroup
<1>9. stale \in Nat /\ stale' \in {stale, stale + 1}
  BY <1>2 DEF TypeOK, Staleness
<1>10. IsFiniteSet({t}) /\ Cardinality({t}) = 1
  BY FS_Singleton
<1>11. ASSUME NEW g \in Groups
       PROVE  /\ IsFiniteSet(Defaults(g)') /\ Cardinality(Defaults(g)') <= 1 + stale'
              /\ g \in chosen' /\ stale' = 0 => Defaults(g)' # {}
  <2>1. CASE g = Group(t)
    BY <1>7, <1>9, <1>10, <2>1
  <2>2. CASE g # Group(t)
    <3>1. /\ IsFiniteSet(Defaults(g)) /\ Cardinality(Defaults(g)) <= 1 + stale
          /\ g \in chosen /\ stale = 0 => Defaults(g) # {}
      BY DEF DefaultInv, OneDefault, Groups
    <3>2. Cardinality(Defaults(g)) \in Nat
      BY <3>1, FS_CardinalityType
    <3>3. g \in chosen' => g \in chosen
      BY <1>2, <2>2
    <3> QED BY <1>8, <1>9, <2>2, <3>1, <3>2, <3>3
  <2> QED BY <2>1, <2>2
<1>12. chosen' \subseteq Groups
  BY <1>2, <1>4 DEF DefaultInv
<1> QED BY <1>11, <1>12 DEF DefaultInv, OneDefault, Groups

\* The record of an update that has read its row
LEMMA CopiesKeepDefault ==
  ASSUME TypeOK, DefaultInv, [Next]_vars
  PROVE  UpdatesKeepDefault'
<1>0. UpdatesKeepDefault
  BY DEF DefaultInv
<1>1. ASSUME NEW p \in Requests, NEW t \in Templates, UpdateRead(p, t)
      PROVE  UpdatesKeepDefault'
  <2>1. PICK status \in {-1, Enabled, Stopped, Deleted} :
          req' = [req EXCEPT ![p] =
            IF Refused(templates[t], status) THEN Done
            ELSE Saving(t, templates[t],
                        IF status = -1 THEN templates[t] ELSE [templates[t] EXCEPT !.status = status])]
    BY <1>1 DEF UpdateRead
  <2>2. templates[t] \in Row
    BY <1>1, CopiesFacts DEF TypeOK, Created, UpdateRead
  <2>3. [templates[t] EXCEPT !.status = status].default = templates[t].default
    BY <2>2 DEF Row
  <2>4. req'[p].pc = "save" => req'[p].write.default = req'[p].read.default
    BY <2>1, <2>3 DEF Saving, Done, TypeOK
  <2>5. \A o \in Requests \ {p} : req'[o] = req[o]
    BY <2>1 DEF TypeOK
  <2> QED BY <1>0, <2>4, <2>5 DEF UpdatesKeepDefault
<1>2. ASSUME NEW p \in Requests, NEW t \in Templates, DefaultRead(p, t) \/ ApplyRead(p, t)
      PROVE  UpdatesKeepDefault'
  <2>1. req'[p].pc # "save" /\ \A o \in Requests \ {p} : req'[o] = req[o]
    BY <1>2 DEF DefaultRead, ApplyRead, TypeOK
  <2> QED BY <1>0, <2>1 DEF UpdatesKeepDefault
<1>3. ASSUME NEW p \in Requests, Continue(p)
      PROVE  UpdatesKeepDefault'
  <2>1. \A o \in Requests \ {p} : req'[o] = req[o]
    BY <1>3 DEF Continue, UpdateSave, DefaultCommit, Bind, Delete, Insert, Recount, CountRead,
         CountSave, CountEnds, Fails, CountFails, TypeOK
  <2>2. CASE UpdateSave(p) \/ DefaultCommit(p) \/ Bind(p) \/ Insert(p) \/ CountRead(p) \/ CountEnds(p) \/ Fails(p)
    <3>1. req'[p].pc # "save"
      BY <2>2 DEF UpdateSave, DefaultCommit, Bind, Insert, Recount, CountRead, CountEnds, Fails, Done, TypeOK
    <3> QED BY <1>0, <2>1, <3>1 DEF UpdatesKeepDefault
  <2>3. CASE Delete(p)
    <3>1. req' = [req EXCEPT ![p].pc = "insert"] /\ [req[p] EXCEPT !.pc = "insert"].pc = "insert"
      BY <2>3, ApplyFacts DEF Delete
    <3>2. req'[p].pc # "save"
      BY <3>1 DEF TypeOK
    <3> QED BY <1>0, <2>1, <3>2 DEF UpdatesKeepDefault
  <2>4. CASE CountSave(p) \/ CountFails(p)
    <3>1. PICK t : req' = [req EXCEPT ![p].todo = Rest(p, t)]
      BY <2>4 DEF CountSave, CountFails
    <3>2. [req[p] EXCEPT !.todo = Rest(p, t)].pc = "counting"
      BY <2>4, RestFacts DEF CountSave, CountFails
    <3>3. req'[p].pc # "save"
      BY <3>1, <3>2 DEF TypeOK
    <3> QED BY <1>0, <2>1, <3>3 DEF UpdatesKeepDefault
  <2> QED BY <1>3, <2>2, <2>3, <2>4 DEF Continue
<1>4. CASE Crash
  <2>1. \A p \in Requests : req'[p].pc # "save"
    BY <1>4 DEF Crash, Idle, Done
  <2> QED BY <2>1 DEF UpdatesKeepDefault
<1>5. CASE (\E t \in Templates : Create(t)) \/ UNCHANGED vars
  <2>1. UNCHANGED req
    BY <1>5 DEF Create, vars
  <2> QED BY <1>0, <2>1 DEF UpdatesKeepDefault
<1> QED BY <1>1, <1>2, <1>3, <1>4, <1>5 DEF Next, Begin

LEMMA NextDefaults ==
  ASSUME TypeOK, DefaultInv, [Next]_vars
  PROVE  DefaultInv'
<1>0. UpdatesKeepDefault'
  BY CopiesKeepDefault
<1>1. ASSUME NEW t \in Templates, Create(t)
      PROVE  DefaultInv'
  <2>1. PICK s \in NewStatus :
          templates' = [u \in Created \cup {t} |->
                          IF u = t THEN [status |-> s, default |-> FALSE] ELSE templates[u]]
    BY <1>1 DEF Create
  <2>2. /\ Created' = Created \cup {t} /\ t \notin Created
        /\ \A u \in Created : templates'[u] = templates[u]
        /\ ~templates'[t].default
    BY <1>1, <2>1 DEF Create, Created
  <2>3. chosen' = chosen /\ stale' = stale
    BY <1>1 DEF Create
  <2> QED BY <1>0, <2>2, <2>3, DefaultsSame
<1>2. ASSUME NEW p \in Requests, UpdateSave(p)
      PROVE  DefaultInv'
  <2>1. req[p] \in [pc : {"save"}, tpl : Templates, read : Row, write : Row] /\ req[p].tpl \in Created
    BY <1>2, RequestFacts DEF TypeOK, UpdateSave
  <2>2. req[p].write.default = req[p].read.default
    BY <2>1 DEF DefaultInv, UpdatesKeepDefault
  <2>3. /\ templates' = [templates EXCEPT ![req[p].tpl] = req[p].write]
        /\ stale' = stale + Staleness(req[p].tpl, req[p].read) /\ chosen' = chosen
    BY <1>2 DEF UpdateSave
  <2> QED BY <1>0, <2>1, <2>2, <2>3, DefaultsSaved
<1>3. ASSUME NEW p \in Requests, CountSave(p)
      PROVE  DefaultInv'
  <2>1. PICK t \in DOMAIN req[p].todo :
          /\ templates' = [templates EXCEPT ![t] = req[p].todo[t]]
          /\ stale' = stale + Staleness(t, req[p].todo[t])
    BY <1>3 DEF CountSave
  <2>2. t \in Created /\ req[p].todo[t] \in Row
    BY <1>3, RestFacts DEF CountSave
  <2>3. chosen' = chosen
    BY <1>3 DEF CountSave
  <2> QED BY <1>0, <2>1, <2>2, <2>3, DefaultsSaved
<1>4. ASSUME UNCHANGED <<templates, chosen, stale>>
      PROVE  DefaultInv'
  BY <1>0, <1>4, DefaultsSame DEF Created
<1>5. ASSUME NEW p \in Requests, Begin(p)
      PROVE  UNCHANGED <<templates, chosen, stale>>
  BY <1>5 DEF Begin, UpdateRead, DefaultRead, ApplyRead
<1>6. ASSUME NEW p \in Requests,
             \/ Bind(p) \/ Delete(p) \/ Insert(p)
             \/ CountRead(p) \/ CountEnds(p) \/ Fails(p) \/ CountFails(p)
      PROVE  UNCHANGED <<templates, chosen, stale>>
  BY <1>6 DEF Bind, Delete, Insert, CountRead, CountEnds, Fails, CountFails
<1>7. ASSUME NEW p \in Requests, Continue(p)
      PROVE  DefaultInv'
  BY <1>0, <1>2, <1>3, <1>4, <1>6, <1>7, DefaultCommitDefaults DEF Continue
<1>8. (Crash \/ UNCHANGED vars) => UNCHANGED <<templates, chosen, stale>>
  BY DEF Crash, vars
<1> QED BY <1>1, <1>4, <1>5, <1>7, <1>8 DEF Next

LEMMA InitDefaults == Init => DefaultInv
<1> SUFFICES ASSUME Init PROVE DefaultInv
  OBVIOUS
<1>1. /\ \A g \in Groups : Defaults(g) = {}
      /\ \A p \in Requests : req[p].pc = "idle"
      /\ chosen = {} /\ stale = 0
  BY DEF Init, Defaults, InGroup, Created, Idle
<1>2. IsFiniteSet({}) /\ Cardinality({}) = 0
  BY FS_EmptySet
<1>3. UpdatesKeepDefault /\ chosen \subseteq Groups
  BY <1>1 DEF UpdatesKeepDefault
<1>4. ASSUME NEW g \in Groups
      PROVE  /\ IsFiniteSet(Defaults(g)) /\ Cardinality(Defaults(g)) <= 1 + stale
             /\ ~(g \in chosen)
  <2>1. Defaults(g) = {} /\ stale = 0 /\ chosen = {}
    BY <1>1
  <2> QED BY <2>1, <1>2
<1> QED BY <1>3, <1>4 DEF DefaultInv, OneDefault, Groups

LEMMA DefaultInvariant == Spec => []DefaultInv
<1>1. Init => DefaultInv
  BY InitDefaults
<1>2. IndInv /\ DefaultInv /\ [Next]_vars => DefaultInv'
  BY NextDefaults DEF IndInv
<1>3. WorkTemplateAssumption
  BY WorkTemplateAssumption
<1> QED BY <1>1, <1>2, <1>3, InvInductive, PTL DEF Spec

\* A second default of a sub shop and command type, or none after one was set,
\* takes a save of a copy that was out of date (template.go 88, 132, 177).
THEOREM DefaultOnce == Spec => []OneDefault
<1>1. DefaultInv => OneDefault
  BY DEF DefaultInv
<1> QED BY <1>1, DefaultInvariant, PTL

\* Until a stale copy is saved, an open room of a merchant with a default that
\* was set and not stopped is answered (template.go 371-394): the template that
\* is default exists, is not deleted by DeletedNotDefault, and so is usable.
THEOREM DefaultServes == Spec => []NeverSilent
<1>1. IndInv /\ DefaultInv => NeverSilent
  <2> SUFFICES ASSUME IndInv, DefaultInv, NEW g \in chosen, NEW r \in Open,
                      stale = 0, \A t \in Defaults(g) : templates[t].status # Stopped
               PROVE  Served(r, g[2]) # {}
    BY DEF NeverSilent
  <2>1. g \in Groups /\ Defaults(g) # {}
    BY DEF DefaultInv, OneDefault, Groups
  <2>2. PICK t \in Defaults(g) : TRUE
    BY <2>1
  <2>3. t \in Created /\ templates[t].default /\ Type[t] = g[2]
    BY <2>2 DEF Defaults, InGroup, Group
  <2>4. templates[t].status \in {Enabled, Stopped, Deleted}
    BY <2>3, CopiesFacts DEF IndInv, TypeOK, Created, Row
  <2>5. templates[t].status = Enabled
    BY <2>2, <2>3, <2>4 DEF IndInv, RowInv, DeletedNotDefault
  <2>6. t \in DefaultUsable(g[2])
    BY <2>3, <2>5 DEF DefaultUsable, Usable
  <2> QED BY <2>6 DEF Served
<1>2. WorkTemplateAssumption
  BY WorkTemplateAssumption
<1> QED BY <1>1, <1>2, InvInductive, DefaultInvariant, PTL

=============================================================================
