-------------------------- MODULE RoomOpeningProofs --------------------------
(***************************************************************************)
(* What holds of joins and links for any number of rooms, merchants,       *)
(* codes, processes, callbacks and faults: a decided join stays decided, a *)
(* room has one link, the link keeps its merchant and gets the one whose   *)
(* join was opened, except for the races that are named.                   *)
(***************************************************************************)
EXTENDS RoomOpening, NaturalsInduction, WellFoundedInduction,
        SequenceTheorems, TLAPS

-----------------------------------------------------------------------------
(* Types.                                                                  *)

\* The record of a process, by its pc
Lists == [pc : {"list"}, todo : SUBSET Rooms, full : BOOLEAN, last : SUBSET DOMAIN links]
Asks == [pc : {"ask"}, room : Rooms, next : {Done} \cup Lists]
Decides == [pc : {"open", "opening", "delete"}, logs : SUBSET DOMAIN joins]
Fetches == [pc : {"fetch"}, owner : Owners]
Creates == [pc : {"create"}, call : calls, link : Link]
Saves == [pc : {"save"}, link : Link, write : Row, next : After]
Fetcheds == [pc : {"fetched"}, list : SUBSET Rooms]
Sets == [pc : {"set"}, room : Rooms, open : BOOLEAN, next : After]
Closes == [pc : {"close", "closing"}, id : DOMAIN links]

LEMMA ProcessSets ==
  /\ After = {Done} \cup Lists \cup Asks
  /\ Process = {Idle, Done} \cup Lists \cup Asks \cup Decides \cup Fetches \cup Creates
               \cup Saves \cup Fetcheds \cup Sets \cup Closes
<1>1. After = {Done} \cup Lists \cup Asks
  BY DEF After, Lists, Asks
<1>2. Process = {Idle} \cup After \cup Decides \cup Fetches \cup Creates
                \cup Saves \cup Fetcheds \cup Sets \cup Closes
  BY DEF Process, Decides, Fetches, Creates, Saves, Fetcheds, Sets, Closes
<1> QED BY <1>1, <1>2

LEMMA ProcessFacts ==
  ASSUME NEW q \in Process
  PROVE  /\ q.pc = "list" => q \in Lists
         /\ q.pc = "ask" => q \in Asks
         /\ q.pc \in {"open", "opening", "delete"} => q \in Decides
         /\ q.pc = "fetch" => q \in Fetches
         /\ q.pc = "create" => q \in Creates
         /\ q.pc = "save" => q \in Saves
         /\ q.pc = "fetched" => q \in Fetcheds
         /\ q.pc = "set" => q \in Sets
         /\ q.pc \in {"close", "closing"} => q \in Closes
         /\ q.pc = "idle" => q = Idle
         /\ q.pc = "done" => q = Done
<1>1. /\ Idle.pc = "idle" /\ Done.pc = "done"
      /\ \A r \in Lists : r.pc = "list"
      /\ \A r \in Asks : r.pc = "ask"
      /\ \A r \in Decides : r.pc \in {"open", "opening", "delete"}
      /\ \A r \in Fetches : r.pc = "fetch"
      /\ \A r \in Creates : r.pc = "create"
      /\ \A r \in Saves : r.pc = "save"
      /\ \A r \in Fetcheds : r.pc = "fetched"
      /\ \A r \in Sets : r.pc = "set"
      /\ \A r \in Closes : r.pc \in {"close", "closing"}
  BY DEF Idle, Done, Lists, Asks, Decides, Fetches, Creates, Saves, Fetcheds, Sets, Closes
<1>2. \/ q = Idle \/ q = Done \/ q \in Lists \/ q \in Asks \/ q \in Decides \/ q \in Fetches
      \/ q \in Creates \/ q \in Saves \/ q \in Fetcheds \/ q \in Sets \/ q \in Closes
  BY ProcessSets
<1> QED BY <1>1, <1>2

LEMMA LinksFacts ==
  ASSUME TypeOK
  PROVE  /\ links \in Seq(Row) /\ Len(links) \in Nat /\ DOMAIN links = 1..Len(links)
         /\ \A i \in DOMAIN links : links[i] \in Row /\ i \in Nat /\ i # 0
<1>1. links \in Seq(Row)
  BY DEF TypeOK
<1>2. Len(links) \in Nat /\ DOMAIN links = 1..Len(links) /\ links \in [1..Len(links) -> Row]
  BY <1>1, LenProperties
<1> QED BY <1>1, <1>2

\* As tables and the platform's calls grow, processes keep their types.
LEMMA ProcessGrows ==
  ASSUME TypeOK, DOMAIN joins \subseteq DOMAIN joins', calls \subseteq calls',
         links' \in Seq(Row), DOMAIN links \subseteq DOMAIN links'
  PROVE  Process \subseteq Process' /\ After \subseteq After'
<1>1. Len(links) \in Nat /\ Len(links)' \in Nat /\ 0..Len(links) \subseteq 0..Len(links)'
  <2>1. DOMAIN links = 1..Len(links) /\ DOMAIN links' = 1..Len(links') /\ Len(links) \in Nat /\ Len(links') \in Nat
    BY LinksFacts, LenProperties
  <2>2. Len(links) <= Len(links')
    BY <2>1
  <2> QED BY <2>1, <2>2
<1>2. Link \subseteq Link'
  BY <1>1 DEF Link
<1>3. Lists \subseteq Lists'
  BY DEF Lists
<1>4. Asks \subseteq Asks'
  BY <1>3 DEF Asks
<1>5. After \subseteq After'
  BY <1>3, <1>4, ProcessSets DEF After, Lists, Asks
<1>6. /\ Decides \subseteq Decides' /\ Creates \subseteq Creates' /\ Closes \subseteq Closes'
      /\ Fetches \subseteq Fetches' /\ Fetcheds \subseteq Fetcheds'
  BY <1>2 DEF Decides, Creates, Closes, Fetches, Fetcheds
<1>7. Saves \subseteq Saves' /\ Sets \subseteq Sets'
  BY <1>2, <1>5 DEF Saves, Sets
<1>8. Process' = ({Idle, Done} \cup Lists \cup Asks \cup Decides \cup Fetches \cup Creates
                  \cup Saves \cup Fetcheds \cup Sets \cup Closes)'
  BY DEF Process, After, Lists, Asks, Decides, Fetches, Creates, Saves, Fetcheds, Sets, Closes
<1> QED BY <1>3, <1>4, <1>5, <1>6, <1>7, <1>8, ProcessSets DEF Idle, Done

\* A step of one process: what has to be shown of its types.
LEMMA StepTypes ==
  ASSUME TypeOK, NEW p \in Processes, proc' = [proc EXCEPT ![p] = proc'[p]], proc'[p] \in Process',
         DOMAIN joins \subseteq DOMAIN joins', calls \subseteq calls',
         links' \in Seq(Row), DOMAIN links \subseteq DOMAIN links'
  PROVE  DOMAIN proc' = Processes /\ \A o \in Processes : proc'[o] \in Process'
<1>1. Process \subseteq Process'
  BY ProcessGrows
<1>2. DOMAIN proc' = Processes /\ \A o \in Processes : o # p => proc'[o] = proc[o]
  BY DEF TypeOK
<1> QED BY <1>1, <1>2 DEF TypeOK

\* A step of others leaves the processes alone.
LEMMA OutsideTypes ==
  ASSUME TypeOK, proc' = proc,
         DOMAIN joins \subseteq DOMAIN joins', calls \subseteq calls',
         links' \in Seq(Row), DOMAIN links \subseteq DOMAIN links'
  PROVE  DOMAIN proc' = Processes /\ \A o \in Processes : proc'[o] \in Process'
BY ProcessGrows DEF TypeOK

LEMMA InitTypes == Init => TypeOK
<1> SUFFICES ASSUME Init PROVE TypeOK
  OBVIOUS
<1>1. \A p \in Processes : proc[p] \in Process
  BY DEF Init, Process
<1> QED BY <1>1, RoomOpeningAssumption DEF Init, TypeOK

LEMMA EmptyRow == \A room \in Rooms : NewLink(room) \in Row
BY DEF NewLink, Row

LEMMA FirstFact ==
  ASSUME TypeOK, NEW room, Ids(room) # {}
  PROVE  First(room) \in Ids(room)
<1> DEFINE Less == {ss \in Nat \X Nat : ss[1] < ss[2]}
<1>1. Ids(room) \in SUBSET Nat
  BY LinksFacts DEF Ids
<1>2. IsWellFoundedOn(Less, Nat)
  BY NatLessThanWellFounded DEF OpToRel
<1>3. PICK i \in Ids(room) : \A j \in Ids(room) : <<j, i>> \notin Less
  BY <1>1, <1>2, WFMin
<1>4. \A j \in Ids(room) : i <= j
  <2> SUFFICES ASSUME NEW j \in Ids(room), ~(i <= j) PROVE FALSE
    OBVIOUS
  <2>1. i \in Nat /\ j \in Nat /\ j < i
    BY <1>1
  <2>2. <<j, i>> \in Less
    BY <2>1
  <2> QED BY <1>3, <2>2
<1> QED BY <1>4 DEF First

LEMMA EnsuredType ==
  ASSUME TypeOK, NEW room \in Rooms
  PROVE  /\ Ensured(room) \in Link
         /\ Ensured(room).read.room = room
         /\ Ensured(room).id = 0 => Ids(room) = {}
         /\ Ensured(room).id # 0 => links[Ensured(room).id] = Ensured(room).read
<1>1. CASE Ids(room) = {}
  BY <1>1, EmptyRow, LinksFacts DEF Ensured, Link, NewLink
<1>2. CASE Ids(room) # {}
  <2>1. First(room) \in DOMAIN links /\ links[First(room)].room = room
    BY <1>2, FirstFact DEF Ids
  <2>2. links[First(room)] \in Row /\ First(room) \in 1..Len(links) /\ First(room) # 0
    BY <2>1, LinksFacts
  <2>3. Ensured(room) = [id |-> First(room), read |-> links[First(room)]]
    BY <1>2 DEF Ensured
  <2> QED BY <2>1, <2>2, <2>3, LinksFacts DEF Link
<1> QED BY <1>1, <1>2

\* Joins: rows of the table stay typed when they are decided.
LEMMA DecideType ==
  ASSUME TypeOK, NEW p \in Processes, NEW status \in 0..2, Decide(p, status)
  PROVE  /\ DOMAIN joins' = DOMAIN joins
         /\ \A l \in DOMAIN joins : joins'[l] \in Joins
BY DEF Decide, TypeOK, Joins

LEMMA JoinTypes ==
  ASSUME TypeOK, NEW p \in Processes,
         \/ \E my \in Merchants, list \in SUBSET Logs : JoinsRead(p, my, list)
         \/ OpenCall(p) \/ OpenCommit(p) \/ DeleteCommit(p)
  PROVE  TypeOK'
<1>0. links \in Seq(Row) /\ RoomOpeningAssumption
  BY RoomOpeningAssumption DEF TypeOK
<1>1. ASSUME NEW my \in Merchants, NEW list \in SUBSET Logs, JoinsRead(p, my, list) PROVE TypeOK'
  <2>1. PICK pc \in {"open", "delete"} :
          proc' = [proc EXCEPT ![p] = [pc |-> pc, logs |-> Pending(my, list)]]
    BY <1>1 DEF JoinsRead
  <2>2. Pending(my, list) \subseteq DOMAIN joins /\ Pending(my, list) \subseteq Logs
    BY DEF Pending
  <2>3. UNCHANGED <<joins, links, codes, opened, calls, stale, faults>>
    BY <1>1 DEF JoinsRead
  <2>4. proc'[p] = [pc |-> pc, logs |-> Pending(my, list)]
    BY <2>1 DEF TypeOK
  <2>5. proc'[p] \in Decides'
    BY <2>2, <2>3, <2>4 DEF Decides
  <2>6. proc'[p] \in Process'
    BY <2>5 DEF Process, Decides
  <2>7. DOMAIN proc' = Processes /\ \A o \in Processes : proc'[o] \in Process'
    BY <1>0, <2>1, <2>3, <2>4, <2>6, StepTypes
  <2>8. raced' \subseteq Rooms \cup Logs \cup Owners
    BY <1>1, <2>2 DEF JoinsRead, TypeOK
  <2> QED BY <2>3, <2>7, <2>8 DEF TypeOK
<1>2. CASE OpenCall(p)
  <2>1. proc[p] \in Decides
    BY <1>2, ProcessFacts DEF OpenCall, TypeOK
  <2>2. UNCHANGED <<joins, links, codes, raced, stale, faults>>
    BY <1>2 DEF OpenCall
  <2>3. /\ proc' = [proc EXCEPT ![p] = proc'[p]]
        /\ proc'[p] = Done \/ proc'[p] = [proc[p] EXCEPT !.pc = "opening"]
    BY <1>2 DEF OpenCall, TypeOK
  <2>4. proc'[p] \in Process'
    <3>1. CASE proc'[p] = Done
      BY <3>1 DEF Process, After
    <3>2. CASE proc'[p] = [proc[p] EXCEPT !.pc = "opening"]
      <4>1. proc'[p] \in Decides'
        BY <2>1, <2>2, <3>2 DEF Decides
      <4> QED BY <4>1 DEF Process, Decides
    <3> QED BY <2>3, <3>1, <3>2
  <2>5. opened' \subseteq Rooms /\ calls \subseteq calls' /\ calls' \subseteq Call
    <3>1. CASE UNCHANGED <<opened, calls>>
      BY <3>1 DEF TypeOK
    <3>2. CASE \E list \in SUBSET proc[p].logs :
                 /\ opened' = opened \cup {Room[l] : l \in list}
                 /\ calls' = calls \cup {[room |-> Room[l], user |-> User[l], code |-> NoCode, log |-> l] : l \in list}
      <4>1. PICK list \in SUBSET proc[p].logs :
                 /\ opened' = opened \cup {Room[l] : l \in list}
                 /\ calls' = calls \cup {[room |-> Room[l], user |-> User[l], code |-> NoCode, log |-> l] : l \in list}
        BY <3>2
      <4>2. list \subseteq Logs
        BY <2>1 DEF Decides, TypeOK
      <4> QED BY <1>0, <4>1, <4>2 DEF TypeOK, Call, RoomOpeningAssumption
    <3> QED BY <1>2, <3>1, <3>2 DEF OpenCall
  <2>6. DOMAIN proc' = Processes /\ \A o \in Processes : proc'[o] \in Process'
    BY <1>0, <2>2, <2>3, <2>4, <2>5, StepTypes
  <2> QED BY <2>2, <2>5, <2>6 DEF TypeOK
<1>3. CASE OpenCommit(p) \/ DeleteCommit(p)
  <2>1. Decide(p, 1) \/ Decide(p, 2)
    BY <1>3 DEF OpenCommit, DeleteCommit
  <2>2. DOMAIN joins' = DOMAIN joins /\ \A l \in DOMAIN joins : joins'[l] \in Joins
    BY <2>1, DecideType
  <2>3. UNCHANGED <<links, codes, opened, calls, raced, stale, faults>>
    BY <1>3 DEF OpenCommit, DeleteCommit
  <2>4. proc' = [proc EXCEPT ![p] = Done] /\ proc'[p] = Done
    BY <1>3 DEF OpenCommit, DeleteCommit, TypeOK
  <2>5. Done \in Process'
    BY DEF Process, After
  <2>6. DOMAIN proc' = Processes /\ \A o \in Processes : proc'[o] \in Process'
    BY <1>0, <2>2, <2>3, <2>4, <2>5, StepTypes
  <2> QED BY <2>2, <2>3, <2>6 DEF TypeOK
<1> QED BY <1>1, <1>2, <1>3

LEMMA OutsideTyped ==
  ASSUME TypeOK, Outside
  PROVE  TypeOK'
<1>0. links \in Seq(Row) /\ RoomOpeningAssumption
  BY RoomOpeningAssumption DEF TypeOK
<1>1. ASSUME NEW list \in SUBSET Logs, RobotChatJoin(list) PROVE TypeOK'
  <2>1. /\ DOMAIN joins' = DOMAIN joins \cup list
        /\ \A l \in DOMAIN joins' : joins'[l] \in Joins
    BY <1>1 DEF RobotChatJoin, TypeOK, Joins
  <2>2. UNCHANGED <<links, codes, opened, calls, proc, raced, stale, faults>>
    BY <1>1 DEF RobotChatJoin
  <2>3. DOMAIN proc' = Processes /\ \A o \in Processes : proc'[o] \in Process'
    BY <1>0, <2>1, <2>2, OutsideTypes
  <2> QED BY <2>1, <2>2, <2>3 DEF TypeOK
<1>2. ASSUME NEW l \in Logs, JoinAges(l) PROVE TypeOK'
  <2>1. DOMAIN joins' = DOMAIN joins /\ \A k \in DOMAIN joins : joins'[k] \in Joins
    BY <1>2 DEF JoinAges, TypeOK, Joins
  <2>2. UNCHANGED <<links, codes, opened, calls, proc, raced, stale, faults>>
    BY <1>2 DEF JoinAges
  <2>3. DOMAIN proc' = Processes /\ \A o \in Processes : proc'[o] \in Process'
    BY <1>0, <2>1, <2>2, OutsideTypes
  <2> QED BY <2>1, <2>2, <2>3 DEF TypeOK
<1>3. ASSUME NEW c \in Codes, CodeExpires(c) PROVE TypeOK'
  <2>1. UNCHANGED <<joins, links, opened, calls, proc, raced, stale, faults>>
        /\ codes' \in [Codes -> {"none", "free", "expired", "used"}]
    BY <1>3 DEF CodeExpires, TypeOK
  <2>2. DOMAIN proc' = Processes /\ \A o \in Processes : proc'[o] \in Process'
    BY <1>0, <2>1, OutsideTypes
  <2> QED BY <2>1, <2>2 DEF TypeOK
<1>4. ASSUME NEW c \in Codes, NEW room \in Rooms, NEW user \in Users, UseCode(c, room, user) PROVE TypeOK'
  <2>1. UNCHANGED <<joins, links, codes, proc, raced, stale, faults>>
        /\ opened' \subseteq Rooms /\ calls \subseteq calls' /\ calls' \subseteq Call
    BY <1>4 DEF UseCode, TypeOK, Call
  <2>2. DOMAIN proc' = Processes /\ \A o \in Processes : proc'[o] \in Process'
    BY <1>0, <2>1, OutsideTypes
  <2> QED BY <2>1, <2>2 DEF TypeOK
<1>5. ASSUME NEW room \in Rooms, PlatformOver(room) PROVE TypeOK'
  <2>1. UNCHANGED <<joins, links, codes, calls, proc, raced, stale, faults>> /\ opened' \subseteq Rooms
    BY <1>5 DEF PlatformOver, TypeOK
  <2>2. DOMAIN proc' = Processes /\ \A o \in Processes : proc'[o] \in Process'
    BY <1>0, <2>1, OutsideTypes
  <2> QED BY <2>1, <2>2 DEF TypeOK
<1> QED BY <1>1, <1>2, <1>3, <1>4, <1>5 DEF Outside

\* A step of one process that leaves the joins and the platform alone
LEMMA GoTypes ==
  ASSUME TypeOK, NEW p \in Processes, proc' = [proc EXCEPT ![p] = proc'[p]], proc'[p] \in Process',
         UNCHANGED <<joins, calls>>, opened' \subseteq Rooms,
         links' \in Seq(Row), DOMAIN links \subseteq DOMAIN links',
         codes' \in [Codes -> {"none", "free", "expired", "used"}],
         raced' \subseteq Rooms \cup Logs \cup Owners, stale' \in Nat, faults' \in Nat
  PROVE  TypeOK'
<1>1. DOMAIN proc' = Processes /\ \A o \in Processes : proc'[o] \in Process'
  BY StepTypes
<1> QED BY <1>1 DEF TypeOK

LEMMA CodeTypes ==
  ASSUME TypeOK, NEW p \in Processes,
         (\E c \in Codes : FetchRead(p, CodeOwner[c])) \/ FetchCreate(p)
  PROVE  TypeOK'
<1>1. ASSUME NEW c \in Codes, FetchRead(p, CodeOwner[c]) PROVE TypeOK'
  <2>1. CodeOwner[c] \in Owners
    BY DEF Owners
  <2>2. proc' = [proc EXCEPT ![p] = proc'[p]] /\ proc'[p] = [pc |-> "fetch", owner |-> CodeOwner[c]]
    BY <1>1 DEF FetchRead, TypeOK
  <2>3. proc'[p] \in Process'
    BY <2>1, <2>2 DEF Process, Owners
  <2>4. raced' \subseteq Rooms \cup Logs \cup Owners
    BY <1>1, <2>1 DEF FetchRead, TypeOK
  <2> QED BY <1>1, <2>2, <2>3, <2>4, GoTypes DEF FetchRead, TypeOK
<1>2. CASE FetchCreate(p)
  <2>1. proc' = [proc EXCEPT ![p] = proc'[p]] /\ proc'[p] = Done
    BY <1>2 DEF FetchCreate, TypeOK
  <2>2. proc'[p] \in Process'
    BY <2>1 DEF Process, After
  <2>3. codes' \in [Codes -> {"none", "free", "expired", "used"}]
    BY <1>2 DEF FetchCreate, TypeOK
  <2> QED BY <1>2, <2>1, <2>2, <2>3, GoTypes DEF FetchCreate, TypeOK
<1> QED BY <1>1, <1>2

\* What a process saves has been read or is a new row.
LEMMA SaveTypes ==
  ASSUME TypeOK, NEW p \in Processes, Save(p)
  PROVE  /\ TypeOK'
         /\ proc[p] \in Saves
         /\ proc'[p] \in After
<1>1. proc[p] \in Saves
  BY ProcessFacts DEF Save, TypeOK
<1>2. proc[p].link \in Link /\ proc[p].write \in Row /\ proc[p].next \in After
  BY <1>1 DEF Saves
<1>3. proc' = [proc EXCEPT ![p] = proc[p].next] /\ proc'[p] = proc[p].next
  BY DEF Save, TypeOK
<1>4. links' \in Seq(Row) /\ DOMAIN links \subseteq DOMAIN links' /\ stale' \in Nat
  <2>1. CASE proc[p].link.id = 0
    <3>1. links' = Append(links, proc[p].write) /\ stale' = stale
      BY <2>1 DEF Save
    <3> QED BY <1>2, <3>1, LinksFacts, AppendProperties DEF TypeOK
  <2>2. CASE proc[p].link.id # 0
    <3>1. links' = [links EXCEPT ![proc[p].link.id] = proc[p].write] /\ stale' \in {stale, stale + 1}
      BY <2>2 DEF Save
    <3>2. proc[p].link.id \in DOMAIN links
      BY <1>2, <2>2, LinksFacts DEF Link
    <3>3. links' \in Seq(Row) /\ DOMAIN links' = DOMAIN links
      BY <1>2, <3>1, <3>2, LinksFacts, ExceptSeq
    <3> QED BY <3>1, <3>3 DEF TypeOK
  <2> QED BY <2>1, <2>2
<1>5. UNCHANGED <<joins, codes, opened, calls, raced, faults>>
  BY DEF Save
<1>6. proc'[p] \in Process'
  <2>1. After \subseteq After'
    BY <1>4, <1>5, ProcessGrows
  <2> QED BY <1>2, <1>3, <2>1 DEF Process
<1> QED BY <1>1, <1>2, <1>3, <1>4, <1>5, <1>6, GoTypes DEF TypeOK

LEMMA CreateTypes ==
  ASSUME TypeOK, NEW p \in Processes, NEW call \in calls, CreateRead(p, call)
  PROVE  TypeOK'
<1>1. call \in Call /\ call.room \in Rooms
  BY DEF TypeOK, Call
<1>2. proc' = [proc EXCEPT ![p] = proc'[p]]
      /\ proc'[p] = [pc |-> "create", call |-> call, link |-> Ensured(call.room)]
  BY DEF CreateRead, TypeOK
<1>3. UNCHANGED <<joins, links, codes, opened, calls, stale, faults>>
  BY DEF CreateRead
<1>4. Ensured(call.room) \in Link
  BY <1>1, EnsuredType
<1>5. Link' = Link
  BY <1>3 DEF Link
<1>6. proc'[p] \in Process'
  BY <1>2, <1>3, <1>4, <1>5 DEF Process
<1>7. raced' \subseteq Rooms \cup Logs \cup Owners
  BY <1>1 DEF CreateRead, Overlap, TypeOK
<1> QED BY <1>2, <1>3, <1>6, <1>7, GoTypes DEF TypeOK

\* The owner that a callback finds
LEMMA OwnedTypes ==
  ASSUME TypeOK, NEW p \in Processes, proc[p].pc = "create",
         NEW owners \in SUBSET [my : Merchants \cup {Nobody}, sub : Shops \cup {NoShop}],
         Owned(p, owners), UNCHANGED <<joins, links, calls>>
  PROVE  /\ proc' = [proc EXCEPT ![p] = proc'[p]] /\ proc'[p] \in Process'
         /\ proc[p] \in Creates
         /\ \E o \in owners :
              proc'[p] = [pc |-> "save", link |-> proc[p].link, next |-> Done,
                          write |-> [room |-> proc[p].call.room, my |-> o.my, sub |-> o.sub, open |-> TRUE]]
<1>1. proc[p] \in Creates
  BY ProcessFacts DEF TypeOK
<1>2. proc[p].link \in Link /\ proc[p].call.room \in Rooms
  BY <1>1 DEF Creates, TypeOK, Call
<1>3. PICK o \in owners :
        proc' = [proc EXCEPT ![p] =
          [pc |-> "save", link |-> proc[p].link, next |-> Done,
           write |-> [room |-> proc[p].call.room, my |-> o.my, sub |-> o.sub, open |-> TRUE]]]
  BY DEF Owned
<1> DEFINE w == [room |-> proc[p].call.room, my |-> o.my, sub |-> o.sub, open |-> TRUE]
           q == [pc |-> "save", link |-> proc[p].link, next |-> Done, write |-> w]
<1>4. w \in Row
  BY <1>2 DEF Row
<1>5. proc' = [proc EXCEPT ![p] = proc'[p]] /\ proc'[p] = q
  BY <1>3 DEF TypeOK
<1>6. Link' = Link /\ Done \in After'
  BY DEF Link, After
<1>7. q \in Process'
  BY <1>2, <1>4, <1>6 DEF Process
<1> QED BY <1>1, <1>3, <1>5, <1>7

LEMMA OwnerFound ==
  ASSUME TypeOK, NEW call \in calls, NEW read \in Row
  PROVE  /\ CodeFound(call) \subseteq [my : Merchants \cup {Nobody}, sub : Shops \cup {NoShop}]
         /\ JoinFound(call, read) \subseteq [my : Merchants \cup {Nobody}, sub : Shops \cup {NoShop}]
         /\ Kept(read) \in [my : Merchants \cup {Nobody}, sub : Shops \cup {NoShop}]
<1>1. \A c \in Codes : CodeOwner[c] \in [my : Merchants \cup {Nobody}, sub : Shops \cup {NoShop}]
  <2> SUFFICES ASSUME NEW c \in Codes
               PROVE  CodeOwner[c] \in [my : Merchants \cup {Nobody}, sub : Shops \cup {NoShop}]
    OBVIOUS
  <2> DEFINE my == CodeOwner[c].my
             sub == CodeOwner[c].sub
  <2>1. my \in Merchants /\ sub \in Shops
    BY DEF Merchants, Shops
  <2>2. CodeOwner[c] = [my |-> my, sub |-> sub]
    BY RoomOpeningAssumption
  <2> HIDE DEF my, sub
  <2>3. [my |-> my, sub |-> sub] \in [my : Merchants \cup {Nobody}, sub : Shops \cup {NoShop}]
    BY <2>1
  <2> QED BY <2>2, <2>3
<1>2. \A l \in Recent(call) : l \in Logs /\ Owner[l] \in Merchants
  BY DEF Recent, TypeOK, Merchants
<1>3. read.my \in Merchants \cup {Nobody} /\ read.sub \in Shops \cup {NoShop}
  BY DEF Row
<1> QED BY <1>1, <1>2, <1>3 DEF CodeFound, JoinFound, Kept

LEMMA OwnerTypes ==
  ASSUME TypeOK, NEW p \in Processes, OwnerByCode(p) \/ OwnerByJoin(p)
  PROVE  TypeOK'
<1>1. proc[p].pc = "create" /\ UNCHANGED <<joins, links, opened, calls, raced, stale>>
  BY DEF OwnerByCode, OwnerByJoin
<1>2. proc[p].call \in calls /\ proc[p].link.read \in Row
  BY <1>1, ProcessFacts DEF TypeOK, Creates, Link
<1>3. PICK owners \in SUBSET [my : Merchants \cup {Nobody}, sub : Shops \cup {NoShop}] : Owned(p, owners)
  BY <1>2, OwnerFound DEF OwnerByCode, OwnerByJoin
<1>4. codes' \in [Codes -> {"none", "free", "expired", "used"}] /\ faults' \in Nat
  BY DEF OwnerByCode, OwnerByJoin, TypeOK
<1>5. proc' = [proc EXCEPT ![p] = proc'[p]] /\ proc'[p] \in Process'
  BY <1>1, <1>3, OwnedTypes
<1> QED BY <1>1, <1>4, <1>5, GoTypes DEF TypeOK

\* The lists of rooms
LEMMA ListTypes ==
  ASSUME TypeOK, NEW p \in Processes,
         ListBegin(p) \/ FetchList(p) \/ OpenRows(p) \/ ListNext(p) \/ ListClose(p) \/ ListEnds(p)
  PROVE  TypeOK'
<1>0. links \in Seq(Row) /\ opened \subseteq Rooms
  BY DEF TypeOK
<1>1. UNCHANGED <<joins, codes, opened, calls, stale, faults>>
  BY DEF ListBegin, FetchList, OpenRows, ListNext, ListClose, ListEnds
<1>2. CASE ListBegin(p) \/ FetchList(p)
  <2>1. UNCHANGED <<links, raced>> /\ proc' = [proc EXCEPT ![p] = proc'[p]]
        /\ \/ proc'[p] = Listing(opened, FALSE, {})
           \/ proc'[p] = [pc |-> "fetched", list |-> opened]
    BY <1>2 DEF ListBegin, FetchList, TypeOK
  <2>2. proc'[p] \in Process
    <3>1. Listing(opened, FALSE, {}) \in Lists
      BY <1>0 DEF Lists, Listing
    <3>2. [pc |-> "fetched", list |-> opened] \in Fetcheds
      BY <1>0 DEF Fetcheds
    <3> QED BY <2>1, <3>1, <3>2, ProcessSets
  <2>3. proc'[p] \in Process'
    BY <1>0, <1>1, <2>1, <2>2, ProcessGrows
  <2> QED BY <1>0, <1>1, <2>1, <2>3, GoTypes DEF TypeOK
<1>3. CASE OpenRows(p)
  <2>1. proc[p] \in Fetcheds
    BY <1>3, ProcessFacts DEF OpenRows, TypeOK
  <2> DEFINE last == {i \in DOMAIN links : links[i].open /\ links[i].room \notin proc[p].list}
  <2>2. UNCHANGED <<links, raced>> /\ proc' = [proc EXCEPT ![p] = proc'[p]]
        /\ proc'[p] = Listing(proc[p].list, TRUE, last)
    BY <1>3 DEF OpenRows, TypeOK
  <2>3. last \subseteq DOMAIN links' /\ proc[p].list \subseteq Rooms
    BY <2>1, <2>2 DEF Fetcheds
  <2> HIDE DEF last
  <2>4. proc'[p] \in Process'
    BY <2>2, <2>3 DEF Process, After, Listing
  <2> QED BY <1>0, <1>1, <2>2, <2>4, GoTypes DEF TypeOK
<1>4. CASE ListNext(p)
  <2>1. proc[p] \in Lists
    BY <1>4, ProcessFacts DEF ListNext, TypeOK
  <2>2. PICK room \in proc[p].todo :
          LET rest == Listing(proc[p].todo \ {room}, proc[p].full, proc[p].last)
          IN  /\ proc' = [proc EXCEPT ![p] =
                   [pc |-> "save", link |-> Ensured(room), write |-> Opened(Ensured(room).read),
                    next |-> IF proc[p].full THEN [pc |-> "ask", room |-> room, next |-> rest] ELSE rest]]
              /\ raced' = raced \cup Overlap(p, room)
    BY <1>4 DEF ListNext
  <2> DEFINE rest == Listing(proc[p].todo \ {room}, proc[p].full, proc[p].last)
             then == IF proc[p].full THEN [pc |-> "ask", room |-> room, next |-> rest] ELSE rest
             w == Opened(Ensured(room).read)
  <2>3. room \in Rooms /\ links' = links
    BY <1>4, <2>1 DEF Lists, ListNext
  <2>4. rest \in Lists
    BY <2>1 DEF Lists, Listing
  <2>5. then \in After
    <3> HIDE DEF rest
    <3> QED BY <2>3, <2>4, ProcessSets DEF Asks
  <2>6. Ensured(room) \in Link /\ w \in Row
    <3>1. Ensured(room) \in Link
      BY <2>3, EnsuredType
    <3>2. Ensured(room).read \in Row
      BY <3>1 DEF Link
    <3> QED BY <3>1, <3>2 DEF Opened, Row
  <2>7. proc' = [proc EXCEPT ![p] = proc'[p]]
        /\ proc'[p] = [pc |-> "save", link |-> Ensured(room), write |-> w, next |-> then]
    BY <2>2 DEF TypeOK
  <2> HIDE DEF w, then
  <2>8. proc'[p] \in Saves
    BY <2>5, <2>6, <2>7 DEF Saves
  <2>9. proc'[p] \in Process'
    BY <1>0, <1>1, <2>3, <2>8, ProcessGrows, ProcessSets
  <2>10. raced' \subseteq Rooms \cup Logs \cup Owners
    BY <2>2, <2>3 DEF Overlap, TypeOK
  <2> QED BY <1>0, <1>1, <2>3, <2>7, <2>9, <2>10, GoTypes DEF TypeOK
<1>5. CASE ListClose(p)
  <2>1. proc[p] \in Lists
    BY <1>5, ProcessFacts DEF ListClose, TypeOK
  <2>2. PICK i \in proc[p].last :
          links' = [links EXCEPT ![i].open = FALSE] /\ proc' = [proc EXCEPT ![p].last = @ \ {i}]
    BY <1>5 DEF ListClose
  <2>3. i \in DOMAIN links
    BY <2>1 DEF Lists
  <2>4. [links[i] EXCEPT !.open = FALSE] \in Row
    BY <2>3, LinksFacts DEF Row
  <2>5. links' = [links EXCEPT ![i] = [links[i] EXCEPT !.open = FALSE]]
    BY <2>2
  <2>6. links' \in Seq(Row) /\ DOMAIN links' = DOMAIN links
    BY <1>0, <2>3, <2>4, <2>5, ExceptSeq
  <2>7. proc' = [proc EXCEPT ![p] = proc'[p]] /\ proc'[p] = [proc[p] EXCEPT !.last = @ \ {i}]
    BY <2>2 DEF TypeOK
  <2>8. proc'[p] \in Lists
    BY <2>1, <2>7 DEF Lists
  <2>9. proc'[p] \in Process'
    BY <1>0, <1>1, <2>6, <2>8, ProcessGrows, ProcessSets
  <2>10. raced' = raced
    BY <1>5 DEF ListClose
  <2> QED BY <1>0, <1>1, <2>6, <2>7, <2>9, <2>10, GoTypes DEF TypeOK
<1>6. CASE ListEnds(p)
  <2>1. UNCHANGED <<links, raced>> /\ proc' = [proc EXCEPT ![p] = proc'[p]] /\ proc'[p] = Done
    BY <1>6 DEF ListEnds, TypeOK
  <2>2. proc'[p] \in Process'
    BY <2>1 DEF Process, After
  <2> QED BY <1>0, <1>1, <2>1, <2>2, GoTypes DEF TypeOK
<1> QED BY <1>2, <1>3, <1>4, <1>5, <1>6

\* The state of a room, and closing one
LEMMA OpenFlag ==
  ASSUME TypeOK, NEW i \in DOMAIN links, NEW o \in BOOLEAN, links' = [links EXCEPT ![i].open = o]
  PROVE  /\ links' \in Seq(Row) /\ DOMAIN links' = DOMAIN links
         /\ \A k \in DOMAIN links : links'[k].room = links[k].room /\ links'[k].my = links[k].my
<1>1. [links[i] EXCEPT !.open = o] \in Row
  BY LinksFacts DEF Row
<1>2. links' = [links EXCEPT ![i] = [links[i] EXCEPT !.open = o]]
  OBVIOUS
<1>3. links' \in Seq(Row) /\ DOMAIN links' = DOMAIN links
  BY <1>1, <1>2, LinksFacts, ExceptSeq
<1>4. \A k \in DOMAIN links : links'[k] = IF k = i THEN [links[i] EXCEPT !.open = o] ELSE links[k]
  BY <1>2
<1>5. \A k \in DOMAIN links : links'[k].room = links[k].room /\ links'[k].my = links[k].my
  BY <1>4, LinksFacts DEF Row
<1> QED BY <1>3, <1>5

LEMMA StatusTypes ==
  ASSUME TypeOK, NEW p \in Processes,
         (\E room \in Rooms : StatusBegin(p, room)) \/ StatusAsk(p) \/ StatusSet(p)
  PROVE  TypeOK'
<1>0. links \in Seq(Row) /\ opened \subseteq Rooms
  BY DEF TypeOK
<1>1. UNCHANGED <<joins, codes, opened, calls, raced, stale, faults>>
  BY DEF StatusBegin, StatusAsk, StatusSet
<1>2. ASSUME NEW room \in Rooms, StatusBegin(p, room) PROVE TypeOK'
  <2>1. links' = links /\ proc' = [proc EXCEPT ![p] = proc'[p]]
        /\ proc'[p] = [pc |-> "ask", room |-> room, next |-> Done]
    BY <1>2 DEF StatusBegin, TypeOK
  <2>2. proc'[p] \in Asks
    BY <2>1 DEF Asks
  <2>3. proc'[p] \in Process'
    BY <1>0, <1>1, <2>1, <2>2, ProcessGrows, ProcessSets
  <2> QED BY <1>0, <1>1, <2>1, <2>3, GoTypes DEF TypeOK
<1>3. CASE StatusAsk(p)
  <2>1. proc[p] \in Asks
    BY <1>3, ProcessFacts DEF StatusAsk, TypeOK
  <2>2. links' = links /\ proc' = [proc EXCEPT ![p] = proc'[p]]
        /\ proc'[p] = [pc |-> "set", room |-> proc[p].room, open |-> proc[p].room \in opened,
                       next |-> proc[p].next]
    BY <1>3 DEF StatusAsk, TypeOK
  <2>3. proc[p].room \in Rooms /\ proc[p].next \in After
    BY <2>1, ProcessSets DEF Asks
  <2>4. (proc[p].room \in opened) \in BOOLEAN
    OBVIOUS
  <2>5. proc'[p] \in Sets
    BY <2>2, <2>3, <2>4 DEF Sets
  <2>6. proc'[p] \in Process'
    BY <1>0, <1>1, <2>2, <2>5, ProcessGrows, ProcessSets
  <2> QED BY <1>0, <1>1, <2>2, <2>6, GoTypes DEF TypeOK
<1>4. CASE StatusSet(p)
  <2>1. proc[p] \in Sets
    BY <1>4, ProcessFacts DEF StatusSet, TypeOK
  <2>2. proc' = [proc EXCEPT ![p] = proc'[p]] /\ proc'[p] = proc[p].next
    BY <1>4 DEF StatusSet, TypeOK
  <2>3. links' \in Seq(Row) /\ DOMAIN links' = DOMAIN links
    <3>1. CASE links' = links
      BY <1>0, <3>1
    <3>2. CASE links' # links
      <4>1. Ids(proc[p].room) # {} /\ links' = [links EXCEPT ![First(proc[p].room)].open = proc[p].open]
        BY <1>4, <3>2 DEF StatusSet
      <4>2. First(proc[p].room) \in DOMAIN links
        BY <4>1, FirstFact DEF Ids
      <4>3. proc[p].open \in BOOLEAN
        BY <2>1 DEF Sets
      <4> QED BY <4>1, <4>2, <4>3, OpenFlag
    <3> QED BY <3>1, <3>2
  <2>4. proc'[p] \in Process'
    <3>1. proc'[p] \in After
      BY <2>1, <2>2 DEF Sets
    <3>2. proc'[p] \in After'
      BY <1>1, <2>3, <3>1, ProcessGrows
    <3> QED BY <3>2 DEF Process
  <2> QED BY <1>0, <1>1, <2>2, <2>3, <2>4, GoTypes DEF TypeOK
<1> QED BY <1>2, <1>3, <1>4

LEMMA OverTypes ==
  ASSUME TypeOK, NEW p \in Processes,
         (\E room \in Rooms : OverRead(p, room)) \/ OverCall(p) \/ OverCommit(p) \/ Fails(p)
  PROVE  TypeOK'
<1>0. links \in Seq(Row) /\ opened \subseteq Rooms
  BY DEF TypeOK
<1>1. UNCHANGED <<joins, codes, calls, raced, stale>> /\ faults' \in Nat /\ opened' \subseteq Rooms
  BY DEF OverRead, OverCall, OverCommit, Fails, TypeOK
<1>2. ASSUME NEW room \in Rooms, OverRead(p, room) PROVE TypeOK'
  <2>1. links' = links /\ proc' = [proc EXCEPT ![p] = proc'[p]]
        /\ proc'[p] = [pc |-> "close", id |-> First(room)] /\ Ids(room) # {}
    BY <1>2 DEF OverRead, TypeOK
  <2>2. First(room) \in DOMAIN links
    BY <2>1, FirstFact DEF Ids
  <2>3. proc'[p] \in Closes
    BY <2>1, <2>2 DEF Closes
  <2>4. proc'[p] \in Process'
    BY <1>0, <1>1, <2>1, <2>3, ProcessGrows, ProcessSets
  <2> QED BY <1>0, <1>1, <2>1, <2>4, GoTypes DEF TypeOK
<1>3. CASE OverCall(p)
  <2>1. proc[p] \in Closes
    BY <1>3, ProcessFacts DEF OverCall, TypeOK
  <2>2. links' = links /\ proc' = [proc EXCEPT ![p] = proc'[p]]
        /\ (proc'[p] = Done \/ proc'[p] = [proc[p] EXCEPT !.pc = "closing"])
    BY <1>3 DEF OverCall, TypeOK
  <2>3. proc'[p] = Done \/ proc'[p] \in Closes
    BY <2>1, <2>2 DEF Closes
  <2>4. proc'[p] \in Process'
    BY <1>0, <1>1, <2>2, <2>3, ProcessGrows, ProcessSets
  <2> QED BY <1>0, <1>1, <2>2, <2>4, GoTypes DEF TypeOK
<1>4. CASE OverCommit(p)
  <2>1. proc[p] \in Closes
    BY <1>4, ProcessFacts DEF OverCommit, TypeOK
  <2>2. links' = [links EXCEPT ![proc[p].id].open = FALSE]
        /\ proc' = [proc EXCEPT ![p] = proc'[p]] /\ proc'[p] = Done
    BY <1>4 DEF OverCommit, TypeOK
  <2>3. links' \in Seq(Row) /\ DOMAIN links' = DOMAIN links
    BY <2>1, <2>2, OpenFlag DEF Closes
  <2>4. proc'[p] \in Process'
    BY <2>2 DEF Process, After
  <2> QED BY <1>0, <1>1, <2>2, <2>3, <2>4, GoTypes DEF TypeOK
<1>5. CASE Fails(p)
  <2>1. links' = links /\ proc' = [proc EXCEPT ![p] = proc'[p]] /\ proc'[p] = Done
    BY <1>5 DEF Fails, TypeOK
  <2>2. proc'[p] \in Process'
    BY <2>1 DEF Process, After
  <2> QED BY <1>0, <1>1, <2>1, <2>2, GoTypes DEF TypeOK
<1> QED BY <1>2, <1>3, <1>4, <1>5

LEMMA NextTypes == TypeOK /\ [Next]_vars => TypeOK'
<1> SUFFICES ASSUME TypeOK, [Next]_vars PROVE TypeOK'
  OBVIOUS
<1>1. CASE Outside
  BY <1>1, OutsideTyped
<1>2. ASSUME NEW p \in Processes, Begin(p) \/ Continue(p) PROVE TypeOK'
  BY <1>2, JoinTypes, CodeTypes, SaveTypes, CreateTypes, OwnerTypes, ListTypes, StatusTypes, OverTypes
     DEF Begin, Continue
<1>3. CASE UNCHANGED vars
  <2>1. links \in Seq(Row)
    BY DEF TypeOK
  <2>2. DOMAIN proc' = Processes /\ \A o \in Processes : proc'[o] \in Process'
    BY <1>3, <2>1, OutsideTypes DEF vars
  <2> QED BY <1>3, <2>2 DEF vars, TypeOK
<1> QED BY <1>1, <1>2, <1>3 DEF Next

\* The variables have their types: what a request, a callback or the command has
\* read is a row, a room or a log that exists (sync.go 125-384, api_v2.go
\* 160-216, apply_code.go).
THEOREM TypeCorrect == Spec => []TypeOK
BY InitTypes, NextTypes, PTL DEF Spec

-----------------------------------------------------------------------------
(* What makes the properties inductive.                                    *)

\* p has read joins and will open or delete them.
Deciding(p) == proc[p].pc \in {"open", "opening", "delete"}

\* p has read a link, or found none, and will save one.
Writing(p) == proc[p].pc \in {"create", "save"}

\* A join that a request has read belongs to a merchant, and has not been decided
\* since unless another request has read it too.
ReadUndecided ==
  \A p \in Processes : Deciding(p) =>
    \A l \in proc[p].logs : Owner[l] # Nobody /\ (joins[l].status = 0 \/ l \in raced)

ReadTogether ==
  \A p, q \in Processes : (p # q /\ Deciding(p) /\ Deciding(q)) => proc[p].logs \cap proc[q].logs \subseteq raced

DecidedOwned == \A l \in DOMAIN joins : joins[l].status # 0 => Owner[l] # Nobody

\* A callback for a join is sent while the request that opens it waits for the
\* commit, or later; then the join is open, or somebody interfered.
Answers(k) ==
  k.log \in Logs =>
    /\ k.code = NoCode /\ k.room = Room[k.log] /\ k.user = User[k.log]
    /\ k.log \in DOMAIN joins
    /\ joins[k.log].status = 1 \/ k.log \in Locked \/ k.log \in raced \/ faults > 0

JoinInv == ReadUndecided /\ ReadTogether /\ DecidedOwned /\ \A k \in calls : Answers(k)

\* The link that p will save is of the room it was read for; a merchant that was
\* read is written back or replaced by another.
SavesSame(p) ==
  LET q == proc[p]
  IN  /\ q.link.id # 0 => links[q.link.id].room = q.link.read.room
      /\ q.pc = "create" => q.link.read.room = q.call.room
      /\ q.pc = "save" => /\ q.write.room = q.link.read.room
                          /\ q.write.my = Nobody => q.link.read.my = Nobody

\* Two processes insert a link of a room, or one while there is a row, only if
\* they found none at a time.
InsertsAlone(p) ==
  LET room == proc[p].link.read.room
  IN  (proc[p].link.id = 0 /\ room \notin raced) => Ids(room) = {} /\ Inserting(p, room) = {}

LinkInv == LinkOnce /\ \A p \in Processes : Writing(p) => SavesSame(p) /\ InsertsAlone(p)

IndInv == TypeOK /\ JoinInv /\ LinkInv

-----------------------------------------------------------------------------
(* Joins.                                                                  *)

LEMMA DecidesFacts ==
  ASSUME TypeOK, NEW p \in Processes, Deciding(p)
  PROVE  proc[p].logs \subseteq DOMAIN joins /\ proc[p].logs \subseteq Logs
BY ProcessFacts DEF TypeOK, Deciding, Decides

\* A process that does not decide joins moves, or one that does goes on or ends,
\* or only the outside moves: statuses stay, and new calls answer.
LEMMA JoinsKept ==
  ASSUME TypeOK, JoinInv,
         DOMAIN joins \subseteq DOMAIN joins',
         \A l \in DOMAIN joins' :
           joins'[l].status = IF l \in DOMAIN joins THEN joins[l].status ELSE 0,
         raced \subseteq raced', faults > 0 => faults' > 0,
         \A p \in Processes : Deciding(p)' => Deciding(p) /\ proc'[p].logs = proc[p].logs,
         Locked \subseteq Locked' \/ faults' > 0,
         \A k \in calls' : k \in calls \/ Answers(k)'
  PROVE  JoinInv'
<1>1. ReadUndecided'
  BY DecidesFacts DEF JoinInv, ReadUndecided
<1>2. ReadTogether'
  BY DEF JoinInv, ReadTogether
<1>3. DecidedOwned'
  BY DEF JoinInv, DecidedOwned
<1>4. ASSUME NEW k \in calls' PROVE Answers(k)'
  <2>1. CASE Answers(k)'
    BY <2>1
  <2>2. CASE k \in calls
    <3>1. Answers(k)
      BY <2>2 DEF JoinInv
    <3> QED BY <3>1 DEF Answers
  <2> QED BY <1>4, <2>1, <2>2
<1> QED BY <1>1, <1>2, <1>3, <1>4 DEF JoinInv

\* A step of a process that has no joins, or an error
LEMMA OthersJoins ==
  ASSUME TypeOK, JoinInv, NEW p \in Processes, proc' = [proc EXCEPT ![p] = proc'[p]],
         ~Deciding(p)', proc[p].pc # "opening" \/ faults' > 0,
         UNCHANGED <<joins, calls>>, raced \subseteq raced', faults > 0 => faults' > 0
  PROVE  JoinInv'
<1>1. \A q \in Processes : q # p => proc'[q] = proc[q]
  BY DEF TypeOK
<1>2. \A q \in Processes : Deciding(q)' => Deciding(q) /\ proc'[q].logs = proc[q].logs
  BY <1>1 DEF Deciding
<1>3. Locked \subseteq Locked' \/ faults' > 0
  BY <1>1 DEF Locked
<1> QED BY <1>2, <1>3, JoinsKept

LEMMA ReadJoins ==
  ASSUME TypeOK, JoinInv, NEW p \in Processes, NEW my \in Merchants, NEW list \in SUBSET Logs,
         JoinsRead(p, my, list)
  PROVE  JoinInv'
<1> DEFINE mine == Pending(my, list)
<1>1. \A l \in mine : l \in DOMAIN joins /\ Owner[l] # Nobody /\ joins[l].status = 0
  BY DEF JoinsRead, Pending
<1>2. proc[p].pc = "idle" /\ \A q \in Processes : q # p => proc'[q] = proc[q]
  BY DEF JoinsRead, Idle, TypeOK
<1>3. PICK pc \in {"open", "delete"} : proc'[p] = [pc |-> pc, logs |-> mine]
  BY DEF JoinsRead, TypeOK
<1>4. UNCHANGED <<joins, calls, faults>> /\ raced' = raced \cup (mine \cap OthersLogs(p))
  BY DEF JoinsRead
<1>5. proc'[p].logs = mine /\ proc'[p].pc = pc
  BY <1>3
<1> HIDE DEF mine
<1>6. ReadUndecided'
  BY <1>1, <1>2, <1>4, <1>5 DEF JoinInv, ReadUndecided, Deciding
<1>7. ReadTogether'
  <2> SUFFICES ASSUME NEW q \in Processes, NEW o \in Processes, q # o, Deciding(q)', Deciding(o)',
                      NEW l \in proc'[q].logs \cap proc'[o].logs
               PROVE  l \in raced'
    BY DEF ReadTogether
  <2>1. CASE q # p /\ o # p
    BY <1>2, <1>4, <2>1 DEF JoinInv, ReadTogether, Deciding
  <2>2. CASE q = p
    BY <1>2, <1>4, <1>5, <2>2 DEF OthersLogs, Deciding
  <2>3. CASE o = p
    BY <1>2, <1>4, <1>5, <2>3 DEF OthersLogs, Deciding
  <2> QED BY <2>1, <2>2, <2>3
<1>8. DecidedOwned'
  BY <1>4 DEF JoinInv, DecidedOwned
<1>9. \A k \in calls' : Answers(k)'
  <2>1. Locked \subseteq Locked'
    BY <1>2 DEF Locked
  <2> QED BY <1>4, <2>1 DEF JoinInv, Answers
<1> QED BY <1>6, <1>7, <1>8, <1>9 DEF JoinInv

LEMMA CallJoins ==
  ASSUME TypeOK, JoinInv, NEW p \in Processes, OpenCall(p)
  PROVE  JoinInv'
<1>1. proc[p].pc = "open" /\ UNCHANGED <<joins, raced, faults>>
  BY DEF OpenCall
<1>2. \A q \in Processes : q # p => proc'[q] = proc[q]
  BY DEF OpenCall, TypeOK
<1>3. CASE proc' = [proc EXCEPT ![p] = Done] /\ calls' = calls
  <2>1. proc'[p] = Done /\ proc' = [proc EXCEPT ![p] = proc'[p]]
    BY <1>3 DEF TypeOK
  <2>2. ~Deciding(p)'
    BY <2>1 DEF Deciding, Done
  <2> QED BY <1>1, <1>3, <2>1, <2>2, OthersJoins
<1>4. ASSUME NEW list \in SUBSET proc[p].logs,
             calls' = calls \cup {[room |-> Room[l], user |-> User[l], code |-> NoCode, log |-> l] : l \in list},
             proc' = [proc EXCEPT ![p].pc = "opening"]
      PROVE  JoinInv'
  <2>1. proc[p] \in Decides
    BY <1>1, ProcessFacts DEF TypeOK
  <2>2. proc'[p].pc = "opening" /\ proc'[p].logs = proc[p].logs
    BY <1>4, <2>1 DEF TypeOK, Decides
  <2>3. \A q \in Processes : Deciding(q)' => Deciding(q) /\ proc'[q].logs = proc[q].logs
    BY <1>1, <1>2, <2>2 DEF Deciding
  <2>4. Locked \subseteq Locked' /\ proc[p].logs \subseteq Locked'
    BY <1>1, <1>2, <2>2 DEF Locked
  <2>5. ASSUME NEW k \in calls' PROVE k \in calls \/ Answers(k)'
    <3> SUFFICES ASSUME NEW l \in list, k = [room |-> Room[l], user |-> User[l], code |-> NoCode, log |-> l]
                 PROVE  Answers(k)'
      BY <1>4, <2>5
    <3>1. k.log = l /\ k.code = NoCode /\ k.room = Room[l] /\ k.user = User[l]
      OBVIOUS
    <3>2. l \in DOMAIN joins' /\ l \in Locked'
      BY <1>1, <2>4, DecidesFacts DEF Deciding
    <3> QED BY <3>1, <3>2 DEF Answers
  <2> QED BY <1>1, <2>3, <2>4, <2>5, JoinsKept
<1> QED BY <1>3, <1>4 DEF OpenCall

LEMMA CommitJoins ==
  ASSUME TypeOK, JoinInv, NEW p \in Processes, OpenCommit(p) \/ DeleteCommit(p)
  PROVE  /\ JoinInv'
         /\ \A l \in DOMAIN joins :
              (joins[l].status # 0 /\ joins'[l].status # joins[l].status) => l \in raced
<1> DEFINE status == IF OpenCommit(p) THEN 1 ELSE 2
<1>1. /\ Deciding(p) /\ Decide(p, status) /\ UNCHANGED <<calls, raced, faults>>
      /\ status = 1 \/ proc[p].logs \cap Locked = {}
  BY DEF OpenCommit, DeleteCommit, Deciding
<1>2. status # 0
  OBVIOUS
<1>3. proc' = [proc EXCEPT ![p] = Done]
  BY DEF OpenCommit, DeleteCommit
<1>4. proc'[p] = Done /\ \A q \in Processes : q # p => proc'[q] = proc[q]
  BY <1>3 DEF TypeOK
<1> HIDE DEF status
<1>5. /\ DOMAIN joins' = DOMAIN joins
      /\ \A l \in DOMAIN joins : joins'[l].status = IF l \in proc[p].logs THEN status ELSE joins[l].status
  BY <1>1 DEF Decide
<1>6. \A q \in Processes : Deciding(q)' => q # p /\ Deciding(q) /\ proc'[q].logs = proc[q].logs
  BY <1>4 DEF Deciding, Done
<1>7. \A l \in proc[p].logs : l \in DOMAIN joins /\ Owner[l] # Nobody /\ (joins[l].status = 0 \/ l \in raced)
  BY <1>1, DecidesFacts DEF JoinInv, ReadUndecided
<1>8. ReadUndecided'
  <2> SUFFICES ASSUME NEW q \in Processes, Deciding(q)', NEW l \in proc'[q].logs
               PROVE  Owner[l] # Nobody /\ (joins'[l].status = 0 \/ l \in raced)
    BY <1>1 DEF ReadUndecided
  <2>1. q # p /\ Deciding(q) /\ l \in proc[q].logs
    BY <1>6
  <2>2. l \in DOMAIN joins /\ Owner[l] # Nobody /\ (joins[l].status = 0 \/ l \in raced)
    BY <2>1, DecidesFacts DEF JoinInv, ReadUndecided
  <2>3. l \in proc[p].logs => l \in raced
    BY <1>1, <2>1 DEF JoinInv, ReadTogether
  <2> QED BY <1>5, <2>2, <2>3
<1>9. ReadTogether'
  BY <1>1, <1>6 DEF JoinInv, ReadTogether
<1>10. DecidedOwned'
  BY <1>5, <1>7 DEF JoinInv, DecidedOwned
<1>11. ASSUME NEW k \in calls' PROVE Answers(k)'
  <2> SUFFICES ASSUME k.log \in Logs PROVE Answers(k)'
    BY DEF Answers
  <2>1. Answers(k)
    BY <1>1 DEF JoinInv
  <2>2. Locked \subseteq Locked' \cup proc[p].logs
    BY <1>4 DEF Locked
  <2>3. CASE k.log \in proc[p].logs
    BY <1>1, <1>5, <1>7, <2>1, <2>2, <2>3 DEF Answers
  <2>4. CASE k.log \notin proc[p].logs
    BY <1>1, <1>5, <2>1, <2>2, <2>4 DEF Answers
  <2> QED BY <2>3, <2>4
<1> QED BY <1>5, <1>7, <1>8, <1>9, <1>10, <1>11 DEF JoinInv

\* The steps of a process that reads no joins and decides none
Elsewhere(p) ==
  \/ \E c \in Codes : FetchRead(p, CodeOwner[c])
  \/ \E call \in calls : CreateRead(p, call)
  \/ ListBegin(p) \/ FetchList(p)
  \/ \E room \in Rooms : StatusBegin(p, room) \/ OverRead(p, room)
  \/ FetchCreate(p)
  \/ OwnerByCode(p) \/ OwnerByJoin(p) \/ Save(p)
  \/ OpenRows(p) \/ ListNext(p) \/ ListClose(p) \/ ListEnds(p)
  \/ StatusAsk(p) \/ StatusSet(p)
  \/ OverCall(p) \/ OverCommit(p)
  \/ Fails(p)

LEMMA AfterPcs == \A q \in After : q.pc \in {"done", "list", "ask"}
BY ProcessSets DEF Done, Lists, Asks

LEMMA ElsewhereFacts ==
  ASSUME TypeOK, NEW p \in Processes, Elsewhere(p)
  PROVE  /\ proc' = [proc EXCEPT ![p] = proc'[p]]
         /\ ~Deciding(p)'
         /\ proc[p].pc # "opening" \/ faults' > 0
         /\ UNCHANGED <<joins, calls>> /\ raced \subseteq raced' /\ (faults > 0 => faults' > 0)
<1>0. faults \in Nat /\ Idle.pc = "idle" /\ Done.pc = "done"
  BY DEF TypeOK, Idle, Done
<1>1. CASE \/ \E c \in Codes : FetchRead(p, CodeOwner[c])
           \/ \E call \in calls : CreateRead(p, call)
           \/ \E room \in Rooms : StatusBegin(p, room) \/ OverRead(p, room)
           \/ ListBegin(p) \/ FetchList(p)
  BY <1>0, <1>1 DEF FetchRead, CreateRead, StatusBegin, OverRead, ListBegin, FetchList, Listing,
                    TypeOK, Deciding
<1>2. CASE FetchCreate(p) \/ ListEnds(p) \/ OpenRows(p) \/ StatusAsk(p) \/ OverCommit(p) \/ Fails(p)
  BY <1>0, <1>2 DEF FetchCreate, ListEnds, OpenRows, StatusAsk, OverCommit, Fails, Listing, TypeOK, Deciding
<1>3. CASE OwnerByCode(p) \/ OwnerByJoin(p)
  BY <1>0, <1>3 DEF OwnerByCode, OwnerByJoin, Owned, TypeOK, Deciding
<1>4. CASE ListNext(p)
  BY <1>4 DEF ListNext, TypeOK, Deciding
<1>5. CASE ListClose(p) \/ OverCall(p)
  <2>1. proc[p] \in Lists \/ proc[p] \in Closes
    BY <1>5, ProcessFacts DEF ListClose, OverCall, TypeOK
  <2>2. proc' = [proc EXCEPT ![p] = proc'[p]] /\ proc'[p].pc \in {"list", "closing", "done"}
    BY <1>0, <1>5, <2>1 DEF ListClose, OverCall, TypeOK, Lists, Closes
  <2> QED BY <1>5, <2>2 DEF ListClose, OverCall, Deciding
<1>6. CASE Save(p)
  <2>1. proc'[p] \in After
    BY <1>6, SaveTypes
  <2>2. proc' = [proc EXCEPT ![p] = proc'[p]] /\ proc'[p].pc \in {"done", "list", "ask"}
    BY <1>6, <2>1, AfterPcs DEF Save, TypeOK
  <2> QED BY <1>6, <2>2 DEF Save, Deciding
<1>7. CASE StatusSet(p)
  <2>1. proc[p].next \in After
    BY <1>7, ProcessFacts DEF StatusSet, TypeOK, Sets
  <2>2. proc' = [proc EXCEPT ![p] = proc'[p]] /\ proc'[p].pc \in {"done", "list", "ask"}
    BY <1>7, <2>1, AfterPcs DEF StatusSet, TypeOK
  <2> QED BY <1>7, <2>2 DEF StatusSet, Deciding
<1> QED BY <1>1, <1>2, <1>3, <1>4, <1>5, <1>6, <1>7 DEF Elsewhere

LEMMA OutsideJoins ==
  ASSUME TypeOK, JoinInv, Outside
  PROVE  JoinInv'
<1>0. UNCHANGED <<proc, raced, faults>>
  BY DEF Outside, RobotChatJoin, JoinAges, CodeExpires, UseCode, PlatformOver
<1>1. Locked' = Locked /\ \A p \in Processes : Deciding(p)' = Deciding(p) /\ proc'[p].logs = proc[p].logs
  BY <1>0 DEF Locked, Deciding
<1>2. CASE \E list \in SUBSET Logs \ {{}} : RobotChatJoin(list)
  <2>1. /\ DOMAIN joins \subseteq DOMAIN joins' /\ calls' = calls
        /\ \A l \in DOMAIN joins' : joins'[l].status = IF l \in DOMAIN joins THEN joins[l].status ELSE 0
    BY <1>2 DEF RobotChatJoin
  <2> QED BY <1>0, <1>1, <2>1, JoinsKept
<1>3. CASE \E l \in Logs : JoinAges(l)
  <2>1. /\ DOMAIN joins' = DOMAIN joins /\ calls' = calls
        /\ \A l \in DOMAIN joins : joins'[l].status = joins[l].status
    BY <1>3 DEF JoinAges, TypeOK, Joins
  <2> QED BY <1>0, <1>1, <2>1, JoinsKept
<1>4. CASE \/ \E c \in Codes : CodeExpires(c)
           \/ \E c \in Codes, room \in Rooms, user \in Users : UseCode(c, room, user)
           \/ \E room \in Rooms : PlatformOver(room)
  <2>1. joins' = joins /\ \A k \in calls' : k \in calls \/ k.log = NoLog
    BY <1>4 DEF CodeExpires, UseCode, PlatformOver
  <2>2. \A k \in calls' : k \in calls \/ Answers(k)'
    BY <2>1, RoomOpeningAssumption DEF Answers
  <2> QED BY <1>0, <1>1, <2>1, <2>2, JoinsKept
<1> QED BY <1>2, <1>3, <1>4 DEF Outside

LEMMA NextSplit ==
  ASSUME Next
  PROVE  \/ Outside
         \/ \E p \in Processes :
              \/ \E my \in Merchants, list \in SUBSET Logs : JoinsRead(p, my, list)
              \/ OpenCall(p) \/ OpenCommit(p) \/ DeleteCommit(p)
              \/ Elsewhere(p)
BY DEF Next, Begin, Continue, Elsewhere

LEMMA InitJoins == Init => JoinInv
BY DEF Init, Idle, JoinInv, ReadUndecided, ReadTogether, DecidedOwned, Deciding

LEMMA NextJoins ==
  ASSUME TypeOK, JoinInv, [Next]_vars
  PROVE  JoinInv'
<1>1. CASE Outside
  BY <1>1, OutsideJoins
<1>2. ASSUME NEW p \in Processes, Elsewhere(p) PROVE JoinInv'
  BY <1>2, ElsewhereFacts, OthersJoins
<1>3. ASSUME NEW p \in Processes,
             \/ \E my \in Merchants, list \in SUBSET Logs : JoinsRead(p, my, list)
             \/ OpenCall(p) \/ OpenCommit(p) \/ DeleteCommit(p)
      PROVE  JoinInv'
  BY <1>3, ReadJoins, CallJoins, CommitJoins
<1>4. CASE UNCHANGED vars
  BY <1>4 DEF vars, JoinInv, ReadUndecided, ReadTogether, DecidedOwned, Deciding, Answers, Locked
<1> QED BY <1>1, <1>2, <1>3, <1>4, NextSplit

LEMMA JoinsHold == Spec => [](TypeOK /\ JoinInv)
BY InitTypes, NextTypes, InitJoins, NextJoins, PTL DEF Spec

\* What takes a create callback from the reading of the link to its saving
LEMMA OwnersSteps ==
  ASSUME TypeOK, [Next]_vars, NEW p \in Processes, proc[p].pc = "create", proc'[p].pc = "save"
  PROVE  OwnerByCode(p) \/ OwnerByJoin(p)
<1>1. proc'[p] # proc[p]
  OBVIOUS
<1>2. ~Outside /\ ~UNCHANGED vars
  BY <1>1 DEF Outside, RobotChatJoin, JoinAges, CodeExpires, UseCode, PlatformOver, vars
<1>3. PICK q \in Processes : Begin(q) \/ Continue(q)
  BY <1>2 DEF Next
<1>4. q = p
  <2>1. CASE Elsewhere(q)
    BY <1>1, <2>1, ElsewhereFacts DEF TypeOK
  <2>2. CASE (\E my \in Merchants, list \in SUBSET Logs : JoinsRead(q, my, list))
             \/ OpenCall(q) \/ OpenCommit(q) \/ DeleteCommit(q)
    BY <1>1, <2>2 DEF JoinsRead, OpenCall, OpenCommit, DeleteCommit, TypeOK
  <2> QED BY <1>3, <2>1, <2>2 DEF Begin, Continue, Elsewhere
<1>5. ~Begin(p)
  <2>1. proc[p] # Idle
    BY DEF Idle
  <2> QED BY <2>1 DEF Begin, JoinsRead, FetchRead, CreateRead, ListBegin, FetchList, StatusBegin, OverRead
<1>6. ~Fails(p)
  BY DEF Fails, Done, TypeOK
<1> QED BY <1>3, <1>4, <1>5, <1>6 DEF Continue, OpenCall, OpenCommit, DeleteCommit, FetchCreate, Save,
      OpenRows, ListNext, ListClose, ListEnds, StatusAsk, StatusSet, OverCall, OverCommit

\* A join that was opened is not deleted afterwards nor the other way round,
\* unless both requests had read it before (robot_join.go 26-43).
THEOREM DecidedStays == Spec => DecidedOnce
<1>1. ASSUME TypeOK, JoinInv, [Next]_vars
      PROVE  [\A l \in DOMAIN joins :
                (joins[l].status # 0 /\ joins'[l].status # joins[l].status) => l \in raced]_vars
  <2> SUFFICES ASSUME NEW l \in DOMAIN joins, joins[l].status # 0, joins'[l].status # joins[l].status
               PROVE  l \in raced
    OBVIOUS
  <2>1. CASE Outside
    BY <1>1, <2>1 DEF Outside, RobotChatJoin, JoinAges, CodeExpires, UseCode, PlatformOver, TypeOK, Joins
  <2>2. ASSUME NEW p \in Processes, Elsewhere(p) PROVE l \in raced
    BY <1>1, <2>2, ElsewhereFacts
  <2>3. ASSUME NEW p \in Processes, OpenCommit(p) \/ DeleteCommit(p) PROVE l \in raced
    BY <1>1, <2>3, CommitJoins
  <2>4. ASSUME NEW p \in Processes,
               (\E my \in Merchants, list \in SUBSET Logs : JoinsRead(p, my, list)) \/ OpenCall(p)
        PROVE  l \in raced
    BY <2>4 DEF JoinsRead, OpenCall
  <2>5. CASE UNCHANGED vars
    BY <2>5 DEF vars
  <2> QED BY <1>1, <2>1, <2>2, <2>3, <2>4, <2>5, NextSplit
<1> QED BY <1>1, JoinsHold, PTL DEF Spec, DecidedOnce

\* A room that the platform opened for a merchant's join goes to that merchant,
\* unless the callback overtook the commit, came an hour late, met a second
\* join, or met or followed an error or a race of two requests for the join
\* (api_v2.go 198-216, sync.go 364-383).
THEOREM OpenedRoomsOwned == Spec => OpenedOwned
<1> DEFINE Right(p, l) ==
      (proc[p].pc = "create" /\ proc[p].call.log = l /\ proc'[p].pc = "save")
        => \/ proc'[p].write.my = Owner[l]
           \/ l \in Locked \/ ~joins[l].recent
           \/ Recent(proc[p].call) \ {l} # {}
           \/ l \in raced \/ faults' > 0
<1>1. ASSUME TypeOK, JoinInv, [Next]_vars
      PROVE  [\A p \in Processes : \A l \in Logs : Right(p, l)]_vars
  <2> SUFFICES ASSUME NEW p \in Processes, NEW l \in Logs,
                      proc[p].pc = "create", proc[p].call.log = l, proc'[p].pc = "save",
                      l \notin Locked, joins[l].recent, Recent(proc[p].call) \ {l} = {},
                      l \notin raced, ~(faults' > 0)
               PROVE  proc'[p].write.my = Owner[l]
    OBVIOUS
  <2> DEFINE k == proc[p].call
             read == proc[p].link.read
  <2>1. k \in calls /\ k.log = l /\ read \in Row
    BY <1>1, ProcessFacts DEF TypeOK, Creates, Link
  <2>2. OwnerByCode(p) \/ OwnerByJoin(p)
    BY <1>1, OwnersSteps
  <2>3. faults \in Nat /\ faults' \in Nat /\ faults' >= faults
    BY <1>1, <2>2 DEF OwnerByCode, OwnerByJoin, TypeOK
  <2>4. ~(faults > 0) /\ faults' = faults
    BY <2>3
  <2>5. /\ k.code = NoCode /\ k.room = Room[l] /\ k.user = User[l]
        /\ l \in DOMAIN joins /\ joins[l].status = 1
    BY <1>1, <2>1, <2>4 DEF JoinInv, Answers
  <2>6. Recent(k) = {l}
    BY <2>5 DEF Recent
  <2>7. CodeFound(k) = {}
    BY <2>5, RoomOpeningAssumption DEF CodeFound
  <2>8. JoinFound(k, read) = {[my |-> Owner[l], sub |-> read.sub]}
    BY <2>6 DEF JoinFound
  <2>9. OwnerByJoin(p)
    BY <2>2, <2>7 DEF OwnerByCode
  <2>10. Owned(p, {[my |-> Owner[l], sub |-> read.sub]})
    BY <2>3, <2>4, <2>7, <2>8, <2>9 DEF OwnerByJoin
  <2> QED BY <1>1, <2>10 DEF Owned, TypeOK
<1> QED BY <1>1, JoinsHold, PTL DEF Spec, OpenedOwned

-----------------------------------------------------------------------------
(* Links.                                                                  *)

LEMMA WritingFacts ==
  ASSUME TypeOK, NEW p \in Processes, Writing(p)
  PROVE  proc[p].link \in Link /\ proc[p].link.id \in Nat /\ (proc[p].link.id # 0 => proc[p].link.id \in DOMAIN links)
<1>1. proc[p].link \in Link
  BY ProcessFacts DEF TypeOK, Writing, Creates, Saves
<1> QED BY <1>1, LinksFacts DEF Link

\* Rooms of links stay, and a process that writes is as before or saves what the
\* caller of the lemma shows to be right.
LEMMA LinksKept ==
  ASSUME TypeOK, LinkInv, raced \subseteq raced', DOMAIN links' = DOMAIN links,
         \A i \in DOMAIN links : links'[i].room = links[i].room,
         \A q \in Processes : Writing(q)' => Writing(q) /\ proc'[q].link = proc[q].link,
         \A q \in Processes : Writing(q)' => proc'[q] = proc[q] \/ SavesSame(q)'
  PROVE  LinkInv'
<1>1. LinkOnce'
  BY DEF LinkInv, LinkOnce
<1>2. ASSUME NEW q \in Processes, Writing(q)' PROVE SavesSame(q)'
  <2> SUFFICES ASSUME proc'[q] = proc[q] PROVE SavesSame(q)'
    BY <1>2
  <2>1. Writing(q) /\ SavesSame(q) /\ (proc[q].link.id # 0 => proc[q].link.id \in DOMAIN links)
    BY <1>2, WritingFacts DEF LinkInv
  <2> QED BY <2>1 DEF SavesSame
<1>3. ASSUME NEW q \in Processes, Writing(q)' PROVE InsertsAlone(q)'
  <2>1. Writing(q) /\ InsertsAlone(q) /\ proc'[q].link = proc[q].link
    BY <1>3 DEF LinkInv
  <2>2. \A room : Ids(room)' = Ids(room) /\ Inserting(q, room)' \subseteq Inserting(q, room)
    BY DEF Ids, Inserting, Writing
  <2> QED BY <2>1, <2>2 DEF InsertsAlone
<1> QED BY <1>1, <1>2, <1>3 DEF LinkInv

\* A process reads the link of a room: others that insert one have found none.
LEMMA LinkRead ==
  ASSUME TypeOK, LinkInv, NEW p \in Processes, NEW room \in Rooms,
         links' = links, raced' = raced \cup Overlap(p, room),
         \A q \in Processes : q # p => proc'[q] = proc[q],
         proc'[p].link = Ensured(room), Writing(p)', SavesSame(p)'
  PROVE  LinkInv'
<1> DEFINE e == Ensured(room)
<1>1. e.read.room = room /\ (e.id = 0 => Ids(room) = {})
  BY EnsuredType
<1> HIDE DEF e
<1>2. LinkOnce'
  BY DEF LinkInv, LinkOnce
<1>3. \A r : Ids(r)' = Ids(r)
  BY DEF Ids
<1>4. ASSUME NEW q \in Processes, q # p, Writing(q)' PROVE SavesSame(q)' /\ InsertsAlone(q)'
  <2>1. Writing(q) /\ SavesSame(q) /\ InsertsAlone(q) /\ proc'[q] = proc[q]
    BY <1>4 DEF LinkInv, Writing
  <2>2. SavesSame(q)'
    BY <2>1 DEF SavesSame
  <2> DEFINE mine == proc[q].link.read.room
  <2>3. ASSUME proc[q].link.id = 0, mine \notin raced' PROVE Inserting(q, mine)' = {}
    <3>1. Inserting(q, mine) = {} /\ Ids(mine) = {}
      BY <2>1, <2>3 DEF InsertsAlone
    <3>2. \A o \in Processes : o # p => o \notin Inserting(q, mine)'
      BY <2>1, <3>1 DEF Inserting
    <3>3. ASSUME p \in Inserting(q, mine)' PROVE FALSE
      <4>1. e.id = 0 /\ room = mine
        BY <1>1, <3>3 DEF Inserting, e
      <4>2. q \in Inserting(p, room)
        BY <1>4, <2>1, <2>3, <4>1 DEF Inserting, Writing
      <4>3. room \in raced'
        BY <3>1, <4>1, <4>2 DEF Overlap
      <4> QED BY <2>3, <4>1, <4>3
    <3> QED BY <3>2, <3>3 DEF Inserting
  <2>4. InsertsAlone(q)'
    BY <1>3, <2>1, <2>3 DEF InsertsAlone
  <2> QED BY <2>2, <2>4
<1>5. InsertsAlone(p)'
  <2>1. Inserting(p, room)' = Inserting(p, room)
    BY DEF Inserting
  <2>2. e.id = 0 /\ room \notin raced' => Inserting(p, room) = {}
    BY <1>1 DEF Overlap
  <2> QED BY <1>1, <1>3, <2>1, <2>2 DEF InsertsAlone, e
<1> QED BY <1>2, <1>4, <1>5 DEF LinkInv

LEMMA CreateLinks ==
  ASSUME TypeOK, LinkInv, NEW p \in Processes, NEW call \in calls, CreateRead(p, call)
  PROVE  LinkInv'
<1>1. call.room \in Rooms
  BY DEF TypeOK, Call
<1> DEFINE e == Ensured(call.room)
<1>2. proc'[p] = [pc |-> "create", call |-> call, link |-> e]
      /\ \A q \in Processes : q # p => proc'[q] = proc[q]
  BY DEF CreateRead, TypeOK
<1>3. links' = links /\ raced' = raced \cup Overlap(p, call.room)
  BY DEF CreateRead
<1>4. e.read.room = call.room /\ (e.id # 0 => links[e.id] = e.read)
  BY <1>1, EnsuredType
<1> HIDE DEF e
<1>5. SavesSame(p)' /\ Writing(p)'
  BY <1>2, <1>3, <1>4 DEF SavesSame, Writing
<1> QED BY <1>1, <1>2, <1>3, <1>5, LinkRead DEF e

LEMMA ListLinks ==
  ASSUME TypeOK, LinkInv, NEW p \in Processes, ListNext(p)
  PROVE  LinkInv'
<1>1. proc[p] \in Lists
  BY ProcessFacts DEF ListNext, TypeOK
<1>2. PICK room \in proc[p].todo, next \in {proc'[p].next} :
        /\ proc' = [proc EXCEPT ![p] = [pc |-> "save", link |-> Ensured(room),
                                        write |-> Opened(Ensured(room).read), next |-> next]]
        /\ raced' = raced \cup Overlap(p, room)
  BY DEF ListNext, TypeOK
<1> DEFINE e == Ensured(room)
<1>3. room \in Rooms /\ links' = links
  BY <1>1 DEF Lists, ListNext
<1>4. e \in Link /\ e.read.room = room /\ (e.id # 0 => links[e.id] = e.read)
  BY <1>3, EnsuredType
<1>5. Opened(e.read).room = e.read.room /\ Opened(e.read).my = e.read.my
  BY <1>4 DEF Opened, Link, Row
<1>6. proc'[p] = [pc |-> "save", link |-> e, write |-> Opened(e.read), next |-> next]
      /\ \A q \in Processes : q # p => proc'[q] = proc[q]
  BY <1>2 DEF TypeOK
<1> HIDE DEF e
<1>7. SavesSame(p)' /\ Writing(p)'
  BY <1>3, <1>4, <1>5, <1>6 DEF SavesSame, Writing
<1> QED BY <1>2, <1>3, <1>6, <1>7, LinkRead DEF e

\* The owner is a merchant, or the one that was read.
LEMMA OwnerLinks ==
  ASSUME TypeOK, JoinInv, LinkInv, NEW p \in Processes, OwnerByCode(p) \/ OwnerByJoin(p)
  PROVE  LinkInv'
<1>1. proc[p].pc = "create" /\ UNCHANGED <<links, raced>>
  BY DEF OwnerByCode, OwnerByJoin
<1>2. proc[p].call \in calls /\ proc[p].link.read \in Row
  BY <1>1, ProcessFacts DEF TypeOK, Creates, Link
<1> DEFINE read == proc[p].link.read
<1>3. PICK o \in CodeFound(proc[p].call) \cup JoinFound(proc[p].call, read) \cup {Kept(read)} :
        proc' = [proc EXCEPT ![p] =
          [pc |-> "save", link |-> proc[p].link, next |-> Done,
           write |-> [room |-> proc[p].call.room, my |-> o.my, sub |-> o.sub, open |-> TRUE]]]
  BY DEF OwnerByCode, OwnerByJoin, Owned
<1>4. o.my = Nobody => read.my = Nobody
  <2>1. \A l \in Recent(proc[p].call) : Owner[l] # Nobody
    BY DEF Recent, JoinInv, DecidedOwned
  <2> QED BY <2>1, RoomOpeningAssumption DEF CodeFound, JoinFound, Kept
<1>5. Writing(p) /\ SavesSame(p)
  BY <1>1 DEF Writing, LinkInv
<1>6. /\ proc'[p].link = proc[p].link /\ proc'[p].pc = "save"
      /\ proc'[p].write.room = proc[p].call.room /\ proc'[p].write.my = o.my
      /\ \A q \in Processes : q # p => proc'[q] = proc[q]
  BY <1>3 DEF TypeOK
<1>7. SavesSame(p)'
  BY <1>1, <1>4, <1>5, <1>6 DEF SavesSame
<1>8. \A q \in Processes : Writing(q)' => Writing(q) /\ proc'[q].link = proc[q].link
  BY <1>5, <1>6 DEF Writing
<1> QED BY <1>1, <1>6, <1>7, <1>8, LinksKept

LEMMA SaveLinks ==
  ASSUME TypeOK, LinkInv, NEW p \in Processes, Save(p)
  PROVE  LinkInv'
<1> DEFINE link == proc[p].link
           w == proc[p].write
<1>1. proc[p].pc = "save" /\ Writing(p) /\ raced' = raced
  BY DEF Save, Writing
<1>2. w \in Row /\ link \in Link /\ w.room = link.read.room /\ SavesSame(p) /\ InsertsAlone(p)
  BY <1>1, ProcessFacts DEF TypeOK, Saves, LinkInv, SavesSame
<1>3. proc'[p] \in After /\ \A q \in Processes : q # p => proc'[q] = proc[q]
  BY SaveTypes DEF Save, TypeOK
<1>4. \A q \in Processes : Writing(q)' => q # p /\ Writing(q) /\ proc'[q] = proc[q]
  BY <1>3, AfterPcs DEF Writing
<1>5. CASE link.id # 0
  <2>1. links' = [links EXCEPT ![link.id] = w] /\ link.id \in DOMAIN links
    BY <1>1, <1>5, WritingFacts DEF Save
  <2>2. links[link.id].room = w.room
    BY <1>2, <1>5 DEF SavesSame
  <2>3. DOMAIN links' = DOMAIN links /\ \A i \in DOMAIN links : links'[i].room = links[i].room
    BY <2>1, <2>2
  <2> QED BY <1>1, <1>4, <2>3, LinksKept
<1>6. CASE link.id = 0
  <2> DEFINE n == Len(links) + 1
  <2>1. links' = Append(links, w)
    BY <1>6 DEF Save
  <2>2. /\ n \notin DOMAIN links /\ n # 0 /\ DOMAIN links' = DOMAIN links \cup {n}
        /\ links'[n] = w /\ \A i \in DOMAIN links : links'[i] = links[i]
    BY <1>2, <2>1, LinksFacts, AppendProperties
  <2> HIDE DEF n
  <2>3. w.room \notin raced => Ids(w.room) = {} /\ Inserting(p, w.room) = {}
    BY <1>2, <1>6 DEF InsertsAlone
  <2>4. LinkOnce'
    <3> SUFFICES ASSUME NEW i \in DOMAIN links', NEW j \in DOMAIN links', i # j,
                        links'[i].room = links'[j].room, links'[i].room \notin raced
                 PROVE  FALSE
      BY <1>1 DEF LinkOnce
    <3>1. CASE i # n /\ j # n
      BY <2>2, <3>1 DEF LinkInv, LinkOnce
    <3>2. CASE i = n \/ j = n
      <4>1. PICK k \in DOMAIN links : links[k].room = w.room
        BY <2>2, <3>2
      <4>2. w.room \notin raced
        BY <2>2, <3>2
      <4> QED BY <2>3, <4>1, <4>2 DEF Ids
    <3> QED BY <3>1, <3>2
  <2>5. ASSUME NEW q \in Processes, Writing(q)' PROVE SavesSame(q)' /\ InsertsAlone(q)'
    <3>1. q # p /\ Writing(q) /\ proc'[q] = proc[q] /\ SavesSame(q) /\ InsertsAlone(q)
      BY <1>4, <2>5 DEF LinkInv
    <3>2. SavesSame(q)'
      BY <2>2, <3>1, WritingFacts DEF SavesSame
    <3> DEFINE room == proc[q].link.read.room
    <3>3. ASSUME proc[q].link.id = 0, room \notin raced PROVE Ids(room)' = {} /\ Inserting(q, room)' = {}
      <4>1. Ids(room) = {} /\ Inserting(q, room) = {}
        BY <3>1, <3>3 DEF InsertsAlone
      <4>2. room # w.room
        <5>1. p \in Inserting(q, room) \/ room # link.read.room
          BY <1>1, <1>6, <3>1 DEF Inserting
        <5> QED BY <1>2, <4>1, <5>1
      <4>3. Ids(room)' = {}
        BY <2>2, <3>1, <4>1, <4>2 DEF Ids
      <4>4. Inserting(q, room)' \subseteq Inserting(q, room)
        BY <1>4, <3>1 DEF Inserting, Writing
      <4> QED BY <4>1, <4>3, <4>4
    <3>4. InsertsAlone(q)'
      BY <1>1, <3>1, <3>3 DEF InsertsAlone
    <3> QED BY <3>2, <3>4
  <2> QED BY <2>4, <2>5 DEF LinkInv
<1> QED BY <1>5, <1>6

\* Steps that read and save no link: rows stay, at most one is opened or closed.
Flags(p) ==
  \/ \E c \in Codes : FetchRead(p, CodeOwner[c])
  \/ ListBegin(p) \/ FetchList(p)
  \/ \E room \in Rooms : StatusBegin(p, room) \/ OverRead(p, room)
  \/ FetchCreate(p)
  \/ OpenRows(p) \/ ListClose(p) \/ ListEnds(p)
  \/ StatusAsk(p) \/ StatusSet(p)
  \/ OverCall(p) \/ OverCommit(p)
  \/ Fails(p)

LEMMA FlagsFacts ==
  ASSUME TypeOK, NEW p \in Processes, Flags(p)
  PROVE  /\ \A q \in Processes : q # p => proc'[q] = proc[q]
         /\ ~Writing(p)' /\ raced \subseteq raced'
         /\ DOMAIN links' = DOMAIN links
         /\ \A i \in DOMAIN links : links'[i].room = links[i].room /\ links'[i].my = links[i].my
<1>0. Elsewhere(p)
  BY DEF Flags, Elsewhere
<1>1. raced \subseteq raced' /\ \A q \in Processes : q # p => proc'[q] = proc[q]
  BY <1>0, ElsewhereFacts DEF TypeOK
<1>2. DOMAIN links' = DOMAIN links /\ \A i \in DOMAIN links : links'[i].room = links[i].room /\ links'[i].my = links[i].my
  <2>1. CASE links' = links
    BY <2>1
  <2>2. CASE links' # links
    <3>1. PICK i \in DOMAIN links, o \in BOOLEAN : links' = [links EXCEPT ![i].open = o]
      <4>1. CASE ListClose(p)
        BY <4>1, ProcessFacts DEF ListClose, TypeOK, Lists
      <4>2. CASE StatusSet(p)
        <5>1. Ids(proc[p].room) # {} /\ links' = [links EXCEPT ![First(proc[p].room)].open = proc[p].open]
          BY <2>2, <4>2 DEF StatusSet
        <5>2. First(proc[p].room) \in DOMAIN links
          BY <5>1, FirstFact DEF Ids
        <5>3. proc[p].open \in BOOLEAN
          BY <4>2, ProcessFacts DEF StatusSet, TypeOK, Sets
        <5> QED BY <5>1, <5>2, <5>3
      <4>3. CASE OverCommit(p)
        BY <4>3, ProcessFacts DEF OverCommit, TypeOK, Closes
      <4> QED BY <2>2, <4>1, <4>2, <4>3 DEF Flags, FetchRead, ListBegin, FetchList, StatusBegin, OverRead,
                FetchCreate, OpenRows, ListEnds, StatusAsk, OverCall, Fails
    <3> QED BY <3>1, OpenFlag
  <2> QED BY <2>1, <2>2
<1>3. ~Writing(p)'
  <2>0. Done.pc = "done"
    BY DEF Done
  <2>1. CASE ListClose(p) \/ OverCall(p)
    <3>1. proc[p] \in Lists \/ proc[p] \in Closes
      BY <2>1, ProcessFacts DEF ListClose, OverCall, TypeOK
    <3>2. proc'[p].pc \in {"list", "closing", "done"}
      BY <2>0, <2>1, <3>1 DEF ListClose, OverCall, TypeOK, Lists, Closes
    <3> QED BY <3>2 DEF Writing
  <2>2. CASE StatusSet(p)
    <3>1. proc[p].next \in After
      BY <2>2, ProcessFacts DEF StatusSet, TypeOK, Sets
    <3>2. proc'[p].pc \in {"done", "list", "ask"}
      BY <2>2, <3>1, AfterPcs DEF StatusSet, TypeOK
    <3> QED BY <3>2 DEF Writing
  <2> QED BY <2>0, <2>1, <2>2 DEF Flags, FetchRead, ListBegin, FetchList, StatusBegin, OverRead, FetchCreate,
            OpenRows, ListEnds, StatusAsk, OverCommit, Fails, Listing, TypeOK, Writing
<1> QED BY <1>1, <1>2, <1>3

LEMMA InitLinks == Init => LinkInv
BY DEF Init, Idle, LinkInv, LinkOnce, Writing

LEMMA NextLinks ==
  ASSUME TypeOK, JoinInv, LinkInv, [Next]_vars
  PROVE  LinkInv'
<1>1. CASE Outside \/ UNCHANGED vars
  <2>1. UNCHANGED <<links, proc, raced>>
    BY <1>1 DEF Outside, RobotChatJoin, JoinAges, CodeExpires, UseCode, PlatformOver, vars
  <2>2. \A q \in Processes : Writing(q)' => Writing(q) /\ proc'[q] = proc[q]
    BY <2>1 DEF Writing
  <2> QED BY <2>1, <2>2, LinksKept
<1>2. ASSUME NEW p \in Processes,
             \/ \E my \in Merchants, list \in SUBSET Logs : JoinsRead(p, my, list)
             \/ OpenCall(p) \/ OpenCommit(p) \/ DeleteCommit(p)
      PROVE  LinkInv'
  <2>1. links' = links /\ raced \subseteq raced' /\ \A q \in Processes : q # p => proc'[q] = proc[q]
    BY <1>2 DEF JoinsRead, OpenCall, OpenCommit, DeleteCommit, TypeOK
  <2>2. proc[p].pc = "open" => proc[p] \in Decides
    BY ProcessFacts DEF TypeOK
  <2>3. ~Writing(p)'
    BY <1>2, <2>2 DEF JoinsRead, OpenCall, OpenCommit, DeleteCommit, TypeOK, Writing, Done, Decides
  <2>4. \A q \in Processes : Writing(q)' => Writing(q) /\ proc'[q] = proc[q]
    BY <2>1, <2>3 DEF Writing
  <2> QED BY <2>1, <2>4, LinksKept
<1>3. ASSUME NEW p \in Processes, Flags(p) PROVE LinkInv'
  <2>1. \A q \in Processes : Writing(q)' => Writing(q) /\ proc'[q] = proc[q]
    BY <1>3, FlagsFacts DEF Writing
  <2> QED BY <1>3, <2>1, FlagsFacts, LinksKept
<1>4. ASSUME NEW p \in Processes, \/ \E call \in calls : CreateRead(p, call)
                                  \/ OwnerByCode(p) \/ OwnerByJoin(p) \/ Save(p) \/ ListNext(p)
      PROVE  LinkInv'
  BY <1>4, CreateLinks, OwnerLinks, SaveLinks, ListLinks
<1> QED BY <1>1, <1>2, <1>3, <1>4, NextSplit DEF Elsewhere, Flags

LEMMA IndInvHolds == Spec => []IndInv
<1>1. Init => IndInv
  BY InitTypes, InitJoins, InitLinks DEF IndInv
<1>2. IndInv /\ [Next]_vars => IndInv'
  BY NextTypes, NextJoins, NextLinks DEF IndInv
<1> QED BY <1>1, <1>2, PTL DEF Spec

\* A room has one link, though no unique index says so, unless two processes
\* found none at a time (chat_rooms.go 98, sync.go 133, 261, 360).
THEOREM OneLink == Spec => []LinkOnce
<1>1. IndInv => LinkOnce
  BY DEF IndInv, LinkInv
<1> QED BY <1>1, IndInvHolds, PTL

\* A merchant loses a room to nobody only when a stale copy of the link is
\* saved: neither a list of rooms nor a callback without an owner takes it away
\* (sync.go 133-140, 360-384).
THEOREM OwnersKept == Spec => OwnerKept
<1>1. ASSUME IndInv, [Next]_vars
      PROVE  [\A i \in DOMAIN links :
                (links[i].my # Nobody /\ links'[i].my = Nobody) => stale' > stale]_vars
  <2> SUFFICES ASSUME NEW i \in DOMAIN links, links[i].my # Nobody, links'[i].my = Nobody
               PROVE  stale' > stale
    OBVIOUS
  <2>0. TypeOK /\ JoinInv /\ LinkInv /\ stale \in Nat
    BY <1>1 DEF IndInv, TypeOK
  <2>1. links' # links
    OBVIOUS
  <2>2. ~Outside /\ ~UNCHANGED vars
    BY <2>1 DEF Outside, RobotChatJoin, JoinAges, CodeExpires, UseCode, PlatformOver, vars
  <2>3. PICK p \in Processes : \/ \E my \in Merchants, list \in SUBSET Logs : JoinsRead(p, my, list)
                               \/ OpenCall(p) \/ OpenCommit(p) \/ DeleteCommit(p)
                               \/ Elsewhere(p)
    BY <1>1, <2>2, NextSplit
  <2>4. Elsewhere(p)
    BY <2>1, <2>3 DEF JoinsRead, OpenCall, OpenCommit, DeleteCommit
  <2>5. ~Flags(p)
    BY <2>0, FlagsFacts
  <2>6. Save(p)
    BY <2>1, <2>4, <2>5 DEF Elsewhere, Flags, CreateRead, OwnerByCode, OwnerByJoin, ListNext
  <2> DEFINE link == proc[p].link
  <2>7. /\ Writing(p) /\ SavesSame(p) /\ proc[p].pc = "save" /\ proc[p].write \in Row
        /\ proc[p].write.my = Nobody => link.read.my = Nobody
    BY <2>0, <2>6, SaveTypes DEF Save, Writing, LinkInv, SavesSame, Saves
  <2>8. CASE link.id = 0
    <3>1. links' = Append(links, proc[p].write)
      BY <2>6, <2>8 DEF Save
    <3>2. links'[i] = links[i]
      BY <2>0, <2>7, <3>1, LinksFacts, AppendProperties
    <3> QED BY <3>2
  <2>9. CASE link.id # 0
    <3>1. /\ links' = [links EXCEPT ![link.id] = proc[p].write]
          /\ stale' = IF links[link.id] = link.read THEN stale ELSE stale + 1
      BY <2>6, <2>9 DEF Save
    <3>2. link.id = i /\ proc[p].write.my = Nobody
      BY <3>1
    <3>3. links[link.id] # link.read
      BY <2>7, <3>2
    <3> QED BY <2>0, <3>1, <3>3
  <2> QED BY <2>8, <2>9
<1> QED BY <1>1, IndInvHolds, PTL DEF Spec, OwnerKept
=============================================================================
