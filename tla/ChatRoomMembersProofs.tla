----------------------- MODULE ChatRoomMembersProofs -----------------------
(***************************************************************************)
(* What overlapping callbacks cannot do to the members of a room and to    *)
(* its row, for any number of users, processes, reports and faults.        *)
(***************************************************************************)
EXTENDS ChatRoomMembers, FiniteSetTheorems, WellFoundedInduction, TLAPS

-----------------------------------------------------------------------------
(* Types.                                                                  *)

LEMMA TableFacts ==
  ASSUME TypeOK
  PROVE  /\ Len(members) \in Nat /\ DOMAIN members = 1..Len(members)
         /\ \A i \in DOMAIN members : members[i] \in Row
BY DEF TypeOK

\* What the record of a process holds, by its pc
LEMMA ProcessFacts ==
  ASSUME NEW q \in Process
  PROVE  /\ q.pc = "members" =>
              /\ q.list \in BOOLEAN /\ q.todo \in SUBSET Users /\ q.gone \in SUBSET DOMAIN members
         /\ q.pc = "put" =>
              /\ q \in [pc : {"put"}, member : [id : 0..Len(members), read : Row], next : Updates]
              /\ q.member.id \in 0..Len(members) /\ q.member.read \in Row /\ q.next \in Updates
         /\ q.pc = "load" => q.list \in BOOLEAN /\ q.column \in Columns \cup {"count"}
         /\ q.pc \in {"count", "store"} =>
              /\ q \in [pc : {"count", "store"}, list : BOOLEAN, column : Columns \cup {"count"},
                        copy : Room]
              /\ q.list \in BOOLEAN /\ q.column \in Columns \cup {"count"} /\ q.copy \in Room
BY DEF Process, Updates, Idle, Done

\* Which records a process may have, as the table grows
LEMMA ProcessGrows ==
  ASSUME Len(members) \in Nat, Len(members') \in Nat, Len(members) <= Len(members'),
         DOMAIN members \subseteq (DOMAIN members)'
  PROVE  Process \subseteq Process' /\ Updates \subseteq Updates'
<1>1. 0..Len(members) \subseteq 0..Len(members')
  OBVIOUS
<1>2. Updates \subseteq Updates'
  BY DEF Updates
<1> QED BY <1>1, <1>2 DEF Process

\* A step that changes the record of one process
LEMMA OneProcess ==
  ASSUME TypeOK, NEW p \in Processes, NEW q \in Process', proc' = [proc EXCEPT ![p] = q],
         Process \subseteq Process'
  PROVE  /\ proc' \in [Processes -> Process']
         /\ proc'[p] = q
         /\ \A o \in Processes \ {p} : proc'[o] = proc[o]
<1>1. proc \in [Processes -> Process]
  BY DEF TypeOK
<1> QED BY <1>1

LEMMA UpdatingType ==
  ASSUME NEW list \in BOOLEAN, NEW todo \in SUBSET Users, NEW gone \in SUBSET DOMAIN members
  PROVE  Updating(list, todo, gone) \in Updates /\ Updating(list, todo, gone).pc \in {"members", "load"}
BY DEF Updating, Loading, Updates, Columns

\* Ensure finds the first row of the user, if there is one.
LEMMA EnsuredFacts ==
  ASSUME TypeOK, NEW user \in Users
  PROVE  /\ Ensured(user) \in [id : 0..Len(members), read : Row]
         /\ Ensured(user).read.user = user
         /\ Ensured(user).id = 0 <=> Ids(user) = {}
         /\ Ensured(user).id # 0 => Ensured(user).id \in Ids(user)
<1>1. CASE Ids(user) = {}
  BY <1>1, TableFacts DEF Ensured, Row
<1>2. CASE Ids(user) # {}
  <2>1. Ids(user) \subseteq Nat
    BY TableFacts DEF Ids
  <2> DEFINE Less == {ss \in Nat \X Nat : ss[1] < ss[2]}
  <2>2. IsWellFoundedOn(Less, Nat)
    BY NatLessThanWellFounded DEF OpToRel
  <2>3. PICK i \in Ids(user) : \A j \in Ids(user) : <<j, i>> \notin Less
    BY <1>2, <2>1, <2>2, WFMin
  <2>4. \A j \in Ids(user) : i <= j
    <3> SUFFICES ASSUME NEW j \in Ids(user), ~(i <= j) PROVE FALSE
      OBVIOUS
    <3>1. i \in Nat /\ j \in Nat
      BY <2>1
    <3>2. j < i
      BY <3>1
    <3>3. <<j, i>> \in Less
      BY <3>1, <3>2
    <3> QED BY <2>3, <3>3
  <2>5. First(user) \in Ids(user)
    BY <2>4 DEF First
  <2> QED BY <1>2, <2>5, TableFacts DEF Ensured, Ids
<1> QED BY <1>1, <1>2

\* A step that gives p the record q and leaves the sequence of members at least
\* as long has the types, when what it does to the other variables has.
LEMMA TypeKept ==
  ASSUME TypeOK, NEW p \in Processes, NEW q,
         members' \in Seq(Row), Len(members) <= Len(members'),
         q \in Process', proc' = [proc EXCEPT ![p] = q],
         room' \in Room, sent' \in [Users -> 0..MaxSums],
         behind' \ {p} \subseteq behind \cup Holding,
         p \in behind' => q.pc \in {"count", "store"},
         stale' \in BOOLEAN, raced' \subseteq Users, faults' \in Nat
  PROVE  TypeOK'
<1>1. /\ Len(members) \in Nat /\ DOMAIN members = 1..Len(members)
      /\ Len(members') \in Nat /\ DOMAIN members' = 1..Len(members')
  BY TableFacts
<1>2. Process \subseteq Process'
  BY <1>1, ProcessGrows
<1>3. proc' \in [Processes -> Process'] /\ proc'[p] = q /\ \A o \in Processes \ {p} : proc'[o] = proc[o]
  BY <1>2, OneProcess
<1>4. behind' \subseteq Holding'
  <2>1. Holding \ {p} \subseteq Holding' /\ behind \subseteq Holding /\ Holding \subseteq Processes
    BY <1>3 DEF Holding, TypeOK
  <2>2. p \in behind' => p \in Holding'
    BY <1>3 DEF Holding
  <2> QED BY <2>1, <2>2
<1> QED BY <1>3, <1>4 DEF TypeOK

LEMMA InitTypeOK == Init => TypeOK
<1> SUFFICES ASSUME Init PROVE TypeOK
  OBVIOUS
<1>1. members \in Seq(Row) /\ room \in Room
  BY DEF Init, Room
<1>2. sent \in [Users -> 0..MaxSums]
  BY ChatRoomMembersAssumption DEF Init
<1>3. proc \in [Processes -> Process]
  BY DEF Init, Process
<1> QED BY <1>1, <1>2, <1>3 DEF Init, TypeOK

\* The table does not change, or changes only in columns of its rows.
LEMMA MembersSame ==
  ASSUME TypeOK, members' = members
  PROVE  /\ members' \in Seq(Row) /\ Len(members) <= Len(members')
         /\ Process' = Process /\ Updates' = Updates
<1>1. Updates' = Updates
  BY DEF Updates
<1> QED BY <1>1, TableFacts DEF Process, TypeOK

LEMMA RowsMapped ==
  ASSUME TypeOK, NEW f, f = [i \in DOMAIN members |-> f[i]], \A i \in DOMAIN members : f[i] \in Row
  PROVE  f \in Seq(Row) /\ Len(f) = Len(members)
<1>1. f = [i \in 1..Len(members) |-> f[i]] /\ \A i \in 1..Len(members) : f[i] \in Row
  BY TableFacts
<1>2. f \in [1..Len(members) -> Row]
  BY <1>1
<1> QED BY <1>2, TableFacts

LEMMA BeginTypeOK ==
  ASSUME TypeOK, NEW p \in Processes, Begin(p)
  PROVE  TypeOK'
<1>1. proc[p] = Idle
  BY DEF Begin, JoinBegin, Quit, MessageSum, ListBegin, RoomBegin
<1>2. p \notin behind
  BY <1>1 DEF TypeOK, Holding, Idle
<1>3. /\ room \in Room /\ sent \in [Users -> 0..MaxSums] /\ stale \in BOOLEAN
      /\ raced \subseteq Users /\ faults \in Nat
  BY DEF TypeOK
<1>4. ASSUME NEW user \in Users, JoinBegin(p, user) PROVE TypeOK'
  <2> DEFINE q == Updating(FALSE, {user}, {})
  <2>1. q \in Updates
    BY UpdatingType
  <2>2. /\ proc' = [proc EXCEPT ![p] = q]
        /\ UNCHANGED <<members, room, sent, behind, stale, raced, faults>>
    BY <1>4 DEF JoinBegin
  <2>3. q \in Process'
    BY <2>1, <2>2, MembersSame DEF Process
  <2> HIDE DEF q
  <2> QED BY <1>2, <1>3, <2>2, <2>3, MembersSame, TypeKept
<1>5. ASSUME NEW users \in SUBSET Users, ListBegin(p, users) PROVE TypeOK'
  <2> DEFINE q == Updating(TRUE, users, {i \in Active : members[i].user \notin users})
  <2>1. q \in Updates
    BY UpdatingType DEF Active
  <2>2. /\ proc' = [proc EXCEPT ![p] = q]
        /\ UNCHANGED <<members, room, sent, behind, stale, raced, faults>>
    BY <1>5 DEF ListBegin
  <2>3. q \in Process'
    BY <2>1, <2>2, MembersSame DEF Process
  <2> HIDE DEF q
  <2> QED BY <1>2, <1>3, <2>2, <2>3, MembersSame, TypeKept
<1>6. ASSUME NEW user \in Users, Quit(p, user) PROVE TypeOK'
  <2>1. /\ members' = [i \in DOMAIN members |-> members'[i]]
        /\ \A i \in DOMAIN members : members'[i] \in Row
    BY <1>6, TableFacts DEF Quit, Row
  <2>2. members' \in Seq(Row) /\ Len(members) <= Len(members')
    BY <2>1, RowsMapped, TableFacts
  <2> DEFINE q == Loading(FALSE, "count")
  <2>3. q \in Process'
    BY DEF Loading, Process, Updates
  <2>4. /\ proc' = [proc EXCEPT ![p] = q]
        /\ UNCHANGED <<room, sent, behind, stale, raced, faults>>
    BY <1>6 DEF Quit
  <2> HIDE DEF q
  <2> QED BY <1>2, <1>3, <2>2, <2>3, <2>4, TypeKept
<1>7. ASSUME NEW user \in Users, MessageSum(p, user) PROVE TypeOK'
  <2>1. /\ members' = [i \in DOMAIN members |-> members'[i]]
        /\ \A i \in DOMAIN members : members'[i] \in Row
    BY <1>7, TableFacts DEF MessageSum, Row
  <2>2. members' \in Seq(Row) /\ Len(members) <= Len(members')
    BY <2>1, RowsMapped, TableFacts
  <2>3. sent' \in [Users -> 0..MaxSums]
    BY <1>3, <1>7, ChatRoomMembersAssumption DEF MessageSum
  <2>4. Done \in Process'
    BY DEF Process
  <2>5. proc' = [proc EXCEPT ![p] = Done] /\ UNCHANGED <<room, behind, stale, raced, faults>>
    BY <1>7 DEF MessageSum
  <2> QED BY <1>2, <1>3, <2>2, <2>3, <2>4, <2>5, TypeKept
<1>8. ASSUME RoomBegin(p) PROVE TypeOK'
  <2>1. PICK column \in {"qr", "head", "name"} : proc' = [proc EXCEPT ![p] = Loading(FALSE, column)]
    BY <1>8 DEF RoomBegin
  <2> DEFINE q == Loading(FALSE, column)
  <2>2. q \in Process'
    BY DEF Loading, Process, Updates, Columns
  <2>3. UNCHANGED <<members, room, sent, behind, stale, raced, faults>>
    BY <1>8 DEF RoomBegin
  <2> HIDE DEF q
  <2> QED BY <1>2, <1>3, <2>1, <2>2, <2>3, MembersSame, TypeKept DEF q
<1> QED BY <1>4, <1>5, <1>6, <1>7, <1>8 DEF Begin

\* What p saves, and what it does next
LEMMA RoomFacts ==
  ASSUME TypeOK, NEW p \in Processes, proc[p].pc \in {"count", "store"}
  PROVE  /\ Filled(p) \in Room /\ RoomNext(p) \in Process
         /\ RoomNext(p).pc \in {"done", "count", "load"}
         /\ RoomNext(p).pc = "count" =>
              /\ proc[p].column = "id" /\ RoomNext(p).copy = Filled(p) /\ RoomNext(p).column = "count"
<1>1. proc[p] \in Process
  BY DEF TypeOK
<1>2. /\ proc[p].list \in BOOLEAN /\ proc[p].column \in Columns \cup {"count"}
      /\ proc[p].copy \in Room
  BY <1>1, ProcessFacts
<1>3. Filled(p) \in Room
  BY <1>2 DEF Filled, Room
<1>4. Loading(TRUE, "head") \in Process
  BY DEF Loading, Process, Updates, Columns
<1>5. [pc |-> "count", list |-> TRUE, column |-> "count", copy |-> Filled(p)] \in Process
  BY <1>3 DEF Process
<1>6. CASE RoomNext(p) = Done
  BY <1>3, <1>6 DEF Done, Process
<1>7. CASE RoomNext(p) = Loading(TRUE, "head")
  BY <1>3, <1>4, <1>7 DEF Loading
<1>8. CASE /\ proc[p].column = "id"
           /\ RoomNext(p) = [pc |-> "count", list |-> TRUE, column |-> "count", copy |-> Filled(p)]
  BY <1>3, <1>5, <1>8
<1> QED BY <1>6, <1>7, <1>8 DEF RoomNext

LEMMA ContinueTypeOK ==
  ASSUME TypeOK, NEW p \in Processes, Continue(p)
  PROVE  TypeOK'
<1>1. /\ room \in Room /\ sent \in [Users -> 0..MaxSums] /\ stale \in BOOLEAN
      /\ raced \subseteq Users /\ faults \in Nat /\ behind \subseteq Holding
      /\ proc[p] \in Process
  BY DEF TypeOK
<1>2. p \in behind => proc[p].pc \in {"count", "store"}
  BY <1>1 DEF Holding
<1>3. ASSUME MemberRead(p) PROVE TypeOK'
  <2>1. PICK user \in proc[p].todo :
          /\ proc' = [proc EXCEPT ![p] =
               [pc |-> "put", member |-> Ensured(user),
                next |-> Updating(proc[p].list, proc[p].todo \ {user}, proc[p].gone)]]
          /\ raced' = IF Ids(user) = {} /\ Inserting(p, user) # {} THEN raced \cup {user} ELSE raced
    BY <1>3 DEF MemberRead
  <2>2. /\ proc[p].pc = "members" /\ proc[p].list \in BOOLEAN /\ proc[p].todo \in SUBSET Users
        /\ proc[p].gone \in SUBSET DOMAIN members
    BY <1>1, <1>3, ProcessFacts DEF MemberRead
  <2> DEFINE q == [pc |-> "put", member |-> Ensured(user),
                   next |-> Updating(proc[p].list, proc[p].todo \ {user}, proc[p].gone)]
  <2>3. UNCHANGED <<members, room, sent, behind, stale, faults>>
    BY <1>3 DEF MemberRead
  <2>4. q \in Process'
    <3>1. Updating(proc[p].list, proc[p].todo \ {user}, proc[p].gone) \in Updates
      BY <2>2, UpdatingType
    <3>2. Ensured(user) \in [id : 0..Len(members), read : Row]
      BY <2>1, <2>2, EnsuredFacts
    <3>3. q \in Process
      BY <3>1, <3>2 DEF Process
    <3> QED BY <3>3, <2>3, MembersSame
  <2>5. raced' \subseteq Users /\ p \notin behind
    BY <1>1, <1>2, <2>1, <2>2
  <2> HIDE DEF q
  <2> QED BY <1>1, <2>1, <2>3, <2>4, <2>5, MembersSame, TypeKept DEF q
<1>4. ASSUME MemberSave(p) PROVE TypeOK'
  <2>1. /\ proc[p].pc = "put" /\ proc[p].member.id \in 0..Len(members)
        /\ proc[p].member.read \in Row /\ proc[p].next \in Updates
    BY <1>1, <1>4, ProcessFacts DEF MemberSave
  <2>2. Joined(proc[p].member.read) \in Row
    BY <2>1 DEF Joined, Row
  <2>3. members' \in Seq(Row) /\ Len(members) <= Len(members')
    <3>1. CASE proc[p].member.id = 0
      BY <1>4, <2>2, <3>1, TableFacts DEF MemberSave, TypeOK
    <3>2. CASE proc[p].member.id # 0
      <4>1. /\ members' = [i \in DOMAIN members |-> members'[i]]
            /\ \A i \in DOMAIN members : members'[i] \in Row
        BY <1>4, <2>2, <3>2, TableFacts DEF MemberSave
      <4> QED BY <4>1, RowsMapped, TableFacts
    <3> QED BY <3>1, <3>2
  <2>4. proc[p].next \in Process'
    BY <2>1, <2>3, TableFacts, ProcessGrows DEF Process
  <2>5. /\ proc' = [proc EXCEPT ![p] = proc[p].next]
        /\ UNCHANGED <<room, sent, behind, stale, raced, faults>>
    BY <1>4 DEF MemberSave
  <2>6. p \notin behind
    BY <1>2, <2>1
  <2> QED BY <1>1, <2>3, <2>4, <2>5, <2>6, TypeKept
<1>5. ASSUME Unactive(p) PROVE TypeOK'
  <2>1. PICK i \in proc[p].gone :
          /\ members' = [members EXCEPT ![i].active = FALSE]
          /\ proc' = [proc EXCEPT ![p] = Updating(proc[p].list, {}, proc[p].gone \ {i})]
    BY <1>5 DEF Unactive
  <2>2. /\ proc[p].pc = "members" /\ proc[p].list \in BOOLEAN /\ proc[p].gone \in SUBSET DOMAIN members
    BY <1>1, <1>5, ProcessFacts DEF Unactive
  <2>3. members' \in Seq(Row) /\ Len(members) <= Len(members')
    <3>1. /\ members' = [j \in DOMAIN members |-> members'[j]]
          /\ \A j \in DOMAIN members : members'[j] \in Row
      BY <2>1, <2>2, TableFacts DEF Row
    <3> QED BY <3>1, RowsMapped, TableFacts
  <2> DEFINE q == Updating(proc[p].list, {}, proc[p].gone \ {i})
  <2>4. q \in Process'
    BY <2>2, <2>3, UpdatingType, TableFacts, ProcessGrows DEF Process
  <2>5. UNCHANGED <<room, sent, behind, stale, raced, faults>> /\ p \notin behind
    BY <1>2, <1>5, <2>2 DEF Unactive
  <2> HIDE DEF q
  <2> QED BY <1>1, <2>1, <2>3, <2>4, <2>5, TypeKept DEF q
<1>6. ASSUME RoomRead(p) PROVE TypeOK'
  <2> DEFINE q == [pc |-> IF proc[p].column = "count" THEN "count" ELSE "store",
                   list |-> proc[p].list, column |-> proc[p].column, copy |-> room]
  <2>1. /\ proc' = [proc EXCEPT ![p] = q]
        /\ UNCHANGED <<members, room, sent, behind, stale, raced, faults>>
    BY <1>6 DEF RoomRead
  <2>2. q \in Process'
    <3>1. proc[p].list \in BOOLEAN /\ proc[p].column \in Columns \cup {"count"}
      BY <1>1, <1>6, ProcessFacts DEF RoomRead
    <3>2. q \in Process
      BY <1>1, <3>1 DEF Process
    <3> QED BY <2>1, <3>2, MembersSame
  <2>3. q.pc \in {"count", "store"}
    OBVIOUS
  <2> HIDE DEF q
  <2> QED BY <1>1, <2>1, <2>2, <2>3, MembersSame, TypeKept
<1>7. ASSUME Count(p) PROVE TypeOK'
  <2> DEFINE q == [proc[p] EXCEPT !.pc = "store", !.copy.count = MemberCount]
  <2>1. /\ proc' = [proc EXCEPT ![p] = q]
        /\ UNCHANGED <<members, room, sent, behind, stale, raced, faults>>
    BY <1>7 DEF Count
  <2>2. MemberCount \in Nat
    <3>1. IsFiniteSet(Active)
      <4>1. Active \subseteq 1..Len(members) /\ Len(members) \in Int
        BY TableFacts DEF Active
      <4>2. IsFiniteSet(1..Len(members))
        BY <4>1, FS_Interval
      <4> QED BY <4>1, <4>2, FS_Subset
    <3> QED BY <3>1, FS_CardinalityType DEF MemberCount
  <2>3. q \in Process' /\ q.pc = "store"
    <3>1. /\ proc[p] \in [pc : {"count", "store"}, list : BOOLEAN, column : Columns \cup {"count"},
                          copy : Room]
      BY <1>1, <1>7, ProcessFacts DEF Count
    <3>2. q \in [pc : {"count", "store"}, list : BOOLEAN, column : Columns \cup {"count"},
                 copy : Room] /\ q.pc = "store"
      BY <2>2, <3>1 DEF Room
    <3> QED BY <2>1, <3>2, MembersSame DEF Process
  <2> HIDE DEF q
  <2> QED BY <1>1, <2>1, <2>3, MembersSame, TypeKept
<1>8. ASSUME RoomSave(p) PROVE TypeOK'
  <2>1. /\ room' = Filled(p) /\ stale' = (stale \/ p \in behind)
        /\ behind' = (behind \cup Holding) \ {p}
        /\ proc' = [proc EXCEPT ![p] = RoomNext(p)]
        /\ UNCHANGED <<members, sent, raced, faults>> /\ proc[p].pc = "store"
    BY <1>8 DEF RoomSave
  <2>2. Filled(p) \in Room /\ RoomNext(p) \in Process'
    BY <2>1, RoomFacts, MembersSame
  <2> QED BY <1>1, <2>1, <2>2, MembersSame, TypeKept
<1>9. ASSUME Fails(p) PROVE TypeOK'
  <2>1. /\ proc' = [proc EXCEPT ![p] = Done] /\ behind' = behind \ {p} /\ faults' = faults + 1
        /\ UNCHANGED <<members, room, sent, stale, raced>>
    BY <1>9 DEF Fails
  <2>2. Done \in Process' /\ faults' \in Nat /\ p \notin behind' /\ behind' \subseteq behind
    BY <1>1, <2>1 DEF Process
  <2> QED BY <1>1, <2>1, <2>2, MembersSame, TypeKept
<1>10. ASSUME Ignored(p) PROVE TypeOK'
  <2>1. /\ proc' = [proc EXCEPT ![p] = RoomNext(p)] /\ faults' = faults + 1
        /\ behind' = IF RoomNext(p).pc = "count" THEN behind ELSE behind \ {p}
        /\ UNCHANGED <<members, room, sent, stale, raced>>
    BY <1>10 DEF Ignored
  <2>2. RoomNext(p) \in Process'
    BY <1>10, <2>1, RoomFacts, MembersSame DEF Ignored, Holding
  <2>3. faults' \in Nat /\ behind' \subseteq behind /\ (p \in behind' => RoomNext(p).pc = "count")
    BY <1>1, <2>1
  <2> QED BY <1>1, <2>1, <2>2, <2>3, MembersSame, TypeKept
<1> QED BY <1>3, <1>4, <1>5, <1>6, <1>7, <1>8, <1>9, <1>10 DEF Continue

LEMMA NextTypeOK == TypeOK /\ [Next]_vars => TypeOK'
<1>1. ASSUME TypeOK, UNCHANGED vars PROVE TypeOK'
  <2>1. Process' = Process
    BY <1>1, MembersSame DEF vars
  <2>2. Holding' = Holding
    BY <1>1 DEF Holding, vars
  <2> QED BY <1>1, <2>1, <2>2 DEF TypeOK, vars
<1> QED BY <1>1, BeginTypeOK, ContinueTypeOK DEF Next

\* The tables, the copies in flight and the histories have their types, for
\* any number of users, processes, reports and faults.
THEOREM TypeCorrect == Spec => []TypeOK
BY InitTypeOK, NextTypeOK, PTL DEF Spec

-----------------------------------------------------------------------------
(* The messages of a member.                                               *)

MsgsStep ==
  \A i \in DOMAIN members :
    members'[i].msgs < members[i].msgs
      => \E p \in Processes : /\ proc[p].pc = "put" /\ proc[p].member.id = i
                              /\ proc[p].member.read.msgs < members[i].msgs

LEMMA MsgsStepHolds == TypeOK /\ [Next]_vars => MsgsStep
<1> SUFFICES ASSUME TypeOK, [Next]_vars, NEW i \in DOMAIN members,
                    members'[i].msgs < members[i].msgs
             PROVE  \E p \in Processes : /\ proc[p].pc = "put" /\ proc[p].member.id = i
                                         /\ proc[p].member.read.msgs < members[i].msgs
  BY DEF MsgsStep
<1>1. members[i] \in Row /\ members[i].msgs \in Nat
  BY TableFacts DEF Row
<1>2. members' # members
  BY <1>1
<1>3. PICK p \in Processes : Begin(p) \/ Continue(p)
  BY <1>2 DEF Next, vars
<1>4. CASE \E user \in Users : Quit(p, user)
  BY <1>1, <1>4 DEF Quit
<1>5. CASE \E user \in Users : MessageSum(p, user)
  BY <1>1, <1>5 DEF MessageSum
<1>6. CASE Unactive(p)
  BY <1>1, <1>6 DEF Unactive
<1>7. CASE MemberSave(p)
  <2>1. /\ proc[p].pc = "put" /\ proc[p].member.id \in 0..Len(members)
        /\ proc[p].member.read \in Row
    BY <1>7, ProcessFacts DEF MemberSave, TypeOK
  <2>2. CASE proc[p].member.id = 0
    BY <1>1, <1>7, <2>2, TableFacts DEF MemberSave, TypeOK
  <2>3. CASE proc[p].member.id # 0
    BY <1>1, <1>7, <2>1, <2>3, TableFacts DEF MemberSave, Joined, Row
  <2> QED BY <2>2, <2>3
<1> QED
  BY <1>2, <1>3, <1>4, <1>5, <1>6, <1>7
  DEF Begin, Continue, JoinBegin, ListBegin, MemberRead, RoomBegin, RoomRead, Count, RoomSave,
      Fails, Ignored

\* Only a process that holds a copy of the member's row from before they were
\* counted loses messages of a member.
THEOREM MsgsLostToCopies == Spec => MsgsKept
<1>1. TypeOK /\ [Next]_vars => [MsgsStep]_vars
  BY MsgsStepHolds
<1> QED BY <1>1, TypeCorrect, PTL DEF Spec, MsgsKept, MsgsStep

-----------------------------------------------------------------------------
(* The row of the room.                                                    *)

\* A copy that is not out of date differs from the row in what its process
\* has filled in.
CopiesFresh ==
  \A p \in Holding \ behind : \A c \in Columns :
    proc[p].copy.val[c] # room.val[c] => proc[p].copy.val[c] = p

RoomInv == TypeOK /\ CopiesFresh

\* A step of p leaves the other processes where they are.
LEMMA OthersStay ==
  ASSUME TypeOK, NEW p \in Processes, Begin(p) \/ Continue(p)
  PROVE  \A o \in Processes \ {p} : proc'[o] = proc[o]
<1>1. proc \in [Processes -> Process]
  BY DEF TypeOK
<1> QED
  BY <1>1 DEF Begin, Continue, JoinBegin, Quit, MessageSum, ListBegin, RoomBegin, MemberRead,
     MemberSave, Unactive, RoomRead, Count, RoomSave, Fails, Ignored

\* What a step of p does to the row, to copies of it and to their history
LEMMA RoomSteps ==
  ASSUME TypeOK, NEW p \in Processes, Begin(p) \/ Continue(p)
  PROVE  \/ /\ UNCHANGED <<room, stale>> /\ behind \ {p} \subseteq behind'
            /\ p \notin Holding'
         \/ /\ UNCHANGED <<room, behind, stale>> /\ p \in Holding' \ behind
            /\ proc'[p].copy = room
         \/ Count(p)
         \/ RoomSave(p)
         \/ Ignored(p)
<1>1. proc \in [Processes -> Process] /\ behind \subseteq Holding
  BY DEF TypeOK
<1>2. ASSUME Begin(p) PROVE UNCHANGED <<room, stale, behind>> /\ p \notin Holding'
  <2>1. UNCHANGED <<room, stale, behind>>
    BY <1>2 DEF Begin, JoinBegin, Quit, MessageSum, ListBegin, RoomBegin
  <2>2. proc'[p].pc \in {"members", "load", "done"}
    BY <1>1, <1>2
    DEF Begin, JoinBegin, Quit, MessageSum, ListBegin, RoomBegin, Updating, Loading, Done
  <2> QED BY <2>1, <2>2 DEF Holding
<1>3. ASSUME MemberRead(p) \/ MemberSave(p) \/ Unactive(p) \/ Fails(p)
      PROVE  UNCHANGED <<room, stale>> /\ behind \ {p} \subseteq behind' /\ p \notin Holding'
  <2>1. UNCHANGED <<room, stale>> /\ behind \ {p} \subseteq behind'
    BY <1>3 DEF MemberRead, MemberSave, Unactive, Fails
  <2>2. CASE MemberRead(p)
    <3>1. PICK user \in proc[p].todo :
            proc' = [proc EXCEPT ![p] =
              [pc |-> "put", member |-> Ensured(user),
               next |-> Updating(proc[p].list, proc[p].todo \ {user}, proc[p].gone)]]
      BY <2>2 DEF MemberRead
    <3>2. proc'[p].pc = "put"
      BY <1>1, <3>1
    <3> QED BY <2>1, <3>2 DEF Holding
  <2>3. CASE MemberSave(p)
    <3>1. proc[p].next \in Updates
      BY <1>1, <2>3, ProcessFacts DEF MemberSave
    <3> QED BY <1>1, <2>1, <2>3, <3>1 DEF MemberSave, Updates, Holding
  <2>4. CASE Unactive(p)
    BY <1>1, <2>1, <2>4 DEF Unactive, Updating, Loading, Holding
  <2>5. CASE Fails(p)
    BY <1>1, <2>1, <2>5 DEF Fails, Done, Holding
  <2> QED BY <1>3, <2>2, <2>3, <2>4, <2>5
<1>4. ASSUME RoomRead(p)
      PROVE  /\ UNCHANGED <<room, behind, stale>> /\ p \in Holding' \ behind
             /\ proc'[p].copy = room
  <2>1. p \notin Holding
    BY <1>4 DEF RoomRead, Holding
  <2> QED BY <1>1, <1>4, <2>1 DEF RoomRead, Holding
<1> QED BY <1>2, <1>3, <1>4 DEF Continue

\* The columns of the copy that p saves
LEMMA FilledFacts ==
  ASSUME TypeOK, NEW p \in Processes, proc[p].pc \in {"count", "store"}, NEW c \in Columns
  PROVE  Filled(p).val[c] = IF c = proc[p].column THEN p ELSE proc[p].copy.val[c]
<1>1. proc[p].copy \in Room /\ proc[p].column \in Columns \cup {"count"}
  BY ProcessFacts DEF TypeOK
<1> QED BY <1>1 DEF Filled, Room, Columns

LEMMA FreshKept ==
  ASSUME RoomInv, NEW p \in Processes, Begin(p) \/ Continue(p)
  PROVE  CopiesFresh'
<1> SUFFICES ASSUME NEW o \in Holding' \ behind', NEW c \in Columns,
                    proc'[o].copy.val[c] # room'.val[c]
             PROVE  proc'[o].copy.val[c] = o
  BY DEF CopiesFresh
<1>1. /\ TypeOK /\ proc \in [Processes -> Process] /\ o \in Processes
      /\ \A q \in Processes \ {p} : proc'[q] = proc[q]
  BY OthersStay DEF RoomInv, TypeOK, Holding
<1>2. ASSUME o # p, room' = room, behind \ {p} \subseteq behind' PROVE proc'[o].copy.val[c] = o
  <2>1. o \in Holding \ behind /\ proc'[o] = proc[o]
    BY <1>1, <1>2 DEF Holding
  <2> QED BY <1>2, <2>1 DEF RoomInv, CopiesFresh
<1>3. CASE UNCHANGED room /\ behind \ {p} \subseteq behind' /\ p \notin Holding'
  BY <1>2, <1>3
<1>4. CASE UNCHANGED <<room, behind>> /\ proc'[p].copy = room
  BY <1>2, <1>4
<1>5. CASE Count(p)
  <2>1. UNCHANGED <<room, behind>> /\ p \in Holding
    BY <1>5 DEF Count, Holding
  <2>2. proc'[p].copy.val = proc[p].copy.val
    <3>1. /\ proc[p] \in [pc : {"count", "store"}, list : BOOLEAN,
                          column : Columns \cup {"count"}, copy : Room]
      BY <1>1, <1>5, ProcessFacts DEF Count
    <3> QED BY <1>1, <1>5, <3>1 DEF Count, Room
  <2>3. CASE o = p
    BY <2>1, <2>2, <2>3 DEF RoomInv, CopiesFresh
  <2> QED BY <1>2, <2>1, <2>3
<1>6. CASE RoomSave(p)
  <2>1. /\ room' = Filled(p) /\ behind' = (behind \cup Holding) \ {p} /\ proc'[p] = RoomNext(p)
        /\ proc[p].pc = "store"
    BY <1>1, <1>6 DEF RoomSave
  <2>2. CASE o # p
    BY <1>1, <2>1, <2>2 DEF Holding
  <2>3. CASE o = p
    BY <1>1, <2>1, <2>3, RoomFacts DEF Holding
  <2> QED BY <2>2, <2>3
<1>7. CASE Ignored(p)
  <2>1. /\ UNCHANGED room /\ proc'[p] = RoomNext(p) /\ p \in Holding
        /\ behind' = IF RoomNext(p).pc = "count" THEN behind ELSE behind \ {p}
    BY <1>1, <1>7 DEF Ignored
  <2>2. CASE o = p
    <3>1. proc[p].pc \in {"count", "store"}
      BY <2>1 DEF Holding
    <3>2. RoomNext(p).pc = "count" /\ RoomNext(p).copy = Filled(p)
      BY <1>1, <2>1, <2>2, <3>1, RoomFacts DEF Holding
    <3>3. Filled(p).val[c] = IF c = proc[p].column THEN p ELSE proc[p].copy.val[c]
      BY <1>1, <3>1, FilledFacts
    <3>4. p \in Holding \ behind
      BY <2>1, <2>2, <3>2
    <3> QED BY <2>1, <2>2, <3>2, <3>3, <3>4 DEF RoomInv, CopiesFresh
  <2>3. behind \ {p} \subseteq behind'
    BY <2>1
  <2> QED BY <1>2, <2>1, <2>2, <2>3
<1> QED BY <1>1, <1>3, <1>4, <1>5, <1>6, <1>7, RoomSteps

LEMMA RoomInductive ==
  /\ Init => RoomInv
  /\ RoomInv /\ [Next]_vars => RoomInv'
<1>1. Init => RoomInv
  <2>1. Init => CopiesFresh
    BY DEF Init, CopiesFresh, Holding, Idle
  <2> QED BY <2>1, InitTypeOK DEF RoomInv
<1>2. ASSUME RoomInv, UNCHANGED vars PROVE CopiesFresh'
  BY <1>2 DEF RoomInv, CopiesFresh, Holding, vars
<1>3. RoomInv /\ [Next]_vars => CopiesFresh'
  BY <1>2, FreshKept DEF Next
<1> QED BY <1>1, <1>3, NextTypeOK DEF RoomInv

ColumnsStep ==
  \A c \in Columns :
    room'.val[c] # room.val[c]
      => \E p \in Processes : proc[p].pc = "store" /\ (room'.val[c] = p \/ p \in behind)

LEMMA ColumnsStepHolds == RoomInv /\ [Next]_vars => ColumnsStep
<1> SUFFICES ASSUME RoomInv, [Next]_vars, NEW c \in Columns, room'.val[c] # room.val[c]
             PROVE  \E p \in Processes : proc[p].pc = "store" /\ (room'.val[c] = p \/ p \in behind)
  BY DEF ColumnsStep
<1>1. PICK p \in Processes : Begin(p) \/ Continue(p)
  BY DEF Next, vars
<1>2. TypeOK
  BY DEF RoomInv
<1>3. RoomSave(p)
  BY <1>1, <1>2, RoomSteps DEF Count, Ignored
<1>4. proc[p].pc = "store" /\ room' = Filled(p) /\ p \in Holding
  BY <1>3 DEF RoomSave, Holding
<1>5. room'.val[c] = p \/ room'.val[c] = proc[p].copy.val[c]
  BY <1>2, <1>4, FilledFacts
<1> QED BY <1>4, <1>5 DEF RoomInv, CopiesFresh

\* A callback that saves the room's row takes a column away that it does not
\* fill in only when its copy is out of date, whatever was saved, counted or
\* failed before.
THEOREM ColumnsLostToCopies == Spec => ColumnsKept
<1>1. RoomInv /\ [Next]_vars => [ColumnsStep]_vars
  BY ColumnsStepHolds
<1> QED BY <1>1, RoomInductive, PTL DEF Spec, ColumnsKept, ColumnsStep

-----------------------------------------------------------------------------
(* One row per user.                                                       *)

\* p found no row for the user and has not inserted one yet.
Inserts(p, user) == proc[p].pc = "put" /\ proc[p].member.id = 0 /\ proc[p].member.read.user = user

\* A copy of a row that exists is of its user.
CopiesOwn ==
  \A p \in Processes :
    (proc[p].pc = "put" /\ proc[p].member.id # 0)
      => members[proc[p].member.id].user = proc[p].member.read.user

\* Unless processes raced for a user, it has a row or somebody inserts it.
UsersApart ==
  \A user \in Users \ raced :
    /\ \A i, j \in Ids(user) : i = j
    /\ \A p \in Processes : Inserts(p, user) =>
         Ids(user) = {} /\ \A q \in Processes : Inserts(q, user) => q = p

UserInv == TypeOK /\ CopiesOwn /\ UsersApart

\* Only the insertion of a row changes which rows a user has.
LEMMA UsersFixed ==
  ASSUME UserInv, NEW p \in Processes, Begin(p) \/ Continue(p)
  PROVE  \/ /\ DOMAIN members' = DOMAIN members
            /\ \A i \in DOMAIN members : members'[i].user = members[i].user
         \/ /\ MemberSave(p) /\ proc[p].member.id = 0
<1>0. TypeOK
  BY DEF UserInv
<1>1. CASE \E user \in Users : Quit(p, user)
  BY <1>0, <1>1, TableFacts DEF Quit, Row
<1>2. CASE \E user \in Users : MessageSum(p, user)
  BY <1>0, <1>2, TableFacts DEF MessageSum, Row
<1>3. CASE Unactive(p)
  BY <1>0, <1>3, TableFacts, ProcessFacts DEF Unactive, Row, TypeOK
<1>4. ASSUME MemberSave(p), proc[p].member.id # 0
      PROVE  /\ DOMAIN members' = DOMAIN members
             /\ \A i \in DOMAIN members : members'[i].user = members[i].user
  <2>1. /\ proc[p].pc = "put" /\ proc[p].member.id \in DOMAIN members
        /\ proc[p].member.read \in Row
    BY <1>0, <1>4, ProcessFacts, TableFacts DEF MemberSave, TypeOK
  <2>2. members[proc[p].member.id].user = proc[p].member.read.user
    BY <1>4, <2>1 DEF UserInv, CopiesOwn
  <2> QED BY <1>0, <1>4, <2>1, <2>2, TableFacts DEF MemberSave, Joined, Row
<1> QED
  BY <1>1, <1>2, <1>3, <1>4
  DEF Begin, Continue, JoinBegin, ListBegin, MemberRead, RoomBegin, RoomRead, Count, RoomSave,
      Fails, Ignored

\* Only MemberRead gives a process a copy of a member, or records a race.
LEMMA OnlyReads ==
  ASSUME TypeOK, NEW p \in Processes, Begin(p) \/ Continue(p), ~MemberRead(p)
  PROVE  proc'[p].pc # "put" /\ raced' = raced
<1>1. proc \in [Processes -> Process]
  BY DEF TypeOK
<1>2. raced' = raced
  BY DEF Begin, Continue, JoinBegin, Quit, MessageSum, ListBegin, RoomBegin, MemberSave,
     Unactive, RoomRead, Count, RoomSave, Fails, Ignored
<1>3. CASE Begin(p)
  BY <1>1, <1>2, <1>3
  DEF Begin, JoinBegin, Quit, MessageSum, ListBegin, RoomBegin, Updating, Loading, Done
<1>4. CASE MemberSave(p)
  <2>1. proc[p].next \in Updates
    BY <1>1, <1>4, ProcessFacts DEF MemberSave
  <2> QED BY <1>1, <1>2, <1>4, <2>1 DEF MemberSave, Updates
<1>5. CASE Unactive(p)
  BY <1>1, <1>2, <1>5 DEF Unactive, Updating, Loading
<1>6. CASE RoomRead(p)
  BY <1>1, <1>2, <1>6 DEF RoomRead
<1>7. CASE Count(p)
  <2>1. /\ proc[p] \in [pc : {"count", "store"}, list : BOOLEAN,
                        column : Columns \cup {"count"}, copy : Room]
    BY <1>1, <1>7, ProcessFacts DEF Count
  <2>2. proc'[p].pc = "store"
    BY <1>1, <1>7, <2>1 DEF Count
  <2> QED BY <1>2, <2>2
<1>8. CASE RoomSave(p) \/ Ignored(p)
  <2>1. proc[p].pc \in {"count", "store"} /\ proc'[p] = RoomNext(p)
    BY <1>1, <1>8 DEF RoomSave, Ignored, Holding
  <2> QED BY <1>2, <2>1, RoomFacts
<1>9. CASE Fails(p)
  BY <1>1, <1>2, <1>9 DEF Fails, Done
<1> QED BY <1>3, <1>4, <1>5, <1>6, <1>7, <1>8, <1>9 DEF Continue

LEMMA UserKept ==
  ASSUME UserInv, NEW p \in Processes, Begin(p) \/ Continue(p)
  PROVE  CopiesOwn' /\ UsersApart'
<1>1. /\ TypeOK /\ proc \in [Processes -> Process]
      /\ \A q \in Processes \ {p} : proc'[q] = proc[q]
  BY OthersStay DEF UserInv, TypeOK
<1>2. \A q \in Processes :
        proc[q].pc = "put" => /\ proc[q].member.id \in 0..Len(members)
                              /\ proc[q].member.id # 0 => proc[q].member.id \in DOMAIN members
                              /\ proc[q].member.read \in Row
  BY <1>1, ProcessFacts, TableFacts
<1>3. ASSUME MemberRead(p) PROVE CopiesOwn' /\ UsersApart'
  <2>1. PICK user \in proc[p].todo :
          /\ proc' = [proc EXCEPT ![p] =
               [pc |-> "put", member |-> Ensured(user),
                next |-> Updating(proc[p].list, proc[p].todo \ {user}, proc[p].gone)]]
          /\ raced' = IF Ids(user) = {} /\ Inserting(p, user) # {} THEN raced \cup {user} ELSE raced
    BY <1>3 DEF MemberRead
  <2>2. members' = members /\ user \in Users
    BY <1>1, <1>3, ProcessFacts DEF MemberRead
  <2>3. proc'[p].pc = "put" /\ proc'[p].member = Ensured(user)
    BY <1>1, <2>1
  <2>4. /\ Ensured(user).read.user = user
        /\ Ensured(user).id = 0 <=> Ids(user) = {}
        /\ Ensured(user).id # 0 => Ensured(user).id \in Ids(user)
    BY <1>1, <2>2, EnsuredFacts
  <2>5. CopiesOwn'
    BY <1>1, <2>2, <2>3, <2>4 DEF UserInv, CopiesOwn, Ids
  <2>6. ASSUME NEW u \in Users \ raced'
        PROVE  /\ \A i, j \in Ids(u)' : i = j
               /\ \A q \in Processes : Inserts(q, u)' =>
                    Ids(u)' = {} /\ \A o \in Processes : Inserts(o, u)' => o = q
    <3>1. u \in Users \ raced /\ Ids(u)' = Ids(u)
      BY <2>1, <2>2, <2>6 DEF Ids
    <3>2. \A q \in Processes \ {p} : Inserts(q, u)' <=> Inserts(q, u)
      BY <1>1 DEF Inserts
    <3>3. CASE u # user \/ Ids(user) # {}
      <4>1. ~Inserts(p, u)'
        BY <2>3, <2>4, <3>3 DEF Inserts
      <4> QED BY <3>1, <3>2, <4>1 DEF UserInv, UsersApart
    <3>4. CASE u = user /\ Ids(user) = {}
      <4>1. \A q \in Processes \ {p} : ~Inserts(q, u)
        BY <2>1, <2>6, <3>4 DEF Inserting, Inserts
      <4> QED BY <3>1, <3>2, <3>4, <4>1
    <3> QED BY <3>3, <3>4
  <2> QED BY <2>5, <2>6 DEF UsersApart
<1>4. ASSUME ~MemberRead(p) PROVE proc'[p].pc # "put" /\ raced' = raced
  BY <1>1, <1>4, OnlyReads
<1>5. ASSUME ~MemberRead(p), DOMAIN members' = DOMAIN members,
             \A i \in DOMAIN members : members'[i].user = members[i].user
      PROVE  CopiesOwn' /\ UsersApart'
  <2>1. CopiesOwn'
    BY <1>1, <1>2, <1>4, <1>5 DEF UserInv, CopiesOwn
  <2>2. \A u \in Users : Ids(u)' = Ids(u)
    BY <1>5 DEF Ids
  <2>3. \A u \in Users : \A q \in Processes : Inserts(q, u)' => Inserts(q, u)
    BY <1>1, <1>4, <1>5 DEF Inserts
  <2>4. raced' = raced
    BY <1>4, <1>5
  <2> QED BY <2>1, <2>2, <2>3, <2>4 DEF UserInv, UsersApart
<1>6. ASSUME MemberSave(p), proc[p].member.id = 0
      PROVE  CopiesOwn' /\ UsersApart'
  <2> DEFINE user == proc[p].member.read.user
  <2>1. proc[p].pc = "put" /\ user \in Users /\ Inserts(p, user) /\ ~MemberRead(p)
    BY <1>2, <1>6 DEF MemberSave, MemberRead, Row, Inserts
  <2>2. proc'[p].pc # "put" /\ raced' = raced
    BY <1>4, <2>1
  <2>3. /\ DOMAIN members' = DOMAIN members \cup {Len(members) + 1}
        /\ \A i \in DOMAIN members : members'[i] = members[i]
        /\ members'[Len(members) + 1].user = user
    BY <1>1, <1>2, <1>6, <2>1, TableFacts DEF MemberSave, Joined, Row, TypeOK
  <2>4. CopiesOwn'
    BY <1>1, <1>2, <2>2, <2>3 DEF UserInv, CopiesOwn
  <2>5. ASSUME NEW u \in Users \ raced'
        PROVE  /\ \A i, j \in Ids(u)' : i = j
               /\ \A q \in Processes : Inserts(q, u)' =>
                    Ids(u)' = {} /\ \A o \in Processes : Inserts(o, u)' => o = q
    <3>1. \A q \in Processes : Inserts(q, u)' => q # p /\ Inserts(q, u)
      BY <1>1, <2>2 DEF Inserts
    <3>2. u \in Users \ raced
      BY <2>2, <2>5
    <3>3. CASE u # user
      <4>1. Ids(u)' = Ids(u)
        BY <2>3, <3>3 DEF Ids
      <4> QED BY <3>1, <3>2, <4>1 DEF UserInv, UsersApart
    <3>4. CASE u = user
      <4>1. Ids(u) = {} /\ \A q \in Processes : Inserts(q, u) => q = p
        BY <2>1, <3>2, <3>4 DEF UserInv, UsersApart
      <4>2. Ids(u)' \subseteq {Len(members) + 1}
        BY <2>3, <4>1 DEF Ids
      <4> QED BY <3>1, <4>1, <4>2
    <3> QED BY <3>3, <3>4
  <2> QED BY <2>4, <2>5 DEF UsersApart
<1>7. MemberSave(p) => ~MemberRead(p)
  BY DEF MemberSave, MemberRead
<1> QED BY <1>3, <1>5, <1>6, <1>7, UsersFixed

\* A user has one row, without a unique index, unless two processes found none
\* for it at a time.
THEOREM OneRow == Spec => []MemberOnce
<1>1. Init => UserInv
  BY InitTypeOK DEF Init, UserInv, CopiesOwn, UsersApart, Ids, Inserts, Idle
<1>2. ASSUME UserInv, UNCHANGED vars PROVE CopiesOwn' /\ UsersApart'
  <2>1. \A u \in Users : Ids(u)' = Ids(u)
    BY <1>2 DEF Ids, vars
  <2>2. \A u \in Users : \A q \in Processes : Inserts(q, u)' = Inserts(q, u)
    BY <1>2 DEF Inserts, vars
  <2> QED BY <1>2, <2>1, <2>2 DEF UserInv, CopiesOwn, UsersApart, vars
<1>3. UserInv /\ [Next]_vars => UserInv'
  BY <1>2, UserKept, NextTypeOK DEF Next, UserInv
<1>4. UserInv => MemberOnce
  <2> SUFFICES ASSUME UserInv, NEW i \in DOMAIN members, NEW j \in DOMAIN members,
                      members[i].user = members[j].user, members[i].user \notin raced
               PROVE  i = j
    BY DEF MemberOnce
  <2>1. members[i].user \in Users
    BY TableFacts DEF UserInv, Row
  <2>2. i \in Ids(members[i].user) /\ j \in Ids(members[i].user)
    BY DEF Ids
  <2> QED BY <2>1, <2>2 DEF UserInv, UsersApart
<1> QED BY <1>1, <1>3, <1>4, PTL DEF Spec

-----------------------------------------------------------------------------
(* The number of members.                                                  *)

\* The next read of the room's row leads to a count.
Owes(q) ==
  q.pc = "members" \/ (q.pc = "load" /\ (q.column = "count" \/ (q.list /\ q.column = "id")))

\* p is going to count the members.
Owing(p) ==
  \/ Owes(proc[p])
  \/ proc[p].pc \in {"put", "count"}
  \/ proc[p].pc = "store" /\ proc[p].list /\ proc[p].column = "id"

\* p is about to save the right count.
Right(p) == proc[p].pc = "store" /\ proc[p].copy.count = Cardinality(Active)

\* Who has saved a member counts afterwards.
NextOwes == \A p \in Processes : proc[p].pc = "put" => Owes(proc[p].next)

Settled == faults = 0 /\ ~stale /\ behind = {} /\ \A p \in Processes : ~Owing(p)

\* When nobody is going to count and no copy is out of date, the count is right
\* or is about to be.
CountSettles ==
  Settled => \/ \E p \in Processes : Right(p)
             \/ /\ room.count = Cardinality(Active)
                /\ \A p \in Processes : proc[p].pc # "store"

CountInv == TypeOK /\ NextOwes /\ CountSettles

LEMMA UpdatingOwes ==
  ASSUME NEW list \in BOOLEAN, NEW todo, NEW gone
  PROVE  Owes(Updating(list, todo, gone))
BY DEF Owes, Updating, Loading

LEMMA NextOwesKept ==
  ASSUME CountInv, NEW p \in Processes, Begin(p) \/ Continue(p)
  PROVE  NextOwes'
<1>1. /\ TypeOK /\ proc \in [Processes -> Process]
      /\ \A q \in Processes \ {p} : proc'[q] = proc[q]
  BY OthersStay DEF CountInv, TypeOK
<1>2. CASE MemberRead(p)
  <2>1. PICK user \in proc[p].todo :
          proc' = [proc EXCEPT ![p] =
            [pc |-> "put", member |-> Ensured(user),
             next |-> Updating(proc[p].list, proc[p].todo \ {user}, proc[p].gone)]]
    BY <1>2 DEF MemberRead
  <2>2. proc[p].list \in BOOLEAN
    BY <1>1, <1>2, ProcessFacts DEF MemberRead
  <2>3. Owes(Updating(proc[p].list, proc[p].todo \ {user}, proc[p].gone))
    BY <2>2, UpdatingOwes
  <2>4. proc'[p].next = Updating(proc[p].list, proc[p].todo \ {user}, proc[p].gone)
    BY <1>1, <2>1
  <2> QED BY <1>1, <2>3, <2>4 DEF CountInv, NextOwes, Owes
<1>3. CASE ~MemberRead(p)
  <2>1. proc'[p].pc # "put"
    BY <1>1, <1>3, OnlyReads
  <2> QED BY <1>1, <2>1 DEF CountInv, NextOwes, Owes
<1> QED BY <1>2, <1>3

\* A step that has nothing to do with members or the row
LEMMA SettledStays ==
  ASSUME CountInv, NEW p \in Processes, Settled', ~Owing(p),
         \A q \in Processes \ {p} : proc'[q] = proc[q],
         UNCHANGED <<room, behind, stale, faults>>, Active' = Active,
         proc[p].pc # "store",
         proc'[p].pc = "store" => proc'[p].copy = room
  PROVE  \/ \E q \in Processes : Right(q)'
         \/ /\ room'.count = Cardinality(Active')
            /\ \A q \in Processes : proc'[q].pc # "store"
<1>1. Settled
  <2>1. \A q \in Processes \ {p} : ~Owing(q)
    BY DEF Settled, Owing, Owes
  <2> QED BY <2>1 DEF Settled
<1>2. CASE \E q \in Processes : Right(q)
  <2>1. PICK q \in Processes : Right(q)
    BY <1>2
  <2>2. q # p
    BY <2>1 DEF Right
  <2> QED BY <2>1, <2>2 DEF Right
<1>3. CASE room.count = Cardinality(Active) /\ \A q \in Processes : proc[q].pc # "store"
  BY <1>3 DEF Right
<1> QED BY <1>1, <1>2, <1>3 DEF CountInv, CountSettles

LEMMA ActiveSame == members' = members => Active' = Active
BY DEF Active

\* The first steps of a callback: the ones that change who is active go on to
\* count.
LEMMA BeginSettles ==
  ASSUME CountInv, NEW p \in Processes, Begin(p), Settled'
  PROVE  \/ \E q \in Processes : Right(q)'
         \/ /\ room'.count = Cardinality(Active')
            /\ \A q \in Processes : proc'[q].pc # "store"
<1>1. /\ TypeOK /\ proc \in [Processes -> Process]
      /\ \A q \in Processes \ {p} : proc'[q] = proc[q]
  BY OthersStay DEF CountInv, TypeOK
<1>2. /\ proc[p] = Idle
      /\ UNCHANGED <<room, behind, stale, faults>>
  BY DEF Begin, JoinBegin, Quit, MessageSum, ListBegin, RoomBegin
<1>3. ~Owes(proc'[p])
  BY DEF Settled, Owing
<1>4. \A user \in Users : ~JoinBegin(p, user) /\ ~Quit(p, user)
  <2> SUFFICES ASSUME NEW user \in Users, JoinBegin(p, user) \/ Quit(p, user) PROVE Owes(proc'[p])
    BY <1>3
  <2>1. CASE JoinBegin(p, user)
    <3>1. proc'[p] = Updating(FALSE, {user}, {})
      BY <1>1, <2>1 DEF JoinBegin
    <3> QED BY <3>1, UpdatingOwes
  <2>2. CASE Quit(p, user)
    BY <1>1, <2>2 DEF Quit, Loading, Owes
  <2> QED BY <2>1, <2>2
<1>5. \A users \in SUBSET Users : ~ListBegin(p, users)
  <2> SUFFICES ASSUME NEW users \in SUBSET Users, ListBegin(p, users) PROVE Owes(proc'[p])
    BY <1>3
  <2>1. proc'[p] = Updating(TRUE, users, {i \in Active : members[i].user \notin users})
    BY <1>1 DEF ListBegin
  <2> QED BY <2>1, UpdatingOwes
<1>6. ~Owing(p) /\ proc[p].pc # "store"
  BY <1>2 DEF Owing, Owes, Idle
<1>7. CASE \E user \in Users : MessageSum(p, user)
  <2>1. Active' = Active
    BY <1>1, <1>7, TableFacts DEF MessageSum, Active, Row
  <2>2. proc'[p].pc # "store"
    BY <1>1, <1>7 DEF MessageSum, Done
  <2> QED BY <1>1, <1>2, <1>6, <2>1, <2>2, SettledStays
<1>8. CASE RoomBegin(p)
  <2>1. Active' = Active
    BY <1>8, ActiveSame DEF RoomBegin
  <2>2. proc'[p].pc # "store"
    BY <1>1, <1>8 DEF RoomBegin, Loading
  <2> QED BY <1>1, <1>2, <1>6, <2>1, <2>2, SettledStays
<1> QED BY <1>4, <1>5, <1>7, <1>8 DEF Begin

\* The save of the only copy, which is not out of date
LEMMA SaveSettles ==
  ASSUME CountInv, NEW p \in Processes, RoomSave(p), Settled'
  PROVE  room'.count = Cardinality(Active') /\ \A q \in Processes : proc'[q].pc # "store"
<1>1. /\ TypeOK /\ proc \in [Processes -> Process]
      /\ \A q \in Processes \ {p} : proc'[q] = proc[q]
  BY OthersStay DEF CountInv, TypeOK, Continue
<1>2. /\ proc[p].pc = "store" /\ room' = Filled(p) /\ proc'[p] = RoomNext(p)
      /\ Active' = Active
  BY <1>1, ActiveSame DEF RoomSave
<1>3. faults = 0 /\ ~stale /\ behind = {} /\ Holding \subseteq {p}
  BY DEF RoomSave, Settled
<1>4. RoomNext(p).pc # "count" /\ RoomNext(p).pc # "store"
  BY <1>1, <1>2, RoomFacts DEF Settled, Owing
<1>5. ~(proc[p].list /\ proc[p].column = "id")
  BY <1>4 DEF RoomNext
<1>6. Settled
  <2>1. ~Owing(p)
    BY <1>2, <1>5 DEF Owing, Owes
  <2>2. \A q \in Processes \ {p} : ~Owing(q)
    BY <1>1 DEF Settled, Owing, Owes
  <2> QED BY <1>3, <2>1, <2>2 DEF Settled
<1>7. proc[p].copy.count = Cardinality(Active)
  <2>1. PICK q \in Processes : Right(q)
    BY <1>2, <1>6 DEF CountInv, CountSettles
  <2>2. q = p
    BY <1>3, <2>1 DEF Right, Holding
  <2> QED BY <2>1, <2>2 DEF Right
<1>8. Filled(p).count = proc[p].copy.count
  BY <1>1, <1>2, ProcessFacts DEF Filled, Room
<1>9. \A q \in Processes : proc'[q].pc # "store"
  BY <1>1, <1>2, <1>3, <1>4 DEF Holding
<1> QED BY <1>2, <1>7, <1>8, <1>9

LEMMA SettlesKept ==
  ASSUME CountInv, NEW p \in Processes, Begin(p) \/ Continue(p)
  PROVE  CountSettles'
<1> SUFFICES ASSUME Settled'
             PROVE  \/ \E q \in Processes : Right(q)'
                    \/ /\ room'.count = Cardinality(Active')
                       /\ \A q \in Processes : proc'[q].pc # "store"
  BY DEF CountSettles
<1>1. /\ TypeOK /\ proc \in [Processes -> Process]
      /\ \A q \in Processes \ {p} : proc'[q] = proc[q]
  BY OthersStay DEF CountInv, TypeOK
<1>2. ~Owing(p)' /\ ~Owes(proc'[p]) /\ faults' = 0
  BY DEF Settled, Owing
<1>3. CASE MemberRead(p)
  BY <1>1, <1>2, <1>3 DEF MemberRead, Owing
<1>4. CASE MemberSave(p)
  BY <1>1, <1>2, <1>4 DEF MemberSave, CountInv, NextOwes
<1>5. CASE Unactive(p)
  BY <1>1, <1>2, <1>5, ProcessFacts, UpdatingOwes DEF Unactive
<1>6. CASE RoomRead(p)
  <2>1. /\ UNCHANGED <<room, behind, stale, faults>> /\ Active' = Active
        /\ proc[p].pc = "load"
    BY <1>6, ActiveSame DEF RoomRead
  <2>2. proc'[p] = [pc |-> IF proc[p].column = "count" THEN "count" ELSE "store",
                    list |-> proc[p].list, column |-> proc[p].column, copy |-> room]
    BY <1>1, <1>6 DEF RoomRead
  <2>3. ~Owing(p)
    BY <1>2, <2>1, <2>2 DEF Owing, Owes
  <2> QED BY <1>1, <2>1, <2>2, <2>3, SettledStays
<1>7. CASE Count(p)
  <2>1. /\ proc[p] \in [pc : {"count", "store"}, list : BOOLEAN,
                        column : Columns \cup {"count"}, copy : Room]
    BY <1>1, <1>7, ProcessFacts DEF Count
  <2>2. proc'[p].pc = "store" /\ proc'[p].copy.count = MemberCount
    BY <1>1, <1>7, <2>1 DEF Count, Room
  <2>3. Active' = Active
    BY <1>7, ActiveSame DEF Count
  <2> QED BY <2>2, <2>3 DEF Right, MemberCount
<1>8. CASE Fails(p) \/ Ignored(p)
  BY <1>1, <1>2, <1>8 DEF Fails, Ignored, TypeOK
<1> QED BY <1>3, <1>4, <1>5, <1>6, <1>7, <1>8, BeginSettles, SaveSettles DEF Continue

\* Once every callback has ended, the number in the room's row is the number of
\* active members, whatever their joins, quits and lists did at the same time,
\* unless an outdated copy of the row was saved or something failed.
THEOREM CountSettlesRight == Spec => []CountRight
<1>1. Init => CountInv
  <2> SUFFICES ASSUME Init PROVE NextOwes /\ CountSettles
    BY InitTypeOK DEF CountInv
  <2>1. Active = {} /\ Cardinality({}) = 0
    BY FS_EmptySet DEF Init, Active
  <2> QED BY <2>1 DEF Init, NextOwes, CountSettles, Idle
<1>2. ASSUME CountInv, UNCHANGED vars PROVE NextOwes' /\ CountSettles'
  <2>1. Active' = Active
    BY <1>2, ActiveSame DEF vars
  <2> QED BY <1>2, <2>1
          DEF CountInv, NextOwes, CountSettles, Settled, Right, Owing, Owes, vars
<1>3. CountInv /\ [Next]_vars => CountInv'
  BY <1>2, NextOwesKept, SettlesKept, NextTypeOK DEF Next, CountInv
<1>4. CountInv => CountRight
  <2> SUFFICES ASSUME CountInv, \A p \in Processes : proc[p].pc \in {"idle", "done"},
                      ~stale, faults = 0
               PROVE  room.count = Cardinality(Active)
    BY DEF CountRight
  <2>1. behind = {}
    BY DEF CountInv, TypeOK, Holding
  <2>2. Settled
    BY <2>1 DEF Settled, Owing, Owes
  <2> QED BY <2>2 DEF CountInv, CountSettles, Right
<1> QED BY <1>1, <1>3, <1>4, PTL DEF Spec
=============================================================================
