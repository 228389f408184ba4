---------------------------- MODULE RepliesProofs ----------------------------
(***************************************************************************)
(* What holds for any number of batches, messages, links, merchants,       *)
(* templates, changes and faults: messages are answered once in a life of  *)
(* the process unless a write fails, batches are looked at to their end, a *)
(* room is answered with templates of a merchant it was linked to, by the  *)
(* robot of the same link, and texts that are due are answered unless a    *)
(* read fails.                                                             *)
(***************************************************************************)
EXTENDS Replies, FiniteSetTheorems, NaturalsInduction, SequenceTheorems, TLAPS

-----------------------------------------------------------------------------
(* The inductive invariant, as a condition on one goroutine (r, with the   *)
(* answers s of its batch) at a time.                                      *)

Searching == {"tuling", "custom", "saveCustom", "domain", "product", "saveProduct", "coupon", "saveCoupon"}
Saving == {"saveCustom", "saveProduct", "saveCoupon"}
Chosing == {"bindings", "template", "default", "match", "ask"}
Resting == {"queued", "next", "acked"}
PCs == Searching \cup Chosing \cup Resting \cup {"owner", "hung"}

Conditions == {"good", "empty", "broken"}
LinkTable == [Links -> [open : BOOLEAN, my : Shops \cup {NoShop}]]
Configs == [links : LinkTable, on : SUBSET Templates,
            reply : [Templates -> Conditions], bound : SUBSET Templates]
Locals == [pc : PCs, i : Nat, link : Links \cup {NoLink}, my : Shops \cup {NoShop},
           todo : SUBSET Templates, found : Seq([tpl : Templates, reply : Conditions]),
           seen : SUBSET Configs, missed : SUBSET Templates]

\* The variables that goroutines share have their types.
Shared ==
  /\ templated \in BOOLEAN
  /\ Config \in Configs
  /\ bot \in BotAnswers /\ shortener \in ShortenerStates
  /\ faults \in Nat

\* The index is in the batch while a message is handled, and 1 before that.
Placed(b, r) ==
  /\ r.i \in 1..(Len(Content[b]) + 1)
  /\ r.pc \notin Resting => r.i <= Len(Content[b])
  /\ r.pc = "queued" => r.i = 1

\* With templates there is no search, and the present is among what was seen.
Informed(r) ==
  /\ templated => r.pc \notin Searching
  /\ r.seen # {} => Config \in r.seen
  /\ r.pc = "owner" => r.seen # {}

\* The merchant was the owner at a time the goroutine has seen, and the templates
\* found so far are the merchant's.
SeenOwner(r) == \E c \in r.seen : \E l \in Open(c.links) : c.links[l].my = r.my
Owned(r) ==
  /\ r.pc \in Chosing => SeenOwner(r)
  /\ \A k \in DOMAIN r.found : MyOf[r.found[k].tpl] = r.my
  /\ r.pc \notin Chosing => r.found = <<>>

\* Messages that are still to come have no answer.  The one in hand has at most
\* one for each failed write, and one more while its row is being saved.
Counted(b, r, s) ==
  /\ \A j \in DOMAIN Content[b] : s[j] <= 1 + faults
  /\ r.pc # "acked" => \A j \in DOMAIN Content[b] : j > r.i => s[j] = 0
  /\ r.pc \in {"queued", "next"} => \A j \in DOMAIN Content[b] : j >= r.i => s[j] = 0
  /\ r.pc \notin Saving \cup {"acked"} => \A j \in DOMAIN Content[b] : j = r.i => s[j] <= faults

\* Whoever is done has seen the whole batch, or a malformed message.
Whole(b, r) ==
  r.pc = "acked" /\ r.i <= Len(Content[b]) =>
    Kind[b] = "message" /\ Content[b][r.i].text = "malformed"

Good(b, r, s) ==
  /\ r \in Locals
  /\ s \in [DOMAIN Content[b] -> Nat]
  /\ Placed(b, r)
  /\ Informed(r)
  /\ Owned(r)
  /\ Counted(b, r, s)
  /\ Whole(b, r)

Inv ==
  /\ Shared
  /\ at \in [Batches -> Locals]
  /\ DOMAIN said = Batches
  /\ said = [b \in Batches |-> said[b]]
  /\ \A b \in Batches : Good(b, at[b], said[b])

-----------------------------------------------------------------------------
(* The link and the owner.                                                 *)

LEMMA LeastLink ==
  ASSUME NEW S \in SUBSET Nat, S # {}
  PROVE  \E l \in S : \A k \in S : l <= k
<1> DEFINE Less == {ss \in Nat \X Nat : ss[1] < ss[2]}
<1>1. IsWellFoundedOn(Less, Nat)
  BY NatLessThanWellFounded DEF OpToRel
<1>2. PICK l \in S : \A k \in S : <<k, l>> \notin Less
  BY <1>1, WFMin
<1>3. \A k \in S : l <= k
  <2> SUFFICES ASSUME NEW k \in S, ~(l <= k) PROVE FALSE
    OBVIOUS
  <2>1. l \in Nat /\ k \in Nat /\ k < l
    OBVIOUS
  <2>2. <<k, l>> \in Less
    BY <2>1
  <2> QED BY <1>2, <2>2
<1> QED BY <1>3

\* A finite set without a greatest element has a smaller one, and so on.
LEMMA GreatestLink ==
  ASSUME NEW S \in SUBSET Nat, IsFiniteSet(S), S # {}
  PROVE  \E l \in S : \A k \in S : k <= l
<1> DEFINE HasGreatest(T) == \E l \in T : \A k \in T : k <= l
           Without == {T \in SUBSET S : T # {} /\ ~HasGreatest(T)}
<1> SUFFICES ASSUME Without # {} PROVE FALSE
  OBVIOUS
<1>1. IsWellFoundedOn(StrictSubsetOrdering(S), SUBSET S)
  BY FS_StrictSubsetOrderingWellFounded, FS_FiniteSubsetsOfFinite
<1>2. PICK T \in Without : \A U \in Without : <<U, T>> \notin StrictSubsetOrdering(S)
  <2>1. Without \subseteq SUBSET S
    OBVIOUS
  <2> HIDE DEF Without
  <2> QED BY <1>1, <2>1, WFMin
<1>3. PICK x \in T : TRUE
  OBVIOUS
<1> DEFINE U == T \ {x}
<1>4. U \in SUBSET S /\ U \subseteq T /\ U # T
  BY <1>3
<1>5. <<U, T>> \in StrictSubsetOrdering(S)
  BY <1>4 DEF StrictSubsetOrdering
<1>6. U \notin Without
  BY <1>2, <1>5
<1>7. CASE U = {}
  <2>1. T = {x}
    BY <1>7, <1>3
  <2>2. x \in Nat
    BY <1>3
  <2>3. HasGreatest(T)
    BY <2>1, <2>2
  <2> QED BY <2>3
<1>8. CASE U # {}
  <2>1. PICK u \in U : \A k \in U : k <= u
    BY <1>4, <1>6, <1>8
  <2>2. u \in Nat /\ x \in Nat /\ \A k \in T : k \in Nat
    BY <1>3, <2>1
  <2>3. CASE u <= x
    <3>1. \A k \in T : k <= x
      BY <2>1, <2>2, <2>3
    <3> QED BY <3>1, <1>3
  <2>4. CASE x <= u
    <3>1. \A k \in T : k <= u
      BY <2>1, <2>2, <2>4
    <3> QED BY <3>1, <2>1
  <2> QED BY <2>2, <2>3, <2>4
<1> QED BY <1>7, <1>8

LEMMA LinkFacts ==
  ASSUME Shared
  PROVE  /\ Latest \in Links \cup {NoLink}
         /\ Earliest # NoLink => Earliest \in Open(links)
<1>1. Open(links) \in SUBSET Nat /\ Open(links) \subseteq Links /\ IsFiniteSet(Open(links))
  BY RepliesAssumption, FS_Subset DEF Open
<1>2. CASE Open(links) = {}
  BY <1>2 DEF Latest, Earliest
<1>3. CASE Open(links) # {}
  <2>1. Latest \in Open(links)
    BY <1>1, <1>3, GreatestLink DEF Latest
  <2>2. Earliest \in Open(links)
    BY <1>1, <1>3, LeastLink DEF Earliest
  <2> QED BY <1>1, <2>1, <2>2
<1> QED BY <1>2, <1>3

LEMMA ContentFacts ==
  ASSUME NEW b \in Batches
  PROVE  /\ Content[b] \in Seq([text : Texts, to : Links])
         /\ Len(Content[b]) \in Nat
         /\ DOMAIN Content[b] = 1..Len(Content[b])
<1>1. Content[b] \in Seq([text : Texts, to : Links])
  BY RepliesAssumption
<1> DEFINE M == [text : Texts, to : Links]
<1>2. Content[b] \in Seq(M)
  BY <1>1
<1> HIDE DEF M
<1>3. Len(Content[b]) \in Nat /\ DOMAIN Content[b] = 1..Len(Content[b])
  BY <1>2, LenProperties
<1> QED BY <1>1, <1>3

-----------------------------------------------------------------------------
(* One goroutine moves: what has to be shown of it, and that no other       *)
(* notices.                                                                *)

\* The step is one of goroutine b and its answers are kept in order.
Moves(b) ==
  /\ at' = [at EXCEPT ![b] = at'[b]]
  /\ said' = [said EXCEPT ![b] = said'[b]]
  /\ faults' \in Nat /\ faults' >= faults
  /\ UNCHANGED <<templated, env>>

LEMMA InitInv == Init => Inv
<1> SUFFICES ASSUME Init PROVE Inv
  OBVIOUS
<1>1. Shared
  <2>1. links \in LinkTable /\ on \subseteq Templates /\ bound \subseteq Templates
    BY RepliesAssumption DEF Init, LinkTable
  <2>2. reply \in [Templates -> Conditions]
    BY DEF Init, Conditions
  <2> QED BY <2>1, <2>2 DEF Init, Shared, Config, Configs, BotAnswers, ShortenerStates
<1>2. Queued \in Locals
  BY DEF Queued, Locals, PCs, Resting, NoLink
<1>3. ASSUME NEW b \in Batches PROVE Good(b, at[b], said[b])
  <2>1. at[b] = Queued /\ said[b] = [i \in DOMAIN Content[b] |-> 0]
    BY DEF Init
  <2>2. Len(Content[b]) \in Nat
    BY ContentFacts
  <2>3. Placed(b, at[b])
    BY <2>1, <2>2 DEF Placed, Queued, Resting
  <2>4. Informed(at[b]) /\ Owned(at[b]) /\ Whole(b, at[b])
    BY <2>1 DEF Informed, Owned, Whole, Queued, Searching, Chosing
  <2>5. Counted(b, at[b], said[b])
    BY <1>1, <2>1 DEF Counted, Shared
  <2> QED BY <1>2, <2>1, <2>3, <2>4, <2>5 DEF Good
<1>4. at \in [Batches -> Locals] /\ DOMAIN said = Batches /\ said = [b \in Batches |-> said[b]]
  BY <1>2 DEF Init
<1> QED BY <1>1, <1>3, <1>4 DEF Inv

LEMMA MoveInv ==
  ASSUME Inv, NEW b \in Batches, Moves(b), Good(b, at[b], said[b])'
  PROVE  Inv'
<1>1. Shared'
  BY DEF Inv, Shared, Moves, env, Config
<1>2. at' \in [Batches -> Locals]
  BY DEF Inv, Moves, Good
<1>3. DOMAIN said' = Batches /\ said' = [c \in Batches |-> said'[c]]
  BY DEF Inv, Moves
<1>4. ASSUME NEW c \in Batches, c # b PROVE Good(c, at[c], said[c])'
  <2>1. at'[c] = at[c] /\ said'[c] = said[c]
    BY <1>4 DEF Inv, Moves
  <2>2. Good(c, at[c], said[c])
    BY DEF Inv
  <2>3. Counted(c, at[c], said[c])'
    BY <2>1, <2>2 DEF Good, Counted, Moves, Inv, Shared
  <2>4. Informed(at[c])'
    BY <2>1, <2>2 DEF Good, Informed, Moves, env, Config
  <2>5. Owned(at[c])'
    BY <2>1, <2>2 DEF Good, Owned, SeenOwner, Open
  <2>6. Placed(c, at[c])' /\ Whole(c, at[c])'
    BY <2>1, <2>2 DEF Good, Placed, Whole
  <2> QED BY <2>1, <2>2, <2>3, <2>4, <2>5, <2>6 DEF Good
<1> QED BY <1>1, <1>2, <1>3, <1>4 DEF Inv

\* What a batch looks like while a message of it is handled
LEMMA InHand ==
  ASSUME Inv, NEW b \in Batches
  PROVE  /\ Good(b, at[b], said[b])
         /\ at[b] \in Locals
         /\ said[b] \in [DOMAIN Content[b] -> Nat]
         /\ Content[b] \in Seq([text : Texts, to : Links])
         /\ Len(Content[b]) \in Nat
         /\ DOMAIN Content[b] = 1..Len(Content[b])
         /\ at[b].i \in 1..(Len(Content[b]) + 1)
<1>1. Good(b, at[b], said[b])
  BY DEF Inv
<1>2. /\ at[b] \in Locals
      /\ said[b] \in [DOMAIN Content[b] -> Nat]
      /\ at[b].i \in 1..(Len(Content[b]) + 1)
  BY <1>1 DEF Good, Placed
<1> QED BY <1>1, <1>2, ContentFacts

\* The next message: whatever the answer to this one was
LEMMA ContinueInv ==
  ASSUME Inv, NEW b \in Batches, Continue(b), Moves(b),
         at[b].i <= Len(Content[b]), at[b].pc # "acked",
         said'[b] \in [DOMAIN Content[b] -> Nat],
         \A j \in DOMAIN Content[b] : j # at[b].i => said'[b][j] = said[b][j],
         \A j \in DOMAIN Content[b] : j = at[b].i => said'[b][j] <= 1 + faults'
  PROVE  Inv'
<1>0. at \in [Batches -> Locals]
  BY DEF Inv
<1>1. at'[b] = [pc |-> "next", i |-> at[b].i + 1, link |-> NoLink, my |-> NoShop,
                todo |-> {}, found |-> <<>>, seen |-> {}, missed |-> {}]
  BY <1>0 DEF Continue, Become, Round, Queued
<1>2. at'[b] \in Locals /\ Placed(b, at[b])'
  BY <1>1, InHand DEF Locals, PCs, Resting, Placed
<1>3. Informed(at[b])' /\ Owned(at[b])' /\ Whole(b, at[b])'
  BY <1>1 DEF Informed, Owned, Whole, Searching, Chosing
<1>4. Counted(b, at[b], said[b])'
  <2>1. Counted(b, at[b], said[b]) /\ faults \in Nat /\ faults' \in Nat /\ faults' >= faults
    BY DEF Inv, Good, Shared, Moves
  <2>2. \A j \in DOMAIN Content[b] : said'[b][j] <= 1 + faults'
    BY <2>1, InHand DEF Counted
  <2>3. ASSUME NEW j \in DOMAIN Content[b], j >= at[b].i + 1 PROVE said'[b][j] = 0
    <3>1. at[b].i \in Nat /\ j \in Nat
      BY InHand
    <3>2. j > at[b].i /\ j # at[b].i
      BY <3>1, <2>3
    <3>3. said[b][j] = 0
      BY <2>1, <3>2 DEF Counted
    <3> QED BY <3>2, <3>3
  <2>4. ASSUME NEW j \in DOMAIN Content[b], j > at[b].i + 1 PROVE said'[b][j] = 0
    <3>1. at[b].i \in Nat /\ j \in Nat
      BY InHand
    <3>2. j >= at[b].i + 1
      BY <2>4, <3>1
    <3> QED BY <2>3, <3>2
  <2>5. ASSUME NEW j \in DOMAIN Content[b], j = at[b].i + 1 PROVE said'[b][j] <= faults'
    <3>1. at[b].i \in Nat /\ j >= at[b].i + 1
      BY <2>5, InHand
    <3>2. said'[b][j] = 0
      BY <2>3, <3>1
    <3> QED BY <2>1, <3>2
  <2> QED BY <1>1, <2>2, <2>3, <2>4, <2>5 DEF Counted
<1> QED BY <1>2, <1>3, <1>4, MoveInv DEF Good

\* The message stays in hand; what was said of it stays too
LEMMA StayInv ==
  ASSUME Inv, NEW b \in Batches, Moves(b), UNCHANGED said,
         at[b].i <= Len(Content[b]), at[b].pc # "acked", at[b].pc \notin Saving \/ faults' > faults,
         at'[b] \in Locals, at'[b].i = at[b].i, at'[b].pc \notin Resting,
         Informed(at[b])', Owned(at[b])'
  PROVE  Inv'
<1>1. Placed(b, at[b])' /\ Whole(b, at[b])'
  BY InHand DEF Placed, Whole, Resting
<1>2. Counted(b, at[b], said[b])'
  <2>1. Counted(b, at[b], said[b]) /\ faults \in Nat /\ faults' \in Nat /\ faults' >= faults
    BY DEF Inv, Good, Shared, Moves
  <2>2. \A j \in DOMAIN Content[b] : j = at[b].i => said[b][j] <= faults'
    BY <2>1, InHand DEF Counted
  <2> QED BY <2>1, <2>2, InHand DEF Counted, Resting
<1>3. said'[b] \in [DOMAIN Content[b] -> Nat]
  BY InHand
<1> QED BY <1>1, <1>2, <1>3, MoveInv DEF Good

\* The batch is done
LEMMA AckInv ==
  ASSUME Inv, NEW b \in Batches, Goto(b, "acked"), Moves(b), UNCHANGED said,
         at[b].pc = "next",
         at[b].i <= Len(Content[b]) => Kind[b] = "message" /\ Message(b).text = "malformed"
  PROVE  Inv'
<1>0. at \in [Batches -> Locals]
  BY DEF Inv
<1>1. at'[b] = [at[b] EXCEPT !.pc = "acked"]
  BY <1>0 DEF Goto, Become
<1>2. at'[b] \in Locals /\ at'[b].pc = "acked" /\ at'[b].i = at[b].i /\ at'[b].seen = at[b].seen
      /\ at'[b].found = at[b].found /\ at'[b].my = at[b].my
  BY <1>1, InHand DEF Locals, PCs, Resting
<1>3. Placed(b, at[b])' /\ Whole(b, at[b])'
  BY <1>2, InHand DEF Placed, Whole, Resting, Message
<1>4. Informed(at[b])' /\ Owned(at[b])'
  BY <1>2, InHand DEF Good, Informed, Owned, Searching, Chosing, Moves, env, Config
<1>5. Counted(b, at[b], said[b])'
  BY <1>2, InHand DEF Good, Counted, Moves, Inv, Shared
<1>6. said'[b] \in [DOMAIN Content[b] -> Nat]
  BY InHand
<1> QED BY <1>2, <1>3, <1>4, <1>5, <1>6, MoveInv DEF Good

-----------------------------------------------------------------------------
(* One lemma per step.                                                     *)

LEMMA QuietMoves ==
  ASSUME Inv, NEW b \in Batches, at' = [at EXCEPT ![b] = at'[b]], Quiet,
         UNCHANGED <<templated, env>>
  PROVE  Moves(b) /\ UNCHANGED said
<1>1. said' = said /\ faults' = faults /\ faults \in Nat
  BY DEF Quiet, Inv, Shared
<1>2. said = [c \in Batches |-> said[c]]
  BY DEF Inv
<1>3. said' = [said EXCEPT ![b] = said'[b]]
  BY <1>1, <1>2
<1> QED BY <1>1, <1>3 DEF Moves

LEMMA DeliverInv ==
  ASSUME Inv, NEW b \in Batches, Deliver(b), UNCHANGED <<templated, env>>
  PROVE  Inv'
<1>0. at \in [Batches -> Locals]
  BY DEF Inv
<1>1. /\ at' = [at EXCEPT ![b] = at'[b]]
      /\ at'[b] = [pc |-> "next", i |-> 1, link |-> NoLink, my |-> NoShop,
                   todo |-> {}, found |-> <<>>, seen |-> {}, missed |-> {}]
  BY <1>0 DEF Deliver, Become, Round, Queued
<1>2. Moves(b) /\ UNCHANGED said
  BY <1>1, QuietMoves DEF Deliver
<1>3. at'[b] \in Locals /\ Placed(b, at[b])'
  BY <1>1, InHand DEF Locals, PCs, Resting, Placed
<1>4. Informed(at[b])' /\ Owned(at[b])' /\ Whole(b, at[b])'
  BY <1>1 DEF Informed, Owned, Whole, Searching, Chosing
<1>5. Counted(b, at[b], said[b])'
  <2>1. at[b].pc = "queued" /\ at[b].i = 1
    BY InHand DEF Deliver, Good, Placed
  <2>2. \A j \in DOMAIN Content[b] : j >= 1 => said[b][j] = 0
    BY <2>1, InHand DEF Good, Counted
  <2>3. faults \in Nat /\ faults' = faults
    BY DEF Inv, Shared, Deliver, Quiet
  <2>4. \A j \in DOMAIN Content[b] : j \in Nat /\ said'[b][j] = said[b][j] /\ said[b][j] <= 1 + faults
    BY <1>2, InHand DEF Good, Counted
  <2>5. \A j \in DOMAIN Content[b] : j > 1 => said'[b][j] = 0
    BY <2>2, <2>4
  <2>6. \A j \in DOMAIN Content[b] : j = 1 => said'[b][j] <= faults'
    BY <2>2, <2>3, <2>4
  <2> QED BY <1>1, <2>2, <2>3, <2>4, <2>5, <2>6 DEF Counted
<1>6. said'[b] \in [DOMAIN Content[b] -> Nat]
  BY <1>2, InHand
<1> QED BY <1>2, <1>3, <1>4, <1>5, <1>6, MoveInv DEF Good

LEMMA FinishInv ==
  ASSUME Inv, NEW b \in Batches, Finish(b) \/ Malformed(b), UNCHANGED <<templated, env>>
  PROVE  Inv'
<1>0. at \in [Batches -> Locals]
  BY DEF Inv
<1>1. Goto(b, "acked") /\ at' = [at EXCEPT ![b] = at'[b]] /\ Quiet
  BY <1>0 DEF Finish, Malformed, Goto, Become
<1>2. Moves(b) /\ UNCHANGED said
  BY <1>1, QuietMoves
<1>3. at[b].i <= Len(Content[b]) => Kind[b] = "message" /\ Message(b).text = "malformed"
  BY InHand DEF Finish, Malformed
<1>4. at[b].pc = "next"
  BY DEF Finish, Malformed
<1> QED BY <1>1, <1>2, <1>3, <1>4, AckInv

\* A round that ends without an answer
LEMMA SilentInv ==
  ASSUME Inv, NEW b \in Batches, Continue(b), UNCHANGED said, UNCHANGED <<templated, env>>,
         faults' \in Nat, faults' >= faults,
         at[b].i <= Len(Content[b]), at[b].pc # "acked"
  PROVE  Inv'
<1>1. at \in [Batches -> Locals] /\ said = [c \in Batches |-> said[c]]
  BY DEF Inv
<1>2. Moves(b)
  BY <1>1 DEF Continue, Become, Moves
<1>3. \A j \in DOMAIN Content[b] : said[b][j] <= 1 + faults /\ said[b][j] \in Nat
  BY InHand DEF Good, Counted
<1>4. \A j \in DOMAIN Content[b] : said'[b][j] <= 1 + faults'
  BY <1>3 DEF Inv, Shared
<1>5. said'[b] \in [DOMAIN Content[b] -> Nat]
  BY InHand
<1> QED BY <1>2, <1>4, <1>5, ContinueInv

\* A round that ends with one
LEMMA SaidInv ==
  ASSUME Inv, NEW b \in Batches, Continue(b), Say(b), UNCHANGED <<faults, templated, env>>,
         at[b].i <= Len(Content[b]), at[b].pc \notin Saving \cup {"acked"}
  PROVE  Inv'
<1>1. at \in [Batches -> Locals] /\ said = [c \in Batches |-> said[c]]
      /\ faults \in Nat
  BY DEF Inv, Shared
<1>2. said'[b] = [said[b] EXCEPT ![at[b].i] = @ + 1] /\ said' = [said EXCEPT ![b] = said'[b]]
  BY <1>1 DEF Say
<1>3. Moves(b)
  BY <1>1, <1>2 DEF Continue, Become, Moves
<1>4. at[b].i \in DOMAIN Content[b] /\ said[b] \in [DOMAIN Content[b] -> Nat]
  BY InHand
<1>5. said[b][at[b].i] <= faults
  BY <1>4, InHand DEF Good, Counted
<1>6. said'[b] \in [DOMAIN Content[b] -> Nat] /\ said'[b][at[b].i] <= 1 + faults'
  BY <1>1, <1>2, <1>4, <1>5
<1>7. \A j \in DOMAIN Content[b] : j # at[b].i => said'[b][j] = said[b][j]
  BY <1>2, <1>4
<1> QED BY <1>3, <1>6, <1>7, ContinueInv

LEMMA ReadLinkInv ==
  ASSUME Inv, NEW b \in Batches, ReadLink(b), UNCHANGED <<templated, env>>
  PROVE  Inv'
<1>0. at \in [Batches -> Locals] /\ Shared /\ Quiet
  BY DEF Inv, ReadLink, Look
<1>1. at[b].i <= Len(Content[b]) /\ at[b].pc = "next"
  BY DEF ReadLink, Look
<1>2. CASE NotForUs(b, Latest)
  <2>1. Continue(b)
    BY <1>2 DEF ReadLink, Look
  <2> QED BY <1>0, <1>1, <2>1, SilentInv DEF Quiet, Shared
<1>3. CASE ~NotForUs(b, Latest)
  <2>1. Become(b, [at[b] EXCEPT !.pc = First(b), !.link = Latest, !.my = links[Latest].my,
                                !.seen = {Config}])
    BY <1>3 DEF ReadLink, Look
  <2>2. Latest \in Links
    BY <1>0, <1>3, LinkFacts DEF NotForUs
  <2>3. links[Latest].my \in Shops \cup {NoShop} /\ Config \in Configs /\ Config' = Config
    BY <1>0, <2>2 DEF Shared, Config, Configs, LinkTable, env
  <2>4. First(b) \in {"owner", "custom", "tuling"} /\ (templated => First(b) = "owner")
    BY DEF First
  <2>5. at' = [at EXCEPT ![b] = at'[b]]
    BY <1>0, <2>1 DEF Become
  <2>6. /\ at'[b] \in Locals /\ at'[b].pc = First(b) /\ at'[b].i = at[b].i
        /\ at'[b].seen = {Config} /\ at'[b].found = at[b].found
    BY <1>0, <2>1, <2>2, <2>3, <2>4 DEF Become, Locals, PCs, Searching
  <2>7. Moves(b) /\ UNCHANGED said
    BY <1>0, <2>5, QuietMoves
  <2>8. at[b].found = <<>>
    BY <1>1, InHand DEF Good, Owned, Chosing
  <2>9. Informed(at[b])'
    BY <2>3, <2>4, <2>6 DEF Informed, Searching
  <2>10. Owned(at[b])'
    BY <2>4, <2>6, <2>8 DEF Owned, Chosing
  <2> QED BY <1>1, <2>4, <2>6, <2>7, <2>9, <2>10, StayInv DEF Saving, Resting
<1> QED BY <1>2, <1>3

\* A step that only moves on, with templates
LEMMA GoInv ==
  ASSUME Inv, NEW b \in Batches, NEW pc \in {"template", "default", "match", "ask"},
         Goto(b, pc), UNCHANGED said, UNCHANGED <<templated, env>>,
         faults' \in Nat, faults' >= faults,
         at[b].pc \in {"bindings", "template", "default"}
  PROVE  Inv'
<1>0. at \in [Batches -> Locals]
  BY DEF Inv
<1>1. at' = [at EXCEPT ![b] = at'[b]]
  BY <1>0 DEF Goto, Become
<1>2. /\ at'[b] \in Locals /\ at'[b].pc = pc /\ at'[b].i = at[b].i /\ at'[b].my = at[b].my
      /\ at'[b].seen = at[b].seen /\ at'[b].found = at[b].found
  BY <1>0 DEF Goto, Become, Locals, PCs, Chosing
<1>3. Moves(b)
  <2>1. said = [c \in Batches |-> said[c]]
    BY DEF Inv
  <2> QED BY <1>1, <2>1 DEF Moves
<1>4. Good(b, at[b], said[b])
  BY InHand
<1>5. Informed(at[b])' /\ Owned(at[b])'
  <2>1. Config' = Config /\ templated' = templated
    BY DEF env, Config
  <2> QED BY <1>2, <1>4, <2>1 DEF Good, Informed, Owned, SeenOwner, Open, Chosing, Searching
<1>6. at[b].i <= Len(Content[b])
  BY <1>4 DEF Good, Placed, Resting
<1> QED BY <1>2, <1>3, <1>5, <1>6, StayInv DEF Saving, Resting

LEMMA ReadOwnerInv ==
  ASSUME Inv, NEW b \in Batches, ReadOwner(b), UNCHANGED <<templated, env>>
  PROVE  Inv'
<1>0. at \in [Batches -> Locals] /\ Shared /\ Quiet
  BY DEF Inv, ReadOwner
<1>1. Good(b, at[b], said[b]) /\ at[b].pc = "owner"
  BY InHand DEF ReadOwner
<1>2. at[b].i <= Len(Content[b])
  BY <1>1 DEF Good, Placed, Resting
<1>3. CASE Earliest = NoLink
  <2>1. Continue(b)
    BY <1>3 DEF ReadOwner
  <2> QED BY <1>0, <1>1, <1>2, <2>1, SilentInv DEF Quiet, Shared
<1>4. CASE Earliest # NoLink
  <2>1. Become(b, [at[b] EXCEPT !.pc = "bindings", !.my = links[Earliest].my])
    BY <1>4 DEF ReadOwner
  <2>2. Earliest \in Open(links) /\ Earliest \in Links
    BY <1>0, <1>4, LinkFacts DEF Open
  <2>3. links[Earliest].my \in Shops \cup {NoShop} /\ Config' = Config
    BY <1>0, <2>2 DEF Shared, Config, Configs, LinkTable, env
  <2>4. at' = [at EXCEPT ![b] = at'[b]]
    BY <1>0, <2>1 DEF Become
  <2>5. /\ at'[b] \in Locals /\ at'[b].pc = "bindings" /\ at'[b].i = at[b].i
        /\ at'[b].seen = at[b].seen /\ at'[b].found = at[b].found
        /\ at'[b].my = links[Earliest].my
    BY <1>0, <2>1, <2>3 DEF Become, Locals, PCs, Chosing
  <2>6. Moves(b) /\ UNCHANGED said
    BY <1>0, <2>4, QuietMoves
  <2>7. at[b].found = <<>> /\ Config \in at[b].seen
    BY <1>1 DEF Good, Owned, Informed, Chosing
  <2>8. Informed(at[b])'
    BY <2>3, <2>5, <2>7 DEF Informed, Searching
  <2>9. SeenOwner(at[b])'
    <3>1. Config \in at'[b].seen /\ Earliest \in Open(Config.links)
          /\ Config.links[Earliest].my = at'[b].my
      BY <2>2, <2>5, <2>7 DEF Config
    <3>2. \E c \in at'[b].seen : \E l \in Open(c.links) : c.links[l].my = at'[b].my
      BY <3>1
    <3> QED BY <3>2 DEF SeenOwner, Open
  <2>10. Owned(at[b])'
    BY <2>5, <2>7, <2>9 DEF Owned, Chosing
  <2> QED BY <1>1, <1>2, <2>5, <2>6, <2>8, <2>10, StayInv DEF Saving, Resting
<1> QED BY <1>3, <1>4

LEMMA ReadBindingsInv ==
  ASSUME Inv, NEW b \in Batches, ReadBindings(b), UNCHANGED <<templated, env>>
  PROVE  Inv'
<1>0. at \in [Batches -> Locals] /\ Shared /\ Quiet
  BY DEF Inv, ReadBindings
<1>1. Good(b, at[b], said[b]) /\ at[b].pc = "bindings"
  BY InHand DEF ReadBindings
<1>2. {t \in bound : Type[t] = Kind[b]} \in SUBSET Templates
  BY <1>0 DEF Shared, Config, Configs
<1>3. at' = [at EXCEPT ![b] = at'[b]]
  BY <1>0 DEF ReadBindings, Become
<1>4. /\ at'[b] \in Locals /\ at'[b].pc = "template" /\ at'[b].i = at[b].i
      /\ at'[b].my = at[b].my /\ at'[b].seen = at[b].seen /\ at'[b].found = at[b].found
  BY <1>0, <1>2 DEF ReadBindings, Become, Locals, PCs, Chosing
<1>5. Moves(b) /\ UNCHANGED said
  BY <1>0, <1>3, QuietMoves
<1>6. Informed(at[b])' /\ Owned(at[b])'
  <2>1. Config' = Config /\ templated' = templated
    BY DEF env, Config
  <2> QED BY <1>1, <1>4, <2>1 DEF Good, Informed, Owned, SeenOwner, Open, Chosing, Searching
<1>7. at[b].i <= Len(Content[b])
  BY <1>1 DEF Good, Placed, Resting
<1> QED BY <1>1, <1>4, <1>5, <1>6, <1>7, StayInv DEF Saving, Resting

\* What a look at a template leaves is a list of the merchant's templates
LEMMA FoundOwned ==
  ASSUME Inv, NEW b \in Batches, NEW t \in Templates
  PROVE  /\ Found(b, t) \in Seq([tpl : Templates, reply : Conditions])
         /\ \A k \in DOMAIN Found(b, t) : MyOf[Found(b, t)[k].tpl] = at[b].my
<1> DEFINE R == [tpl : Templates, reply : Conditions]
           f == at[b].found
           e == [tpl |-> t, reply |-> reply[t]]
<1>1. f \in Seq(R) /\ \A k \in DOMAIN f : MyOf[f[k].tpl] = at[b].my
  BY InHand DEF Good, Owned, Locals
<1>2. e \in R
  BY DEF Inv, Shared, Config, Configs
<1>3. CASE ~Usable(b, t)
  BY <1>1, <1>3 DEF Found
<1>4. CASE Usable(b, t)
  <2>1. Found(b, t) = Append(f, e)
    BY <1>4 DEF Found
  <2>2. MyOf[e.tpl] = at[b].my
    BY <1>4 DEF Usable
  <2> HIDE DEF R, e, f
  <2>3. /\ Append(f, e) \in Seq(R)
        /\ Len(Append(f, e)) = Len(f) + 1 /\ Len(f) \in Nat
        /\ \A k \in 1..Len(f) : Append(f, e)[k] = f[k]
        /\ Append(f, e)[Len(f) + 1] = e
        /\ DOMAIN f = 1..Len(f) /\ DOMAIN Append(f, e) = 1..(Len(f) + 1)
    BY <1>1, <1>2, AppendProperties, LenProperties
  <2>4. \A k \in DOMAIN Append(f, e) : MyOf[Append(f, e)[k].tpl] = at[b].my
    BY <1>1, <2>2, <2>3
  <2> QED BY <2>1, <2>3, <2>4 DEF R
<1> QED BY <1>3, <1>4

LEMMA FindInv ==
  ASSUME Inv, NEW b \in Batches, NEW t \in Templates, NEW pc \in {"template", "ask"},
         NEW todo \in SUBSET Templates,
         Become(b, [at[b] EXCEPT !.pc = pc, !.todo = todo, !.found = Found(b, t)]),
         Quiet, UNCHANGED <<templated, env>>,
         at[b].pc \in {"template", "default"}
  PROVE  Inv'
<1>0. at \in [Batches -> Locals]
  BY DEF Inv
<1>1. at' = [at EXCEPT ![b] = at'[b]]
  BY <1>0 DEF Become
<1>2. /\ at'[b].pc = pc /\ at'[b].i = at[b].i /\ at'[b].my = at[b].my
      /\ at'[b].seen = at[b].seen /\ at'[b].found = Found(b, t)
  BY <1>0 DEF Become, Locals
<1>3. at'[b] \in Locals
  <2> DEFINE R == [tpl : Templates, reply : Conditions]
             F == Found(b, t)
  <2>1. F \in Seq(R)
    BY FoundOwned
  <2>2. pc \in PCs
    BY DEF PCs, Chosing
  <2>3. at'[b] = [at[b] EXCEPT !.pc = pc, !.todo = todo, !.found = F]
    BY <1>0 DEF Become
  <2>4. at[b] \in [pc : PCs, i : Nat, link : Links \cup {NoLink}, my : Shops \cup {NoShop},
                   todo : SUBSET Templates, found : Seq(R), seen : SUBSET Configs, missed : SUBSET Templates]
    BY InHand DEF Locals
  <2>5. at'[b] \in [pc : PCs, i : Nat, link : Links \cup {NoLink}, my : Shops \cup {NoShop},
                    todo : SUBSET Templates, found : Seq(R), seen : SUBSET Configs, missed : SUBSET Templates]
    <3> HIDE DEF R, F
    <3> QED BY <2>1, <2>2, <2>3, <2>4
  <2> QED BY <2>5 DEF Locals
<1>4. Moves(b) /\ UNCHANGED said
  BY <1>1, QuietMoves
<1>5. Good(b, at[b], said[b])
  BY InHand
<1>6. Informed(at[b])'
  BY <1>2, <1>5 DEF Good, Informed, Searching, env, Config
<1>7. Owned(at[b])'
  <2>1. SeenOwner(at[b]) /\ at'[b].pc \in Chosing
    BY <1>2, <1>5 DEF Good, Owned, Chosing
  <2>2. SeenOwner(at[b])'
    BY <1>2, <2>1 DEF SeenOwner, Open
  <2>3. \A k \in DOMAIN at'[b].found : MyOf[at'[b].found[k].tpl] = at'[b].my
    BY <1>2, FoundOwned
  <2> QED BY <2>1, <2>2, <2>3 DEF Owned
<1>8. at[b].i <= Len(Content[b])
  BY <1>5 DEF Good, Placed, Resting
<1> QED BY <1>2, <1>3, <1>4, <1>6, <1>7, <1>8, StayInv DEF Saving, Resting

LEMMA ReadTemplateInv ==
  ASSUME Inv, NEW b \in Batches, ReadTemplate(b), UNCHANGED <<templated, env>>
  PROVE  Inv'
<1>0. at \in [Batches -> Locals] /\ at[b].todo \subseteq Templates /\ at[b].pc = "template" /\ Quiet
  BY InHand DEF Inv, ReadTemplate, Locals
<1>1. PICK t \in at[b].todo :
        Become(b, [at[b] EXCEPT !.todo = at[b].todo \ {t}, !.found = Found(b, t)])
  BY <1>0 DEF ReadTemplate, Locals
<1>2. [at[b] EXCEPT !.todo = at[b].todo \ {t}, !.found = Found(b, t)]
      = [at[b] EXCEPT !.pc = "template", !.todo = at[b].todo \ {t}, !.found = Found(b, t)]
  BY <1>0 DEF Locals
<1>3. Become(b, [at[b] EXCEPT !.pc = "template", !.todo = at[b].todo \ {t}, !.found = Found(b, t)])
  BY <1>1, <1>2
<1>4. t \in Templates /\ at[b].todo \ {t} \in SUBSET Templates
  BY <1>0
<1> QED BY <1>0, <1>3, <1>4, FindInv

LEMMA ReadDefaultInv ==
  ASSUME Inv, NEW b \in Batches, ReadDefault(b), UNCHANGED <<templated, env>>
  PROVE  Inv'
<1>0. at \in [Batches -> Locals] /\ at[b].pc = "default" /\ Quiet
      /\ at[b].i <= Len(Content[b]) /\ Shared
  BY InHand DEF Inv, ReadDefault, Good, Placed, Resting
<1>1. CASE Continue(b)
  BY <1>0, <1>1, SilentInv DEF Quiet, Shared
<1>2. CASE \E t \in Defaults : Become(b, [at[b] EXCEPT !.pc = "ask", !.found = Found(b, t)])
  <2>1. PICK t \in Templates : Become(b, [at[b] EXCEPT !.pc = "ask", !.found = Found(b, t)])
    BY <1>2, RepliesAssumption
  <2>2. [at[b] EXCEPT !.pc = "ask", !.found = Found(b, t)]
        = [at[b] EXCEPT !.pc = "ask", !.todo = at[b].todo, !.found = Found(b, t)]
    BY <1>0 DEF Locals
  <2>3. Become(b, [at[b] EXCEPT !.pc = "ask", !.todo = at[b].todo, !.found = Found(b, t)])
    BY <2>1, <2>2
  <2>4. at[b].todo \in SUBSET Templates
    BY InHand DEF Locals
  <2> QED BY <1>0, <2>3, <2>4, FindInv
<1> QED BY <1>1, <1>2 DEF ReadDefault

LEMMA TemplatesReadInv ==
  ASSUME Inv, NEW b \in Batches, TemplatesRead(b), UNCHANGED <<templated, env>>
  PROVE  Inv'
<1>0. at[b].pc = "template" /\ Quiet /\ at[b].i <= Len(Content[b]) /\ Shared
  BY InHand DEF Inv, TemplatesRead, Good, Placed, Resting
<1>1. CASE Continue(b)
  BY <1>0, <1>1, SilentInv DEF Quiet, Shared
<1>2. CASE \E pc \in {"match", "ask", "default"} : Goto(b, pc)
  BY <1>0, <1>2, GoInv DEF Quiet, Shared
<1> QED BY <1>1, <1>2 DEF TemplatesRead

LEMMA AnswerInv ==
  ASSUME Inv, NEW b \in Batches, Match(b) \/ Ask(b) \/ Tuling(b), UNCHANGED <<templated, env>>
  PROVE  Inv'
<1>1. at[b].pc \in {"match", "ask", "tuling"} /\ Continue(b) /\ UNCHANGED faults
  BY DEF Match, Ask, Tuling
<1>2. at[b].i <= Len(Content[b]) /\ Shared
  BY <1>1, InHand DEF Inv, Good, Placed, Resting
<1>3. CASE UNCHANGED said
  BY <1>1, <1>2, <1>3, SilentInv DEF Shared
<1>4. CASE Say(b)
  BY <1>1, <1>2, <1>4, SaidInv DEF Saving
<1> QED BY <1>3, <1>4 DEF Match, Ask, Tuling

\* A failed read either ends the round, or leads to the default, or skips a
\* template.
LEMMA ReadFailsInv ==
  ASSUME Inv, NEW b \in Batches, UNCHANGED <<templated, env>>,
         \/ ReadLinkFails(b) \/ ReadOwnerFails(b) \/ ReadBindingsFails(b)
         \/ ReadTemplateFails(b) \/ ReadDefaultFails(b)
  PROVE  Inv'
<1>0. /\ at \in [Batches -> Locals] /\ faults \in Nat /\ faults' \in Nat /\ faults' >= faults
      /\ UNCHANGED said
  <2>1. Fails
    BY DEF ReadLinkFails, ReadOwnerFails, ReadBindingsFails, ReadTemplateFails, ReadDefaultFails
  <2>2. faults \in Nat /\ at \in [Batches -> Locals]
    BY DEF Inv, Shared
  <2>3. faults' = faults + 1 /\ UNCHANGED said
    BY <2>1 DEF Fails
  <2> QED BY <2>2, <2>3
<1>1. Good(b, at[b], said[b]) /\ at[b].pc \in {"next", "owner", "bindings", "template", "default"}
  BY InHand DEF ReadLinkFails, ReadOwnerFails, ReadBindingsFails, ReadTemplateFails, ReadDefaultFails
<1>2. at[b].i <= Len(Content[b])
  BY <1>1 DEF Good, Placed, Resting, ReadLinkFails, ReadOwnerFails, ReadBindingsFails,
         ReadTemplateFails, ReadDefaultFails
<1>3. CASE Continue(b)
  BY <1>0, <1>1, <1>2, <1>3, SilentInv
<1>4. CASE at[b].pc = "bindings" /\ Goto(b, "default")
  BY <1>0, <1>4, GoInv
<1>5. CASE ReadTemplateFails(b)
  <2>1. at[b].pc = "template" /\ at[b] \in Locals
    BY <1>5, InHand DEF ReadTemplateFails
  <2>2. PICK t \in at[b].todo :
          Become(b, [at[b] EXCEPT !.todo = at[b].todo \ {t}, !.missed = at[b].missed \cup {t}])
    BY <1>5, <2>1 DEF ReadTemplateFails, Locals
  <2>3. at' = [at EXCEPT ![b] = at'[b]]
    BY <1>0, <2>2 DEF Become
  <2>4. t \in Templates /\ at[b].todo \subseteq Templates /\ at[b].missed \subseteq Templates
    BY <2>1, <2>2 DEF Locals
  <2>5. /\ at'[b] \in Locals /\ at'[b].pc = "template" /\ at'[b].i = at[b].i
        /\ at'[b].my = at[b].my /\ at'[b].seen = at[b].seen /\ at'[b].found = at[b].found
    BY <1>0, <2>1, <2>2, <2>4 DEF Become, Locals
  <2>6. Moves(b)
    <3>1. said = [c \in Batches |-> said[c]]
      BY DEF Inv
    <3> QED BY <1>0, <2>3, <3>1 DEF Moves
  <2>7. Informed(at[b])' /\ Owned(at[b])'
    <3>1. Config' = Config /\ templated' = templated
      BY DEF env, Config
    <3> QED BY <1>1, <2>1, <2>5, <3>1 DEF Good, Informed, Owned, SeenOwner, Open, Chosing, Searching
  <2> QED BY <1>0, <1>2, <2>1, <2>5, <2>6, <2>7, StayInv DEF Saving, Resting
<1> QED BY <1>3, <1>4, <1>5 DEF ReadLinkFails, ReadOwnerFails, ReadBindingsFails, ReadDefaultFails

\* The goroutine that waits for the link service keeps its message in hand.
LEMMA HangInv ==
  ASSUME Inv, NEW b \in Batches, Hang(b), UNCHANGED <<templated, env>>
  PROVE  Inv'
<1>0. at \in [Batches -> Locals]
  BY DEF Inv
<1>1. /\ at' = [at EXCEPT ![b] = at'[b]]
      /\ at'[b] = [pc |-> "hung", i |-> at[b].i, link |-> NoLink, my |-> NoShop,
                   todo |-> {}, found |-> <<>>, seen |-> {}, missed |-> {}]
  BY <1>0 DEF Hang, Become, Round, Queued
<1>2. Moves(b) /\ UNCHANGED said
  BY <1>1, QuietMoves DEF Hang
<1>3. at'[b] \in Locals
  BY <1>1, InHand DEF Locals, PCs
<1>4. Informed(at[b])' /\ Owned(at[b])'
  BY <1>1 DEF Informed, Owned, Searching, Chosing
<1>5. at[b].pc \in {"ask", "tuling", "product", "coupon"}
  BY DEF Hang, Shortens
<1>6. at[b].i <= Len(Content[b])
  BY <1>5, InHand DEF Good, Placed, Resting
<1> QED BY <1>1, <1>2, <1>3, <1>4, <1>5, <1>6, StayInv DEF Saving, Resting

\* The searches without templates
LEMMA SearchInv ==
  ASSUME Inv, NEW b \in Batches, NEW pc \in {"domain", "product", "coupon"},
         Goto(b, pc), UNCHANGED said, UNCHANGED <<templated, env>>,
         faults' \in Nat, faults' >= faults,
         at[b].pc \in Searching, at[b].pc \notin Saving \/ faults' > faults
  PROVE  Inv'
<1>0. at \in [Batches -> Locals] /\ said = [c \in Batches |-> said[c]]
  BY DEF Inv
<1>1. Moves(b)
  BY <1>0 DEF Goto, Become, Moves
<1>2. /\ at'[b] \in Locals /\ at'[b].pc = pc /\ at'[b].i = at[b].i
      /\ at'[b].seen = at[b].seen /\ at'[b].found = at[b].found
  BY <1>0 DEF Goto, Become, Locals, PCs, Searching
<1>3. Good(b, at[b], said[b])
  BY InHand
<1>4. Informed(at[b])' /\ Owned(at[b])'
  BY <1>2, <1>3 DEF Good, Informed, Owned, Chosing, Searching, env, Config
<1>5. at[b].i <= Len(Content[b])
  BY <1>3 DEF Good, Placed, Resting, Searching
<1> QED BY <1>1, <1>2, <1>4, <1>5, StayInv DEF Resting, Searching

LEMMA FallsInv ==
  ASSUME Inv, NEW b \in Batches, Falls(b), UNCHANGED said, UNCHANGED <<templated, env>>,
         faults' \in Nat, faults' >= faults,
         at[b].pc \notin Saving \/ faults' > faults
  PROVE  Inv'
<1>1. at[b].pc \in Searching /\ at[b].pc # "acked"
  BY DEF Falls, Searching
<1>2. at[b].i <= Len(Content[b])
  BY <1>1, InHand DEF Good, Placed, Resting, Searching
<1>3. CASE Goto(b, "domain") \/ Goto(b, "coupon")
  BY <1>1, <1>3, SearchInv
<1>4. CASE Continue(b)
  BY <1>1, <1>2, <1>4, SilentInv
<1> QED BY <1>3, <1>4 DEF Falls

LEMMA CreateRowInv ==
  ASSUME Inv, NEW b \in Batches, CreateRow(b), UNCHANGED <<templated, env>>
  PROVE  Inv'
<1>0. at \in [Batches -> Locals] /\ said = [c \in Batches |-> said[c]]
      /\ faults \in Nat /\ UNCHANGED faults
  BY DEF Inv, Shared, CreateRow
<1>1. Good(b, at[b], said[b]) /\ at[b].pc \in {"custom", "product", "coupon"} /\ Say(b)
  BY InHand DEF CreateRow
<1>2. PICK pc \in Saving : Goto(b, pc)
  BY <1>1 DEF CreateRow, Saving
<1>3. /\ at'[b] \in Locals /\ at'[b].pc = pc /\ at'[b].i = at[b].i
      /\ at'[b].seen = at[b].seen /\ at'[b].found = at[b].found
  BY <1>0, <1>2 DEF Goto, Become, Locals, PCs, Searching, Saving
<1>4. at[b].i <= Len(Content[b]) /\ at[b].i \in DOMAIN Content[b]
  BY <1>1, InHand DEF Good, Placed, Resting
<1>5. said'[b] = [said[b] EXCEPT ![at[b].i] = @ + 1] /\ said' = [said EXCEPT ![b] = said'[b]]
  BY <1>0, <1>1 DEF Say
<1>6. said'[b] \in [DOMAIN Content[b] -> Nat]
      /\ \A j \in DOMAIN Content[b] : j # at[b].i => said'[b][j] = said[b][j]
  BY <1>4, <1>5, InHand
<1>7. Moves(b)
  <2>1. at' = [at EXCEPT ![b] = at'[b]]
    BY <1>0, <1>2 DEF Goto, Become
  <2> QED BY <1>0, <1>5, <2>1 DEF Moves
<1>8. Informed(at[b])' /\ Owned(at[b])'
  BY <1>1, <1>2, <1>3 DEF Good, Informed, Owned, Chosing, Searching, Saving, env, Config
<1>9. Placed(b, at[b])' /\ Whole(b, at[b])'
  BY <1>2, <1>3, <1>4, InHand DEF Placed, Whole, Resting, Saving
<1>10. Counted(b, at[b], said[b])'
  <2>1. Counted(b, at[b], said[b])
    BY <1>1 DEF Good
  <2>2. said[b][at[b].i] <= faults /\ said[b][at[b].i] \in Nat
    BY <1>1, <1>4, <2>1, InHand DEF Counted, Saving
  <2>3. said'[b][at[b].i] <= 1 + faults
    BY <1>0, <1>4, <1>5, <2>2, InHand
  <2>4. \A j \in DOMAIN Content[b] : said'[b][j] <= 1 + faults'
    BY <1>0, <1>6, <2>1, <2>3 DEF Counted
  <2>5. ASSUME NEW j \in DOMAIN Content[b], j > at[b].i PROVE said'[b][j] = 0
    <3>1. said[b][j] = 0
      BY <1>1, <2>1, <2>5 DEF Counted
    <3>2. j # at[b].i
      BY <2>5, InHand
    <3> QED BY <1>6, <3>1, <3>2
  <2> QED BY <1>2, <1>3, <2>4, <2>5 DEF Counted, Saving
<1> QED BY <1>3, <1>6, <1>7, <1>8, <1>9, <1>10, MoveInv DEF Good

LEMMA SaveInv ==
  ASSUME Inv, NEW b \in Batches, SaveRow(b) \/ SaveFails(b) \/ NoCommand(b) \/ ReadDomain(b),
         UNCHANGED <<templated, env>>
  PROVE  Inv'
<1>0. Shared /\ faults \in Nat /\ UNCHANGED said
  BY DEF Inv, Shared, SaveRow, SaveFails, NoCommand, ReadDomain, Quiet, Fails
<1>1. CASE SaveRow(b)
  <2>1. at[b].i <= Len(Content[b]) /\ at[b].pc # "acked" /\ Continue(b) /\ faults' = faults
    BY <1>1, InHand DEF SaveRow, Good, Placed, Resting, Quiet
  <2> QED BY <1>0, <2>1, SilentInv
<1>2. CASE SaveFails(b)
  BY <1>0, <1>2, FallsInv DEF SaveFails, Fails
<1>3. CASE NoCommand(b)
  BY <1>0, <1>3, FallsInv DEF NoCommand, Quiet, Saving
<1>4. CASE ReadDomain(b)
  <2>1. at[b].i <= Len(Content[b]) /\ at[b].pc = "domain" /\ faults' = faults
    BY <1>4, InHand DEF ReadDomain, Good, Placed, Resting, Quiet
  <2>2. CASE Continue(b)
    BY <1>0, <2>1, <2>2, SilentInv
  <2>3. CASE Goto(b, "product")
    BY <1>0, <2>1, <2>3, SearchInv DEF Searching, Saving
  <2> QED BY <1>4, <2>2, <2>3 DEF ReadDomain
<1> QED BY <1>1, <1>2, <1>3, <1>4

-----------------------------------------------------------------------------
(* What happens to many goroutines at once.                                *)

LEMMA RestartInv ==
  ASSUME Inv, NEW queue, Restart(queue), faults' \in Nat, faults' >= faults,
         UNCHANGED <<templated, env>>
  PROVE  Inv'
<1> DEFINE again == {b \in Batches : Kind[b] = queue /\ at[b].pc # "acked"}
<1>1. /\ at' = [b \in Batches |-> IF b \in again THEN Queued ELSE at[b]]
      /\ said' = [b \in Batches |-> IF b \in again THEN [i \in DOMAIN Content[b] |-> 0] ELSE said[b]]
  BY DEF Restart
<1> HIDE DEF again
<1>2. Shared' /\ Config' = Config
  BY DEF Inv, Shared, env, Config
<1>3. Queued = [pc |-> "queued", i |-> 1, link |-> NoLink, my |-> NoShop,
                todo |-> {}, found |-> <<>>, seen |-> {}, missed |-> {}]
      /\ Queued \in Locals
  BY DEF Queued, Locals, PCs, Resting, NoLink
<1>4. at' \in [Batches -> Locals]
  BY <1>1, <1>3 DEF Inv
<1>5. DOMAIN said' = Batches /\ said' = [c \in Batches |-> said'[c]]
  BY <1>1
<1>6. ASSUME NEW b \in Batches, b \in again PROVE Good(b, at[b], said[b])'
  <2>1. at'[b] = Queued /\ said'[b] = [i \in DOMAIN Content[b] |-> 0]
    BY <1>1, <1>6
  <2>2. Placed(b, at[b])'
    BY <1>3, <2>1, ContentFacts DEF Placed, Resting
  <2>3. Informed(at[b])' /\ Owned(at[b])' /\ Whole(b, at[b])'
    BY <1>3, <2>1 DEF Informed, Owned, Whole, Searching, Chosing
  <2>4. Counted(b, at[b], said[b])'
    BY <2>1 DEF Counted
  <2> QED BY <1>3, <2>1, <2>2, <2>3, <2>4 DEF Good
<1>7. ASSUME NEW b \in Batches, b \notin again PROVE Good(b, at[b], said[b])'
  <2>1. at'[b] = at[b] /\ said'[b] = said[b]
    BY <1>1, <1>7
  <2>2. Good(b, at[b], said[b])
    BY InHand
  <2>3. Counted(b, at[b], said[b])'
    BY <2>1, <2>2 DEF Good, Counted, Inv, Shared
  <2>4. Informed(at[b])' /\ Owned(at[b])'
    BY <1>2, <2>1, <2>2 DEF Good, Informed, Owned, SeenOwner, Open
  <2>5. Placed(b, at[b])' /\ Whole(b, at[b])'
    BY <2>1, <2>2 DEF Good, Placed, Whole
  <2> QED BY <2>1, <2>2, <2>3, <2>4, <2>5 DEF Good
<1> QED BY <1>2, <1>4, <1>5, <1>6, <1>7 DEF Inv

LEMMA StepInv ==
  ASSUME Inv, NEW b \in Batches, Step(b), UNCHANGED <<templated, env>>
  PROVE  Inv'
<1>1. CASE Panic(b)
  <2>1. Restart(Kind[b]) /\ faults' \in Nat /\ faults' >= faults
    BY <1>1 DEF Panic, Inv, Shared
  <2> QED BY <2>1, RestartInv
<1>2. CASE Deliver(b) \/ Finish(b) \/ Malformed(b) \/ ReadLink(b)
  BY <1>2, DeliverInv, FinishInv, ReadLinkInv
<1>3. CASE ReadOwner(b) \/ ReadBindings(b) \/ ReadTemplate(b) \/ TemplatesRead(b) \/ ReadDefault(b)
  BY <1>3, ReadOwnerInv, ReadBindingsInv, ReadTemplateInv, TemplatesReadInv, ReadDefaultInv
<1>4. CASE Match(b) \/ Ask(b) \/ Tuling(b) \/ CreateRow(b)
  BY <1>4, AnswerInv, CreateRowInv
<1>5. CASE SaveRow(b) \/ SaveFails(b) \/ NoCommand(b) \/ ReadDomain(b)
  BY <1>5, SaveInv
<1>6. CASE \/ ReadLinkFails(b) \/ ReadOwnerFails(b) \/ ReadBindingsFails(b)
           \/ ReadTemplateFails(b) \/ ReadDefaultFails(b)
  BY <1>6, ReadFailsInv
<1>7. CASE Hang(b)
  BY <1>7, HangInv
<1> QED BY <1>1, <1>2, <1>3, <1>4, <1>5, <1>6, <1>7 DEF Step

\* A change of the configuration is seen by whoever looked before it.
LEMMA ChangeInv == Inv /\ Change => Inv'
<1> SUFFICES ASSUME Inv, Change PROVE Inv'
  OBVIOUS
<1>1. /\ at' = [b \in Batches |-> IF at[b].seen = {} THEN at[b]
                                 ELSE [at[b] EXCEPT !.seen = @ \cup {Config'}]]
      /\ UNCHANGED <<templated, said, faults>>
  BY DEF Change
<1>2. Config' \in Configs /\ bot' \in BotAnswers /\ shortener' \in ShortenerStates
  <2>1. /\ links \in LinkTable /\ on \subseteq Templates /\ bound \subseteq Templates
        /\ reply \in [Templates -> Conditions] /\ bot \in BotAnswers
        /\ shortener \in ShortenerStates
    BY DEF Inv, Shared, Config, Configs
  <2>2. links' \in LinkTable
    <3>1. CASE UNCHANGED links
      BY <2>1, <3>1
    <3>2. CASE \E l \in Links, o \in BOOLEAN, m \in Shops :
                 links' = [links EXCEPT ![l] = [open |-> o, my |-> IF o THEN m ELSE @.my]]
      BY <2>1, <3>2 DEF LinkTable
    <3> QED BY <3>1, <3>2 DEF Change
  <2>3. /\ on' \subseteq Templates /\ bound' \subseteq Templates /\ bot' \in BotAnswers
        /\ shortener' \in ShortenerStates
    BY <2>1 DEF Change
  <2>4. reply' \in [Templates -> Conditions]
    BY <2>1 DEF Change, Conditions
  <2> QED BY <2>2, <2>3, <2>4 DEF Config, Configs
<1>3. Shared'
  BY <1>1, <1>2 DEF Inv, Shared
<1>4. ASSUME NEW b \in Batches PROVE at'[b] \in Locals /\ Good(b, at[b], said[b])'
  <2>1. Good(b, at[b], said[b]) /\ at[b] \in Locals
    BY InHand
  <2>2. /\ at'[b] \in Locals /\ at'[b].pc = at[b].pc /\ at'[b].i = at[b].i
        /\ at'[b].my = at[b].my /\ at'[b].found = at[b].found
        /\ at[b].seen \subseteq at'[b].seen
        /\ at'[b].seen # {} => Config' \in at'[b].seen
        /\ at[b].seen # {} => at'[b].seen # {}
    BY <1>1, <1>2, <2>1 DEF Locals
  <2>3. said'[b] = said[b]
    BY <1>1
  <2>4. Informed(at[b])'
    BY <1>1, <2>1, <2>2 DEF Good, Informed
  <2>5. Owned(at[b])'
    BY <2>1, <2>2 DEF Good, Owned, SeenOwner, Open
  <2>6. Placed(b, at[b])' /\ Whole(b, at[b])'
    BY <2>1, <2>2 DEF Good, Placed, Whole
  <2>7. Counted(b, at[b], said[b])'
    BY <1>1, <2>1, <2>2, <2>3 DEF Good, Counted
  <2> QED BY <2>1, <2>2, <2>3, <2>4, <2>5, <2>6, <2>7 DEF Good
<1>5. at' \in [Batches -> Locals]
  BY <1>1, <1>4
<1>6. DOMAIN said' = Batches /\ said' = [c \in Batches |-> said'[c]]
  BY <1>1 DEF Inv
<1> QED BY <1>3, <1>4, <1>5, <1>6 DEF Inv

LEMMA NextInv == Inv /\ [Next]_vars => Inv'
<1> SUFFICES ASSUME Inv, [Next]_vars PROVE Inv'
  OBVIOUS
<1>1. CASE \E b \in Batches : Step(b) /\ UNCHANGED <<templated, env>>
  BY <1>1, StepInv
<1>2. CASE Crash /\ UNCHANGED <<templated, env>>
  <2>1. PICK queue \in {"message", "keyword"} : Restart(queue)
    BY <1>2 DEF Crash
  <2>2. faults' \in Nat /\ faults' >= faults
    BY <1>2 DEF Crash, Inv, Shared
  <2> QED BY <1>2, <2>1, <2>2, RestartInv
<1>3. CASE Change
  BY <1>3, ChangeInv
<1>4. CASE UNCHANGED vars
  <2>1. UNCHANGED <<templated, links, on, reply, bound, bot, shortener, at, said, faults>>
    BY <1>4 DEF vars, env
  <2>2. Shared' /\ Config' = Config
    BY <2>1 DEF Inv, Shared, Config
  <2>3. ASSUME NEW b \in Batches PROVE Good(b, at[b], said[b])'
    <3>1. Good(b, at[b], said[b])
      BY InHand
    <3> QED BY <2>1, <2>2, <3>1
         DEF Good, Placed, Informed, Owned, SeenOwner, Open, Counted, Whole
  <2> QED BY <2>1, <2>2, <2>3 DEF Inv
<1> QED BY <1>1, <1>2, <1>3, <1>4 DEF Next

LEMMA Invariant == Spec => []Inv
<1>1. Init => Inv
  BY InitInv
<1>2. Inv /\ [Next]_vars => Inv'
  BY NextInv
<1> QED BY <1>1, <1>2, PTL DEF Spec

-----------------------------------------------------------------------------
(* Theorems.                                                               *)

\* The variables have their types (the states of a goroutine in sync.go 635-740
\* and 962-1090).
THEOREM TypeCorrect == Spec => []TypeOK
<1>1. Inv => TypeOK
  <2> SUFFICES ASSUME Inv PROVE TypeOK
    OBVIOUS
  <2>1. /\ links \in LinkTable /\ on \subseteq Templates /\ bound \subseteq Templates
        /\ reply \in [Templates -> Conditions] /\ bot \in BotAnswers
        /\ shortener \in ShortenerStates
    BY DEF Inv, Shared, Config, Configs
  <2>2. \A b \in Batches : at[b] \in Locals /\ at[b].i \in 1..(Len(Content[b]) + 1)
                          /\ said[b] \in [DOMAIN Content[b] -> Nat]
    BY InHand
  <2>3. \A b \in Batches :
          /\ at[b].link \in Links \cup {NoLink} /\ at[b].my \in Shops \cup {NoShop}
          /\ at[b].todo \subseteq Templates /\ at[b].missed \subseteq Templates
          /\ at[b].found \in Seq([tpl : Templates, reply : Conditions])
    BY <2>2 DEF Locals
  <2> QED BY <2>1, <2>2, <2>3 DEF TypeOK, LinkTable, Conditions
<1> QED BY <1>1, Invariant, PTL

\* Between two redeliveries a message is answered at most once for each failed
\* write and once more: an error of Save leads to the next search although the
\* row is there (sync.go 1008-1025, 1063).
THEOREM OnceAnswered == Spec => []AnsweredOnce
<1>1. Inv => AnsweredOnce
  <2> SUFFICES ASSUME Inv, NEW b \in Batches, NEW i \in DOMAIN said[b]
               PROVE  said[b][i] <= 1 + faults
    BY DEF AnsweredOnce
  <2>1. i \in DOMAIN Content[b]
    BY InHand
  <2> QED BY <2>1, InHand DEF Good, Counted
<1> QED BY <1>1, Invariant, PTL

\* However often the process ends, a batch that is acked was looked at to its
\* end or to a message that is not base64 (sync.go 979).
THEOREM NoneDropped == Spec => []NothingDropped
<1>1. Inv => NothingDropped
  BY InHand DEF Good, Whole, NothingDropped, Message
<1> QED BY <1>1, Invariant, PTL

\* Only a message that is being handled is answered.
LEMMA AnswerSteps ==
  ASSUME Inv, Next, NEW b \in Batches, templated, Answers(b)
  PROVE  at[b].pc \in {"match", "ask"}
<1>1. PICK i \in DOMAIN said[b] : said'[b][i] > said[b][i]
  BY DEF Answers
<1>2. said[b] \in [DOMAIN Content[b] -> Nat] /\ said[b][i] \in Nat
  BY InHand
<1>3. said' # said /\ said'[b] # said[b]
  BY <1>1, <1>2
<1>4. ASSUME NEW queue, Restart(queue) PROVE FALSE
  <2>1. said'[b] = said[b] \/ said'[b] = [j \in DOMAIN Content[b] |-> 0]
    BY <1>4 DEF Restart
  <2>2. said'[b][i] = 0
    BY <1>2, <1>3, <2>1
  <2> QED BY <1>1, <1>2, <2>2
<1>5. ~Change
  BY <1>3 DEF Change
<1>6. ~Crash
  BY <1>4 DEF Crash
<1>7. PICK c \in Batches : Step(c)
  BY <1>5, <1>6 DEF Next
<1>8. ~Panic(c)
  BY <1>4 DEF Panic
<1>9. Match(c) \/ Ask(c) \/ Tuling(c) \/ CreateRow(c)
  BY <1>3, <1>7, <1>8 DEF Step, Quiet, Fails, Hang, ReadLinkFails, ReadOwnerFails,
       ReadBindingsFails, ReadTemplateFails, ReadDefaultFails, Deliver, Finish, Malformed, ReadLink, Look, ReadOwner,
       ReadBindings, ReadTemplate, TemplatesRead, ReadDefault, NoCommand, SaveRow, SaveFails, ReadDomain
<1>10. Say(c)
  BY <1>3, <1>9 DEF Match, Ask, Tuling, CreateRow
<1>11. c = b
  BY <1>3, <1>10 DEF Say, Inv
<1>12. at[b].pc \notin Searching
  BY InHand DEF Good, Informed
<1> QED BY <1>9, <1>11, <1>12 DEF Match, Ask, Tuling, CreateRow, Searching

\* With templates a room is answered with those of a merchant that had an open
\* link to it while the message was handled, although bindings survive a
\* handover and the link is read twice (template.go 362, 385).
THEOREM OwnTemplatesOnly == Spec => OwnTemplates
<1> DEFINE Own(b) == templated /\ Answers(b) =>
             \A t \in Chosen(b) : \E c \in at[b].seen : \E l \in Open(c.links) : c.links[l].my = MyOf[t]
<1>1. ASSUME Inv, [Next]_vars PROVE [\A b \in Batches : Own(b)]_vars
  <2> SUFFICES ASSUME Next, NEW b \in Batches, templated, Answers(b), NEW t \in Chosen(b)
               PROVE  \E c \in at[b].seen : \E l \in Open(c.links) : c.links[l].my = MyOf[t]
    BY <1>1
  <2>1. at[b].pc \in {"match", "ask"}
    BY <1>1, AnswerSteps
  <2>2. SeenOwner(at[b]) /\ \A k \in DOMAIN at[b].found : MyOf[at[b].found[k].tpl] = at[b].my
    BY <1>1, <2>1, InHand DEF Good, Owned, Chosing
  <2>3. MyOf[t] = at[b].my
    BY <2>1, <2>2 DEF Chosen, Candidates
  <2> QED BY <2>2, <2>3 DEF SeenOwner
<1>2. [\A b \in Batches : Own(b)]_vars <=>
      [\A b \in Batches : templated /\ Answers(b) =>
         \A t \in Chosen(b) : \E c \in at[b].seen : \E l \in Open(c.links) : c.links[l].my = MyOf[t]]_vars
  OBVIOUS
<1> QED BY <1>1, <1>2, Invariant, PTL DEF Spec, OwnTemplates

-----------------------------------------------------------------------------
(* What a goroutine knows as long as nothing changes.                      *)

\* The robot that will answer had an open link at a time the goroutine has seen.
Linked(r) == r.seen # {} => \E c \in r.seen : r.link \in Open(c.links)

Chosable(b) == {t \in bound : Type[t] = Kind[b]}

\* If nothing has changed, every usable template of the merchant is found, still
\* to be read or could not be read, and what was found is as it was.
Remembered(b, r) ==
  /\ r.pc = "bindings" => r.found = <<>>
  /\ r.pc \in {"template", "match"} /\ r.seen = {Config} =>
       /\ r.todo \subseteq Chosable(b)
       /\ \A t \in Chosable(b) \cap on : MyOf[t] = r.my =>
            \/ t \in r.todo \cup r.missed
            \/ \E k \in DOMAIN r.found : r.found[k] = [tpl |-> t, reply |-> reply[t]]
       /\ \A k \in DOMAIN r.found :
            /\ r.found[k].tpl \in Chosable(b) \cap on
            /\ r.found[k].reply = reply[r.found[k].tpl]
       /\ r.pc = "match" => r.todo = {}

Knows(b) == Linked(at[b]) /\ Remembered(b, at[b])
AllKnow == \A b \in Batches : Knows(b)

LEMMA SameKnows ==
  ASSUME NEW b \in Batches, Knows(b), at'[b] = at[b], UNCHANGED env
  PROVE  Knows(b)'
<1>1. UNCHANGED <<links, on, reply, bound>> /\ Config' = Config
  BY DEF env, Config
<1> QED BY <1>1 DEF Knows, Linked, Open, Remembered, Chosable

\* A step that reads no template
LEMMA OtherwiseKnows ==
  ASSUME NEW b \in Batches, Knows(b), at'[b].pc \notin {"bindings", "template", "match"},
         at'[b].seen = {} \/ (at'[b].seen = at[b].seen /\ at'[b].link = at[b].link)
  PROVE  Knows(b)'
BY DEF Knows, Linked, Remembered, Open

LEMMA OnlyOneMoves ==
  ASSUME Inv, NEW b \in Batches, Step(b), ~Panic(b)
  PROVE  \A c \in Batches \ {b} : at'[c] = at[c]
BY DEF Inv, Step, Deliver, Finish, Malformed, ReadLink, Look, ReadOwner, ReadBindings, ReadTemplate,
   TemplatesRead, ReadDefault, Match, Ask, Tuling, NoCommand, CreateRow, SaveRow, SaveFails,
   ReadDomain, Hang, ReadLinkFails, ReadOwnerFails, ReadBindingsFails, ReadTemplateFails,
   ReadDefaultFails, Falls, Become, Goto, Continue

LEMMA ContinueKnows ==
  ASSUME Inv, NEW b \in Batches, Knows(b), Continue(b)
  PROVE  Knows(b)'
<1>1. at'[b].pc = "next" /\ at'[b].seen = {}
  BY DEF Inv, Continue, Become, Round, Queued
<1> QED BY <1>1, OtherwiseKnows

LEMMA GotoFacts ==
  ASSUME Inv, NEW b \in Batches, NEW pc, Goto(b, pc)
  PROVE  /\ at'[b].pc = pc /\ at'[b].i = at[b].i
         /\ at'[b].link = at[b].link /\ at'[b].seen = at[b].seen /\ at'[b].my = at[b].my
         /\ at'[b].todo = at[b].todo /\ at'[b].found = at[b].found
         /\ at'[b].missed = at[b].missed
<1>1. at \in [Batches -> Locals] /\ at[b] \in Locals
  BY DEF Inv
<1>2. at'[b] = [at[b] EXCEPT !.pc = pc]
  BY <1>1 DEF Goto, Become
<1> QED BY <1>1, <1>2 DEF Locals

LEMMA GotoKnows ==
  ASSUME Inv, NEW b \in Batches, Knows(b), NEW pc, pc \notin {"bindings", "template", "match"}, Goto(b, pc)
  PROVE  Knows(b)'
BY GotoFacts, OtherwiseKnows

LEMMA ReadLinkKnows ==
  ASSUME Inv, NEW b \in Batches, Knows(b), ReadLink(b), UNCHANGED <<templated, env>>
  PROVE  Knows(b)'
<1>1. CASE NotForUs(b, Latest)
  <2>1. Continue(b)
    BY <1>1 DEF ReadLink, Look
  <2> QED BY <2>1, ContinueKnows
<1>2. CASE ~NotForUs(b, Latest)
  <2>1. Become(b, [at[b] EXCEPT !.pc = First(b), !.link = Latest, !.my = links[Latest].my,
                                !.seen = {Config}])
    BY <1>2 DEF ReadLink, Look
  <2>2. at'[b].pc = First(b) /\ at'[b].link = Latest /\ at'[b].seen = {Config}
    BY <2>1 DEF Inv, Become, Locals
  <2>3. Latest \in Open(links)
    <3>1. Open(links) # {}
      BY <1>2 DEF NotForUs, Latest
    <3>2. Open(links) \in SUBSET Nat /\ IsFiniteSet(Open(links))
      BY RepliesAssumption, FS_Subset DEF Open
    <3> QED BY <3>1, <3>2, GreatestLink DEF Latest
  <2>4. Linked(at[b])'
    <3>1. Config.links = links
      BY DEF Config
    <3> QED BY <2>2, <2>3, <3>1 DEF Linked, Open
  <2>5. First(b) \notin {"bindings", "template", "match"}
    BY DEF First
  <2> QED BY <2>2, <2>4, <2>5 DEF Knows, Remembered
<1> QED BY <1>1, <1>2

LEMMA ReadOwnerKnows ==
  ASSUME Inv, NEW b \in Batches, Knows(b), ReadOwner(b)
  PROVE  Knows(b)'
<1>1. CASE Earliest = NoLink
  <2>1. Continue(b)
    BY <1>1 DEF ReadOwner
  <2> QED BY <2>1, ContinueKnows
<1>2. CASE Earliest # NoLink
  <2>1. Become(b, [at[b] EXCEPT !.pc = "bindings", !.my = links[Earliest].my])
    BY <1>2 DEF ReadOwner
  <2>2. /\ at'[b].pc = "bindings" /\ at'[b].found = at[b].found
        /\ at'[b].seen = at[b].seen /\ at'[b].link = at[b].link
    BY <2>1 DEF Inv, Become, Locals
  <2>3. at[b].found = <<>>
    BY InHand DEF Good, Owned, Chosing, ReadOwner
  <2> QED BY <2>2, <2>3 DEF Knows, Linked, Open, Remembered
<1> QED BY <1>1, <1>2

LEMMA ReadBindingsKnows ==
  ASSUME Inv, NEW b \in Batches, Knows(b), ReadBindings(b), UNCHANGED <<templated, env>>
  PROVE  Knows(b)'
<1>1. /\ at'[b].pc = "template" /\ at'[b].todo = Chosable(b)
      /\ at'[b].found = at[b].found /\ at'[b].seen = at[b].seen /\ at'[b].link = at[b].link
  BY DEF Inv, ReadBindings, Become, Locals, Chosable
<1>2. at[b].found = <<>>
  BY DEF Knows, Remembered, ReadBindings
<1>3. Chosable(b)' = Chosable(b)
  BY DEF Chosable, env
<1> QED BY <1>1, <1>2, <1>3 DEF Knows, Linked, Open, Remembered

LEMMA ReadTemplateKnows ==
  ASSUME Inv, NEW b \in Batches, Knows(b), ReadTemplate(b), UNCHANGED <<templated, env>>
  PROVE  Knows(b)'
<1>0. at \in [Batches -> Locals] /\ at[b].todo \subseteq Templates /\ at[b].pc = "template"
  BY InHand DEF Inv, ReadTemplate, Locals
<1>1. PICK t \in at[b].todo :
        Become(b, [at[b] EXCEPT !.todo = at[b].todo \ {t}, !.found = Found(b, t)])
  BY <1>0 DEF ReadTemplate, Locals
<1> DEFINE f == at[b].found
           g == at'[b].found
           e == [tpl |-> t, reply |-> reply[t]]
<1>2. /\ at'[b].pc = "template" /\ at'[b].todo = at[b].todo \ {t} /\ g = Found(b, t)
      /\ at'[b].seen = at[b].seen /\ at'[b].link = at[b].link /\ at'[b].my = at[b].my
      /\ at'[b].missed = at[b].missed
  BY <1>0, <1>1 DEF Become, Locals
<1>3. UNCHANGED <<on, reply, bound>> /\ Config' = Config /\ Chosable(b)' = Chosable(b)
  BY DEF env, Config, Chosable
<1>4. /\ DOMAIN f \subseteq DOMAIN g /\ \A k \in DOMAIN f : g[k] = f[k]
      /\ \A k \in DOMAIN g \ DOMAIN f : g[k] = e /\ t \in on
      /\ Usable(b, t) => \E k \in DOMAIN g : g[k] = e
  <2>1. CASE ~Usable(b, t)
    BY <1>2, <2>1 DEF Found
  <2>2. CASE Usable(b, t)
    <3>1. g = Append(f, e) /\ t \in on
      BY <1>2, <2>2 DEF Found, Usable
    <3>2. f \in Seq([tpl : Templates, reply : Conditions]) /\ e \in [tpl : Templates, reply : Conditions]
      BY <1>0, InHand DEF Locals, Inv, Shared, Config, Configs
    <3> DEFINE R == [tpl : Templates, reply : Conditions]
    <3> HIDE DEF R, e, f, g
    <3>3. f \in Seq(R) /\ e \in R
      BY <3>2 DEF R
    <3>4. /\ Len(Append(f, e)) = Len(f) + 1 /\ Len(f) \in Nat
          /\ \A k \in 1..Len(f) : Append(f, e)[k] = f[k]
          /\ Append(f, e)[Len(f) + 1] = e
          /\ DOMAIN f = 1..Len(f) /\ DOMAIN Append(f, e) = 1..(Len(f) + 1)
      BY <3>3, AppendProperties, LenProperties
    <3> QED BY <3>1, <3>4
  <2> QED BY <2>1, <2>2
<1> HIDE DEF f, g
<1>5. ASSUME at[b].seen = {Config}
      PROVE  /\ at'[b].todo \subseteq Chosable(b)
             /\ \A u \in Chosable(b) \cap on : MyOf[u] = at[b].my =>
                  u \in at'[b].todo \cup at[b].missed \/ \E k \in DOMAIN g : g[k] = [tpl |-> u, reply |-> reply[u]]
             /\ \A k \in DOMAIN g : /\ g[k].tpl \in Chosable(b) \cap on
                                    /\ g[k].reply = reply[g[k].tpl]
  <2>1. /\ at[b].todo \subseteq Chosable(b)
        /\ \A u \in Chosable(b) \cap on : MyOf[u] = at[b].my =>
             u \in at[b].todo \cup at[b].missed \/ \E k \in DOMAIN f : f[k] = [tpl |-> u, reply |-> reply[u]]
        /\ \A k \in DOMAIN f : /\ f[k].tpl \in Chosable(b) \cap on
                               /\ f[k].reply = reply[f[k].tpl]
    BY <1>0, <1>5 DEF Knows, Remembered, f
  <2>2. ASSUME NEW u \in Chosable(b) \cap on, MyOf[u] = at[b].my
        PROVE  u \in at'[b].todo \cup at[b].missed \/ \E k \in DOMAIN g : g[k] = [tpl |-> u, reply |-> reply[u]]
    <3>1. CASE u = t
      BY <1>4, <2>2, <3>1 DEF Usable
    <3>2. CASE u # t /\ u \in at[b].todo \cup at[b].missed
      BY <1>2, <3>2
    <3>3. CASE u \notin at[b].todo \cup at[b].missed
      BY <1>4, <2>1, <2>2, <3>3
    <3> QED BY <3>1, <3>2, <3>3
  <2>3. ASSUME NEW k \in DOMAIN g
        PROVE  g[k].tpl \in Chosable(b) \cap on /\ g[k].reply = reply[g[k].tpl]
    <3>1. CASE k \in DOMAIN f
      BY <1>4, <2>1, <3>1
    <3>2. CASE k \notin DOMAIN f
      <4>1. g[k] = e /\ t \in on /\ t \in Chosable(b)
        BY <1>4, <2>1, <3>2
      <4> QED BY <4>1
    <3> QED BY <3>1, <3>2
  <2> QED BY <1>2, <2>1, <2>2, <2>3
<1>6. Linked(at[b])'
  BY <1>2 DEF Knows, Linked, Open
<1> QED BY <1>2, <1>3, <1>5, <1>6 DEF Knows, Remembered, g

LEMMA ReadTemplateFailsKnows ==
  ASSUME Inv, NEW b \in Batches, Knows(b), ReadTemplateFails(b), UNCHANGED <<templated, env>>
  PROVE  Knows(b)'
<1>0. at \in [Batches -> Locals] /\ at[b] \in Locals /\ at[b].pc = "template"
  BY InHand DEF Inv, ReadTemplateFails
<1>1. PICK t \in at[b].todo :
        Become(b, [at[b] EXCEPT !.todo = at[b].todo \ {t}, !.missed = at[b].missed \cup {t}])
  BY <1>0 DEF ReadTemplateFails, Locals
<1>2. /\ at'[b].pc = "template" /\ at'[b].todo = at[b].todo \ {t}
      /\ at'[b].missed = at[b].missed \cup {t} /\ at'[b].found = at[b].found
      /\ at'[b].seen = at[b].seen /\ at'[b].link = at[b].link /\ at'[b].my = at[b].my
  BY <1>0, <1>1 DEF Become, Locals
<1>3. UNCHANGED <<on, reply, bound>> /\ Config' = Config /\ Chosable(b)' = Chosable(b)
  BY DEF env, Config, Chosable
<1>4. Linked(at[b])'
  BY <1>2 DEF Knows, Linked, Open
<1>5. at'[b].todo \cup at'[b].missed = at[b].todo \cup at[b].missed
  BY <1>1, <1>2
<1>6. Remembered(b, at[b])'
  BY <1>0, <1>2, <1>3, <1>5 DEF Knows, Remembered
<1> QED BY <1>4, <1>6 DEF Knows

LEMMA TemplatesReadKnows ==
  ASSUME Inv, NEW b \in Batches, Knows(b), TemplatesRead(b), UNCHANGED <<templated, env>>
  PROVE  Knows(b)'
<1>1. CASE Continue(b)
  BY <1>1, ContinueKnows
<1>2. CASE Goto(b, "ask") \/ Goto(b, "default")
  BY <1>2, GotoKnows
<1>3. CASE Goto(b, "match")
  <2>1. at[b].pc = "template" /\ at[b].todo = {}
    BY DEF TemplatesRead
  <2>2. UNCHANGED <<on, reply, bound>> /\ Config' = Config /\ Chosable(b)' = Chosable(b)
    BY DEF env, Config, Chosable
  <2>3. /\ at'[b].pc = "match" /\ at'[b].link = at[b].link /\ at'[b].seen = at[b].seen
        /\ at'[b].my = at[b].my /\ at'[b].todo = at[b].todo /\ at'[b].found = at[b].found
        /\ at'[b].missed = at[b].missed
    BY <1>3, GotoFacts
  <2>4. Linked(at[b])'
    BY <2>3 DEF Knows, Linked, Open
  <2>5. Remembered(b, at[b])'
    BY <2>1, <2>2, <2>3 DEF Knows, Remembered
  <2> QED BY <2>4, <2>5 DEF Knows
<1> QED BY <1>1, <1>2, <1>3 DEF TemplatesRead

LEMMA ReadDefaultKnows ==
  ASSUME Inv, NEW b \in Batches, Knows(b), ReadDefault(b)
  PROVE  Knows(b)'
<1>1. CASE Continue(b)
  BY <1>1, ContinueKnows
<1>2. CASE \E t \in Defaults : Become(b, [at[b] EXCEPT !.pc = "ask", !.found = Found(b, t)])
  <2>1. at'[b].pc = "ask" /\ at'[b].seen = at[b].seen /\ at'[b].link = at[b].link
    BY <1>2 DEF Inv, Become, Locals
  <2> QED BY <2>1, OtherwiseKnows
<1> QED BY <1>1, <1>2 DEF ReadDefault

LEMMA RestartKnows ==
  ASSUME NEW b \in Batches, Knows(b), NEW queue, Restart(queue), UNCHANGED env
  PROVE  Knows(b)'
<1>1. CASE at'[b] = Queued
  BY <1>1, OtherwiseKnows DEF Queued
<1>2. CASE at'[b] = at[b]
  BY <1>2, SameKnows
<1> QED BY <1>1, <1>2 DEF Restart

LEMMA StepKnows ==
  ASSUME Inv, NEW b \in Batches, Knows(b), Step(b), UNCHANGED <<templated, env>>
  PROVE  Knows(b)'
<1>1. CASE Deliver(b)
  <2>1. at'[b].pc = "next" /\ at'[b].seen = {}
    BY <1>1 DEF Inv, Deliver, Become, Round, Queued
  <2> QED BY <2>1, OtherwiseKnows
<1>2. CASE Finish(b) \/ Malformed(b)
  BY <1>2, GotoKnows DEF Finish, Malformed
<1>3. CASE ReadLink(b) \/ ReadOwner(b) \/ ReadBindings(b)
  BY <1>3, ReadLinkKnows, ReadOwnerKnows, ReadBindingsKnows
<1>4. CASE ReadTemplate(b) \/ TemplatesRead(b) \/ ReadDefault(b)
  BY <1>4, ReadTemplateKnows, TemplatesReadKnows, ReadDefaultKnows
<1>5. CASE Match(b) \/ Ask(b) \/ Tuling(b) \/ SaveRow(b)
  BY <1>5, ContinueKnows DEF Match, Ask, Tuling, SaveRow
<1>6. CASE NoCommand(b) \/ SaveFails(b) \/ ReadDomain(b)
  BY <1>6, ContinueKnows, GotoKnows DEF NoCommand, SaveFails, ReadDomain, Falls
<1>7. CASE CreateRow(b)
  <2>1. PICK pc \in Saving : Goto(b, pc)
    BY <1>7 DEF CreateRow, Saving
  <2> QED BY <2>1, GotoKnows DEF Saving
<1>8. CASE Panic(b)
  BY <1>8, RestartKnows DEF Panic
<1>9. CASE ReadLinkFails(b) \/ ReadOwnerFails(b) \/ ReadBindingsFails(b) \/ ReadDefaultFails(b)
  BY <1>9, ContinueKnows, GotoKnows
     DEF ReadLinkFails, ReadOwnerFails, ReadBindingsFails, ReadDefaultFails
<1>10. CASE ReadTemplateFails(b)
  BY <1>10, ReadTemplateFailsKnows
<1>11. CASE Hang(b)
  <2>1. at'[b].pc = "hung" /\ at'[b].seen = {}
    BY <1>11 DEF Inv, Hang, Become, Round, Queued
  <2> QED BY <2>1, OtherwiseKnows
<1> QED BY <1>1, <1>2, <1>3, <1>4, <1>5, <1>6, <1>7, <1>8, <1>9, <1>10, <1>11 DEF Step

\* A goroutine that has seen one configuration only has seen no change.
LEMMA ChangeKnows ==
  ASSUME Inv, NEW b \in Batches, Knows(b), Change
  PROVE  Knows(b)'
<1>0. Good(b, at[b], said[b]) /\ at[b] \in Locals
  BY InHand
<1>1. at'[b] = IF at[b].seen = {} THEN at[b] ELSE [at[b] EXCEPT !.seen = @ \cup {Config'}]
  BY DEF Change
<1>2. /\ at'[b].pc = at[b].pc /\ at'[b].link = at[b].link /\ at'[b].my = at[b].my
      /\ at'[b].todo = at[b].todo /\ at'[b].found = at[b].found /\ at'[b].missed = at[b].missed
      /\ at'[b].seen = IF at[b].seen = {} THEN {} ELSE at[b].seen \cup {Config'}
  BY <1>0, <1>1 DEF Locals
<1>3. Linked(at[b])'
  BY <1>2 DEF Knows, Linked, Open
<1>4. at[b].pc = "bindings" => at[b].found = <<>>
  BY DEF Knows, Remembered
<1>5. ASSUME at'[b].seen = {Config'}
      PROVE  at[b].seen = {Config} /\ UNCHANGED <<on, reply, bound>>
  <2>1. at[b].seen # {} /\ Config \in at[b].seen
    BY <1>0, <1>2, <1>5 DEF Good, Informed
  <2>2. Config' = Config
    BY <1>2, <1>5, <2>1
  <2>3. UNCHANGED <<on, reply, bound>>
    BY <2>2 DEF Config
  <2> QED BY <1>2, <1>5, <2>1, <2>2, <2>3
<1>6. Remembered(b, at[b])'
  BY <1>2, <1>4, <1>5 DEF Knows, Remembered, Chosable
<1> QED BY <1>3, <1>6 DEF Knows

LEMMA NextKnows == Inv /\ AllKnow /\ [Next]_vars => AllKnow'
<1> SUFFICES ASSUME Inv, AllKnow, [Next]_vars, NEW b \in Batches PROVE Knows(b)'
  BY DEF AllKnow
<1>0. Knows(b)
  BY DEF AllKnow
<1>1. ASSUME NEW c \in Batches, Step(c), UNCHANGED <<templated, env>> PROVE Knows(b)'
  <2>1. CASE c = b
    BY <1>0, <1>1, <2>1, StepKnows
  <2>2. CASE c # b /\ Panic(c)
    BY <1>0, <1>1, <2>2, RestartKnows DEF Panic
  <2>3. CASE c # b /\ ~Panic(c)
    BY <1>0, <1>1, <2>3, OnlyOneMoves, SameKnows
  <2> QED BY <2>1, <2>2, <2>3
<1>2. CASE Crash /\ UNCHANGED <<templated, env>>
  BY <1>0, <1>2, RestartKnows DEF Crash
<1>3. CASE Change
  BY <1>0, <1>3, ChangeKnows
<1>4. CASE UNCHANGED vars
  BY <1>0, <1>4, SameKnows DEF vars
<1> QED BY <1>1, <1>2, <1>3, <1>4 DEF Next

LEMMA AllKnowInvariant == Spec => []AllKnow
<1>1. Init => AllKnow
  BY DEF Init, AllKnow, Knows, Linked, Remembered, Queued
<1>2. Inv /\ AllKnow /\ [Next]_vars => AllKnow'
  BY NextKnows
<1> QED BY <1>1, <1>2, Invariant, PTL DEF Spec

\* Unless something changes while a message is handled, or two links of the room
\* are open, the robot that answers and the merchant whose template it is belong
\* to one link, although one is read from the latest and the other from the
\* first (sync.go 661, 987; template.go 349, 375).
THEOREM OneLinkAnswers == Spec => SameLink
<1> DEFINE Same(b) == templated /\ Answers(b) /\ at[b].seen = {Config} /\ Cardinality(Open(links)) = 1 =>
             at[b].link \in Open(links) /\ \A t \in Chosen(b) : MyOf[t] = links[at[b].link].my
<1>1. ASSUME Inv, AllKnow, [Next]_vars PROVE [\A b \in Batches : Same(b)]_vars
  <2> SUFFICES ASSUME Next, NEW b \in Batches, templated, Answers(b), at[b].seen = {Config},
                      Cardinality(Open(links)) = 1
               PROVE  at[b].link \in Open(links) /\ \A t \in Chosen(b) : MyOf[t] = links[at[b].link].my
    BY <1>1
  <2>0. Config.links = links
    BY DEF Config
  <2>1. at[b].link \in Open(links)
    BY <1>1, <2>0 DEF AllKnow, Knows, Linked
  <2>2. Open(links) = {at[b].link}
    <3>1. IsFiniteSet(Open(links))
      BY RepliesAssumption, FS_Subset DEF Open
    <3>2. PICK l : Open(links) = {l}
      BY <3>1, FS_Singleton
    <3> QED BY <2>1, <3>2
  <2>3. at[b].pc \in {"match", "ask"}
    BY <1>1, AnswerSteps
  <2>4. SeenOwner(at[b]) /\ \A k \in DOMAIN at[b].found : MyOf[at[b].found[k].tpl] = at[b].my
    BY <1>1, <2>3, InHand DEF Good, Owned, Chosing
  <2>5. links[at[b].link].my = at[b].my
    BY <2>0, <2>2, <2>4 DEF SeenOwner
  <2>6. \A t \in Chosen(b) : MyOf[t] = at[b].my
    BY <2>3, <2>4 DEF Chosen, Candidates
  <2> QED BY <2>1, <2>5, <2>6
<1>2. [\A b \in Batches : Same(b)]_vars <=>
      [\A b \in Batches : templated /\ Answers(b) /\ at[b].seen = {Config} /\ Cardinality(Open(links)) = 1 =>
         at[b].link \in Open(links) /\ \A t \in Chosen(b) : MyOf[t] = links[at[b].link].my]_vars
  OBVIOUS
<1> QED BY <1>1, <1>2, Invariant, AllKnowInvariant, PTL DEF Spec, SameLink

\* Which steps give up a text or answer it
LEMMA EndSteps ==
  ASSUME Inv, Next, NEW b \in Batches, Kind[b] = "message",
         at[b].pc \in {"next", "owner", "bindings", "template", "match"},
         at'[b].pc = "next", at'[b].i > at[b].i
  PROVE  faults' > faults \/ ReadLink(b) \/ ReadOwner(b) \/ TemplatesRead(b) \/ Match(b)
<1>0. at[b] \in Locals /\ at \in [Batches -> Locals] /\ at[b].i \in 1..(Len(Content[b]) + 1)
  BY InHand DEF Inv
<1>1. at'[b] # at[b] /\ at'[b].i # at[b].i
  BY <1>0
<1>2. ASSUME NEW queue, Restart(queue) PROVE FALSE
  BY <1>1, <1>2 DEF Restart, Queued
<1>3. ~Change
  <2>1. Change => at'[b].i = at[b].i
    BY <1>0 DEF Change, Locals
  <2> QED BY <1>1, <2>1
<1>4. ~Crash
  BY <1>2 DEF Crash
<1>5. PICK c \in Batches : Step(c)
  BY <1>3, <1>4 DEF Next
<1>6. ~Panic(c)
  BY <1>2 DEF Panic
<1>7. c = b
  BY <1>1, <1>5, <1>6, OnlyOneMoves
<1>8. ~ReadTemplate(b) /\ ~ReadBindings(b) /\ ~Finish(b) /\ ~Malformed(b)
  <2>1. ReadTemplate(b) \/ ReadBindings(b) => at'[b].i = at[b].i
    BY <1>0 DEF ReadTemplate, ReadBindings, Become, Locals
  <2>2. Finish(b) \/ Malformed(b) => at'[b].pc = "acked"
    BY GotoFacts DEF Finish, Malformed
  <2> QED BY <1>1, <2>1, <2>2
<1>9. CASE \/ ReadLinkFails(b) \/ ReadOwnerFails(b) \/ ReadBindingsFails(b)
           \/ ReadTemplateFails(b) \/ ReadDefaultFails(b)
  <2>1. Fails
    BY <1>9 DEF ReadLinkFails, ReadOwnerFails, ReadBindingsFails, ReadTemplateFails, ReadDefaultFails
  <2>2. faults' = faults + 1 /\ faults \in Nat
    BY <2>1 DEF Fails, Inv, Shared
  <2> QED BY <2>2
<1>10. ~Deliver(b) /\ ~ReadDefault(b) /\ ~Ask(b) /\ ~Tuling(b) /\ ~Hang(b)
  BY DEF Deliver, ReadDefault, Ask, Tuling, Hang, Shortens
<1>11. ~NoCommand(b) /\ ~CreateRow(b) /\ ~SaveRow(b) /\ ~SaveFails(b) /\ ~ReadDomain(b)
  BY DEF NoCommand, CreateRow, SaveRow, SaveFails, ReadDomain
<1> QED BY <1>5, <1>6, <1>7, <1>8, <1>9, <1>10, <1>11 DEF Step

LEMMA DueAnswered ==
  ASSUME Inv, AllKnow, Next, NEW b \in Batches, templated, Kind[b] = "message",
         at[b].pc \in {"next", "owner", "bindings", "template", "match"},
         at'[b].pc = "next", at'[b].i > at[b].i,
         Message(b).text = "ask", at[b].seen \subseteq {Config}, Due(b)
  PROVE  Answers(b) \/ faults' > faults
<1>0. /\ Remembered(b, at[b]) /\ Good(b, at[b], said[b]) /\ Config.links = links
      /\ at[b].found \in Seq([tpl : Templates, reply : Conditions])
  BY InHand DEF AllKnow, Knows, Config, Locals
<1>1. PICK l \in Links :
        /\ Open(links) = {l}
        /\ LET mine == {t \in (bound \cap on) \ at[b].missed :
                          Type[t] = "message" /\ MyOf[t] = links[l].my}
           IN  /\ \E t \in mine : reply[t] = "good"
               /\ \A t \in mine : reply[t] # "empty"
  BY DEF Due
<1>2. l # NoLink
  BY RepliesAssumption DEF NoLink
<1>3. ~ReadLink(b)
  <2>1. Latest = l
    BY <1>1, RepliesAssumption DEF Latest
  <2>2. ~NotForUs(b, l)
    BY <1>2 DEF NotForUs
  <2>3. ASSUME ReadLink(b) PROVE at'[b].pc = "owner"
    <3> DEFINE r == [at[b] EXCEPT !.pc = First(b), !.link = l, !.my = links[l].my,
                                  !.seen = {Config}]
    <3>1. Become(b, r)
      BY <2>1, <2>2, <2>3 DEF ReadLink, Look
    <3>2. r.pc = First(b)
      BY DEF Inv, Locals
    <3>3. at'[b] = r
      BY <3>1 DEF Become, Inv
    <3>4. First(b) = "owner"
      BY DEF First
    <3> QED BY <3>2, <3>3, <3>4
  <2> QED BY <2>3
<1>4. ~ReadOwner(b)
  <2>1. Earliest = l
    BY <1>1, RepliesAssumption DEF Earliest
  <2>2. ReadOwner(b) => at'[b].pc = "bindings"
    BY <1>2, <2>1 DEF ReadOwner, Become, Inv, Locals
  <2> QED BY <2>2
<1>5. SUFFICES ASSUME TemplatesRead(b) \/ Match(b) PROVE Answers(b)
  BY <1>3, <1>4, EndSteps
<1>6. at[b].pc \in {"template", "match"}
  BY <1>5 DEF TemplatesRead, Match
<1>7. SeenOwner(at[b]) /\ at[b].seen = {Config}
  BY <1>0, <1>6 DEF Good, Owned, Chosing, SeenOwner
<1>8. at[b].my = links[l].my
  BY <1>0, <1>1, <1>7 DEF SeenOwner
<1>9. PICK t \in Chosable(b) \cap on : MyOf[t] = at[b].my /\ reply[t] = "good" /\ t \notin at[b].missed
  BY <1>1, <1>8 DEF Chosable
<1>10. at[b].todo = {} => \E k \in DOMAIN at[b].found : at[b].found[k] = [tpl |-> t, reply |-> reply[t]]
  BY <1>0, <1>6, <1>7, <1>9 DEF Remembered
<1>11. CASE TemplatesRead(b)
  <2>1. at[b].found # <<>>
    BY <1>10, <1>11 DEF TemplatesRead
  <2>2. Goto(b, "match")
    BY <1>11, <2>1 DEF TemplatesRead
  <2> QED BY <2>2, GotoFacts
<1>12. CASE Match(b)
  <2> DEFINE f == at[b].found
             K == {k \in DOMAIN f : f[k].reply # "broken"}
  <2>1. at[b].todo = {}
    BY <1>0, <1>7, <1>12 DEF Remembered, Match
  <2>2. K # {}
    BY <1>9, <1>10, <2>1
  <2>3. DOMAIN f = 1..Len(f) /\ Len(f) \in Nat
    <3> DEFINE R == [tpl : Templates, reply : Conditions]
    <3>1. f \in Seq(R)
      BY <1>0
    <3> HIDE DEF R, f
    <3> QED BY <3>1, LenProperties
  <2>4. PICK k \in K : \A j \in K : k <= j
    <3>1. K \in SUBSET Nat
      BY <2>3
    <3> HIDE DEF K
    <3> QED BY <2>2, <3>1, LeastLink
  <2>5. k \in Candidates(f)
    <3>1. ASSUME NEW j \in 1..(k - 1) PROVE f[j].reply = "broken"
      <4>1. j \in DOMAIN f /\ ~(k <= j)
        BY <2>3
      <4> QED BY <2>4, <4>1
    <3> QED BY <3>1 DEF Candidates
  <2>6. Matches(Message(b))
    BY DEF Matches
  <2>7. Say(b)
    BY <1>12, <2>5, <2>6 DEF Match
  <2>8. at[b].i \in DOMAIN Content[b] /\ said[b] \in [DOMAIN Content[b] -> Nat]
    BY <1>0, <1>6, InHand DEF Good, Placed, Resting
  <2>9. said'[b][at[b].i] = said[b][at[b].i] + 1
    BY <2>7, <2>8 DEF Say, Inv
  <2>10. said[b][at[b].i] \in Nat /\ DOMAIN said[b] = DOMAIN Content[b]
    BY <2>8
  <2> QED BY <2>8, <2>9, <2>10 DEF Answers
<1> QED BY <1>5, <1>11, <1>12

\* A text is answered if, from the time its link is read, the room has one
\* merchant with a usable template whose reading does not fail and none that
\* panics, unless the step that gives it up is itself a failed read: templates
\* that are disabled, of others, unreadable or missed do not come between
\* (sync.go 914-951, 986-993; template.go 345-368).
THEOREM DueTextsAnswered == Spec => AnswersDue
<1> DEFINE Owes(b) == templated /\ Kind[b] = "message"
             /\ at[b].pc \in {"next", "owner", "bindings", "template", "match"}
             /\ at'[b].pc = "next" /\ at'[b].i > at[b].i
             /\ Message(b).text = "ask" /\ at[b].seen \subseteq {Config} /\ Due(b)
           => Answers(b) \/ faults' > faults
<1>1. ASSUME Inv, AllKnow, [Next]_vars PROVE [\A b \in Batches : Owes(b)]_vars
  BY <1>1, DueAnswered
<1>2. [\A b \in Batches : Owes(b)]_vars <=>
      [\A b \in Batches :
         templated /\ Kind[b] = "message" /\ at[b].pc \in {"next", "owner", "bindings", "template", "match"}
           /\ at'[b].pc = "next" /\ at'[b].i > at[b].i
           /\ Message(b).text = "ask" /\ at[b].seen \subseteq {Config} /\ Due(b)
         => Answers(b) \/ faults' > faults]_vars
  OBVIOUS
<1> QED BY <1>1, <1>2, Invariant, AllKnowInvariant, PTL DEF Spec, AnswersDue
=============================================================================
