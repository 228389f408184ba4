------------------------------- MODULE Replies -------------------------------
(***************************************************************************)
(* How the messages of one chat room are answered (uchat/sync.go,          *)
(* uchat/template.go).  A delivery is a batch of messages; its goroutine   *)
(* takes them one by one, reads the room's link, the templates or the      *)
(* commands of the merchant, and writes or publishes a reply.  Nothing     *)
(* holds still between two of its reads.  Each queue has a process of its  *)
(* own; a panic in one goroutine ends it, and every batch of the queue     *)
(* that was not acknowledged starts again.                                 *)
(***************************************************************************)
EXTENDS Integers, Sequences, FiniteSets

CONSTANTS
  Batches,    \* deliveries of both callback queues
  Kind,       \* Kind[b]: "message" (keyword replies) or "keyword" (chat bot)
  Content,    \* Content[b]: its messages, [text, to]
  Links,      \* ids of the room's rows in robot_chat_room, one per robot
  Shops,      \* merchants
  NoShop,     \* the empty my_id
  Templates,  \* work templates of the two types
  Type,       \* Type[t]: the kind of batch it answers
  MyOf,       \* MyOf[t]: its merchant
  Defaults,   \* default templates
  InitLinks,  \* the links at the start
  MaxChanges, \* bound on changes of links, templates, bindings and services
  MaxFaults   \* bound on failed reads, failed writes and crashes

Texts == {"other", "malformed", "robot", "ask", "chat"}

ASSUME RepliesAssumption ==
  /\ Kind \in [Batches -> {"message", "keyword"}]
  /\ \A b \in Batches : Content[b] \in Seq([text : Texts, to : Links])
  /\ Links \subseteq Nat \ {0} /\ IsFiniteSet(Links)
  /\ NoShop \notin Shops
  /\ Type \in [Templates -> {"message", "keyword"}]
  /\ MyOf \in [Templates -> Shops]
  /\ Defaults \subseteq {t \in Templates : Type[t] = "keyword"}
  /\ InitLinks \in [Links -> [open : BOOLEAN, my : Shops \cup {NoShop}]]
  /\ MaxChanges \in Nat /\ MaxFaults \in Nat

\* What comes back from an answering service: an answer; an error, a failure or
\* a code nobody handles; a success without the data it should have.
BotAnswers == {"text", "silent", "empty"}

\* What a call of the link shortener meets: an answer or an error; nothing, for as
\* long as the process lives; an answer without links.
ShortenerStates == {"answers", "hangs", "malformed"}

VARIABLES
  templated, \* UseWorkTemplate, read from the configuration at the start
  links,     \* links[l]: is_open and my_id of a row
  on,        \* templates with status 0
  reply,     \* reply[t]: cmd_reply, as the code can use it
  bound,     \* bindings of the room to templates
  bot,       \* what the answering service has to say
  shortener, \* how the link service behaves
  at,        \* at[b]: the goroutine of a batch
  said,      \* said[b][i]: answers to a message in this life of the process
  before,    \* history: messages answered in an earlier life
  changes,
  faults

config == <<links, on, reply, bound>>
env == <<links, on, reply, bound, bot, shortener, changes>>
vars == <<templated, env, at, said, before, faults>>

NoLink == 0
Config == [links |-> links, on |-> on, reply |-> reply, bound |-> bound]
Open(ls) == {l \in Links : ls[l].open}

\* A batch nobody handles; the locals of one round of the loop, and as history
\* the configurations there were since it read the link and the templates whose
\* reading failed
Queued == [pc |-> "queued", i |-> 1, link |-> NoLink, my |-> NoShop,
           todo |-> {}, found |-> <<>>, seen |-> {}, missed |-> {}]
Round(i) == [Queued EXCEPT !.pc = "next", !.i = i]

Message(b) == Content[b][at[b].i]
Matches(m) == m.text \in {"ask", "robot"}

\* Order("id desc").First, and First, of the open rows of the room
Latest == IF Open(links) = {} THEN NoLink ELSE CHOOSE l \in Open(links) : \A k \in Open(links) : k <= l
Earliest == IF Open(links) = {} THEN NoLink ELSE CHOOSE l \in Open(links) : \A k \in Open(links) : l <= k

-----------------------------------------------------------------------------
(* Steps of a goroutine.                                                   *)

Become(b, r) == at' = [at EXCEPT ![b] = r]
Goto(b, pc) == Become(b, [at[b] EXCEPT !.pc = pc])
Continue(b) == Become(b, Round(at[b].i + 1))
Quiet == UNCHANGED <<said, before, faults>>
Fails == faults < MaxFaults /\ faults' = faults + 1 /\ UNCHANGED <<said, before>>
Say(b) == said' = [said EXCEPT ![b][at[b].i] = @ + 1]

\* The consumer starts a goroutine for the batch.
Deliver(b) ==
  /\ at[b].pc = "queued"
  /\ Become(b, Round(1))
  /\ Quiet

\* The loop is over: return nil, and the consumer acks.
Finish(b) ==
  /\ at[b].pc = "next"
  /\ at[b].i > Len(Content[b])
  /\ Goto(b, "acked")
  /\ Quiet

\* Mutant: a batch that failed is put back into the queue.
RetryMalformed(b) ==
  /\ at[b].pc = "next"
  /\ at[b].i <= Len(Content[b])
  /\ Kind[b] = "message" /\ Message(b).text = "malformed"
  /\ Goto(b, "queued")
  /\ Quiet

\* The content is not base64: return err, and the consumer acks all the same.
Malformed(b) ==
  /\ at[b].pc = "next"
  /\ at[b].i <= Len(Content[b])
  /\ Kind[b] = "message" /\ Message(b).text = "malformed"
  /\ Goto(b, "acked")
  /\ Quiet

\* The round ends at the link: the message is not a text, the room has no open
\* link, the message is to another robot or of the robot, or the room has no
\* merchant to search for.
NotForUs(b, l) ==
  \/ Kind[b] = "message" /\ Message(b).text = "other"
  \/ l = NoLink
  \/ Kind[b] = "keyword" /\ l # Message(b).to
  \/ Kind[b] = "message" /\ templated /\ Message(b).text = "robot"
  \/ Kind[b] = "message" /\ ~templated /\ links[l].my = NoShop

First(b) ==
  IF templated THEN "owner" ELSE IF Kind[b] = "message" THEN "custom" ELSE "tuling"

Look(b, l) ==
  /\ at[b].pc = "next"
  /\ at[b].i <= Len(Content[b])
  /\ ~(Kind[b] = "message" /\ Message(b).text = "malformed")
  /\ IF NotForUs(b, l)
     THEN Continue(b)
     ELSE Become(b, [at[b] EXCEPT !.pc = First(b), !.link = l, !.my = links[l].my,
                                  !.seen = {Config}])
  /\ Quiet

\* Mutant: closed links count too.
ReadAnyLink(b) ==
  Look(b, IF Links = {} THEN NoLink ELSE CHOOSE l \in Links : \A k \in Links : k <= l)

\* The latest open link of the room.
ReadLink(b) == Look(b, Latest)

\* The error of the query is not looked at: as if the room had no open link.
ReadLinkFails(b) ==
  /\ at[b].pc = "next"
  /\ at[b].i <= Len(Content[b])
  /\ ~(Kind[b] = "message" /\ Message(b).text \in {"malformed", "other"})
  /\ Continue(b)
  /\ Fails

\* GetChatRoomValidTemplate(s): the merchant of the first open link.
ReadOwner(b) ==
  /\ at[b].pc = "owner"
  /\ IF Earliest = NoLink
     THEN Continue(b)
     ELSE Become(b, [at[b] EXCEPT !.pc = "bindings", !.my = links[Earliest].my])
  /\ Quiet

\* Any error: the message is skipped.
ReadOwnerFails(b) ==
  /\ at[b].pc = "owner"
  /\ Continue(b)
  /\ Fails

ReadBindings(b) ==
  /\ at[b].pc = "bindings"
  /\ Become(b, [at[b] EXCEPT !.pc = "template", !.todo = {t \in bound : Type[t] = Kind[b]}])
  /\ Quiet

\* Any error: a message is skipped, the chat bot takes the merchant's default.
ReadBindingsFails(b) ==
  /\ at[b].pc = "bindings"
  /\ \/ Kind[b] = "message" /\ Continue(b)
     \/ Kind[b] = "keyword" /\ Goto(b, "default")
  /\ Fails

\* Mutant: the template of whoever bound it.
UsableByAnyone(b, t) == t \in on

\* A template counts if it is enabled and belongs to the merchant.
Usable(b, t) == t \in on /\ MyOf[t] = at[b].my

Found(b, t) ==
  IF Usable(b, t) THEN Append(at[b].found, [tpl |-> t, reply |-> reply[t]]) ELSE at[b].found

\* One bound template is read; the rows come in no particular order.
ReadTemplate(b) ==
  /\ at[b].pc = "template"
  /\ \E t \in at[b].todo :
       Become(b, [at[b] EXCEPT !.todo = @ \ {t}, !.found = Found(b, t)])
  /\ Quiet

\* Any error: the template is skipped.
ReadTemplateFails(b) ==
  /\ at[b].pc = "template"
  /\ \E t \in at[b].todo :
       Become(b, [at[b] EXCEPT !.todo = @ \ {t}, !.missed = @ \cup {t}])
  /\ Fails

\* Without a usable bound template the chat bot takes the merchant's default.
TemplatesRead(b) ==
  /\ at[b].pc = "template"
  /\ at[b].todo = {}
  /\ \/ at[b].found # <<>> /\ Goto(b, IF Kind[b] = "message" THEN "match" ELSE "ask")
     \/ at[b].found = <<>> /\ Kind[b] = "message" /\ Continue(b)
     \/ at[b].found = <<>> /\ Kind[b] = "keyword" /\ Goto(b, "default")
  /\ Quiet

ReadDefault(b) ==
  /\ at[b].pc = "default"
  /\ LET usable == {t \in Defaults : Usable(b, t)}
     IN  \/ usable = {} /\ Continue(b)
         \/ \E t \in usable :
              Become(b, [at[b] EXCEPT !.pc = "ask", !.found = Found(b, t)])
  /\ Quiet

\* Any error: there is no template.
ReadDefaultFails(b) ==
  /\ at[b].pc = "default"
  /\ Continue(b)
  /\ Fails

\* Mutant: the first template that matches or none.
FirstMatching(found) == IF found = <<>> \/ found[1].reply = "broken" THEN {} ELSE {1}

\* The first template whose keywords match and whose reply can be read
Candidates(found) ==
  {k \in DOMAIN found : /\ found[k].reply # "broken"
                        /\ \A j \in 1..(k - 1) : found[j].reply = "broken"}

\* Mutant: the error of one message ends the batch.
MatchOrReturn(b) ==
  /\ at[b].pc = "match"
  /\ LET k == Candidates(at[b].found)
     IN  \/ /\ ~Matches(Message(b)) \/ k = {}
            /\ Goto(b, "acked")
            /\ UNCHANGED said
         \/ /\ Matches(Message(b))
            /\ \E j \in k : at[b].found[j].reply = "good"
            /\ Continue(b)
            /\ Say(b)
  /\ UNCHANGED <<before, faults>>

\* No template matches: continue.  One matches: its reply is published.
Match(b) ==
  /\ at[b].pc = "match"
  /\ LET k == Candidates(at[b].found)
     IN  \/ /\ ~Matches(Message(b)) \/ k = {}
            /\ Continue(b)
            /\ UNCHANGED said
         \/ /\ Matches(Message(b))
            /\ \E j \in k : at[b].found[j].reply = "good"
            /\ Continue(b)
            /\ Say(b)
  /\ UNCHANGED <<before, faults>>

\* The chat bot: outside the hours of the template, or with nothing to say, the
\* message is not answered.
Ask(b) ==
  /\ at[b].pc = "ask"
  /\ Continue(b)
  /\ \/ UNCHANGED said
     \/ bot = "text" /\ Say(b)
  /\ UNCHANGED <<before, faults>>

\* The bot without templates, if the robot is configured for it.
Tuling(b) ==
  /\ at[b].pc = "tuling"
  /\ Continue(b)
  /\ \/ UNCHANGED said
     \/ bot = "text" /\ Say(b)
  /\ UNCHANGED <<before, faults>>

\* The searches without templates: where an error of each leads.
Falls(b) ==
  \/ at[b].pc \in {"custom", "saveCustom"} /\ Goto(b, "domain")
  \/ at[b].pc \in {"product", "saveProduct"} /\ Goto(b, "coupon")
  \/ at[b].pc \in {"coupon", "saveCoupon"} /\ Continue(b)

\* No command is configured for the content, or its row cannot be created.
NoCommand(b) ==
  /\ at[b].pc \in {"custom", "product", "coupon"}
  /\ Falls(b)
  /\ Quiet

\* db.Create: the row can be sent from now on.
CreateRow(b) ==
  /\ at[b].pc \in {"custom", "product", "coupon"}
  /\ Matches(Message(b))
  /\ Goto(b, CASE at[b].pc = "custom" -> "saveCustom"
               [] at[b].pc = "product" -> "saveProduct"
               [] at[b].pc = "coupon" -> "saveCoupon")
  /\ Say(b)
  /\ UNCHANGED <<before, faults>>

\* Mutant: the next search runs whether or not this one succeeded.
SaveAndSearchOn(b) ==
  /\ at[b].pc \in {"saveCustom", "saveProduct", "saveCoupon"}
  /\ Falls(b)
  /\ Quiet

\* db.Save with the queue id
SaveRow(b) ==
  /\ at[b].pc \in {"saveCustom", "saveProduct", "saveCoupon"}
  /\ Continue(b)
  /\ Quiet

\* It fails: the row stays, and the error leads to the next search.
SaveFails(b) ==
  /\ at[b].pc \in {"saveCustom", "saveProduct", "saveCoupon"}
  /\ Falls(b)
  /\ Fails

\* FetchTuikeasySearchDomain: without a domain the round is over.
ReadDomain(b) ==
  /\ at[b].pc = "domain"
  /\ Goto(b, "product") \/ Continue(b)
  /\ Quiet

\* An answer of the bot, or of a search whose command matches, has its link
\* shortened first, unless it has none or is for the mini program.
Shortens(b) ==
  \/ at[b].pc \in {"ask", "tuling"} /\ bot = "text"
  \/ at[b].pc \in {"product", "coupon"} /\ Matches(Message(b))

\* The link client has no timeout: the goroutine is lost, its batch not acked.
Hang(b) ==
  /\ Shortens(b) /\ shortener = "hangs"
  /\ Become(b, [Round(at[b].i) EXCEPT !.pc = "hung"])
  /\ Quiet

\* The process of a queue ends: what is not acked is delivered again, from
\* message 1.
Restart(queue) ==
  LET again == {b \in Batches : Kind[b] = queue /\ at[b].pc # "acked"}
  IN  /\ at' = [b \in Batches |-> IF b \in again THEN Queued ELSE at[b]]
      /\ before' = before \cup UNION {{<<b, i>> : i \in {j \in DOMAIN said[b] : said[b][j] > 0}} : b \in again}
      /\ said' = [b \in Batches |-> IF b \in again THEN [i \in DOMAIN Content[b] |-> 0] ELSE said[b]]

\* rand.Intn(0); the Code of a bot's answer without data; List[0] of no list; the
\* first of no short links.
Panic(b) ==
  /\ \/ /\ at[b].pc = "match"
        /\ Matches(Message(b))
        /\ \E j \in Candidates(at[b].found) : at[b].found[j].reply = "empty"
     \/ at[b].pc \in {"ask", "tuling"} /\ bot = "empty"
     \/ Shortens(b) /\ shortener = "malformed"
  /\ Restart(Kind[b])
  /\ UNCHANGED faults

Step(b) ==
  \/ Deliver(b) \/ Finish(b) \/ Malformed(b) \/ ReadLink(b)
  \/ ReadOwner(b) \/ ReadBindings(b) \/ ReadTemplate(b) \/ TemplatesRead(b)
  \/ ReadLinkFails(b) \/ ReadOwnerFails(b) \/ ReadBindingsFails(b)
  \/ ReadTemplateFails(b) \/ ReadDefaultFails(b)
  \/ ReadDefault(b) \/ Match(b) \/ Ask(b) \/ Tuling(b)
  \/ NoCommand(b) \/ CreateRow(b) \/ SaveRow(b) \/ SaveFails(b) \/ ReadDomain(b)
  \/ Hang(b) \/ Panic(b)

Crash ==
  /\ faults < MaxFaults
  /\ faults' = faults + 1
  /\ \E queue \in {"message", "keyword"} : Restart(queue)

-----------------------------------------------------------------------------
(* What others change meanwhile: the callbacks that open, hand over and    *)
(* close rooms, the requests for templates, the services.                  *)

Change ==
  /\ changes < MaxChanges
  /\ changes' = changes + 1
  /\ \/ /\ \E l \in Links, o \in BOOLEAN, m \in Shops :
             /\ links[l].open \/ o
             /\ links' = [links EXCEPT ![l] = [open |-> o, my |-> IF o THEN m ELSE @.my]]
        /\ UNCHANGED <<on, reply, bound, bot, shortener>>
     \/ /\ \E t \in Templates : on' = IF t \in on THEN on \ {t} ELSE on \cup {t}
        /\ UNCHANGED <<links, reply, bound, bot, shortener>>
     \/ /\ \E t \in Templates, r \in {"good", "empty", "broken"} :
             Type[t] = "message" /\ reply' = [reply EXCEPT ![t] = r]
        /\ UNCHANGED <<links, on, bound, bot, shortener>>
     \/ /\ \E t \in Templates :
             bound' = IF t \in bound THEN bound \ {t}
                      ELSE {u \in bound : Type[u] = "message" \/ Type[t] = "message"} \cup {t}
        /\ UNCHANGED <<links, on, reply, bot, shortener>>
     \/ /\ bot' \in BotAnswers
        /\ UNCHANGED <<links, on, reply, bound, shortener>>
     \/ /\ shortener' \in ShortenerStates
        /\ UNCHANGED <<links, on, reply, bound, bot>>
  /\ at' = [b \in Batches |-> IF at[b].seen = {} THEN at[b]
                              ELSE [at[b] EXCEPT !.seen = @ \cup {Config'}]]
  /\ UNCHANGED <<templated, said, before, faults>>

-----------------------------------------------------------------------------
Init ==
  /\ templated \in BOOLEAN
  /\ links = InitLinks
  /\ on = Templates
  /\ reply \in [Templates -> {"good", "empty", "broken"}]
  /\ \A t \in Templates : ~templated \/ Type[t] = "keyword" => reply[t] = "good"
  /\ bound = Templates \ Defaults
  /\ bot = "text"
  /\ shortener = "answers"
  /\ at = [b \in Batches |-> Queued]
  /\ said = [b \in Batches |-> [i \in DOMAIN Content[b] |-> 0]]
  /\ before = {}
  /\ changes = 0
  /\ faults = 0

Next ==
  \/ \E b \in Batches : Step(b) /\ UNCHANGED <<templated, env>>
  \/ Crash /\ UNCHANGED <<templated, env>>
  \/ Change

Spec == Init /\ [][Next]_vars

\* Goroutines are scheduled, and the database, the chat bot (timeouts of ten
\* seconds) and the relay answer.  The link service need not: a call of it that
\* does not return is the step Hang.
FairSpec ==
  /\ Spec
  /\ \A b \in Batches : WF_vars(Step(b) /\ UNCHANGED <<templated, env>>)

-----------------------------------------------------------------------------
(* Properties.                                                             *)

\* The types of the variables.
TypeOK ==
  /\ links \in [Links -> [open : BOOLEAN, my : Shops \cup {NoShop}]]
  /\ bot \in BotAnswers /\ shortener \in ShortenerStates
  /\ on \subseteq Templates /\ bound \subseteq Templates
  /\ reply \in [Templates -> {"good", "empty", "broken"}]
  /\ \A b \in Batches :
       /\ at[b].i \in 1..(Len(Content[b]) + 1)
       /\ at[b].link \in Links \cup {NoLink}
       /\ at[b].my \in Shops \cup {NoShop}
       /\ at[b].todo \subseteq Templates /\ at[b].missed \subseteq Templates
       /\ at[b].found \in Seq([tpl : Templates, reply : {"good", "empty", "broken"}])
       /\ said[b] \in [DOMAIN Content[b] -> Nat]

\* The step answers the message that b is at, with this template.
Answers(b) == \E i \in DOMAIN said[b] : said'[b][i] > said[b][i]
Chosen(b) ==
  IF at[b].pc = "match" THEN {at[b].found[k].tpl : k \in Candidates(at[b].found)}
  ELSE {at[b].found[k].tpl : k \in DOMAIN at[b].found}

\* A room is answered with templates of a merchant that had an open link to it
\* while the message was handled, although the bindings survive a handover and
\* the link is read twice (template.go 362, 385).
OwnTemplates ==
  [][\A b \in Batches : templated /\ Answers(b) =>
       \A t \in Chosen(b) : \E c \in at[b].seen : \E l \in Open(c.links) : c.links[l].my = MyOf[t]]_vars

\* The robot comes from the latest open link and the merchant from the first:
\* unless something changes or two links are open, they belong together
\* (sync.go 661, 987; template.go 349, 375).
SameLink ==
  [][\A b \in Batches : templated /\ Answers(b) /\ at[b].seen = {Config} /\ Cardinality(Open(links)) = 1 =>
       at[b].link \in Open(links) /\ \A t \in Chosen(b) : MyOf[t] = links[at[b].link].my]_vars

\* A text that matches is answered if, from the time its link is read, the room
\* has one merchant with a usable template and no template in the way panics,
\* whatever the other templates are like; a template whose reading fails does not
\* count, and a message is given up for a failed read only (sync.go 914-951,
\* 986-993; template.go 345-368).
Due(b) ==
  \E l \in Links :
    /\ Open(links) = {l}
    /\ LET mine == {t \in (bound \cap on) \ at[b].missed :
                      Type[t] = "message" /\ MyOf[t] = links[l].my}
       IN  /\ \E t \in mine : reply[t] = "good"
           /\ \A t \in mine : reply[t] # "empty"
AnswersDue ==
  [][\A b \in Batches :
       templated /\ Kind[b] = "message" /\ at[b].pc \in {"next", "owner", "bindings", "template", "match"}
         /\ at'[b].pc = "next" /\ at'[b].i > at[b].i
         /\ Message(b).text = "ask" /\ at[b].seen \subseteq {Config} /\ Due(b)
       => Answers(b) \/ faults' > faults]_vars

\* In one life of the process a message is answered twice only if a write
\* failed after its row was created (sync.go 1008-1025, 1063).
AnsweredOnce == \A b \in Batches : \A i \in DOMAIN said[b] : said[b][i] <= 1 + faults

\* An acked batch was looked at to its end, except for what follows a malformed
\* message (sync.go 979).
NothingDropped ==
  \A b \in Batches : at[b].pc = "acked" /\ at[b].i <= Len(Content[b]) =>
    Kind[b] = "message" /\ Message(b).text = "malformed"

\* A template without a reply to choose from, an answer of the bot that is empty,
\* or one of the link service without links
Poison ==
  \/ templated /\ \E t \in Templates : Type[t] = "message" /\ reply[t] = "empty"
  \/ bot = "empty"
  \/ shortener = "malformed"

\* Once nothing panics any more every batch is handled to its end and acked, the
\* ones that ended the process included, but for a batch whose goroutine waits
\* for the link service for ever; the replies of templates to messages have no
\* link to shorten (sync.go 754, 862, 1308, 1382; shorten/t.go 133).
BatchesEnd ==
  <>[]~Poison => \A b \in Batches :
    \/ <>(at[b].pc = "acked")
    \/ ~(templated /\ Kind[b] = "message") /\ <>[](at[b].pc = "hung")

\* "支持重复调用" (sync.go 957): the callback may be called repeatedly, so a
\* message that was answered is not answered again after a redelivery.
RepeatedCalls ==
  [][\A b \in Batches : \A i \in DOMAIN said[b] :
       <<b, i>> \in before => said'[b][i] <= said[b][i]]_vars
=============================================================================
