# Formal models of zhiya

zhiya runs WeChat chat rooms for merchants. Robots, operated by an external
platform ("uchat"), sit in the rooms; the platform reports what happens there,
zhiya answers with messages. This directory models the parts of it that share
state: TLA+ modules, TLC configurations and proofs for TLAPS. `PROJECT.json`
lists components, runs, the source lines of every definition, hazards, findings
and theorems.

Paths are relative to `src/`.

## 1. The system

    platform --HTTP--> RabbitMQ --consumer.go--> consumerShell (cmd/uchat.go)
                                                   |  one goroutine per message
                                                   v
                         callbacks (uchat/sync.go, callback.go)  <--> MySQL (gorm)
                                |                                      ^   ^   ^
                 ReceiveTool.Publish (utils/receive.go)                |   |   |
                                |                          API (apis/) |   |   | sync command
                                v                                      |   |
                            RabbitMQ <--- pump (cmd/mqueue.go) <-------+   +--- back office
                                |
                  SendChatMessage (cmd/uchat.go) --HTTP--> platform

Every process reads rows with gorm, changes the struct and calls `db.Save`,
which writes **every** column of the copy. There are few transactions, few
unique indexes and no version columns. Most of what is hard in this code comes
from copies that are out of date when they are saved.

| component | source | state | operations | hard behaviour |
|---|---|---|---|---|
| Message queue | `cmd/mqueue.go`, `uchat/sync.go` 512-577, 1032-1401 | table `message_queue`; copies held by the pump and by handlers | reply (create, save), welcome (transaction), broadcast (inserted by the back office), pump: load, claim, publish per room, skip, fail, restart | the pump saves old copies over newer rows; a welcome is appended to while it is claimed; a crash between claim and publish |
| Consumer | `utils/consumer.go`, `cmd/uchat.go` 160-312 | queue, connection, goroutines | link with prefetch, deliver, callback, ack, lose the link, crash | goroutines outlive their connection; redelivery next to the first run |
| ReceiveTool | `utils/receive.go` | buffered channel, one goroutine, connection | publish, take, write, put back, reconnect | the only reader puts a message back into its own channel |
| Work templates | `uchat/template.go`, `models/cmds.go` | tables `work_template`, `chat_room_work_template` | create, update, set default, apply to rooms, recount | stale full-row saves; update-then-insert and delete-then-insert without indexes |
| Opening rooms | `apis/api_v2.go`, `apis/apply_code.go`, `uchat/sync.go` 108-287, 335-411, `models/robot*.go` | `robot_join`, `robot_chat_room`, `robot_apply_code`; rooms open at the platform | open or delete joins, fetch and use codes, create callback, list and status sync, close a room | the platform is called inside a transaction; its callbacks are late, doubled or early |
| Members and the room's row | `uchat/sync.go` 293-329, 412-490, `uchat/callback.go`, `uchat/special.go` 30-49, `models/members.go`, `models/chat_rooms.go` | `chat_room_member`, `chat_room` | join, quit, list, message report, QR code, head image, names, member count | four writers save the whole room row; members are counted and saved later |
| Keyword and chat replies | `uchat/sync.go` 608-1401, `uchat/template.go` 345-394, `chatbot/`, `tuling/` | none of their own; read links, bindings, templates, commands | walk a batch, match keywords, ask a chat bot, search | several reads with nothing locked in between, any error of which counts as nothing found; a panic ends the process and the batch comes again; errors that lead to the next search; a link service that may hang |
| Short URLs | `shorten/t.go` | availability switch, timer of the probe | shorten, probe | a service that fails and comes back, hangs or answers nonsense; switch read and used apart |
| Id obfuscation | `utils/yl_hash_id.go` | none | encode, decode | 64-bit shifts, the sign, errors that are dropped |
| Head image | `uchat/special.go` 60-442 | none | fetch, layout, draw, upload | geometry for 1..9 images and more; one image that fails |
| HTTP API, commands, migration | `cmd/`, `apis/` | none of their own | routing, paging, token check | stateless around the above |

What makes each component correct:

- *Message queue*: a row is sent at most once per write that asked for it, never
  early, never lost to a row that failed, and everything due is claimed. A
  welcome names exactly members whose transaction committed.
- *Consumer*: at-least-once delivery; no unacknowledged message without somebody
  who will ack it; bounded parallelism; repeats only because of faults.
- *ReceiveTool*: messages are neither lost nor doubled nor reordered by a failed
  publish, and handlers are not blocked for ever.
- *Work templates*: one default per shop and type, a deleted template is not
  served, the bindings of a room for a type name one template, a merchant with a
  default is never silent.
- *Opening rooms*: a room belongs to the merchant who opened it and does not
  become nobody's; a join is decided once; codes and links are not doubled.
- *Replies*: a room is answered with templates of its own merchant, through the
  robot of the link the message was seen on; what is due is answered, once, unless a
  read fails; a batch is looked at to its end and acked in the end, whatever
  panicked, unless it waits for the link service for ever.
- *The way of a callback*: what leaves a queue has been answered, and what the
  broker has reaches the exchange unless the relay is wedged.
- *Short URLs*: no dead links while the service is as the last probe found it; the
  switch follows the service.
- *Ids, head image, hours*: the function they are meant to be.
- *Members*: the count is right once things settle, no column of the room and no
  message of a member is lost except to an overlap, a user has one row.

## 2. The modules

| module | models | abstract specification / proofs |
|---|---|---|
| `MessageQueue` (`MCMessageQueue`) | table, handlers, pump | `MessageQueueProofs` |
| `Delivery` | RabbitMQ queue, `ReceiveConsumer`, handler goroutines | implements `AtLeastOnce`; `SendPathProofs` |
| `Relay` (`MCRelay`) | one route of `ReceiveTool` | implements `LossyQueue`; `RelayProofs` |
| `WorkTemplate` (`MCWorkTemplate`) | templates and bindings | `WorkTemplateProofs` |
| `RoomOpening` (`MCRoomOpening`) | joins, codes, links, the platform's rooms | `RoomOpeningProofs` |
| `ChatRoomMembers` (`MCChatRoomMembers`) | members and the room's row | `ChatRoomMembersProofs` |
| `Replies` (`MCReplies`) | both callbacks that answer messages | `RepliesProofs` |
| `SendPath` (`MCSendPath`) | composition of `Delivery` and `Relay` | implements `Delivery` and `Relay`; `SendPathProofs` |
| `ShortUrl` | switch, probe and callers of the short links | `SmallPartsProofs` |
| `HeadImage`, `FakeId`, `ChatHours` (`MCAlgorithms`) | pure algorithms | reference definitions beside them; `SmallPartsProofs` |

How state and actions correspond to the code:

- A table is a sequence (the AUTO_INCREMENT id is the position) or a function
  from ids to rows. A column that no property tells apart from another is left
  out.
- A process (goroutine, request, run of a command) is a record with a `pc` and
  the copies it holds. One action is one statement, or a run of statements
  between which nobody can see or change anything that matters. A transaction is
  one action where it only talks to the database; where it calls the platform it
  is several actions and holds its row locks (`RoomOpening!Locked`, `RowFree`).
- `db.Save(copy)` writes the whole copy. `Update("is_active", ..)`,
  `Updates(map..)` write the columns they name, in one step.
- `FirstOrInit` followed by `Save` is a read and a write: two processes that find
  no row insert two.
- Faults (an error of the database, of the broker, of the platform; a crash) are
  actions bounded by `MaxFaults`; each keeps what the code has already written.
- History variables (`log`, `finished`, `lost`, `requeued`, `raced`, `stale`,
  `behind`, `faults`, `chosen`, `seen`, `missed`, `before`, `pub`, `fresh`) only record; no guard other than a bound
  reads them.
- Definitions whose comment starts with `Mutant:` are plausible errors of the
  definition that follows. They are not used by the specification: replacing the
  definition by its mutant violates the property `PROJECT.json` names, which
  shows that the property depends on that piece of code.

### MessageQueue

`ReplyCreate`/`ReplySave` are the `db.Create` and `db.Save` of the three reply
writers (`SendShopCustomSearch`, `SendTuikeasyProductSearch`,
`SendTuikeasyCouponSearch`; the two Alimama writers return before their first
statement). `JoinRead` .. `JoinFails` are `SendChatRoomMemberTextMessage`: a
plain SELECT, then an UPDATE or INSERT, then COMMIT. The pump (`MQueue`) connects,
loads immediate rows, then scheduled rows, saves each copy with `send_status = 1`
(`Claim`) and publishes one message per room. `SkipRow`, `SkipRoom`, `Publish`,
`LookupFails`, `PublishFails`, `Crash` are the branches of its inner loop.

Assumptions: one `mqueue` process; the back office inserts `send_type` 2 rows; a
publish that returns without an error counts as sent (the channel has no
confirms); welcome rows get their ids in commit order.

### Delivery and AtLeastOnce

`Link` is dial, Qos, Consume; `Deliver` a delivery within the prefetch window;
`Spawn` the `go func` of `consumerShell`; `Callback`, `Ack` its end: every branch
acks, whether the callback failed or not. `LoseLink` puts what is unacknowledged
back; goroutines of the old connection go on and their acks go to a channel that
is gone. `AtLeastOnce` says what the queue promises; the refinement is
`waiting <- ready \cup Held`, `handled <- {m : finished[m] > 0}`,
`settled <- acked`.

### Relay

`Publish` sends to the Go channel (blocks when full). The goroutine takes a
message, writes it; when that fails it sends the message to the channel it reads
(`Requeue`) and reconnects. `Wedged`: that send finds the channel full. The
`"quit"` message is left out: nobody sends it. `LossyQueue` says what publishers
may rely on: a message arrives at most once and after every older one that is still
to come in time; each fault may lose messages and let one fall back. The refinement
is `published <- serial`, `arrived <- SetOf(arrived)`, `late <- requeued`: where the
message is inside the relay is hidden, and putting it back is the step `FallBack`.

### WorkTemplate

`UpdateRead`/`UpdateSave` are `UpdateWorkTemplate`; `DefaultRead`/`DefaultCommit`
are `SetDefaultWorkTemplate`; `ApplyRead`, `Bind` (types with one template
per room) and `Delete`, `Insert` (the others) the two branches of
`ApplyChatRoomTemplate`; `CountRead`, `CountSave` the recount
(`CountWorkTemplateChatRoom`) that follows outside the transaction.
`Served` is `GetChatRoomValidTemplate` (a bound enabled template, else the
default). The statements of one transaction that lock rows are one action: InnoDB
serialises them. `NewStatus` bounds the status of a template that is created;
the open links of the merchant (`Links`, their `Room` and `Shop`) do not change;
`chat_room_count` is left out as a number, though the save that writes it is there
with all other columns.

An apply goes through a slice with one element for each link it has found, or for
each position of its list, and inserts a row for each element that its one look at
the existing bindings does not rule out. A room may be in the slice more than once: a
merchant may have several robots in it, and nothing keeps a list from repeating it.
The slice is a function from entries (links or positions) to rooms (`Real`, the
lists), and a binding is known by the request and the entry that inserted it, so that
two rows of one apply are two bindings.

### RoomOpening

One robot. `JoinsRead`, `OpenCall`, `OpenCommit` are `OpenChatRoom`: the joins are
read, their status set in a transaction, the platform called, the transaction
committed. `DeleteCommit` deletes. `FetchRead`, `FetchCreate` are
`FetchApplyCode`. `CreateRead`, `OwnerByCode`, `OwnerByJoin`, `Save` are the
create callback, `ListBegin`, `ListNext` the list callback, `FetchList`,
`OpenRows`, `ListClose` the `chat` command, `StatusAsk`, `StatusSet` the
`chatstatus` command, `OverRead`, `OverCall`, `OverCommit` the closing of a room.
`Outside` holds what happens at the platform: a pull of the robot into a room, a
code used, a room closed, joins growing older than the hour of `Recent`. The
platform may open a part of the list it was given (the code only logs the
`CanNotSerialNoData` answer). Create callbacks are redelivered and late. Errors of
COMMIT are ignored, as in the code. The read of the join may fail (`OwnerByJoin`),
after which the row is saved without an owner, as if there were no join.

### ChatRoomMembers

One room, whose row exists. A process is a join, a quit, a list of members, a
report of messages, or one that fills in a column of the room's row (`qr`: QR code
callback; `name`: create callback, list and status of rooms; `head`: head image).
`MemberRead`/`MemberSave` are `Ensure` and `Save` of a member; `Unactive`
deactivates, one at a time, the rows that were active before the list was
applied; `RoomRead`, `Count`, `RoomSave` are the read of the room's row, the
`SELECT COUNT` and the save. A list saves `chat_room_id`, then counts on the same
copy, then starts the goroutine that makes the head image, which reads the row
again. The value of a column is the process that wrote it.

### Replies

A delivery is a batch of messages; `Kind` says on which of the two queues it came.
Each queue is consumed by a process of its own (`cmd/uchat.go` 63-93), so a panic
ends the goroutines of one queue only (`Restart`). `ReadLink` reads the latest open
link; with templates `ReadOwner`, `ReadBindings`, `ReadTemplate` (one row each) and
`ReadDefault` are the statements of `GetChatRoomValidTemplate(s)`, then `Match` is
the rest of `FetchChatRoomCustomKeywordReplyTemplate` or `Ask` the chat bot. Without
templates the three searches follow each other: `CreateRow`, `SaveRow`, `SaveFails`,
and `Falls` says where an error of each leads. `Panic` is `rand.Intn(0)` on a
template without replies, `data.Code` of an answer whose data is null, `List[0]` of
an empty list, or the first short link of a list without any. No read looks at what
its error is: `ReadLinkFails` and `ReadOwnerFails` end the round,
`ReadBindingsFails` ends it too or sends the chat bot to the default,
`ReadTemplateFails` skips one template (and notes it in `missed`) and
`ReadDefaultFails` leaves none. Before an answer of a bot or of a search is sent, its
link is shortened (`Shortens`) by a client without a timeout: `Hang` is the call that
does not return, and only a restart of the process brings the batch back. The templates
bound to the room are a set: a template bound twice is read twice in the code, with
the same result. `Change` is everything the rest of the system does to what is read
here. A message is an abstract text: `ask` matches, `robot` comes from the robot,
`malformed` is not base64, `other` is no text, `chat` matches nothing. The hours of
the chat bot are a free choice in `Ask`; whether they are computed rightly is
`ChatHours`.

### SendPath

`D == INSTANCE Delivery`, `R == INSTANCE Relay`: a goroutine of `Delivery` is a
handler of `Relay`. `Spawn` gives it its replies, `Publish` puts one into the
channel, `Return` waits for the last. One `Crash` for both. Its fairness is weaker
than that of the parts: as long as something can be done, something is.
`OnlyWedgeStops` says when that is: always, until nothing is left to do, unless the
relay is wedged. The property spells the guards out (`CanMove`), so that it can be
proved; that `CanMove` is `ENABLED Progress` was checked with TLC for two messages
with two replies and one.

### ShortUrl

`AskService`, `Visit` are the two requests of `testStatus`, `Switch` its end with
the next timer. `Begin` reads the switch under the lock, `Answer` is the request
outside it. The API client has no timeout (`hang`), the visiting client has two
seconds. The LRU cache of `shorten/lru.go` is constructed and never used.

### HeadImage, FakeId, ChatHours

Each is a module of operators next to a reference that says what it is for:
`HeadImage!Reference` centres rows, `Apart` and `Inside` say that the images
neither overlap nor leave the board; decoding must undo encoding; `Between` walks
around the clock. A `uint64` is the set of its one bits, a fetched image an outcome.

## 3. The runs

| run | instance | shows | distinct states |
|---|---|---|---|
| `mqueue` | 2 joins of one room, 1 reply, 1 broadcast over `<<r1, "", r2>>`, `LIMIT 1`, 1 fault, clock 0..1 | `SendsPaid`, `NamesCommitted`, `StrandedByFaults`, `DueClaimed` | 400 593 |
| `joiners_named` | 2 joins, no fault | `AllJoinersNamed` is violated | |
| `delivery` | 3 messages, prefetch 2, 1 fault | `AtLeastOnceDelivery` (refinement with liveness) | 13 024 |
| `relay` | 2 handlers, 2 messages each, capacity 2, 2 faults | `Conserved`, `OvertakenWereRequeued`, `Delivered`, `LossyDelivery` (refinement) | 11 419 |
| `sendpath` | 2 messages, 1 reply each, prefetch 2, capacity 1, 1 fault on each side | `AckedAnswered`, `NoOrphan`, `OnlyWedgeStops`, `StalledForGood`, `EndToEnd` | 403 373 |
| `replies` | a batch of 4 messages and one for the bot, 2 links, 2 merchants, 4 templates, 1 change (the link service's included), 1 fault, with and without templates | `AnsweredOnce`, `NothingDropped`, `OwnTemplates`, `SameLink`, `AnswersDue`, `BatchesEnd` | 313 686 |
| `chat_repeated` | the same | `RepeatedCalls` is violated | |
| `shorturl` | 2 callers, 2 changes of the service | `FreshAnswers`, `SwitchFollows`, `CallersReturn` | 12 900 |
| `algorithms` | see below | `LayoutRight`, `FirstImages`, `IdsReadBack`, `HoursRight` | about 12 000 |
| `template` | 3 requests, 3 templates of 2 types, 2 rooms with 3 links, a list that repeats a room, 1 fault | `OneDefault`, `DeletedNotDefault`, `BoundAlike`, `BoundTwiceRaced`, `NeverSilent`, `OnlyStaleUndeletes` | 1 880 013 |
| `opening` | 3 processes, 2 rooms, 2 joins of one room, 2 codes, 1 fault | `LinkOnce`, `OpenedOwned`, `OwnerKept`, `DecidedOnce` | 252 824 |
| `members` | 3 processes, 2 users, 1 report per user, 1 fault | `CountRight`, `ColumnsKept`, `MsgsKept` | 1 853 497 |

Properties whose theorem holds for every instance and which say nothing a checked
one does not, among them the type invariants of all modules, are proved and not
checked again (section 5).

Why the bounds are enough for what they are to show. The hazards are overlaps of
two processes, often prepared by a third (the row that both read) and spoilt by
one fault. Three processes are therefore the smallest instance that reaches them,
and no property counts beyond it. `LIMIT 1` makes the limit of the pump's queries
bind with three rows. A clock of two ticks separates due from not due. A prefetch
of two with three messages fills the window, a channel of two with four
publications fills the channel. A blank element in the broadcast's list exercises
the skip. A channel of one with two replies is the smallest a relay can wedge with
while both places of the window wait for it. In `replies` the batch has a message
of each kind that takes another way, two templates of one merchant (one may be
broken or empty), the default of another, and a second link that a change may open. In `template` one
room has two links, one of which a request that names a sub shop does not find.
`algorithms`: image sizes are those of the code; lists of fetches are longer than
the limits; ids have one or two bits or one run of ones at every place, which
reaches every carry between the groups of fifteen bits (the theorems take any id); a day has twelve ticks and
now goes through a day, at the zone of Shanghai and four ticks behind it. The runs
fire every action of their specifications.

`CHECK_DEADLOCK FALSE`: in `Delivery` a behaviour ends when all messages are
acked; in `Relay` and `SendPath` also in the wedged state, where nothing moves
(`Delivered`, `StalledForGood` and `EndToEnd` say what follows from it); in
`Replies` when all batches are acked or hang; in `ShortUrl` when everybody hangs; in
`WorkTemplate`, `RoomOpening` and `ChatRoomMembers` when all processes have run; in
`MCAlgorithms` after the one step that chooses an input. The message queue never
stops (the pump loops) and is checked for deadlock.

### Fairness

- `MessageQueue`: `WF(PumpWork)`. The pump is one goroutine in an endless loop
  whose sleeps end. Handlers, the clock and faults are not fair.
- `Delivery`: the consumer retries every three seconds (`WF(Link)`); the range
  loop and each goroutine are scheduled (`WF`); the broker delivers a ready
  message again and again offered a free place in the window (`SF(Deliver)`: other
  messages may take the place in between). That callbacks return is an assumption
  on the database and on the HTTP services. The link service does not have to keep it,
  since its client has no timeout (`shorten/t.go:133`); what a call that does not return
  means for a batch is in `Replies` (`Hang`). Such a delivery keeps its place in the
  window until the process ends, and `prefetch` of them stop the queue; `Delivery` and
  `SendPath` are about the queue while that does not happen.
- `Relay`: Go serves blocked senders of a channel first come, first served
  (`SF(Publish)`); the goroutine is scheduled; the broker is back after finitely
  many retries (`MaxFaults`).

- `Replies`: each goroutine is scheduled (`WF(Step(b))`). The chat bots' clients
  have timeouts of ten seconds, the database and the relay are assumed to answer. The
  link service is not: a call of it that does not return is the step `Hang`, after
  which the goroutine takes no other, and `BatchesEnd` says that the batch it was
  answering is then the exception. A panic that comes again each time is not excluded
  either: `BatchesEnd` asks that in the end nothing is poisonous any more.
- `SendPath`: `WF(Progress)`.
- `ShortUrl`: the timer fires and what does not hang returns (`WF`).

Liveness is stated only where this fairness carries it; the other modules have
safety properties.

## 4. Findings

Places where the code does something else than a comment beside it says. Each is
a run that TLC refutes.

1. `AllJoinersNamed` - `uchat/sync.go:557` says that all members who join within
   the interval are greeted together. The pump's save of a copy it loaded before
   a join committed overwrites the list of names; two joins that overlap lose one
   as well.
2. `RepeatedCalls` - `uchat/sync.go:957` says that the callback of the chat
   messages supports repeated calls. Nothing remembers what was answered: a batch
   that is delivered again is answered again from its first message, and a panic
   over a later message of the same batch is enough for that.

Others met while modelling, which need no run to be seen: a failed create is acked
on the line below the comment that wants it back in the queue
(`cmd/uchat.go:199`); a default template can be stopped, only deleting is refused
(`uchat/template.go:73-76`); a deleted template may be modified
(`models/cmds.go:85`, `template.go:65`); the daily limit of codes used is tested
when a code is fetched (`models/robots.go:114`); `msg_count + n` is applied once per
delivery (`uchat/sync.go:291`, 321); one apply binds a room twice where the merchant
has two open links in it (`uchat/template.go:240-277`) or its list repeats the room
(206-209), and `chat_room_count` counts the rows; a read of link, owner, bindings or
template that fails is taken for one that found nothing, and a message that is due is
dropped without a word (`uchat/template.go:349-365`, `uchat/sync.go:989-993`).

Weaknesses that contradict no comment are in the statements of the properties
themselves, as the exceptions they make: `raced`, `stale`, `behind` and `faults`
say exactly what is needed for the good property to fail, and the runs show that
nothing else is. Examples: a merchant may have two defaults (`OneDefault`), a room
may end up with nobody (`OpenedOwned`, `OwnerKept`), the member count may stay
wrong (`CountRight`), a relay may wedge and takes the queue with it
(`StalledForGood`), a message is answered twice when a save fails (`AnsweredOnce`) and not at all when a
read fails (`AnswersDue`), a batch may wait for the link service for ever
(`BatchesEnd`),
the robot of one merchant may speak with the template of another when two links are
open (`SameLink`), a probe that hangs leaves the switch as it is (`SwitchFollows`),
ids from 2^50 on are not read back (`IdsReadBack`), the bot's hours are wrong while
the server's date is not that of Shanghai (`HoursRight`).

## 5. The proofs

`tlapm` checks the proofs of eight modules. They hold for every set of rooms,
messages, handlers, templates, requests, users and processes, for every capacity,
size of an image and number of changes and faults; the only assumptions are the
named `ASSUME`s of the modules, which say that parameters have their types. Every
safety and action property that a run checks is a theorem; the safety part of
`AtLeastOnceDelivery` is `Implements`, about the instance `D`.

- **`MessageQueueProofs`** - `TypeCorrect`, `BroadcastOnce`, `NeverEarly`,
  `WelcomesName`, `FaultsStrandOne`, `EverySendPaid`. That a
  broadcast is sent once is not inductive: the pump's later saves could revive a
  row. The invariant adds that a row in the loaded batch is still pending and due
  (`BatchFresh`), that the row in hand is claimed (`HandClaimed`), that
  handlers never own a broadcast row (`HandlersOwn`), that whatever the log
  mentions is claimed and not in the batch (`LogClaimed`) and that each position
  was handled once (`HandledOnce`). `NeverEarly` follows from the same invariant
  as an action property. That welcomes name committed joiners needs the same of the
  copies in the batch and with a handler (`NamesInv`). That only faults strand a row
  needs that the pump has dealt with the rooms of the row in hand that it is past,
  and that its copies have the rooms of the table (`Walked`). That every send is paid for is an
  accounting: the sends of a row to a room, one more while it is pending and one
  while it is in hand before that room, are at most the writes that left it pending
  (`Paid`; `Begun` says that these are finitely many).
- **`SendPathProofs`** - about the queue and its consumer alone, as the instance `D`
  of `Delivery` with any parameters: `QueueTypes`, `QueueConsistent`,
  `NothingOrphaned`, `RunsAreBounded`, `Implements`. Strengthening: runs know their
  connection (`ConnsKnown`), a live connection works on unacknowledged messages only
  (`WorkUnacked`), hands each out once (`HandedOutOnce`) and every ack has a
  callback that returned behind it (`ReturnsCounted`). `Implements` maps every
  step to a step of `AtLeastOnce` or to a stutter. The bound on the goroutines
  needs the cardinality of the held messages. About the composition: `PathDelivers`
  and `PathAtLeastOnce` (it implements `D`, and `AtLeastOnce` by way of it, so all of
  the above holds of it too), `PathRelays` (it implements `Relay` as well),
  `PathConserves`, `PathLosesByFaults`, `PathOrphansNothing`, `AcksAnswered`,
  `StopsOnlyWedged`, `StalledStays`. What has been published and what is left to
  publish add up to the replies of each goroutine (`Owes`); a message that was not
  handed out on a connection was not answered on it (`Unanswered`).

  `PathRelays` needs a refinement mapping, because a handler of `Relay` has its
  messages from the beginning and a goroutine gets them when it is started.
  `ToPublish` gives a goroutine that has not published anything its replies in
  advance, so that `Spawn` is a stutter, and after a crash those that had published
  nothing are the handlers that start again. That `Spawn` changes nothing takes
  `Unanswered` and `LeftOwed`: a message about to be handed out has no replies
  published by its connection, and only goroutines that run have any left. The theorems of
  `RelayProofs` are then cited for the instance `Rel`, whose parameters are shown to
  satisfy Relay's assumption (`RelayParameters`): the relay of the process conserves,
  orders and loses as `Relay` does (`RelayInside`). `AcksAnswered` rests on it for
  "every reply is on its way", and `StopsOnlyWedged` for "nothing is left when nothing
  moves". The latter goes backwards through the path: without a step the consumer is
  linked and its range loop empty, the reader waits for a message, so the channel is
  empty, so no goroutine is left, so by `NoOrphan` nothing is unacknowledged, the
  window is open, and the queue is empty.

  That a message is answered at most once for each delivery counts its publications
  by an injection into the pairs of a reply and a connection (`AnswersCounted`).
- **`RelayProofs`** - `TypeCorrect`, `Conservation`, `OrderKept`,
  `OnlyFaultsHurt`, `WedgedStays`, `ImplementsLossyQueue`. The trail *arrived, wire, in hand, channel* is
  one sequence; `Apart` and `Ordered` say that it has no repetition and is
  ascending but for messages that were put back. `Accounted` counts those against
  the faults, with one owed while the goroutine has not noticed that its
  connection is gone. The refinement follows from the same invariant
  (`RelayInvariant`): the head of the wire is older than all that is under way and was
  not put back (`ArriveImplements`), a message is put back while a fault is not yet
  paid for (`RequeueImplements`), and a fault loses only what is under way
  (`FaultImplements`).
- **`WorkTemplateProofs`** - `TypeCorrect`, `DeletedNeverDefault`, `RoomAlike`,
  `TwiceIsRaced`, `UndeletedStale`, `DefaultOnce`, `DefaultServes`. A deleted default could come from any stale
  copy; the invariant says that the copies in flight are `Clean` (no copy about to
  be written is a deleted default). For the bindings it says that an apply between
  its delete and its insert is alone and has left none of its template
  (`AloneBetween`), unless the template is in `raced`. `RoomAlike` is inductive because the
two updates of an apply reach all rows of a room at once, and it inserts only where they
have reached none: then all the room's rows are its own, one for each link
(`LinksBound`). For the defaults (`DefaultInv`):
  the second default of a group is paid for by a stale save, and an update in flight
  writes the default that is in the row it read.
- **`RoomOpeningProofs`** - `TypeCorrect`, `DecidedStays`, `OpenedRoomsOwned`,
  `OneLink`, `OwnersKept`. The invariant has two parts. `JoinInv`: a request that is
  about to decide has joins that are still undecided or raced for (`ReadUndecided`), two
  such requests share no other join (`ReadTogether`), a decided join belongs to a
  merchant (`DecidedOwned`), and the join of a callback that is still to come is open
  or about to be, unless somebody interfered (`Answers`). `LinkInv`: the copy that a process will save is of the room it
  read (`SavesSame`), and one with a copy to insert is alone with its room unless the
  room is in `raced` (`InsertsAlone`); that a room has one link is inductive with it.
- **`ChatRoomMembersProofs`** - `TypeCorrect`, `CountSettlesRight`,
  `ColumnsLostToCopies`, `OneRow`, `MsgsLostToCopies`: every property of the run
  `members` and that a user has one row (`MemberOnce`). The columns follow from `CopiesFresh`: a copy of the room's row that
  is not `behind` differs from the row only in what its own process has filled in.
  `OneRow` needs that a copy is of the user whose row it came from (`CopiesOwn`),
  and that a user who was not raced for has a row, or one process about to insert
  it, and never both (`UsersApart`). That the count is right at the end is the
  longest argument, since every join or quit makes it wrong for a while. Whoever
  changes who is active has a count ahead of it (`NextOwes`); so when nobody is
  going to count, nothing failed and no copy is out of date, some process is about
  to save the right number, or it is in the row and nobody is about to save
  (`CountSettles`).
- **`SmallPartsProofs`** - `AnswersFresh`: that callers who read the switch after a
  whole probe get what the service deserves, although a probe holds the lock only
  for the assignment. The invariant says that a probe that began since the last
  change visits a link of a service that shortens (`VisitsShort`), that the switch
  is right after one such probe (`SwitchRight`), and that whoever has read it since
  and asks, asks a service that works (`AsksWorking`). The algorithms, for all inputs:
  `ImagesFit` (each writer agrees with the reference, in which a row that is centred
  stays on the board and two cells are a unit apart), `FirstImagesTaken` (lists of any
  length), `IdsKept` (all 2^64 ids), `HoursKept` (any moment, zone and length of the
  day); and for every value of the constants the properties of the run: `LayoutHolds`,
  `FirstImagesHold`, `IdsHold`, `HoursHold`. Which images are taken is computed by a
  recursive function: that there is one such function (`Computed`) and what it holds
  after k images (`AllHold`) are inductions over the list, carried out as the
  refutation of a least counterexample (`Least`, from the library's `WFMin`).
- **`RepliesProofs`** - `TypeCorrect`, `OnceAnswered`, `NoneDropped`,
  `OwnTemplatesOnly`, `OneLinkAnswers`, `DueTextsAnswered`, with every read free to
  fail and every call of the link service to hang or to panic. The invariant is a condition `Good` on one goroutine at a
  time; `MoveInv` shows that no other goroutine notices its steps. Answers are
  counted message by message (`Counted`): none for what is to come, as many as
  there were failed writes for the one in hand, and one more while its row is
  saved. For the templates, the present configuration is always among those seen
  (`Informed`), so the owner that is read had an open link in one of them, and
  what is found afterwards is that owner's (`Owned`). That only `match` and `ask`
  answer when there are templates is `AnswerSteps`. The last two need what a goroutine
  knows (`AllKnow`): the link of the robot that will answer was open at a time it has
  seen (`Linked`), and as long as the configuration has not changed, every usable
  template of the owner is found, still to be read, or `missed` by a read that failed
  (`Remembered`); so a message that is due goes on to `match` and is answered there, unless
  the step that gives it up is itself a failed read.

Without a run of their own: the type invariants of all modules, `BroadcastAtMostOnce`, `NotBeforeDue`, `OnePlace`, `RunsBounded`,
`FaultsOnly`, `WedgedForGood`, `MemberOnce`. They hold for every instance by their
theorems.

Checked by TLC only: all liveness (`DueClaimed`, `Delivered`, `EndToEnd`,
`BatchesEnd`, `SwitchFollows`, `CallersReturn`, the second half of
`AtLeastOnceDelivery`), which is out of the prover's reach as is `ENABLED`. The
library's induction theorems cannot be used, since no installed prover instantiates
their operator parameter; where an induction is needed it is over the least
counterexample. No module with a theorem uses a `RECURSIVE` operator.

The invariants were checked with TLC, on the instances of the runs, before they were
proved.

## 6. What is not modelled

- Message contents, links, nicknames and dates: no property is about them, except
  whether a welcome names members and when a row is due.
- The regular expressions on a chat bot's text and the links put into it; the
  Alimama searches, which return before their first statement.
- The columns `sub_id` of the commands: which of the two tables a command comes from.
- The choice among robots in `FindValidRobotByMyId`; one robot is modelled.
- `SyncRobots`, friend requests (`SyncRobotFriendAddCallback`): single-row writes
  by one caller.
- Column widths (a welcome's list of names holds 500 characters): a save that
  fails for them is `JoinFails`.
- Connections leaked by the pump after a failed publish: the broker's limit is not
  part of the repository.
- The platform's own state, beyond which rooms it serves: whether a link that is
  open agrees with it is not stated, since rooms close by themselves at any time.
- HTTP parsing, paging, token check, image decoding and upload, signing of requests,
  migration.
- The bodies of the probe's and the image fetches' responses, which are not closed:
  connections are not counted.
- `shorten/lru.go`: no caller.
- Vendored code (`vendor/`), modelled where `src/` relies on it: RabbitMQ, gorm,
  the platform.

The default welcome interval is 60 s (`uchat/sync.go:30`) where the comment at
line 557 says 30 s; the model has it as the parameter `Interval`.

## 7. Plan

1. `MessageQueue`, its runs and proofs. Done.
2. `Delivery` with `AtLeastOnce`. Done.
3. `Relay`. Done.
4. `WorkTemplate`. Done.
5. `RoomOpening`, its run and proofs. Done.
6. `ChatRoomMembers`. Done.
7. `Replies`, `SendPath` and `ShortUrl`, their runs and proofs. Done. `HeadImage`,
   `FakeId`, `ChatHours` and their theorems. Done.
8. `LossyQueue`, and `SendPath` as an implementation of `Relay`. Done.
9. Left: `SyncRobots` and the requests that save a robot's row.

The runs stay few: a new module replaces a run that has become redundant.
