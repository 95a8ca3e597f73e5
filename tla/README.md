# TLA+ models of the Telegram Bot API server

This directory holds TLA+ models of the server in `telegram-bot-api/`, the TLC
instances that check them, and proofs of the most important properties. File
names below are those of the repository, without `src/`.

The server turns HTTP requests of bots into requests to TDLib, and what TDLib
tells into updates for the bots. Each bot has one actor (`Client`), each webhook
another (`WebhookActor`); one thread runs all actors of a scheduler, so a handler
is atomic, and everything that can go wrong lies *between* handlers: callbacks,
timers, work on other threads, messages in mailboxes, and the two durable
stores, TQueue (updates) and `webhook_db_` (webhooks).

## The parts of the system

| Part | State it keeps | Operations | Modelled in |
|---|---|---|---|
| `WebhookActor` | loaded updates (`update_map_`, `queue_updates_`, `queues_`), connections, address, SSL context, sockets | load, send, answer, retry, expire, resolve, close | `WebhookActor`, `UpdateDelivery`, `ActorReports` |
| `Client`, webhook and polling | `webhook_url_`, `webhook_id_`, `webhook_generation_`, three query slots, `cmd_queue_` | setWebhook, deleteWebhook, getUpdates, callbacks of the actor, certificate copy, close, logOut | `ClientWebhook` |
| `Client`, request handlers | `cmd_queue_`, `handlers_`, one callback per request | the handlers of all methods, `on_cmd`, `send`, `on_result`, flood control of big files, `on_closed` | `RequestSteps`, `SendingMethods`, `ChatMethods`, `AccountMethods`, `Requests` |
| `Client`, usernames of bots | `bot_user_ids_`, `unresolved_bot_usernames_`, `pending_bot_resolve_queries_`, `awaiting_bot_resolve_queries_`, `temp_to_real_bot_user_id_` | parse a keyboard, search, found, not found | `BotNames`, `Requests` |
| `Client`, downloads | `file_download_listeners_`, `download_started_file_ids_` | getFile, updateFile, the answer of downloadFile | `Downloads`, `Requests` |
| `Client`, sending | `yet_unsent_message_count_`, `yet_unsent_messages_`, `pending_send_message_queries_`, `yet_unsent_stories_` | requests for one or several messages, sent, failed, deleted | `SendMessage` |
| `Client`, new messages | `new_message_queues_`, `messages_` | new, edited and deleted messages, lookups of replies and sticker sets | `NewMessages` |
| `Client`, other update queues | four `new_*_queues_` | add, look up, store | `UpdateQueues` |
| `Client`, life | authorization state, `logging_out_`, `closing_`, `need_close_`, timer, directory | start, authorize, log out, close, remove the directory, stop | `Server` |
| `ClientManager` | `clients_`, `token_to_id_`, `active_client_count_`, `close_flag_`, `webhook_db_` | send, close, hangup, raw events, restore webhooks, close the databases | `Server` |
| process | flags of the signals, `close_flag` | start, first and second signal to quit, end | `Server` |
| `Query`, HTTP front end | one promise per query | answer once | the promise in `Requests`, `Server`, `ClientWebhook` and `SendMessage`; arrival in `Server` |
| `Client`, JSON output; statistics; watchdog | counters and texts | print, kill a process that hangs | not modelled |
| `mcp-server`, `mcp-google`, `cloudflare-worker` | replay window and closed flag of an encrypted stdio transport; otherwise stateless | tools that are one HTTP call each | not modelled |

TDLib and TQueue are not in the repository. They are modelled from how the code
uses them and marked external.

**How the parts interact.** `ClientManager` creates a `Client` at the first query
of a bot, puts a setWebhook from `webhook_db_` in front of it, and forwards the
query. The `Client` stores updates in TQueue and calls `WebhookActor::update`;
the actor reads TQueue itself and calls back `webhook_verified`,
`webhook_success`, `webhook_error` and `webhook_closed`. Each callback carries the
generation of the webhook in its link token. TDLib's answers and updates reach the
`Client` in order. Certificates are copied and deleted, and directories removed,
by other threads that send a message when they are done.

**What is hard.** Each hazard is listed at its line in `PROJECT.json`. They are
mostly of six kinds: an answer that arrives when the world has changed (old
webhook actors, lookups of a queue, a certificate copied for a closed Client, a
message found for a query whose keyboard is parsed only then); two tables that
must agree (unsent counters and queries, queues and heaps of the actor, names and
the queries that wait for them); order (updates of a chat, edits against a cache,
the update and the answer about one download); durability (TQueue and
`webhook_db_` against what the bot was told); what outlives what (the directory of a
token, its Clients and the databases); and everything that must be answered in the
end, also when the bot is logged out in between.

## Modules

`X` is the model, `MCX` the instances for TLC, `XProofs` the proofs. A comment
that starts with "Fault:" marks a variant of a definition with a plausible bug;
the mutation tests of `PROJECT.json` put it, or a variant that TLC gets there, in the
place of the original, and TLC then finds the named property violated. No
specification uses a fault.

Several modules have a CONSTANT `Loads`, a named set of workloads. A behavior chooses
one at its start, so one run answers one question about several of them.

### WebhookActor, UpdateDelivery, ActorReports

One action per handler of `WebhookActor.cpp`, each including the call of `loop()`
that ends it: load, open connections, send. The members are two records, `dv`
(delivery) and `st` (life), so the methods of the C++ object are operators from
record to record. Time is abstract: `delayed` and `expired` are sets that time
moves updates into and out of. `create_new_connections` is nondeterministic in
what flood control and the network permit.

`UpdateDelivery` is the promise: at least once, in the order of each queue, one
copy in flight at a time. `WebhookActor` implements it under the mapping of
`Promise` (pending = in TQueue or loaded, sending = in flight).

`ActorReports` is the other side, what the Client may rely on: updates are sent only
between the reports that the webhook is verified and that it is closed, the end is
reported at most once and as the last word, and an actor that ends without a report was
dropped by its Client. `WebhookActor` implements it under `Reports` (told = the calls of
`callback_`). It is what `ClientWebhook` leaves of a WebhookActor: `ActorVerified` and
`ActorClosed` are its steps.

Bounds: `MaxEvent` updates, `Conn` connection slots, `EventBuffer` 2 (100 in the
code), `MaxConnections` 1 or 2. Three updates in two queues are the least that lets
an update overtake another of its queue while a second queue competes for the
connections.

### ClientWebhook

setWebhook and deleteWebhook through all their continuations, getUpdates and the
long poll, closing and logging out, and the next Client with what `webhook_db_`
restored. A WebhookActor is a generation number that may report "verified" and
"closed". `down` and `restarts` are shutdown and restart of the server. Settings are
compared only for equality. Bounds: each query is sent once, two of them (three
in the violating run of deleteWebhook), one restart.

### NewMessages

One chat: its queue, its lookups, and the cache of messages. A message has
versions of its content and of its keyboard, because `add_message` treats them
differently. Assumed of TDLib: updates and answers are delivered in the order
in which TDLib makes them, and it unloads only messages that are not in use.
`need_skip_update_message` keeps messages from the bot also because of the clock and of
its membership (Client.cpp:18597-18621: older than a day, bot left or banned, date before it
joined or was authorized). Neither is a variable: each step that runs the queue
chooses anew which of the messages waiting in it the bot is not to be told of (`untold`), so
that the reasons may begin and cease to apply between any two steps. `skipped` is the
history of the messages whose last news was kept from the bot like this, and
`EditsArrive` excepts them. Polls and inline message users are left out. Bounds: two
messages, two versions each of content and keyboard; the choices of `untold` are unbounded.

### SendMessage

A query passes its asynchronous checks, the flood limit, the request, and waits
for each message; forwards may succeed in part; TDLib may delete a message that
is being sent. Messages sent for business accounts are answered like any other
request: they are in `SendingMethods`. `MaxConcurrent` stands for
`MAX_CONCURRENTLY_SENT_CHAT_MESSAGES`; it is 2 in the run, so that a batch of
three crosses it.

### UpdateQueues

The discipline the callback, business callback, guest and business message
queues share: `has_active_request_`, the state number that lookups carry, erasing
when the Client closes. Which lookups an update needs and whether it is stored are
arbitrary, so one model covers all four. `MaxArrivals` bounds the updates per
queue for TLC only.

### RequestSteps, SendingMethods, ChatMethods, AccountMethods

About two hundred methods of the Bot API have a `process_*_query` handler each, and
nearly all are chains of the same links: parse the arguments, check the chat, check a
message or a user, ask TDLib, answer. `RequestSteps` defines the links (`parse`,
`names`, `chat`, `test`, `ask`, `download`) from the `check_*` functions and from the
`TdOn*Callback` classes, which are told apart by where an error and a result lead
(`Answers`, `Verifies`, `Ignores`, `Tolerates`). The other three modules are tables: for
each method the sequences of steps that its arguments may select.

The bot's relation to the chat is a `Standing` (private chats, groups, supergroups and
channels, with the bot inside, outside, or the chat gone), `Refused` says which
standings each kind of `check_chat_access` refuses. Arguments are not modelled: parsing
passes or fails.

### Requests, BotNames, Downloads

`Requests` runs the tables: `send`, `loop` and `on_cmd`, the sleep of queries with big
files, a request that is answered with an error or a result, and the end of the
Client. A handler runs until it waits for TDLib, so what other queries and TDLib do
falls between its steps, as in the code: that is where the bot leaves the chat, names
are left over, and the Client closes. `Holders(q)` counts the places of a query: its
uniqueness and its answer are properties over all of them.

`BotNames` and `Downloads` are the two parts of the Client that make queries wait for
something shared. They have state and operators but no Next; the handlers of `Requests`
call them. In `BotNames` a query brings a sequence of keyboards (`ReplyMarkups`), one for
most methods and one per result for answerInlineQuery. All are parsed into the one set
`unresolved`, and one that is not inline clears it, the names of the keyboards before it
included. `aborted` has the causes of the CHECKs that failed; the server ends there.

Two of these causes are real and excepted in `ChecksHold` and `ButtonsResolvable`, by name and as
narrowly as they occur. *Own identifier*: a button without bot_username gets the bot's own
identifier (Client.cpp:10380); if that is a multiple of 1000 and the keyboard also names a bot
to search for, `fix_reply_markup_bot_user_ids` looks it up among the temporary ones and the
CHECK at 9227 fails. *Cleared name*: of inline results with the keyboards [login to A],
[remove_keyboard], [login to B] the second makes the Client forget A (10495), only B is
resolved, and the same CHECK fails for the button of A. Without the third result nothing is
unresolved, no CHECK is met, and the button goes to TDLib with its temporary identifier.
`cleared` is the history of parsing by which a button of the second kind is known; a name
that a later result names again is not excepted, since it is resolved for both. `QueriesAnswered`
excepts a server that such a CHECK ended. In `Downloads` TDLib is an ordered channel each way with a file at its end,
which may finish, fail, or turn out too big at any time.

Bounds: three loads. `any`: one query of any method in any chat, with the bot's standing
changing meanwhile; methods with the same steps are one. `naming`: three queries that
name bots in keyboards, one of which looks up a message afterwards, and of which
answerInlineQuery brings a list of results with a keyboard each; two usernames, one
for a bot whose real identifier is a multiple of 1000, because the code takes such
identifiers for temporary. That bot is also the one of the Client (`MCMyId`), so its own
identifier stands in the buttons that name nobody. `MCKeyboards` has a keyboard without
names, with one of them, with the own bot, and with a name twice; `MCResults` has the empty
list, two results that name a bot each, and lists in which a keyboard that is not inline stands
between two that are, naming the same bot or another. `downloading`: three queries for one file. A second chat would
add nothing, since handlers of different chats share only names and files. The copying
methods are not in one load with keyboards that are wrong in part, because there the
CHECK of finding 4 fails; the violating run has that load.

### Server

ClientManager with its `inbox`, each Client with its `mail`, both first in, first out;
the main loop, the thread that removes directories and the closing of the databases run
beside them. It composes what the other modules leave apart: which Client exists, for
how long, and what the process leaves for the next one. What a query does inside a
Client is told in `Requests` and `ClientWebhook`; here only its effect on `webhook_db_`
and on the Client's webhook remains, in one step (`Execute`): a setWebhook succeeds, is refused
before anything changed, or fails after the webhook before it was closed or its own was not
verified, and then the entry is erased (`on_webhook_closed`). Writes to `webhook_db_` are durable at
once; `Exit` forgets everything else, in order (`Finish`) or by a second signal (`Quit`).
Flood control, which may refuse a new Client, and the refusal of a Client with too many
active queries are nondeterministic.

Bounds: four loads. `reopening`: two queries of any kind for a bot with a stored webhook
and a signal. `restarting`: up to two signals and a second start. `two`: Clients of one
bot with different tokens, which share a TQueue and its counter. `wrong`: a token no Client
accepts, beside a good one. Two queries are the least for one to end a Client and another
to create the next.

## Runs

| Run | Question |
|---|---|
| `webhook_delivery` | Is each queue in exactly one place, are only fronts in flight, is nothing skipped or lost, and is `UpdateDelivery` implemented, also when a header never fits? |
| `webhook_lifecycle` | For all kinds of webhooks, with and without a proxy: does the actor ever sleep with work to do, are its limits kept, is `ActorReports` implemented, is the Client always told, and does an update leave TQueue even if the webhook fails every request? |
| `setwebhook` | Are setters kept apart, is there one actor, is each query held once and answered, is what a setWebhook waits for always under way, and does "Webhook was set" mean that the database has it? |
| `messages` | Do the CHECKs of the new-message queue hold, is the order kept, and is no edit overtaken, nor forgotten but by design? |
| `sending` | Do counters, tables and queries agree, is the limit kept, is the answer true and does it always come? |
| `updates` | Do the CHECKs hold, is the order kept, is nothing stored while closing, and does every update leave its queue? |
| `requests` | Is a query of any method held once and answered, is nothing changed in a chat for a query during which the bot was never in it, do names get resolved to the right bots, but for the two causes named above, and is every listener of a download served? |
| `server` | Are active Clients counted exactly, is a directory never shared, are webhooks restored first, do the databases close last, and does a signal end the process? |
| `setwebhook_copy`, `setwebhook_deleted`, `messages_stale`, `names_left` | Four disagreements, see below |

`requests` and `names_left` check deadlock: a stopped Client stutters explicitly
(`Terminated`), so a state from which a query could not go on would be reported. The others
have `CHECK_DEADLOCK FALSE`: queries and updates are bounded, so these models stop when
they are used up.

**Fairness.** It is assumed of handlers only where the code guarantees them: the
scheduler runs every message and timer; connections, lookups and SSL contexts
end (they have timeouts); TDLib answers each request; the other threads finish
their work; update lifetimes end. Nothing is assumed of the bot: it may fail
every request or send nothing. `webhook_lifecycle` assumes in addition that now and then
all wanted connections can be opened, and states `UpdatesLeave` only for a fixed address
and no proxy, since nothing bounds the failures of a lookup or of a proxy. `Requests` and
`Server` have one weak fairness condition, of everything together that the code and TDLib
must do: `QueriesAnswered` and `ShutdownEnds` hold although no action is fair by itself,
because each of these models is finite in what it still has to do.

## Where the code differs from what it says

1. **`setwebhook_copy`.** `on_webhook_certificate_copied` starts with
   `CHECK(active_webhook_set_query_)` (Client.cpp:17144). `on_closed` answers and
   clears that query while the copy is still under way, and the Client lives on
   until its directory is removed, so the CHECK can fail.
2. **`setwebhook_deleted`.** When the bot was closed with a webhook set, the first
   deleteWebhook creates a Client without restoring the webhook
   (ClientManager.cpp:146), answers "Webhook is already deleted", and leaves the
   entry in `webhook_db_`; the next Client restores the webhook.
3. **`messages_stale`.** "keep the unchanged old content" (Client.cpp:19266) keeps
   a content that has changed: a message edited before it enters the cache keeps
   its old content there, and the edit is not reported.
4. **`names_left`.** `resolve_reply_markup_bot_usernames` has `CHECK(reply_markup !=
   nullptr)` when names are unresolved (Client.cpp:9269). copyMessage and forwardMessage
   parse their keyboard after a wait for TDLib; a query that ran meanwhile may have failed
   with its names left in `unresolved_bot_usernames_`, and a copyMessage without a keyboard
   then meets them.

The two causes that `ChecksHold` excepts, the own identifier and the cleared name, abort the
server in the same way. They have no run of their own: `requests` reaches both states, and
fails when either exception is dropped from `ChecksHold`.

## Proofs

`tlapm` checks every theorem, for all values of the constants allowed by the
modules' assumptions.

`WebhookActorProofs` assumes `ConstantsAssumption` (finitely many connections, at
least one allowed, an address only where the Client passes one). The theorems
`TypeCorrect`, `QueuesArePlaced`, `FrontsAreInFlight`, `NoneSkipped` and `NoneLost` follow
from one inductive invariant. What the runs check is not inductive: a queue is
placed correctly only if a connection is ready exactly when it has no event
(`ReadyInv`), if waiting and sending queues are disjoint even when headers do
not fit (`ApartInv`), and if nothing is stored beyond the last update pushed
(`TailInv`). Because every handler ends with `loop()`, the invariant is a
predicate of values (`DeliveryInv(d, tq, last)`), shown to be kept by each
method, by `Loop`, and so by each handler. The end of a request is taken in one
step: between `drop_event` and the release of the connection it does not hold.

The same module proves the refinement, `PromiseKept`: every step of `WebhookActor` is
a step of `UpdateDelivery` or stutters. The mapping counts as pending what is stored and what
is loaded. Two facts carry it: what is in flight is the first of its queue among all that is
pending, the updates that are only stored included (`FlightIsFirst`), and what is loaded is
still stored or expired (`LoadedInv`), so that nothing pending vanishes when an actor stops.

`WebhookLoopProofs` proves what `loop()` guarantees. `LimitsHold`: `WithinLimits` is inductive
once the types are known, but only by counting: `load_updates` reads no more updates than
there is room for queues (`BatchIsBounded`, `LoadIsLimited`), and `create_new_connections`
opens no more than are missing. In the runs the updates are too few to fill the limit on
loaded queues; the theorem covers it for any number. `WakeupIsScheduled`: `loop()` is taken
apart into what each of its methods leaves, an address or a lookup, a context, a connection,
a socket or a timer, and with connections and nothing in flight a timer. Its invariant
`WakeInv` adds to `WakeupScheduled` what an actor has that does not run, or that runs and is
going to stop or not (`Ready`), and that whoever was not told of an update has read them all
(`ReadInv`); `UpdatesLeave`, the liveness of the same, stays with TLC. `ReportsAreTrue` is the
refinement of `ActorReports`: a handler composes calls of methods, so what each of them may do
to the reports is one relation between the member records before and after it (`Tells`), which
is transitive. `ReportInv` says that the flags of a live actor are what it told (`Truthful`), and
that connections exist only while it is verified and not stopping.

`ClientWebhookProofs` assumes `RequestsAssumption` (what callers may ask for, and that the
marks for "none" are no values). The handlers of setWebhook pass the Client's members on to
one another, so the invariant is a predicate of bundles of them, `SetterInv`, shown to be kept by
each method: where queries are (`HeldInv`), which slots exclude which (`ApartInv`), that an
actor, its report that it closed and the removal of its certificate follow one another
(`SuccessionInv`), that reports are no younger than the generation and those of an older one
find a query that waits for them (`ActorInv`), and what the database holds (`SavedInv`).
`SettersStayApart`, `OnlyOneActor`, `EveryQueryIsHeld` and `DatabaseIsRight` follow from its
induction (`Inductive`). `SetIsDurable` is about steps: every method but `webhook_verified`
is quiet, it makes no setWebhook "ok" (`Quiet`), and that one saves before it answers.
That no setWebhook waits in vain (`AnswerComing`, the safety half of `QueriesAnswered`) needs a
second invariant, `Coming`: nobody reported for a generation that does not exist yet
(`FreshInv`, so that the report that comes is not mistaken for an old one), whoever is in
hand has a copy, an actor, or news of one under way (`BusyInv`), and an open Client with a
webhook has an actor until that actor's end is on its way (`ServedInv`, without which a
replacement would wait for an actor that is not there).

`SendMessageProofs` assumes `SendMessageAssumption` (a single message or a story is one
message, a positive limit, finitely many queries). `CountsStayExact`, `AwaitedStaysExact` and
`AnswersAreTrue` rest on one invariant per query (`QueryInv`: its stage, its unsent messages,
its results) and one per chat (`CountInv`). A step concerns one query, so the messages that
count for a chat change by those of that query, whatever the others do.

`RequestsProofs` is about `Requests` with `BotNames` and `Downloads`. Most of it holds for any
tables of methods; two theorems need what `MethodsAssumption` says of them: each handler checks
the chat before it changes it, parses keyboards in at most one step, and, unless it copies
a message, before anything waits. The tables are definitions, so this is no assumption about the
environment: it is a closed formula that TLC evaluates, over every method of the server,
whenever it checks the module. `PlacesAreInvariant` says that the places of a query exclude one
another, each holding it once: in `cmd_queue_`, asleep, in a callback, waiting for names, or for a file. A
handler begins with a query only after it left the queue (`Begun`); a query that was answered
may linger only in the lists of a username, whose entries are skipped when the query is no
longer pending. `QueriesAreHeldOnce` counts these places. `ListenersAreServed` needs that a
report of an active download is followed by a report of its end or true (`EndReported`).
`ResolveCountsStayExact` needs the places: a query whose names are to be resolved waits for no
name yet. `ButtonsAreResolvable` adds that an identifier of a username is real, or a temporary one
that no other username has or had (`IdsInv`). The invariant is kept keyboard by keyboard as they
are parsed: a button's name is unresolved, or real, or was cleared by a later keyboard
(`cleared`). It has one hypothesis, since the code tells temporary identifiers from real ones by
divisibility by 1000 alone (Client.cpp:9227): in the state it speaks of, no temporary identifier
handed out so far is also the real one of a bot (`NoCollision`; the run has a bot with such an
identifier, which was not handed out). Of the bot's own identifier nothing is assumed. `ChangesAreMadeInside` is an induction over
the links a handler has yet to go through: whatever it still asks for, either a check of the
chat stands before it, or the bot was in the chat since the query arrived (`ScriptsInv`).
`NamesAreResolvedInTime` says that no CHECK on names fails but for the two excepted causes. It
has the same hypothesis and `CopySafe`, that no query with a keyboard runs beside one that
copies a message, because
otherwise finding 4 makes it false: every load of `requests` satisfies it, that of `names_left`
does not. The first CHECK needs `CleanInv`: when a query that waits still has a keyboard to
parse, which only one that copies has, nobody left a name unresolved. The second needs that
whoever is resumed finds each of its identifiers among the resolved ones.

`NewMessagesProofs` assumes `MessagesAssumption` (a message replies to an earlier one or to
none). The invariant `Good` is a predicate of the record that the handlers compute on, of
what TDLib has told, and of the edits under way: what is told, queued or cached of a message
was announced (`AnnouncedInv`), the queue goes on in the order of what is stored (`OrderInv`),
the versions stored, queued, cached and known to TDLib follow one another (`VersionInv`),
and a difference between what the bot was told and what TDLib has is marked in the cache, or
an edit of it waits (`UnchangedInv`, and `ArriveInv` while the Client is open). It is kept when
the front message passes the cache (`Passed`), so by induction over their number when any
number pass (`After`), which is what the loop of `process_new_message_queue` does.
`FrontIsAwaited`, `MessagesInOrder`, `VersionsNeverOld` and `EditsDoArrive` follow. The
choice of what the bot is not told of is arbitrary in every step of the induction, and the
exceptions of what was kept from it and of finding 3 are in the statement of `EditsArrive`, as in
the run.

`UpdateQueuesProofs` assumes `UpdateQueuesAssumption` (at least one lookup state
per queue). `ChecksHold`, `StoredFirst`, `OrderKept` and `ClosedIsQuiet` rest on an
invariant that adds two facts: queues are sorted by arrival, and no number in
them is greater than the last arrival.

`ServerProofs` assumes `ServerAssumption`: loads are well formed, each with finitely many
stored webhooks, none of them of a malformed token. Tokens, queries, signals and starts
may be any. The base is `Tame` (`TameHolds`): a Client with TDLib has no timer running and was
not told that its directory is gone; before the manager closes, a Client whose directory is
being removed just waits, alive and in `clients_`; a token has one Client, and its
directory one holder. The last two are what `DirectoryIsExclusive` says, but they are not
inductive without the others: that a successor cannot be created during the removal depends on
which messages and timers can still stop the predecessor. `WebhookRestoredFirst` rests on
`Restoring`: until a Client executes its restoring query, that query is in front of every
other it has. `DatabasesAreLast` rests on `Accounted`: every open query is in a message, in a
Client's mail or commands, or waits there for TDLib, so that none is left when no Client is.
`ActiveCountsAreExact` rests on `Counting`: the count of a bot is the number of its Clients that
were authorized and not yet counted off, where news that wait in the inbox count as not heard
(`Counted`). Each Client sends at most one message of either kind, in this order, and none
after the one that it is gone (`Heralded`), so counting messages is counting Clients.

Only model-checked is liveness (`UpdatesLeave`, `SetWebhookAnswered`, `QueriesAnswered`,
`QueuesMove`, `ShutdownEnds`), since the prover has neither ENABLED nor fairness. Of every other
property of a passing run there is a theorem; `ButtonsResolvable` and `ChecksHold` (of
`requests`) have the hypotheses said above.

What a recursive definition computes for all of its inputs cannot be proved by the library's
induction theorems, so `NewMessages` and `BotNames` define their loops as functions over
the numbers of their steps, and the proofs take the least number for which a claim fails.

## Not modelled

- Parsing of arguments and formatting of JSON: no state.
- Statistics, logging, warnings: nothing depends on them but the limit of active queries,
  which is a choice of `Send`. The watchdog, which only kills a process that hangs, options of
  the command line, the statistics page, and the restarts of the HTTP listener.
- Real time: flood control, retry delays and long-poll windows are
  nondeterministic choices.
- The contents of TQueue outside of `WebhookActor`: offsets and confirmation by getUpdates.
  In `ClientWebhook` a getUpdates finds updates or does not.
- The log of TQueue and its replay, the garbage collection of old updates, and the files of
  certificates: what a crash leaves of them is up to the storage, not to the order of steps.
- `pending_updates_` and options of TDLib before the authorization; chats other than one in
  `NewMessages` and `Requests`; polls and inline message users.
- TDLib's own behaviour beyond what the assumptions above say.
- `mcp-server`, `mcp-google` and `cloudflare-worker` are separate programs that call the
  Bot API by HTTP; build files and documentation have no behaviour.

## What is left

The hazards without a property are in `PROJECT.json`, each with its reason. Worth doing
next: the TQueue that getUpdates and `WebhookActor` share, with confirmation by offset and
the replay of its log; polls and inline message users in `NewMessages`; and a refinement
that says of `Requests` and `ClientWebhook` together that a query is answered once.
