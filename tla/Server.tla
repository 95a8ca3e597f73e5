------------------------------- MODULE Server -------------------------------
(***************************************************************************)
(* The life of the clients and of the process: ClientManager, which owns a *)
(* Client for each token, the authorization and the end of a Client, the   *)
(* shutdown by a signal, and the restart from webhook_db_.                 *)
(*                                                                         *)
(* All the actors of the module share one thread.  ClientManager takes its *)
(* messages from inbox, each Client from its own mail; the main loop, the  *)
(* thread that removes directories and the one that closes the databases   *)
(* run beside them.  What a Client does with a query is told in Requests   *)
(* and ClientWebhook; here a query only touches webhook_db_.               *)
(*                                                                         *)
(* "Fault:" marks variants of a definition with a bug the code does not    *)
(* have; the mutation tests of README.md put them in place of it.          *)
(***************************************************************************)
EXTENDS Integers, Sequences, FiniteSets, TLC, SequencesExt

CONSTANTS
  Token,        \* tokens of bots
  TQueueOf,     \* get_tqueue_id: tokens of the same bot share a TQueue
  Malformed,    \* the tokens whose secret part no Client accepts
  Query,        \* the queries that may arrive by HTTP
  Loads         \* the loads of the server by name: the tokens and methods of each query (calls),
                \* the stored webhooks (webhooks), bounds on the signals to quit (signals) and
                \* on the starts of the process (starts)

Method == {"setwebhook", "deletewebhook", "close", "logout", "other"}

NoToken == "no token"

ASSUME ServerAssumption ==
  /\ Malformed \subseteq Token
  /\ DOMAIN TQueueOf = Token
  /\ \A l \in DOMAIN Loads :
       /\ DOMAIN Loads[l].calls \subseteq Query
       /\ \A q \in DOMAIN Loads[l].calls :
            Loads[l].calls[q] \subseteq [token : Token \cup {NoToken}, method : Method]
       /\ Loads[l].webhooks \subseteq Token \ Malformed /\ IsFiniteSet(Loads[l].webhooks)
       /\ Loads[l].signals \in Nat /\ Loads[l].starts \in Nat \ {0}

\* A query of get_webhook_restore_query, which nobody waits for
Internal == "internal"

VARIABLES
  load,         \* the load of this behavior
  up,           \* the process runs
  starts,       \* how often it was started
  signals,      \* how many signals to quit it got
  stopping,     \* close_flag of the main loop of telegram-bot-api.cpp
  inbox,        \* the messages to ClientManager
  close_flag,   \* close_flag_
  databases,    \* "open", "closing", "closed": TQueue and webhook_db_
  clients,      \* clients_ and token_to_id_: id -> Client
  last_id,      \* the id of the youngest Client
  active,       \* active_client_count_
  webhook_db,   \* the tokens that webhook_db_ holds a webhook for
  removing,     \* the Clients whose directories are being removed: id -> token
  arrived,      \* the queries that have arrived
  open          \* the queries that wait for their answers

managerVars == <<close_flag, databases, last_id, active>>
processVars == <<load, up, starts, signals, stopping>>
vars == <<processVars, inbox, managerVars, clients, webhook_db, removing, arrived, open>>

TQueue == {TQueueOf[t] : t \in Token}

Put(f, x, y) == [z \in DOMAIN f \cup {x} |-> IF z = x THEN y ELSE f[z]]
Without(f, S) == [z \in DOMAIN f \ S |-> f[z]]

(***************************************************************************)
(* Messages.                                                               *)
(***************************************************************************)
QueryTo(t, q, m) == [kind |-> "query", token |-> t, q |-> q, method |-> m]
Restore(t) == QueryTo(t, Internal, "restore")
Raw(id, n) == [kind |-> "raw", id |-> id, n |-> n]
Hangup(id) == [kind |-> "hangup", id |-> id]
Close == [kind |-> "close"]
Removed == [kind |-> "removed"]

QueriesIn(messages) == {messages[i].q : i \in {i \in DOMAIN messages : messages[i].kind = "query"}}

Answer(Q) == open' = open \ Q

(***************************************************************************)
(* Client: it is created with its first messages.                          *)
(***************************************************************************)
\* start_up
NewClient(t, first, mail) ==
  [token |-> t,
   alive |-> TRUE,
   td |-> t \notin Malformed,
   was_authorized |-> FALSE,
   logging_out |-> t \in Malformed,
   closing |-> FALSE,
   need_close |-> FALSE,
   asked |-> FALSE,          \* TDLib is asked to close
   timer |-> t \in Malformed,
   cmd_queue |-> <<>>,
   waiting |-> {},           \* close and logOut queries that wait for TDLib
   mail |-> mail,
   first |-> first,          \* the method of the query it was created for
   webhook |-> "none",       \* or "set", or "failed": a setWebhook failed
   served |-> FALSE]         \* it executed a query that depends on the webhook

Leaving(c) == c.logging_out \/ c.closing

Looping(c) == c.alive /\ c.cmd_queue # <<>> /\ (c.was_authorized \/ Leaving(c))

Held(c) == QueriesIn(c.mail) \cup QueriesIn(c.cmd_queue) \cup c.waiting

\* stop: whatever query it still holds is answered by its promise.
StopClient(id, c) ==
  /\ clients' = [clients EXCEPT ![id] = [c EXCEPT !.alive = FALSE, !.mail = <<>>, !.cmd_queue = <<>>, !.waiting = {}]]
  /\ inbox' = Append(inbox, Hangup(id))
  /\ Answer(Held(c))

\* finish_closing
FinishClosing(id, c) ==
  IF c.need_close THEN StopClient(id, c)
  ELSE clients' = [clients EXCEPT ![id] = [c EXCEPT !.timer = TRUE]] /\ UNCHANGED <<inbox, open>>

\* close
CloseClient(c) ==
  [c EXCEPT !.need_close = TRUE,
            !.timer = @ \/ ~c.td,
            !.asked = @ \/ (c.td /\ ~c.closing)]

\* The messages of a Client: send, which refuses a query when too many are active, close,
\* and finish_closing of one whose directory was removed
HandleMail(id) ==
  LET c == [clients[id] EXCEPT !.mail = Tail(@)]
      message == Head(clients[id].mail)
  IN  /\ clients[id].alive /\ clients[id].mail # <<>> /\ ~Looping(clients[id])
      /\ CASE message.kind = "query" ->
                \/ message.method = "other" /\ clients' = [clients EXCEPT ![id] = c]
                     /\ Answer({message.q}) /\ UNCHANGED inbox
                \/ clients' = [clients EXCEPT ![id] = [c EXCEPT !.cmd_queue = Append(@, message)]]
                     /\ UNCHANGED <<inbox, open>>
           [] message.kind = "close" ->
                clients' = [clients EXCEPT ![id] = CloseClient(c)] /\ UNCHANGED <<inbox, open>>
           [] message.kind = "removed" -> FinishClosing(id, c)
      /\ UNCHANGED <<processVars, managerVars, webhook_db, removing, arrived>>

(***************************************************************************)
(* on_cmd, called by loop.                                                 *)
(***************************************************************************)
\* close may be refused because the Client was started not long ago.
OnSpecial(id, c, query) ==
  \/ /\ query.method = "close"
     /\ clients' = [clients EXCEPT ![id] = c]
     /\ Answer({query.q})
  \/ /\ clients' = [clients EXCEPT ![id] =
           [c EXCEPT !.need_close = @ \/ query.method = "close",
                     !.asked = @ \/ query.method = "close",
                     !.waiting = @ \cup {query.q}]]
     /\ UNCHANGED open

\* The result of a query for webhook_db_ and the webhook of the Client.  A setWebhook that
\* fails once the webhook before it is closed, or when its own is not verified, erases the
\* entry; one refused earlier leaves it.  deleteWebhook of a Client without a webhook leaves
\* the database alone.
Execute(id, c, query) ==
  /\ \/ /\ query.method \in {"setwebhook", "restore"}
        /\ \/ /\ webhook_db' = webhook_db \cup {c.token}
              /\ clients' = [clients EXCEPT ![id] = [c EXCEPT !.webhook = "set"]]
           \/ /\ webhook_db' = webhook_db \ {c.token}
              /\ clients' = [clients EXCEPT ![id] = [c EXCEPT !.webhook = "failed"]]
           \/ /\ clients' = [clients EXCEPT ![id] = [c EXCEPT !.webhook = IF @ = "none" THEN "failed" ELSE @]]
              /\ UNCHANGED webhook_db
     \/ /\ query.method = "deletewebhook"
        /\ webhook_db' = IF c.webhook = "set" THEN webhook_db \ {c.token} ELSE webhook_db
        /\ clients' = [clients EXCEPT ![id] = [c EXCEPT !.webhook = IF @ = "set" THEN "none" ELSE @]]
     \/ /\ query.method = "other"
        /\ clients' = [clients EXCEPT ![id] = [c EXCEPT !.served = TRUE]]
        /\ UNCHANGED webhook_db
  /\ Answer({query.q})

OnCmd(id) ==
  LET c == [clients[id] EXCEPT !.cmd_queue = Tail(@)]
      query == Head(clients[id].cmd_queue)
  IN  /\ Looping(clients[id])
      /\ IF c.td /\ c.was_authorized /\ query.method \in {"close", "logout"}
         THEN OnSpecial(id, c, query) /\ UNCHANGED webhook_db
         ELSE IF Leaving(c)
         THEN clients' = [clients EXCEPT ![id] = c] /\ Answer({query.q}) /\ UNCHANGED webhook_db
         ELSE Execute(id, c, query)
      /\ UNCHANGED <<processVars, inbox, managerVars, removing, arrived>>

(***************************************************************************)
(* TDLib tells of the authorization (on_update_authorization_state), and   *)
(* the Client tells ClientManager whether it is active.                    *)
(***************************************************************************)
TdTells(id) == clients[id].td /\ ~Looping(clients[id])

TdAuthorizes(id) ==
  /\ TdTells(id) /\ ~clients[id].was_authorized /\ ~Leaving(clients[id])
  /\ clients' = [clients EXCEPT ![id].was_authorized = TRUE]
  /\ inbox' = Append(inbox, Raw(id, 1))
  /\ UNCHANGED <<processVars, managerVars, webhook_db, removing, arrived, open>>

\* log_out after an error, logOut, or the end of the session
TdLogsOut(id) ==
  /\ TdTells(id) /\ ~Leaving(clients[id])
  /\ clients' = [clients EXCEPT ![id].logging_out = TRUE]
  /\ inbox' = IF clients[id].was_authorized THEN Append(inbox, Raw(id, -1)) ELSE inbox
  /\ UNCHANGED <<processVars, managerVars, webhook_db, removing, arrived, open>>

\* Fault: a Client that logs out and then closes is counted off twice.
TdClosesCounting(id) ==
  /\ TdTells(id) /\ ~clients[id].closing
  /\ clients[id].asked \/ clients[id].logging_out
  /\ clients' = [clients EXCEPT ![id].closing = TRUE]
  /\ inbox' = IF clients[id].was_authorized THEN Append(inbox, Raw(id, -1)) ELSE inbox
  /\ UNCHANGED <<processVars, managerVars, webhook_db, removing, arrived, open>>

TdCloses(id) ==
  /\ TdTells(id) /\ ~clients[id].closing
  /\ clients[id].asked \/ clients[id].logging_out
  /\ clients' = [clients EXCEPT ![id].closing = TRUE]
  /\ inbox' = IF clients[id].was_authorized /\ ~clients[id].logging_out
              THEN Append(inbox, Raw(id, -1)) ELSE inbox
  /\ UNCHANGED <<processVars, managerVars, webhook_db, removing, arrived, open>>

\* setTdlibParameters fails: the Client is to be closed.
TdInitFails(id) ==
  /\ TdTells(id) /\ ~clients[id].was_authorized /\ ~Leaving(clients[id]) /\ ~clients[id].need_close
  /\ clients' = [clients EXCEPT ![id] = CloseClient(@)]
  /\ UNCHANGED <<processVars, inbox, managerVars, webhook_db, removing, arrived, open>>

\* TDLib answers the close and the logOut requests.
TdAnswers(id) ==
  /\ TdTells(id) /\ clients[id].waiting # {}
  /\ clients' = [clients EXCEPT ![id].waiting = {}]
  /\ Answer(clients[id].waiting)
  /\ UNCHANGED <<processVars, inbox, managerVars, webhook_db, removing, arrived>>

\* Fault: the Client finishes while its directory is being removed.
OnClosedAtOnce(id) ==
  LET c == [clients[id] EXCEPT !.td = FALSE]
  IN  /\ TdTells(id) /\ Leaving(clients[id]) /\ clients[id].waiting = {}
      /\ IF c.logging_out
         THEN webhook_db' = webhook_db \ {c.token} /\ removing' = Put(removing, id, c.token)
         ELSE UNCHANGED <<webhook_db, removing>>
      /\ FinishClosing(id, c)
      /\ UNCHANGED <<processVars, managerVars, arrived>>

\* on_closed: the directory of a Client that logged out is removed on another thread.
OnClosed(id) ==
  LET c == [clients[id] EXCEPT !.td = FALSE]
  IN  /\ TdTells(id) /\ Leaving(clients[id]) /\ clients[id].waiting = {}
      /\ IF c.logging_out
         THEN /\ webhook_db' = webhook_db \ {c.token}
              /\ removing' = Put(removing, id, c.token)
              /\ clients' = [clients EXCEPT ![id] = c]
              /\ UNCHANGED <<inbox, open>>
         ELSE FinishClosing(id, c) /\ UNCHANGED <<webhook_db, removing>>
      /\ UNCHANGED <<processVars, managerVars, arrived>>

\* td::rmrf ends; what is told to a Client that is gone is lost.
DirectoryRemoved(id) ==
  /\ removing' = Without(removing, {id})
  /\ clients' = IF id \in DOMAIN clients /\ clients[id].alive
                THEN [clients EXCEPT ![id].mail = Append(@, Removed)] ELSE clients
  /\ UNCHANGED <<processVars, inbox, managerVars, webhook_db, arrived, open>>

\* timeout_expired
TimeoutExpired(id) ==
  /\ clients[id].alive /\ clients[id].timer /\ ~Looping(clients[id])
  /\ StopClient(id, clients[id])
  /\ UNCHANGED <<processVars, managerVars, webhook_db, removing, arrived>>

(***************************************************************************)
(* ClientManager: the first message of inbox.                              *)
(***************************************************************************)
\* Fault: the webhook is restored after the query.
FirstMailReversed(query) ==
  LET restores == query.token \in webhook_db /\ query.method \notin {"setwebhook", "deletewebhook", "restore"}
  IN  IF restores THEN <<query, Restore(query.token)>> ELSE <<query>>

\* The Client of a new token finds its stored webhook restored before any query but those
\* that replace it.
FirstMail(query) ==
  LET restores == query.token \in webhook_db /\ query.method \notin {"setwebhook", "deletewebhook", "restore"}
  IN  IF restores THEN <<Restore(query.token), query>> ELSE <<query>>

CreateClient(query) ==
  /\ last_id' = last_id + 1
  /\ clients' = Put(clients, last_id + 1, NewClient(query.token, query.method, FirstMail(query)))
  /\ UNCHANGED open

\* A Client that is gone but was not yet heard of answers by the promise of the query.
Forward(id, query) ==
  /\ IF clients[id].alive
     THEN clients' = [clients EXCEPT ![id].mail = Append(@, query)] /\ UNCHANGED open
     ELSE Answer({query.q}) /\ UNCHANGED clients
  /\ UNCHANGED last_id

Refuse(query) == Answer({query.q}) /\ UNCHANGED <<clients, last_id>>

\* send.  A new Client may be refused by flood control; close needs none.
Send(query) ==
  LET ids == {id \in DOMAIN clients : clients[id].token = query.token}
  IN  /\ IF close_flag \/ query.token = NoToken THEN Refuse(query)
         ELSE IF ids # {} THEN \E id \in ids : Forward(id, query)
         ELSE \/ query.method # "restore" /\ Refuse(query)
              \/ query.method # "close" /\ CreateClient(query)
      /\ UNCHANGED <<close_flag, databases, active>>

\* Fault: the databases are closed by the end of the last Client alone.
CloseManagerOfSome ==
  /\ close_flag' = TRUE
  /\ clients' = [id \in DOMAIN clients |->
                   IF clients[id].alive THEN [clients[id] EXCEPT !.mail = Append(@, Close)] ELSE clients[id]]
  /\ UNCHANGED <<databases, last_id, active, open>>

\* close
CloseManager ==
  /\ close_flag' = TRUE
  /\ databases' = IF clients = <<>> THEN "closing" ELSE databases
  /\ clients' = [id \in DOMAIN clients |->
                   IF clients[id].alive THEN [clients[id] EXCEPT !.mail = Append(@, Close)] ELSE clients[id]]
  /\ UNCHANGED <<last_id, active, open>>

\* raw_event
RawEvent(id, n) ==
  /\ active' = [active EXCEPT ![TQueueOf[clients[id].token]] = @ + n]
  /\ UNCHANGED <<close_flag, databases, clients, last_id, open>>

\* Fault: the first Client that is gone lets the databases be closed.
HangupSharedEarly(id) ==
  /\ clients' = Without(clients, {id})
  /\ databases' = IF close_flag THEN "closing" ELSE databases
  /\ UNCHANGED <<close_flag, last_id, active, open>>

\* hangup_shared
HangupShared(id) ==
  /\ clients' = Without(clients, {id})
  /\ databases' = IF close_flag /\ clients' = <<>> THEN "closing" ELSE databases
  /\ UNCHANGED <<close_flag, last_id, active, open>>

HandleInbox ==
  LET message == Head(inbox)
  IN  /\ inbox # <<>> /\ databases # "closed"
      /\ CASE message.kind = "query" -> Send(message)
           [] message.kind = "close" -> CloseManager
           [] message.kind = "raw" -> RawEvent(message.id, message.n)
           [] message.kind = "hangup" -> HangupShared(message.id)
      /\ inbox' = Tail(inbox)
      /\ UNCHANGED <<processVars, webhook_db, removing, arrived>>

\* close_db, and finish_close when both databases are closed
DatabasesClosed ==
  /\ databases = "closing"
  /\ databases' = "closed"
  /\ UNCHANGED <<processVars, inbox, close_flag, clients, last_id, active, webhook_db, removing, arrived, open>>

(***************************************************************************)
(* The process.                                                            *)
(***************************************************************************)
\* HttpConnection passes a query on.
Arrive(q) ==
  /\ up /\ q \in DOMAIN Loads[load].calls \ arrived
  /\ arrived' = arrived \cup {q}
  /\ open' = open \cup {q}
  /\ \E call \in Loads[load].calls[q] : inbox' = Append(inbox, QueryTo(call.token, q, call.method))
  /\ UNCHANGED <<processVars, managerVars, clients, webhook_db, removing>>

\* All but webhook_db_ ends with the process.
Exit ==
  /\ up' = FALSE
  /\ inbox' = <<>> /\ clients' = <<>> /\ removing' = <<>> /\ open' = {}
  /\ close_flag' = FALSE /\ databases' = "closed" /\ last_id' = 0
  /\ active' = [tq \in TQueue |-> 0]
  /\ stopping' = FALSE
  /\ UNCHANGED <<load, starts, webhook_db, arrived>>

\* The main loop finds need_quit set: the first signal closes ClientManager, another one
\* ends the process at once.
Quit ==
  /\ up /\ signals < Loads[load].signals
  /\ signals' = signals + 1
  /\ IF stopping THEN Exit
     ELSE /\ stopping' = TRUE
          /\ inbox' = Append(inbox, Close)
          /\ UNCHANGED <<load, up, starts, managerVars, clients, webhook_db, removing, arrived, open>>

\* can_quit
Finish == up /\ databases = "closed" /\ Exit /\ UNCHANGED signals

\* start_up of ClientManager: a query restores each webhook.
Restores(webhooks) == SetToSeqs({Restore(t) : t \in webhooks})

Start ==
  /\ ~up /\ starts < Loads[load].starts
  /\ up' = TRUE
  /\ starts' = starts + 1
  /\ databases' = "open"
  /\ inbox' \in Restores(webhook_db)
  /\ UNCHANGED <<load, signals, stopping, close_flag, clients, last_id, active, webhook_db, removing,
                 arrived, open>>

(***************************************************************************)
(* Specification.                                                          *)
(***************************************************************************)
Init ==
  /\ up = TRUE /\ starts = 1 /\ signals = 0 /\ stopping = FALSE
  /\ close_flag = FALSE /\ databases = "open" /\ last_id = 0
  /\ clients = <<>> /\ removing = <<>> /\ arrived = {} /\ open = {}
  /\ active = [tq \in TQueue |-> 0]
  /\ load \in DOMAIN Loads
  /\ webhook_db = Loads[load].webhooks
  /\ inbox \in Restores(webhook_db)

\* What the threads, TDLib and timers do in the end
Progress ==
  \/ \E id \in DOMAIN clients :
       HandleMail(id) \/ OnCmd(id) \/ TdAuthorizes(id) \/ TdCloses(id) \/ TdAnswers(id) \/ OnClosed(id)
         \/ TimeoutExpired(id)
  \/ \E id \in DOMAIN removing : DirectoryRemoved(id)
  \/ HandleInbox \/ DatabasesClosed \/ Finish

\* What may happen or not
Environment ==
  \/ \E q \in Query : Arrive(q)
  \/ \E id \in DOMAIN clients : TdLogsOut(id) \/ TdInitFails(id)
  \/ Quit \/ Start

Next == Progress \/ Environment

Spec == Init /\ [][Next]_vars

FairSpec == Spec /\ WF_vars(Progress)

(***************************************************************************)
(* Properties.                                                             *)
(***************************************************************************)
\* active_client_count_ and what is on its way to it make up the clients of a bot that are
\* authorized and not leaving: a client that logs out, closes or does both is counted off
\* once.  The count is never negative, and nothing of it is left when the databases are
\* closed (the CHECKs of ClientManager.cpp:537 and 581).
ActiveCountsExact ==
  \A tq \in TQueue :
    LET of(id) == TQueueOf[clients[id].token] = tq
        told(n) == Cardinality({i \in DOMAIN inbox : inbox[i].kind = "raw" /\ inbox[i].n = n /\ of(inbox[i].id)})
    IN  /\ active[tq] + told(1) - told(-1)
             = Cardinality({id \in DOMAIN clients :
                              of(id) /\ clients[id].was_authorized /\ ~Leaving(clients[id])})
        /\ active[tq] >= 0
        /\ databases # "open" => active[tq] = 0

\* The directory of a token is used by one TDLib instance, or it is being removed, but never
\* both: the next Client of the token cannot start before the removal for the one that
\* logged out has ended (Client.cpp:9992, ClientManager.cpp:577).
DirectoryExclusive ==
  \A t \in Token :
    Cardinality({id \in DOMAIN clients : clients[id].token = t /\ clients[id].td}
                  \cup {id \in DOMAIN removing : removing[id] = t}) <= 1

\* A Client executes no query that depends on the webhook before the webhook that webhook_db_
\* holds for it was restored, after a restart as well as after the Client was closed.  Only
\* setWebhook and deleteWebhook may come first (ClientManager.cpp:145).
RestoredFirst ==
  \A id \in DOMAIN clients :
    LET c == clients[id]
    IN  c.served /\ c.first \notin {"setwebhook", "deletewebhook"} /\ c.token \in webhook_db
          => c.webhook # "none"

\* The databases are closed only when no Client is left that could write to them, and no
\* query is left inside (ClientManager.cpp:580).
DatabasesOutliveClients ==
  up /\ databases # "open" => clients = <<>> /\ open \subseteq QueriesIn(inbox)

\* A process that is told to quit ends, whatever state its clients are in: being authorized,
\* logged out, removing their directories, waiting for their timers, or not yet known
\* (telegram-bot-api.cpp:514, Client.cpp:8492).
ShutdownEnds == stopping ~> ~up

=============================================================================
