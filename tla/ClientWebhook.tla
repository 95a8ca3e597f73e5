---------------------------- MODULE ClientWebhook ----------------------------
(***************************************************************************)
(* How the Client of one bot (telegram-bot-api/Client.cpp) switches        *)
(* between webhooks and long polling, and what of it survives in the       *)
(* durable webhook database when the Client stops or the server restarts.  *)
(*                                                                         *)
(* setWebhook is spread over several handlers: the old WebhookActor has to *)
(* report that it closed, its certificate is unlinked and the new one is   *)
(* copied by another thread, and the new WebhookActor has to report that   *)
(* it works.  Meanwhile further queries arrive, TDLib may log out, and the *)
(* server may go down.  deleteWebhook is setWebhook without a URL.         *)
(*                                                                         *)
(* The members of the Client that the handlers compute on are passed along *)
(* in one record, b (see Bundle), because setWebhook continues in other    *)
(* methods.  A WebhookActor is known by the webhook_generation_ it was     *)
(* created with; what it does otherwise is the subject of WebhookActor.    *)
(* The token of the bot is assumed to be well formed.                      *)
(*                                                                         *)
(* "Fault:" marks variants of a definition with a bug the code does not    *)
(* have; the mutation tests of README.md put them in place of it.          *)
(***************************************************************************)
EXTENDS Naturals, Sequences, FiniteSets

CONSTANTS
  Query,        \* queries the bot sends, each of them once
  RestoreQuery, \* the internal setWebhook that ClientManager makes from webhook_db_
  NoQuery,
  Url, NoUrl,   \* webhook URLs, and the empty one
  Settings,     \* max_connections, fixed IP address and secret token, together
  NoSettings,
  Requests,     \* what the bot may ask for
  NoEntry,      \* webhook_db_ knows nothing of the bot
  MaxRestarts   \* how often the server restarts (a bound of the model)

Request ==
  [kind     : {"setwebhook", "getupdates", "close", "logout"},
   url      : Url \cup {NoUrl},
   cert     : {"none", "new", "previous"},  \* certificate
   settings : Settings \cup {NoSettings},
   valid    : BOOLEAN,   \* URL, secret token and certificate pass their checks
   allowed  : BOOLEAN,   \* allowed_updates may change the known update types
   drop     : BOOLEAN,   \* drop_pending_updates
   wait     : BOOLEAN,   \* timeout of getUpdates is not 0
   internal : BOOLEAN]

\* What webhook_db_ may know of the bot
Entry == [url : Url \cup {NoUrl}, cert : BOOLEAN, settings : Settings \cup {NoSettings}]

ASSUME RequestsAssumption ==
  /\ Requests \subseteq {r \in Request : ~r.internal /\ r.cert # "previous"}
  /\ \A r \in Requests :
       r.kind = "setwebhook" => (r.url = NoUrl <=> r.settings = NoSettings)
  /\ \A r \in Requests : r.url = NoUrl => r.cert = "none"
  /\ NoQuery \notin Query \cup {RestoreQuery} /\ RestoreQuery \notin Query
  /\ NoUrl \notin Url /\ NoSettings \notin Settings /\ NoEntry \notin Entry
  /\ IsFiniteSet(Query) /\ MaxRestarts \in Nat

AnyQuery == Query \cup {RestoreQuery}

VARIABLES
  cl,       \* the Client actor and its connection to TDLib
  wh,       \* its members about webhooks and long polling
  db,       \* the entry of the bot in webhook_db_, which survives restarts
  queue,    \* cmd_queue_
  args,     \* what every query asks for
  answer,   \* history: how every query was answered
  actors,   \* generations of the WebhookActors that can still call the Client
  dying,    \* those of them for which close() is on its way
  checked,  \* those that have reported success
  mail,     \* calls of webhook_verified and webhook_closed on their way
  jobs,     \* what other threads do for the Client
  down,     \* close_flag_ of ClientManager: the server shuts down
  restarts  \* how often the server has restarted

vars == <<cl, wh, db, queue, args, answer, actors, dying, checked, mail, jobs,
          down, restarts>>

\* up: the actor exists; td: td_client_ is not empty; td_queries: close and
\* logOut, waiting for TDLib; timer: the timeout that stops the Client is set.
NoClient ==
  [up |-> FALSE, authorized |-> FALSE, logging_out |-> FALSE, closing |-> FALSE,
   need_close |-> FALSE, td |-> FALSE, td_queries |-> {}, timer |-> FALSE]

NoWebhook ==
  [url          |-> NoUrl,       \* webhook_url_
   cert         |-> FALSE,       \* has_webhook_certificate_
   settings     |-> NoSettings,
   id           |-> 0,           \* webhook_id_, 0 when empty
   generation   |-> 1,           \* webhook_generation_
   verify       |-> FALSE,       \* webhook_query_type_ is Verify
   set_query    |-> NoQuery,     \* webhook_set_query_
   active_query |-> NoQuery,     \* active_webhook_set_query_
   long_poll    |-> NoQuery]     \* long_poll_query_
-----------------------------------------------------------------------------
(* The state that the handlers of setWebhook pass along.                   *)

Bundle == [wh |-> wh, db |-> db, answer |-> answer, actors |-> actors,
           dying |-> dying, jobs |-> jobs]

Become(b) ==
  /\ wh' = b.wh
  /\ db' = b.db
  /\ answer' = b.answer
  /\ actors' = b.actors
  /\ dying' = b.dying
  /\ jobs' = b.jobs

Answer(b, q, a) ==
  IF q = NoQuery THEN b ELSE [b EXCEPT !.answer[q] = a]

\* fail_query_closing, with any of its errors
ClosingNow == cl.logging_out \/ cl.closing

\* Fault: the certificate and the settings are not saved.
SaveWebhookPartly(b) ==
  [b EXCEPT !.db = [url |-> b.wh.url, cert |-> FALSE, settings |-> NoSettings]]

SaveWebhook(b) ==
  [b EXCEPT !.db = [url |-> b.wh.url, cert |-> b.wh.cert, settings |-> b.wh.settings]]

AbortLongPoll(b) ==
  [Answer(b, b.wh.long_poll, "conflict") EXCEPT !.wh.long_poll = NoQuery]

\* The WebhookActor is created, and the query waits for it.
FinishSetWebhook(b, q) ==
  IF ClosingNow THEN Answer(b, q, "closing")
  ELSE [b EXCEPT !.wh.url       = args[q].url,
                 !.wh.settings  = args[q].settings,
                 !.wh.id        = b.wh.generation,
                 !.wh.verify    = TRUE,
                 !.wh.set_query = q,
                 !.actors       = @ \cup {b.wh.generation}]

CopyCertificate(b, q) ==
  [b EXCEPT !.wh.active_query = q,
            !.jobs = @ \cup {"copy"}]

DoSetWebhook(b, q) ==
  LET r == args[q]
  IN  IF ClosingNow THEN Answer(b, q, "closing")
      ELSE IF r.url = NoUrl THEN Answer(b, q, "ok")
      ELSE IF ~r.valid THEN Answer(b, q, "bad")
      ELSE IF b.wh.active_query # NoQuery THEN Answer(b, q, "retry")
      ELSE IF r.cert = "new" THEN CopyCertificate(b, q)
      ELSE FinishSetWebhook(
             IF r.internal THEN [b EXCEPT !.wh.cert = (r.cert = "previous")] ELSE b, q)

\* Fault: has_webhook_certificate_ is not reset.
ForgetAllButCertificate(b) ==
  [b EXCEPT !.wh.id = 0, !.wh.url = NoUrl, !.wh.settings = NoSettings,
            !.wh.set_query = NoQuery, !.db = NoEntry]

\* The webhook is gone, also from the database.
ForgetWebhook(b) ==
  [b EXCEPT !.wh.id = 0, !.wh.url = NoUrl, !.wh.cert = FALSE,
            !.wh.settings = NoSettings, !.wh.set_query = NoQuery, !.db = NoEntry]

\* Fault: the query that waits is not answered.
OnWebhookClosedUnanswered(b) == ForgetWebhook(b)

\* Answer the query that caused this, or go on with the one that waited for it.
OnWebhookClosed(b) ==
  LET q == b.wh.set_query
      c == ForgetWebhook(b)
  IN  CASE q = NoQuery                 -> c
        [] q # NoQuery /\ b.wh.verify  -> Answer(c, q, "bad")
        [] q # NoQuery /\ ~b.wh.verify -> DoSetWebhook(c, q)

NotModified(b, r) ==
  /\ b.wh.url = r.url
  /\ ~b.wh.cert /\ r.cert = "none"
  /\ b.wh.settings = r.settings
  /\ ~r.drop

\* Fault: the old webhook is not told to close.
ReplaceWebhookQuietly(b, q) ==
  [b EXCEPT !.wh.id = 0, !.wh.verify = FALSE, !.wh.set_query = q]

\* The old webhook has to be closed first, unless its actor just did that.
ReplaceWebhook(b, q) ==
  [b EXCEPT !.dying        = @ \cup ({b.wh.id} \cap b.actors),
            !.wh.id        = 0,
            !.wh.verify    = FALSE,
            !.wh.set_query = q]

\* changed: does the query change the allowed update types?
ProcessSetWebhook(b0, q, changed) ==
  LET r == args[q]
      b == [Answer(b0, b0.wh.set_query, "conflict") EXCEPT !.wh.set_query = NoQuery]
      c == IF r.url = NoUrl THEN b ELSE AbortLongPoll(b)
      d == [c EXCEPT !.wh.generation = @ + 1]
  IN  IF b0.wh.set_query = NoQuery /\ b0.wh.active_query # NoQuery
      THEN Answer(b0, q, "retry")
      ELSE IF b0.wh.set_query = NoQuery /\ NotModified(b0, r)
      THEN Answer(IF changed THEN SaveWebhook(b0) ELSE b0, q, "ok")
      ELSE IF d.wh.url # NoUrl THEN ReplaceWebhook(d, q)
      ELSE DoSetWebhook(d, q)

\* Fault: an earlier long poll is overwritten.
DoGetUpdatesOverwriting(b, q, wait, found) ==
  IF wait /\ ~found THEN [b EXCEPT !.wh.long_poll = q] ELSE Answer(b, q, "ok")

\* found: are there updates to return?
DoGetUpdates(b, q, wait, found) ==
  IF wait /\ ~found
  THEN [AbortLongPoll(b) EXCEPT !.wh.long_poll = q]
  ELSE Answer(b, q, "ok")

ProcessGetUpdates(b, q, found) ==
  IF b.wh.url # NoUrl \/ b.wh.set_query # NoQuery \/ b.wh.active_query # NoQuery
  THEN Answer(b, q, "conflict")
  ELSE DoGetUpdates(b, q, args[q].wait, found)
-----------------------------------------------------------------------------
(* The Client is created and stopped.                                      *)

RestoreRequest(entry) ==
  [kind |-> "setwebhook", url |-> entry.url,
   cert |-> IF entry.cert THEN "previous" ELSE "none",
   settings |-> entry.settings, valid |-> TRUE, allowed |-> FALSE,
   drop |-> FALSE, wait |-> FALSE, internal |-> TRUE]

NewClient == [NoClient EXCEPT !.up = TRUE, !.td = TRUE]

\* Every query that a Client still holds when it is destroyed gets error 429.
Dropped == [q \in AnyQuery |-> IF answer[q] = "waiting" THEN "retry" ELSE answer[q]]

StopClient ==
  /\ cl' = NoClient
  /\ wh' = NoWebhook
  /\ queue' = <<>>
  /\ answer' = Dropped
  /\ actors' = {} /\ dying' = {} /\ checked' = {} /\ mail' = {} /\ jobs' = {}

\* loop() handles the queries as soon as the bot is authorized or going down.
Ready == cl.up /\ (cl.authorized \/ cl.logging_out \/ cl.closing)

\* No other handler runs before loop() has emptied cmd_queue_.
Idle == cl.up /\ (Ready => queue = <<>>)

\* ClientManager::send: a query for the bot arrives.  A new Client gets the
\* webhook from the database first, unless the query is about the webhook.
Receive(q, r) ==
  LET restore == ~cl.up /\ db # NoEntry /\ r.kind # "setwebhook"
  IN  /\ ~down
      /\ answer[q] = "new"
      /\ cl.up => Idle
      /\ r.kind # "close" \/ cl.up
      /\ cl' = IF cl.up THEN cl ELSE NewClient
      /\ queue' = IF restore THEN <<RestoreQuery, q>> ELSE Append(queue, q)
      /\ args' = [args EXCEPT ![q] = r,
                              ![RestoreQuery] = IF restore THEN RestoreRequest(db) ELSE @]
      /\ answer' = [answer EXCEPT ![q] = "waiting",
                                  ![RestoreQuery] = IF restore THEN "waiting" ELSE @]
      /\ UNCHANGED <<wh, db, actors, dying, checked, mail, jobs, down, restarts>>

\* The server goes down at any moment and is started again; ClientManager's
\* start_up restores every webhook of the database.
Restart ==
  LET restore == db # NoEntry
  IN  /\ restarts < MaxRestarts
      /\ restarts' = restarts + 1
      /\ down' = FALSE
      /\ cl' = IF restore THEN NewClient ELSE NoClient
      /\ wh' = NoWebhook
      /\ queue' = IF restore THEN <<RestoreQuery>> ELSE <<>>
      /\ args' = [args EXCEPT ![RestoreQuery] = IF restore THEN RestoreRequest(db) ELSE @]
      /\ answer' = [Dropped EXCEPT ![RestoreQuery] = IF restore THEN "waiting" ELSE @]
      /\ actors' = {} /\ dying' = {} /\ checked' = {} /\ mail' = {} /\ jobs' = {}
      /\ UNCHANGED db
-----------------------------------------------------------------------------
(* Handlers of the Client.                                                 *)

Rest == <<args, checked, down, restarts>>

\* on_cmd for the first query of cmd_queue_
OnCmd(q, throttled, changed, found) ==
  LET r == args[q]
  IN  /\ Ready
      /\ queue # <<>>
      /\ q = Head(queue)
      /\ queue' = Tail(queue)
      /\ UNCHANGED <<Rest, mail>>
      /\ throttled => ~r.internal
      /\ changed => r.allowed
      /\ \/ /\ r.kind \in {"close", "logout"} /\ cl.td /\ cl.authorized
            /\ throttled => r.kind = "close"
            /\ Become(IF throttled THEN Answer(Bundle, q, "retry") ELSE Bundle)
            /\ cl' = IF throttled THEN cl
                     ELSE [cl EXCEPT !.need_close = @ \/ r.kind = "close",
                                     !.td_queries = @ \cup {q}]
         \/ /\ ~(r.kind \in {"close", "logout"} /\ cl.td /\ cl.authorized)
            /\ ClosingNow
            /\ Become(Answer(Bundle, q, "closing"))
            /\ UNCHANGED cl
         \/ /\ ~ClosingNow
            /\ r.kind = "setwebhook"
            /\ throttled => r.url # NoUrl
            /\ Become(IF throttled THEN Answer(Bundle, q, "retry")
                      ELSE ProcessSetWebhook(Bundle, q, changed))
            /\ UNCHANGED cl
         \/ /\ ~ClosingNow
            /\ r.kind = "getupdates"
            /\ Become(ProcessGetUpdates(Bundle, q, found))
            /\ UNCHANGED cl

\* Fault: a report of an earlier webhook is taken for one of the current one.
WebhookVerifiedByAny(g, ip_changed) ==
  /\ Idle
  /\ <<"verified", g>> \in mail
  /\ mail' = mail \ {<<"verified", g>>}
  /\ Become(SaveWebhook([Answer(Bundle, wh.set_query, "ok")
                           EXCEPT !.wh.set_query = NoQuery]))
  /\ UNCHANGED <<Rest, cl, queue>>

WebhookVerified(g, ip_changed) ==
  /\ Idle
  /\ <<"verified", g>> \in mail
  /\ mail' = mail \ {<<"verified", g>>}
  /\ LET b == [Answer(Bundle, wh.set_query, "ok") EXCEPT !.wh.set_query = NoQuery]
     IN  Become(IF g # wh.generation THEN Bundle
                ELSE IF wh.set_query # NoQuery \/ ip_changed THEN SaveWebhook(b)
                ELSE b)
  /\ UNCHANGED <<Rest, cl, queue>>

\* webhook_closed; the certificate is unlinked by another thread first.
WebhookClosed(g) ==
  /\ Idle
  /\ <<"closed", g>> \in mail /\ <<"verified", g>> \notin mail
  /\ mail' = mail \ {<<"closed", g>>}
  /\ Become(IF wh.cert THEN [Bundle EXCEPT !.jobs = @ \cup {"unlink"}]
            ELSE OnWebhookClosed(Bundle))
  /\ UNCHANGED <<Rest, cl, queue>>

CertificateUnlinked ==
  /\ Idle
  /\ "unlink" \in jobs
  /\ Become(OnWebhookClosed([Bundle EXCEPT !.jobs = @ \ {"unlink"}]))
  /\ UNCHANGED <<Rest, cl, queue, mail>>

\* on_webhook_certificate_copied; without the query it waits for, its CHECK
\* fails and the server goes down.
OnWebhookCertificateCopied(ok) ==
  /\ Idle
  /\ "copy" \in jobs
  /\ IF wh.active_query = NoQuery THEN Restart
     ELSE LET q == wh.active_query
              b == [Bundle EXCEPT !.jobs = @ \ {"copy"}, !.wh.active_query = NoQuery]
          IN  /\ Become(IF ok THEN FinishSetWebhook([b EXCEPT !.wh.cert = TRUE], q)
                        ELSE Answer(b, q, "bad"))
              /\ UNCHANGED <<Rest, cl, queue, mail>>

\* raw_event: long_poll_slot_ fires, at the timeout or after a new update.
LongPollWakeup ==
  /\ Idle
  /\ wh.long_poll # NoQuery
  /\ Become([Answer(Bundle, wh.long_poll, "ok") EXCEPT !.wh.long_poll = NoQuery])
  /\ UNCHANGED <<Rest, cl, queue, mail>>

\* on_update_authorization_state; after InitFailed, TDLib does not get ready.
AuthorizationReady ==
  /\ Idle /\ cl.td /\ ~cl.authorized /\ ~ClosingNow
  /\ cl.need_close => down
  /\ cl' = [cl EXCEPT !.authorized = TRUE]
  /\ UNCHANGED <<Rest, wh, db, answer, actors, dying, jobs, queue, mail>>

LoggingOut ==
  /\ Idle /\ cl.td /\ ~cl.logging_out
  /\ cl' = [cl EXCEPT !.logging_out = TRUE]
  /\ UNCHANGED <<Rest, wh, db, answer, actors, dying, jobs, queue, mail>>

Closing ==
  /\ Idle /\ cl.td /\ ~cl.closing /\ cl.need_close
  /\ cl' = [cl EXCEPT !.closing = TRUE]
  /\ UNCHANGED <<Rest, wh, db, answer, actors, dying, jobs, queue, mail>>

\* TDLib answers close or logOut, perhaps with an error.
TdAnswers(q, a) ==
  /\ Idle /\ cl.td /\ q \in cl.td_queries
  /\ cl' = [cl EXCEPT !.td_queries = @ \ {q}]
  /\ answer' = [answer EXCEPT ![q] = a]
  /\ UNCHANGED <<Rest, wh, db, actors, dying, jobs, queue, mail>>

\* The part of on_closed that answers queries and gives up the WebhookActor.
EndWebhook(b) ==
  LET c == Answer(Answer(b, b.wh.set_query, "closing"), b.wh.active_query, "closing")
      d == Answer(c, b.wh.long_poll, "ok")
      hung_up == IF b.wh.url = NoUrl THEN {} ELSE {b.wh.id}
  IN  [d EXCEPT !.wh.set_query = NoQuery, !.wh.active_query = NoQuery,
                !.wh.long_poll = NoQuery,
                !.wh.id = IF b.wh.url = NoUrl THEN @ ELSE 0,
                !.actors = @ \ hung_up, !.dying = @ \ hung_up]

\* on_closed, which ends with finish_closing unless the bot has logged out and
\* its directory is removed first.
OnClosed ==
  /\ Idle /\ cl.td /\ ClosingNow
  /\ UNCHANGED <<args, down, restarts>>
  /\ IF cl.logging_out
     THEN /\ Become([EndWebhook(Bundle) EXCEPT !.db = NoEntry, !.jobs = @ \cup {"remove"}])
          /\ cl' = [cl EXCEPT !.td = FALSE]
          /\ UNCHANGED <<queue, mail, checked>>
     ELSE IF cl.need_close
     THEN /\ cl' = NoClient
          /\ wh' = NoWebhook
          /\ queue' = <<>>
          /\ answer' = [q \in AnyQuery |-> LET a == EndWebhook(Bundle).answer[q]
                                           IN  IF a = "waiting" THEN "retry" ELSE a]
          /\ actors' = {} /\ dying' = {} /\ checked' = {} /\ mail' = {} /\ jobs' = {}
          /\ UNCHANGED db
     ELSE /\ Become(EndWebhook(Bundle))
          /\ cl' = [cl EXCEPT !.td = FALSE, !.timer = TRUE]
          /\ UNCHANGED <<queue, mail, checked>>

FinishClosing ==
  /\ Idle
  /\ "remove" \in jobs
  /\ IF cl.need_close THEN StopClient /\ UNCHANGED <<db, args, down, restarts>>
     ELSE /\ cl' = [cl EXCEPT !.timer = TRUE]
          /\ jobs' = jobs \ {"remove"}
          /\ UNCHANGED <<Rest, wh, db, answer, actors, dying, queue, mail>>

TimeoutExpired ==
  /\ Idle /\ cl.timer
  /\ StopClient
  /\ UNCHANGED <<db, args, down, restarts>>

\* close(), called when the server shuts down or TDLib cannot be initialized
Close ==
  IF cl.up THEN [cl EXCEPT !.need_close = TRUE, !.timer = @ \/ ~cl.td] ELSE cl

InitFailed ==
  /\ Idle /\ cl.td /\ ~cl.authorized /\ ~cl.need_close
  /\ cl' = Close
  /\ UNCHANGED <<Rest, wh, db, answer, actors, dying, jobs, queue, mail>>

\* ClientManager::close: no query is accepted any more.
ShutDown ==
  /\ ~down /\ (cl.up => Idle)
  /\ down' = TRUE
  /\ cl' = Close
  /\ UNCHANGED <<wh, db, queue, args, answer, actors, dying, checked, mail, jobs, restarts>>
-----------------------------------------------------------------------------
(* The WebhookActors.                                                      *)

\* on_webhook_verified, when the actor starts to work or finds a new address
ActorVerified(g) ==
  /\ g \in actors
  /\ checked' = checked \cup {g}
  /\ mail' = mail \cup {<<"verified", g>>}
  /\ UNCHANGED <<cl, wh, db, queue, args, answer, actors, dying, jobs, down, restarts>>

\* It was told to close, does not work, or was answered 410 for too long.
ActorClosed(g) ==
  /\ g \in actors
  /\ actors' = actors \ {g}
  /\ dying' = dying \ {g}
  /\ mail' = mail \cup {<<"closed", g>>}
  /\ UNCHANGED <<cl, wh, db, queue, args, answer, checked, jobs, down, restarts>>
-----------------------------------------------------------------------------
Init ==
  /\ cl = NoClient
  /\ wh = NoWebhook
  /\ db = NoEntry
  /\ queue = <<>>
  /\ args = [q \in AnyQuery |-> RestoreRequest([url |-> NoUrl, cert |-> FALSE,
                                                settings |-> NoSettings])]
  /\ answer = [q \in AnyQuery |-> "new"]
  /\ actors = {} /\ dying = {} /\ checked = {} /\ mail = {} /\ jobs = {}
  /\ down = FALSE /\ restarts = 0

Next ==
  \/ \E q \in Query, r \in Requests : Receive(q, r)
  \/ Restart
  \/ \E q \in AnyQuery, throttled, changed, found \in BOOLEAN :
       OnCmd(q, throttled, changed, found)
  \/ \E g \in actors \cup {m[2] : m \in mail}, ip_changed \in BOOLEAN :
       WebhookVerified(g, ip_changed)
  \/ \E g \in {m[2] : m \in mail} : WebhookClosed(g)
  \/ CertificateUnlinked
  \/ \E ok \in BOOLEAN : OnWebhookCertificateCopied(ok)
  \/ LongPollWakeup
  \/ AuthorizationReady
  \/ LoggingOut
  \/ Closing
  \/ \E q \in Query, a \in {"ok", "bad"} : TdAnswers(q, a)
  \/ OnClosed
  \/ FinishClosing
  \/ TimeoutExpired
  \/ InitFailed
  \/ ShutDown
  \/ \E g \in actors : ActorVerified(g) \/ ActorClosed(g)

Spec == Init /\ [][Next]_vars
-----------------------------------------------------------------------------
(* Properties.                                                             *)

Generations == 1..(Cardinality(Query) + 2)

\* Two setWebhook queries are never in progress at once (the CHECKs of
\* finish_set_webhook and the "shouldn't happen" of do_set_webhook): one waits
\* for its certificate only while there is no webhook, one waits for an actor
\* only while there is one, and a certificate without a webhook is a CHECK of
\* do_set_webhook.  Updates go either to a long poll or to a webhook, existing
\* or in the making.
SettersApart ==
  /\ wh.active_query # NoQuery => wh.url = NoUrl /\ wh.set_query = NoQuery
  /\ wh.set_query # NoQuery => wh.url # NoUrl
  /\ cl.up /\ ~ClosingNow /\ wh.cert => wh.url # NoUrl
  /\ wh.long_poll # NoQuery =>
       wh.url = NoUrl /\ wh.set_query = NoQuery /\ wh.active_query = NoQuery

\* One bot never has two WebhookActors that read its TQueue, and one that is
\* not asked to close is the one the Client owns: with the URL in webhook_url_,
\* and none without a URL (the CHECK of clear_tqueue).
OneActor ==
  /\ Cardinality(actors) <= 1
  /\ actors \ dying \subseteq {wh.id}
  /\ wh.id # 0 => wh.url # NoUrl /\ wh.id = wh.generation

\* A setWebhook that left cmd_queue_ is not waiting in vain: its certificate is being
\* copied; or its own actor has yet to report, or its report is on the way; or the old actor
\* was told to close, or its end is on the way to the Client.
AnswerComing ==
  /\ wh.active_query # NoQuery => "copy" \in jobs
  /\ wh.set_query # NoQuery =>
       \/ "unlink" \in jobs
       \/ \E m \in mail : m[1] = "closed"
       \/ \E g \in actors :
            IF wh.verify THEN g = wh.generation /\ (g \in checked => <<"verified", g>> \in mail)
            ELSE g \in dying

\* A query is answered once: as long as it waits, exactly one place holds it, and what
\* setWebhook waits for is under way.
QueriesHeld ==
  /\ \A q \in AnyQuery :
       /\ answer[q] = "waiting" <=>
            \/ \E i \in DOMAIN queue : queue[i] = q
            \/ q \in {wh.set_query, wh.active_query, wh.long_poll} \cup cl.td_queries
       /\ \A i, j \in DOMAIN queue : queue[i] = q /\ queue[j] = q => i = j
  /\ AnswerComing

\* While no setWebhook is in progress, what the Client serves is what the
\* database would restore.
DatabaseFollows ==
  cl.td /\ wh.url # NoUrl /\ wh.set_query = NoQuery =>
    db = [url |-> wh.url, cert |-> wh.cert, settings |-> wh.settings]

\* The bot is told that its webhook was set only by the actor of that webhook,
\* and then the database holds it.
OkIsDurable ==
  [][\A q \in Query :
       answer[q] # "ok" /\ answer'[q] = "ok"
         /\ args[q].kind = "setwebhook" /\ args[q].url # NoUrl
       => /\ wh'.url = args[q].url /\ wh'.settings = args[q].settings
          /\ db' # NoEntry /\ db'.url = args[q].url /\ db'.settings = args[q].settings]_vars

\* The bot is told that its webhook was deleted when there is none left, here
\* or in the database.
DeletedIsDurable ==
  [][\A q \in Query :
       answer[q] # "ok" /\ answer'[q] = "ok"
         /\ args[q].kind = "setwebhook" /\ args[q].url = NoUrl
       => wh'.url = NoUrl /\ (db' = NoEntry \/ db'.url = NoUrl)]_vars

\* The CHECK of on_webhook_certificate_copied: when the certificate is copied,
\* the query that brought it still waits for that.
CopyHasQuery == "copy" \in jobs => wh.active_query # NoQuery
-----------------------------------------------------------------------------
(* Liveness.                                                               *)

\* The other threads and the actors do their work: an actor that has not
\* reported yet does so (SetWebhookAnswered of WebhookActor), and one that was
\* told to close closes.
Fairness ==
  /\ \A g \in Generations :
       /\ WF_vars(\E ip_changed \in BOOLEAN : WebhookVerified(g, ip_changed))
       /\ WF_vars(WebhookClosed(g))
       /\ WF_vars(g \notin checked /\ (ActorVerified(g) \/ ActorClosed(g)))
       /\ WF_vars(g \in dying /\ ActorClosed(g))
  /\ WF_vars(CertificateUnlinked)
  /\ WF_vars(\E ok \in BOOLEAN : OnWebhookCertificateCopied(ok))
  /\ WF_vars(LongPollWakeup)
  /\ WF_vars(\E q \in AnyQuery, throttled, changed, found \in BOOLEAN :
               OnCmd(q, throttled, changed, found))

FairSpec == Spec /\ Fairness

\* Every query that the Client has taken out of cmd_queue_ is answered, and
\* what cmd_queue_ holds when the bot is authorized is taken out of it.
QueriesAnswered ==
  \A q \in Query :
    (answer[q] = "waiting" /\ Ready /\ q \notin cl.td_queries)
      ~> (answer[q] # "waiting" \/ q \in cl.td_queries)
=============================================================================
