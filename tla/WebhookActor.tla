---------------------------- MODULE WebhookActor ----------------------------
(***************************************************************************)
(* The delivery engine of the bot API server: one WebhookActor takes the   *)
(* updates of one bot out of the durable TQueue and POSTs them to the      *)
(* bot's webhook (telegram-bot-api/WebhookActor.cpp).                      *)
(*                                                                         *)
(* The actor runs on one scheduler thread, so every handler is one action: *)
(* the handler's own work followed by the call of loop() that ends it.     *)
(* The members of the C++ object are kept in two records, dv (what is      *)
(* delivered over which connection) and st (the life of the actor), and    *)
(* every method that only computes on them is an operator that returns the *)
(* new record.                                                             *)
(*                                                                         *)
(* Time is abstract.  "delayed" holds the updates whose wakeup_at_ lies in *)
(* the future, "expired" those whose expires_at_ has passed; Timeout and   *)
(* Expire let time pass.  The FIFO event_ids of a queue is the set of its  *)
(* loaded updates, its front the one with the smallest id: TQueue hands    *)
(* out ids in increasing order and tqueue_offset_ only moves forward.      *)
(*                                                                         *)
(* "Fault:" marks variants of a definition with a bug the code does not    *)
(* have; the mutation tests of README.md put them in place of it.          *)
(***************************************************************************)
EXTENDS Integers, FiniteSets, FiniteSetsExt

CONSTANTS
  MaxEvent,        \* how many updates are ever pushed (a bound of the model)
  Extra,           \* webhook_queue_id the Client gives each update, 0 for none
  Conn,            \* slots of the container connections_
  MaxConnections,  \* max_connections_
  EventBuffer,     \* SharedData::TQUEUE_EVENT_BUFFER_SIZE
  Webhooks         \* the webhooks there are: from_db_flag_, fix_ip_address_,
                   \* does the Client pass an address, does the server use a
                   \* webhook proxy, and does the HTTP header built from the
                   \* URL fit its limit?

Event   == 1..MaxEvent
NoEvent == 0

ASSUME ConstantsAssumption ==
  /\ MaxEvent \in Nat
  /\ Extra \in [Event -> Nat]
  /\ IsFiniteSet(Conn)
  /\ MaxConnections \in Nat \ {0}
  /\ EventBuffer \in Nat \ {0}
  /\ Webhooks \subseteq [from_db : BOOLEAN, fix_ip : BOOLEAN, ip : BOOLEAN,
                         proxy : BOOLEAN, header_fits : BOOLEAN]
  /\ \A w \in Webhooks : w.ip => w.from_db \/ w.fix_ip

VARIABLES
  tqueue,          \* ids of the updates stored in the bot's TQueue
  tail,            \* id of the last update that was pushed
  expired,         \* updates whose expires_at_ has passed
  update_message,  \* is a call of update() in the actor's mailbox?
  dv,              \* delivery state of the actor
  st,              \* lifecycle state of the actor
  acked,           \* history: updates answered with 2xx
  given_up         \* history: updates dropped because no retry fits their lifetime

vars == <<tqueue, tail, expired, update_message, dv, st, acked, given_up>>

DeliveryState ==
  [loaded        : SUBSET Event,           \* keys of update_map_
   tqueue_offset : 0..(MaxEvent + 1),      \* 0 is the empty EventId
   tqueue_empty  : BOOLEAN,
   waiting       : SUBSET Int,             \* ids of the queues in queues_
   delayed       : SUBSET Event,           \* wakeup_at_ > now
   failed        : SUBSET Event,           \* fail_count_ > 0
   connections   : SUBSET Conn,
   ready         : SUBSET Conn,            \* ready_connections_
   event         : [Conn -> Event \cup {NoEvent}],  \* Connection::event_id_
   old_ip        : SUBSET Conn,            \* Connection::ip_generation_ is outdated
   header_fits   : BOOLEAN]                \* the header of a request is not too long

\* What the Client learns of the actor; "dropped" when it gives it up itself.
Messages == {"verified", "closed", "dropped"}

LifeState ==
  [life            : {"created", "running", "dead"},
   from_db         : BOOLEAN,
   fix_ip          : BOOLEAN,
   proxy           : BOOLEAN,              \* webhook_proxy_ip_address_ is valid
   was_checked     : BOOLEAN,
   stop_flag       : BOOLEAN,
   callback        : BOOLEAN,              \* callback_ has not been moved away
   ip              : BOOLEAN,              \* ip_address_.is_valid()
   ssl_ctx         : {"none", "creating", "ready", "failed"},
   resolving       : BOOLEAN,              \* is_ip_address_being_resolved_
   resolve_due     : BOOLEAN,              \* next_ip_address_resolve_time_ has come
   timer           : BOOLEAN,              \* a timeout, a yield() or another call of
                                           \* loop() is on its way
   active          : BOOLEAN,              \* last_success_time_ + 10 >= now
   gone            : BOOLEAN,              \* first_error_410_time_ != 0
   close_message   : BOOLEAN,              \* send_closure_later(close) is pending
   pending_sockets : Nat,                  \* pending_sockets_.size()
   ready_sockets   : Nat,                  \* ready_sockets_.size()
   told            : SUBSET Messages]      \* history: what the Client was told
-----------------------------------------------------------------------------
(* The queues of updates.                                                  *)

\* The queue an update belongs to; an update without one gets a queue of its
\* own (unique_queue_id_++).
QueueOf(e) == IF Extra[e] = 0 THEN -e ELSE Extra[e]

\* Keys of queue_updates_ when E is loaded.
QueuesOf(E) == {QueueOf(e) : e \in E}

\* The fronts of the queues when E is loaded.
Fronts(E) == {e \in E : \A f \in E : QueueOf(f) = QueueOf(e) => e <= f}

\* The updates that are being sent over a connection.
InFlight(d) == {d.event[c] : c \in d.connections} \ {NoEvent}

\* max_loaded_updates_, set by start_up.
MaxLoaded == 2 * MaxConnections

EmptyDelivery(fits) ==
  [loaded |-> {}, tqueue_offset |-> 0, tqueue_empty |-> FALSE, waiting |-> {},
   delayed |-> {}, failed |-> {}, connections |-> {}, ready |-> {},
   event |-> [c \in Conn |-> NoEvent], old_ip |-> {}, header_fits |-> fits]
-----------------------------------------------------------------------------
(* TQueue, as the actor uses it.                                           *)

\* What tqueue->get returns from an offset on, when it may return limit events.
Stored(tq, offset, limit) ==
  LET available == {e \in tq \ expired : offset <= e}
  IN  {e \in available : Cardinality({f \in available : f < e}) < limit}

\* The events left after such a call: it pops the expired ones it meets.
AfterGet(tq, offset, limit) ==
  LET available == {e \in tq \ expired : offset <= e}
  IN  {e \in tq : \/ e \notin expired
                  \/ e < offset
                  \/ Cardinality({f \in available : f < e}) > limit}
-----------------------------------------------------------------------------
(* Methods on the delivery state.                                          *)

LoadLimit(d) ==
  LET room == MaxLoaded - Cardinality(QueuesOf(d.loaded))
  IN  IF room < EventBuffer THEN room ELSE EventBuffer

CanLoad(d) ==
  /\ ~d.tqueue_empty
  /\ Cardinality(QueuesOf(d.loaded)) < MaxLoaded

\* Fault: the read offset skips an id.
LoadUpdatesSkipping(d, tq) ==
  LET fresh == Stored(tq, d.tqueue_offset, LoadLimit(d)) \ d.loaded
  IN  IF ~CanLoad(d) THEN d
      ELSE [d EXCEPT !.tqueue_empty  = (fresh = {}),
                     !.loaded        = @ \cup fresh,
                     !.tqueue_offset = IF fresh = {} THEN @ ELSE Max(fresh) + 2,
                     !.waiting = @ \cup (QueuesOf(fresh) \ QueuesOf(d.loaded))]

LoadUpdates(d, tq) ==
  LET batch == Stored(tq, d.tqueue_offset, LoadLimit(d))
      fresh == batch \ d.loaded
  IN  IF ~CanLoad(d) THEN d
      ELSE [d EXCEPT !.tqueue_empty  = (batch = {}),
                     !.loaded        = @ \cup fresh,
                     !.tqueue_offset = IF fresh = {} THEN @ ELSE Max(fresh) + 1,
                     !.waiting = @ \cup (QueuesOf(fresh) \ QueuesOf(d.loaded))]

\* Fault: updates leave the TQueue when they are loaded.
QueueAfterLoadPopping(d, tq) ==
  IF CanLoad(d) THEN tq \ Stored(tq, d.tqueue_offset, LoadLimit(d)) ELSE tq

QueueAfterLoad(d, tq) ==
  IF CanLoad(d) THEN AfterGet(tq, d.tqueue_offset, LoadLimit(d)) ELSE tq

\* Fault: the queue is not inserted into queues_ again.
DropEventOnly(d, e) ==
  [d EXCEPT !.loaded = @ \ {e}, !.delayed = @ \ {e}, !.failed = @ \ {e}]

\* Forget an update; the next one of its queue starts to wait.
DropEvent(d, e) ==
  LET left == d.loaded \ {e}
  IN  [d EXCEPT !.loaded  = left,
                !.delayed = @ \ {e},
                !.failed  = @ \ {e},
                !.waiting = @ \cup ({QueueOf(e)} \cap QueuesOf(left))]

\* The first failure is retried at once unless the webhook asked to wait.
RetriesAtOnce(d, e, retry_after) == ~retry_after /\ e \notin d.failed

\* Fault: the queue of the update is not inserted into queues_ again.
DelayEventForever(d, e, retry_after) ==
  [d EXCEPT !.delayed = @ \cup {e}, !.failed = @ \cup {e}]

\* Keep an update for a retry.
DelayEvent(d, e, retry_after) ==
  [d EXCEPT !.delayed = IF RetriesAtOnce(d, e, retry_after) THEN @ ELSE @ \cup {e},
            !.failed  = @ \cup {e},
            !.waiting = @ \cup {QueueOf(e)}]

\* Fault: an update overtakes the delayed front of its queue.
DueEventsOvertaking(d) ==
  {e \in d.loaded : QueueOf(e) \in d.waiting /\ e \notin d.delayed}

\* Updates send_update may take next: fronts of waiting queues that are due.
DueEvents(d) ==
  {e \in Fronts(d.loaded) : QueueOf(e) \in d.waiting /\ e \notin d.delayed}

\* The assignments of due updates to ready connections that send_updates can
\* end with: it stops when it runs out of either.
Assignments(d) ==
  LET due == DueEvents(d)
      n   == Min({Cardinality(d.ready), Cardinality(due)})
  IN  {f \in UNION {[S -> due] : S \in kSubset(n, d.ready)} :
         \A a, b \in DOMAIN f : f[a] = f[b] => a = b}

\* Fault: the queue stays in queues_ while its front is sent.
SendKeepingQueue(d, f) ==
  [d EXCEPT !.event = [c \in Conn |-> IF c \in DOMAIN f THEN f[c] ELSE @[c]],
            !.ready = @ \ DOMAIN f]

Send(d, f) ==
  [d EXCEPT !.event   = [c \in Conn |-> IF c \in DOMAIN f THEN f[c] ELSE @[c]],
            !.ready   = @ \ DOMAIN f,
            !.waiting = @ \ {QueueOf(f[c]) : c \in DOMAIN f}]

\* send_update gives up on a header that is too long after it has already
\* taken the queue out of queues_; this ends send_updates.
FailToSend(d, e) == [d EXCEPT !.waiting = @ \ {QueueOf(e)}]

\* New connections start ready, with the current ip_generation_.
OpenConnections(d, new) ==
  [d EXCEPT !.connections = @ \cup new,
            !.ready       = @ \cup new]

\* handle() is done with connection c: it is closed or ready again.
ReleaseConnection(d, c, close) ==
  IF close
  THEN [d EXCEPT !.event[c]    = NoEvent,
                 !.connections = @ \ {c},
                 !.ready       = @ \ {c},
                 !.old_ip      = @ \ {c}]
  ELSE [d EXCEPT !.event[c] = NoEvent,
                 !.ready    = @ \cup {c}]
-----------------------------------------------------------------------------
(* Methods on the lifecycle state.                                         *)

\* send_closure(callback_, ...): dropped when callback_ has been moved away.
Tell(s, message) ==
  IF s.callback THEN [s EXCEPT !.told = @ \cup {message}] ELSE s

OnWebhookVerified(s) == Tell(s, "verified")

\* Fault: the Client is not told.
OnErrorUntold(s) ==
  IF s.was_checked \/ s.stop_flag THEN s
  ELSE [s EXCEPT !.callback = FALSE, !.stop_flag = TRUE]

\* Fault: callback_ is not moved away.
OnErrorHeard(s) ==
  IF s.was_checked \/ s.stop_flag THEN s
  ELSE [Tell(s, "closed") EXCEPT !.stop_flag = TRUE]

\* A failure closes a webhook that was never checked; later ones are only
\* reported.
OnError(s) ==
  IF s.was_checked \/ s.stop_flag THEN s
  ELSE [Tell(s, "closed") EXCEPT !.callback = FALSE, !.stop_flag = TRUE]

\* The part of create_connection that runs once per actor.
Check(s) ==
  IF s.was_checked THEN s
  ELSE OnWebhookVerified([s EXCEPT !.was_checked = TRUE])

RelaxWakeup(s) == [s EXCEPT !.timer = TRUE]

ResolveIpAddress(s) ==
  CASE s.fix_ip \/ s.resolving -> s
    [] ~s.fix_ip /\ ~s.resolving /\ s.resolve_due ->
         [s EXCEPT !.resolving = TRUE, !.resolve_due = FALSE]
    [] OTHER -> RelaxWakeup(s)
-----------------------------------------------------------------------------
(* create_new_connections: the results it can end with.                    *)

NeedConnections(d, s) ==
  LET queues == Cardinality(QueuesOf(d.loaded))
      capped == IF s.was_checked THEN Min({queues, MaxConnections}) ELSE 1
  IN  IF s.active THEN Max({capped, 1}) ELSE Min({capped, 1})

HaveConnections(d, s) ==
  Cardinality(d.connections) + s.pending_sockets + s.ready_sockets

\* n more connections are open.
Opened(d, s, n) ==
  {[dv |-> OpenConnections(d, new), st |-> IF n = 0 THEN s ELSE Check(s)] :
     new \in kSubset(n, Conn \ d.connections)}

\* create_connection failed and create_webhook_error reported it.
Failed(s) == RelaxWakeup(OnError(s))

\* Opening connections one by one until there are enough, flood control stops
\* it, or one fails.
DirectConnections(d, s, lucky) ==
  LET room  == Max({NeedConnections(d, s) - HaveConnections(d, s), 0})
      fewer == UNION {Opened(d, s, n) : n \in 0..(room - 1)}
  IN  Opened(d, s, room) \cup
      IF lucky THEN {}
      ELSE {[o EXCEPT !.st = RelaxWakeup(@)] : o \in fewer} \cup
           {[o EXCEPT !.st = Failed(@)] : o \in fewer}

\* Sockets the proxy made ready become connections; those left over are closed.
UseReadySockets(d, s, lucky) ==
  LET room  == NeedConnections(d, s) - Cardinality(d.connections) - s.pending_sockets
      n     == Min({s.ready_sockets, Max({room, 0})})
      s1    == [s EXCEPT !.ready_sockets = 0]
      fewer == UNION {Opened(d, s1, k) : k \in 0..(n - 1)}
  IN  Opened(d, s1, n) \cup
      IF lucky THEN {} ELSE {[o EXCEPT !.st = Failed(@)] : o \in fewer}

\* Fault: sockets that are not ready yet are not counted.
ProxyConnectionsUncounted(d, s, lucky) ==
  LET started == [Check(s) EXCEPT !.pending_sockets = @ + 1]
  IN  IF NeedConnections(d, s) <= Cardinality(d.connections)
      THEN UseReadySockets(d, s, lucky)
      ELSE {[dv |-> d, st |-> RelaxWakeup(started)]} \cup
           IF lucky THEN {}
           ELSE {[dv |-> d, st |-> Failed(s)]} \cup
                UseReadySockets(d, RelaxWakeup(s), lucky)

\* With a proxy create_connection only starts a socket and always returns an
\* error, so one call starts at most one.
ProxyConnections(d, s, lucky) ==
  LET started == [Check(s) EXCEPT !.pending_sockets = @ + 1]
  IN  IF NeedConnections(d, s) <= HaveConnections(d, s)
      THEN UseReadySockets(d, s, lucky)
      ELSE {[dv |-> d, st |-> RelaxWakeup(started)]} \cup
           IF lucky THEN {}
           ELSE {[dv |-> d, st |-> Failed(s)]} \cup
                UseReadySockets(d, RelaxWakeup(s), lucky)

CreateNewConnections(d, s, lucky) ==
  IF ~s.ip \/ s.ssl_ctx # "ready" THEN {[dv |-> d, st |-> s]}
  ELSE IF s.proxy THEN ProxyConnections(d, s, lucky)
       ELSE DirectConnections(d, s, lucky)
-----------------------------------------------------------------------------
(* loop.                                                                   *)

NoActor ==
  [life |-> "dead", from_db |-> FALSE, fix_ip |-> FALSE, proxy |-> FALSE,
   was_checked |-> FALSE, stop_flag |-> FALSE, callback |-> FALSE, ip |-> FALSE, ssl_ctx |-> "none",
   resolving |-> FALSE, resolve_due |-> FALSE, timer |-> FALSE, active |-> FALSE,
   gone |-> FALSE, close_message |-> FALSE, pending_sockets |-> 0,
   ready_sockets |-> 0, told |-> {}]

Stop(s) ==
  /\ dv' = EmptyDelivery(TRUE)
  /\ st' = [NoActor EXCEPT !.told = s.told]

\* It waits for the first delayed update when a connection is left for it.
SendUpdates(d, s) ==
  IF d.header_fits
  THEN \E f \in Assignments(d) :
         LET sent == Send(d, f)
         IN  /\ dv' = sent
             /\ st' = IF sent.ready # {} /\ sent.waiting # {}
                      THEN RelaxWakeup(s) ELSE s
  ELSE IF d.ready = {} \/ DueEvents(d) = {}
       THEN dv' = d /\ st' = IF d.ready # {} /\ d.waiting # {}
                             THEN RelaxWakeup(s) ELSE s
       ELSE (\E e \in DueEvents(d) : dv' = FailToSend(d, e)) /\ st' = s

\* What loop() does, from the states d, s and tq that a handler left.  When it
\* is lucky, flood control and the network let it open every connection.
Loop(d, s, tq, lucky) ==
  IF s.stop_flag THEN Stop(s) /\ tqueue' = tq
  ELSE /\ tqueue' = QueueAfterLoad(d, tq)
       /\ \E active \in {FALSE, s.active} :
          LET s1 == ResolveIpAddress([s EXCEPT !.active = active])
          IN  \E o \in CreateNewConnections(LoadUpdates(d, tq), s1, lucky) :
                IF o.st.stop_flag THEN Stop(o.st) ELSE SendUpdates(o.dv, o.st)
-----------------------------------------------------------------------------
(* Handlers of the actor.                                                  *)

Running == st.life = "running"

History == <<tail, expired, acked, given_up>>

\* start_up.  When the check of a fixed address fails it returns before
\* yield(): stop_flag_ is set, but no loop() follows that would stop the actor.
StartUp(url_ok, ip_ok, https) ==
  /\ st.life = "created"
  /\ ip_ok => st.ip
  /\ \E due \in BOOLEAN :
       LET s0 == [st EXCEPT !.life = "running", !.resolve_due = ~st.fix_ip /\ (~st.from_db \/ due)]
           s1 == IF url_ok THEN s0 ELSE OnError(s0)
           s2 == IF s1.from_db /\ ~s1.stop_flag THEN Check(s1) ELSE s1
           s3 == IF ~https THEN [s2 EXCEPT !.ssl_ctx = "ready"]
                 ELSE IF ~s2.stop_flag THEN [s2 EXCEPT !.ssl_ctx = "creating"]
                      ELSE s2
       IN  st' = IF s1.fix_ip /\ ~s1.stop_flag /\ ~ip_ok THEN OnError(s1)
                 ELSE RelaxWakeup(s3)
  /\ UNCHANGED <<tqueue, update_message, dv, History>>

\* The Client stored a new update and called update().
Update ==
  /\ Running
  /\ update_message
  /\ update_message' = FALSE
  /\ Loop([dv EXCEPT !.tqueue_empty = FALSE], st, tqueue, FALSE)
  /\ UNCHANGED History

\* loop() is called by a timeout, a yield() or the hangup of a connection that
\* handle() has already closed.  Some wakeup times have come meanwhile.
TimeoutWith(woken, due, lucky) ==
  /\ Running
  /\ st.timer
  /\ LET s == [st EXCEPT !.timer = FALSE, !.resolve_due = @ \/ due]
     IN  Loop([dv EXCEPT !.delayed = @ \ woken], s, tqueue, lucky)
  /\ UNCHANGED <<update_message, History>>

Timeout ==
  \E woken \in SUBSET dv.delayed, due \in BOOLEAN :
    /\ due => ~st.fix_ip /\ ~st.resolving
    /\ TimeoutWith(woken, due, FALSE)

\* handle() with the answer to the update that connection c sends.
HandleResponse(c, ok, keep_alive, retry_after, no_time) ==
  LET e     == dv.event[c]
      close == ~keep_alive \/ c \in dv.old_ip
      \* no retry fits the lifetime of an update that failed
      drop  == \/ e \in expired
               \/ no_time /\ ~RetriesAtOnce(dv, e, retry_after)
      d     == IF ok \/ drop THEN DropEvent(dv, e) ELSE DelayEvent(dv, e, retry_after)
      tq    == IF ok \/ drop THEN tqueue \ {e} ELSE tqueue
      s     == [st EXCEPT !.timer = @ \/ close]
  IN  /\ Running
      /\ c \in dv.connections
      /\ e # NoEvent
      /\ ok => ~retry_after /\ ~no_time
      /\ IF ok THEN acked' = acked \cup {e} /\ given_up' = given_up
         ELSE acked' = acked /\ given_up' = IF drop THEN given_up \cup {e} ELSE given_up
      /\ \/ /\ ok \/ (~keep_alive /\ ~retry_after)
            /\ Loop(ReleaseConnection(d, c, close),
                 IF ok THEN [s EXCEPT !.active = TRUE, !.gone = FALSE] ELSE s,
                 tq, FALSE)
         \* an HTTP error other than 410 ends a series of 410s
         \/ /\ ~ok
            /\ Loop(ReleaseConnection(d, c, close), [s EXCEPT !.gone = FALSE], tq, FALSE)
         \/ /\ ~ok
            /\ Loop(ReleaseConnection(d, c, close), [s EXCEPT !.gone = TRUE], tq, FALSE)
         \* HTTP 410 for WEBHOOK_DROP_TIMEOUT: the actor closes itself later
         \/ /\ ~ok /\ st.gone
            /\ dv' = ReleaseConnection(d, c, TRUE)
            /\ st' = [s EXCEPT !.close_message = TRUE]
            /\ tqueue' = tq
      /\ UNCHANGED <<tail, expired, update_message>>

\* hangup_shared: connection c is gone; the update it was sending failed.  Its
\* second call of loop() is left to Timeout.
HangupShared(c, no_time) ==
  LET e    == dv.event[c]
      drop == \/ e \in expired
              \/ no_time /\ ~RetriesAtOnce(dv, e, FALSE)
      d    == IF e = NoEvent THEN dv
              ELSE IF drop THEN DropEvent(dv, e) ELSE DelayEvent(dv, e, FALSE)
      gone == e # NoEvent /\ drop
  IN  /\ Running
      /\ c \in dv.connections
      /\ given_up' = IF gone THEN given_up \cup {e} ELSE given_up
      /\ Loop(ReleaseConnection(d, c, TRUE), RelaxWakeup(st),
              IF gone THEN tqueue \ {e} ELSE tqueue, FALSE)
      /\ UNCHANGED <<tail, expired, acked, update_message>>

\* The name of the webhook's host was looked up: an error, an address that
\* check_ip_address refuses, the known one or another one.
OnResolvedIpAddress(result) ==
  LET s == [st EXCEPT !.resolving = FALSE]
  IN  /\ Running
      /\ st.resolving
      /\ \/ result = "error" /\ Loop(dv, OnError(s), tqueue, FALSE)
         \/ result = "same" /\ st.ip /\ Loop(dv, s, tqueue, FALSE)
         \/ /\ result = "new"
            /\ LET s1 == [s EXCEPT !.ip = TRUE]
               IN  Loop([dv EXCEPT !.old_ip = dv.connections],
                        IF s1.was_checked THEN OnWebhookVerified(s1) ELSE s1,
                        tqueue, FALSE)
      /\ UNCHANGED <<update_message, History>>

OnSslContextCreated(ok) ==
  /\ Running
  /\ st.ssl_ctx = "creating"
  /\ Loop(dv, IF ok THEN [st EXCEPT !.ssl_ctx = "ready"]
              ELSE OnError([st EXCEPT !.ssl_ctx = "failed"]), tqueue, FALSE)
  /\ UNCHANGED <<update_message, History>>

OnSocketReadyAsync(ok) ==
  /\ Running
  /\ st.pending_sockets > 0
  /\ LET s == [st EXCEPT !.pending_sockets = @ - 1]
     IN  Loop(dv, IF ok THEN [s EXCEPT !.ready_sockets = @ + 1] ELSE OnError(s),
              tqueue, FALSE)
  /\ UNCHANGED <<update_message, History>>

\* close(), called by the Client or by the actor itself after 410s.
Close ==
  /\ Running
  /\ Stop(Tell(st, "closed"))
  /\ UNCHANGED <<tqueue, update_message, History>>

\* hangup(): the Client gave the actor up, or the server went down.
Hangup ==
  /\ st.life # "dead"
  /\ Stop([st EXCEPT !.told = @ \cup {"dropped"}])
  /\ UNCHANGED <<tqueue, update_message, History>>
-----------------------------------------------------------------------------
(* The surroundings of the actor.                                          *)

\* Fault: the actor is not told.
AddUpdateUntold ==
  /\ tail < MaxEvent
  /\ tail' = tail + 1
  /\ tqueue' = tqueue \cup {tail + 1}
  /\ UNCHANGED <<update_message, dv, st, expired, acked, given_up>>

\* Client::add_update_impl stores an update and calls update().
AddUpdate ==
  /\ tail < MaxEvent
  /\ tail' = tail + 1
  /\ tqueue' = tqueue \cup {tail + 1}
  /\ update_message' = (st.life # "dead")
  /\ UNCHANGED <<dv, st, expired, acked, given_up>>

\* The lifetime of an update ends.
Expire(e) ==
  /\ e \in (tqueue \cup dv.loaded) \ expired
  /\ expired' = expired \cup {e}
  /\ UNCHANGED <<tqueue, tail, update_message, dv, st, acked, given_up>>

\* tqueue->run_gc removes expired updates, loaded ones too.
RunGc ==
  /\ tqueue \cap expired # {}
  /\ tqueue' = tqueue \ expired
  /\ UNCHANGED <<tail, expired, update_message, dv, st, acked, given_up>>

\* A WebhookActor is created, for a new webhook or for the one in webhook_db_.
Create(w) ==
  /\ st.life = "dead"
  /\ st' = [st EXCEPT !.life = "created", !.callback = TRUE, !.told = {},
                      !.from_db = w.from_db, !.fix_ip = w.fix_ip, !.ip = w.ip,
                      !.proxy = w.proxy]
  /\ dv' = EmptyDelivery(w.header_fits)
  /\ update_message' = FALSE
  /\ UNCHANGED <<tqueue, History>>
-----------------------------------------------------------------------------
Init ==
  /\ tqueue = {}
  /\ tail = 0
  /\ expired = {}
  /\ update_message = FALSE
  /\ acked = {}
  /\ given_up = {}
  /\ dv = EmptyDelivery(TRUE)
  /\ st = NoActor

Next ==
  \/ AddUpdate
  \/ RunGc
  \/ \E e \in Event : Expire(e)
  \/ \E w \in Webhooks : Create(w)
  \/ \E url_ok, ip_ok, https \in BOOLEAN : StartUp(url_ok, ip_ok, https)
  \/ Update
  \/ Timeout
  \/ \E c \in Conn, ok, keep_alive, retry_after, no_time \in BOOLEAN :
       HandleResponse(c, ok, keep_alive, retry_after, no_time)
  \/ \E c \in Conn, no_time \in BOOLEAN : HangupShared(c, no_time)
  \/ \E result \in {"error", "same", "new"} : OnResolvedIpAddress(result)
  \/ \E ok \in BOOLEAN : OnSslContextCreated(ok)
  \/ \E ok \in BOOLEAN : OnSocketReadyAsync(ok)
  \/ Close
  \/ Hangup

Spec == Init /\ [][Next]_vars
-----------------------------------------------------------------------------
(* Properties.                                                             *)

TypeOK ==
  /\ tqueue \subseteq Event
  /\ tail \in 0..MaxEvent
  /\ expired \subseteq Event
  /\ update_message \in BOOLEAN
  /\ dv \in DeliveryState
  /\ st \in LifeState
  /\ acked \subseteq Event
  /\ given_up \subseteq Event

\* Every queue with loaded updates either waits in queues_ or has its front
\* update in flight, never both and never neither: a queue that is in neither
\* is stuck, one that is in both is delivered out of order.
QueuesPlaced ==
  dv.header_fits =>
    /\ dv.waiting \cup QueuesOf(InFlight(dv)) = QueuesOf(dv.loaded)
    /\ dv.waiting \cap QueuesOf(InFlight(dv)) = {}

\* What is in flight is the front of its queue (the CHECK of drop_event), and
\* no update is in flight twice.
FrontsInFlight ==
  /\ InFlight(dv) \subseteq Fronts(dv.loaded)
  /\ \A a, b \in dv.connections :
       dv.event[a] = dv.event[b] /\ a # b => dv.event[a] = NoEvent

\* A stored update below the read offset is loaded, and nothing above it is: no
\* update is skipped and none is loaded twice (the LOG(ERROR) of load_updates).
NothingSkipped ==
  \A e \in Event :
    /\ e \in dv.loaded => e < dv.tqueue_offset
    /\ e \in tqueue /\ e < dv.tqueue_offset => e \in dv.loaded

\* load_updates never holds more queues than max_loaded_updates_ (its CHECK),
\* and the webhook never gets more than max_connections connections.
WithinLimits ==
  /\ Cardinality(QueuesOf(dv.loaded)) <= MaxLoaded
  /\ HaveConnections(dv, st) <= MaxConnections

\* An update leaves the durable queue only when the webhook took it, no retry
\* fits its lifetime, or its lifetime is over.
NothingLost ==
  \A e \in 1..tail : e \in tqueue \cup acked \cup given_up \cup expired

\* An actor never sleeps while there is something to do.  An update it has not
\* read although it believes the TQueue to be empty is announced by a call of
\* update() that is on its way.  When it has updates to deliver and none in
\* flight it will be woken, by a timer, or by the lookup, context, socket or
\* message it waits for.  (Two actors wait for nothing: a checked webhook whose
\* SSL context could not be created, and one whose header was too long.)
WakeupScheduled ==
  Running =>
    /\ dv.tqueue_empty /\ ~update_message =>
         \A e \in tqueue \ expired : e < dv.tqueue_offset
    /\ st.ssl_ctx # "failed" /\ dv.header_fits /\ dv.loaded # {} /\ InFlight(dv) = {} =>
         \/ st.timer \/ st.resolving \/ update_message \/ st.close_message
         \/ st.ssl_ctx = "creating" \/ st.pending_sockets > 0
-----------------------------------------------------------------------------
(* Liveness.                                                               *)

Answered(c) ==
  \/ \E ok, keep_alive, retry_after, no_time \in BOOLEAN :
       HandleResponse(c, ok, keep_alive, retry_after, no_time)
  \/ \E no_time \in BOOLEAN : HangupShared(c, no_time)

\* The scheduler runs every message and timer, lookups and SSL contexts are
\* answered, a connection has a timeout, and the lifetime of every update ends.
\* Of the network it is only assumed that now and then connections open; the
\* webhook may fail every request.
Fairness ==
  /\ WF_vars(\E url_ok, ip_ok, https \in BOOLEAN : StartUp(url_ok, ip_ok, https))
  /\ WF_vars(Update)
  /\ WF_vars(TimeoutWith(dv.delayed, ~st.fix_ip /\ ~st.resolving, TRUE))
  /\ \A c \in Conn : WF_vars(Answered(c))
  /\ WF_vars(\E result \in {"error", "same", "new"} : OnResolvedIpAddress(result))
  /\ WF_vars(\E ok \in BOOLEAN : OnSslContextCreated(ok))
  /\ WF_vars(\E ok \in BOOLEAN : OnSocketReadyAsync(ok))
  /\ \A e \in Event : WF_vars(Expire(e))
  /\ WF_vars(st.close_message /\ Close)

FairSpec == Spec /\ Fairness

\* Every update stored for a running webhook eventually leaves the TQueue,
\* whatever the webhook answers, unless the actor stops.  It is stated for a
\* fixed address and no proxy: otherwise lookups or the proxy may fail without
\* end.  Excepted are the two actors that start and never connect: a checked
\* webhook whose SSL context could not be created, and one whose fixed address
\* start_up refused.
UpdatesLeave ==
  \A e \in Event :
    (Running /\ st.fix_ip /\ ~st.proxy /\ ~st.stop_flag /\ e \in tqueue)
      ~> (~Running \/ e \notin tqueue \/ st.ssl_ctx = "failed")

\* The setWebhook query that waits for the actor is answered: the Client is
\* eventually told that the webhook is verified or closed, unless it drops it.
SetWebhookAnswered ==
  (st.life = "created") ~> (st.told # {})
-----------------------------------------------------------------------------
(* The promises the actor implements: to the bot, and to the Client.       *)

Promise ==
  INSTANCE UpdateDelivery
    WITH last    <- tail,
         pending <- tqueue \cup dv.loaded,
         sending <- InFlight(dv)

\* Every update is delivered at least once and in the order of its queue.
ImplementsUpdateDelivery == Promise!AbstractSpec

Reports ==
  INSTANCE ActorReports
    WITH works   <- st.life # "dead",
         heard   <- st.callback,
         told    <- st.told,
         sending <- InFlight(dv)

\* Updates go to the webhook only between the two reports to the Client that it
\* is verified and that it is closed, the end is reported once and as the last
\* word, and no actor ends without a report unless the Client dropped it (the
\* CHECK of on_error: callback_ is still there).
ImplementsActorReports == Reports!ReportsSpec
=============================================================================
