----------------------------- MODULE NewMessages -----------------------------
(***************************************************************************)
(* How messages of one chat become updates of the bot                      *)
(* (telegram-bot-api/Client.cpp).  A message that TDLib announces, and     *)
(* every edited message that was asked for, waits in the queue of its chat *)
(* until the message it replies to and the names of its sticker sets are   *)
(* known, passes through the cache of messages, and is stored as an update *)
(* unless nothing in it has changed, or the bot is not to be told of it:   *)
(* it is older than a day, the bot has left the chat or joined it later.   *)
(* Meanwhile TDLib goes on to announce messages, edits and deletions, and  *)
(* the bot may be logged out.                                              *)
(*                                                                         *)
(* TDLib is external.  Its updates and answers reach the Client in the     *)
(* order in which TDLib makes them, so an answer carries the version of    *)
(* the message that the updates before it have announced.  Polls, whose    *)
(* content is treated in another way, are left out.  Chats do not          *)
(* interfere, so one chat is enough.  The clock and the bot's membership   *)
(* are not kept: which of the waiting messages the bot is not to be told   *)
(* of is chosen anew in every step that may tell it of them.               *)
(*                                                                         *)
(* "Fault:" marks variants of a definition with a bug the code does not    *)
(* have; the mutation tests of README.md put them in place of it.          *)
(***************************************************************************)
EXTENDS Naturals, Sequences, FiniteSets, SequencesExt

CONSTANTS
  MaxMessage,   \* messages 1..MaxMessage are sent to the chat in this order
  ReplyTo,      \* the message of the same chat each of them replies to, or 0
  Stickers,     \* messages with stickers or custom emoji
  MaxContent,   \* how many contents a message has one after the other,
  MaxMarkup     \* and how many inline keyboards (bounds of the model)

Message == 1..MaxMessage

ASSUME MessagesAssumption ==
  /\ MaxMessage \in Nat /\ MaxContent \in Nat \ {0} /\ MaxMarkup \in Nat \ {0}
  /\ ReplyTo \in [Message -> 0..MaxMessage]
  /\ \A m \in Message : ReplyTo[m] < m
  /\ Stickers \subseteq Message

VARIABLES
  td,       \* what TDLib has told of every message
  due,      \* message whose updateMessageEdited follows next, or 0
  queue,    \* new_message_queues_ of the chat
  active,   \* its has_active_request_
  lookups,  \* the lookups that will come back to the queue
  edits,    \* number of getMessage requests for an edited message
  cache,    \* messages_
  stored,   \* history: the updates that were stored
  stale,    \* history: messages whose cached content hid a newer one
  skipped,  \* history: messages whose last news was kept from the bot
  closing   \* logging_out_ or closing_

vars == <<td, due, queue, active, lookups, edits, cache, stored, stale, skipped, closing>>

Version == [content : 1..MaxContent, markup : 1..MaxMarkup]
\* TDLib has a message, and its version, knows nothing of it yet or has deleted it;
\* the cache has its version and whether is_content_changed is set, or nothing.
Unknown == [state |-> "unknown"]
Deleted == [state |-> "deleted"]
NoInfo  == [cached |-> FALSE]
-----------------------------------------------------------------------------
(* The cache.  c maps every message to what messages_ has of it.           *)

\* add_message without force_update_content: the old content is kept, the
\* keyboard is compared and replaced.
AddMessage(c, m, v) ==
  [c EXCEPT ![m] =
     IF ~c[m].cached THEN [cached |-> TRUE, v |-> v, changed |-> TRUE]
     ELSE [cached  |-> TRUE,
           v       |-> [v EXCEPT !.content = c[m].v.content],
           changed |-> c[m].changed \/ c[m].v.markup # v.markup]]

\* Does add_message keep a content that is older than the one it was given?
HidesContent(c, m, v) == c[m].cached /\ c[m].v.content < v.content

\* need_skip_update_message, after add_message.  untold: the bot is not to be told of
\* the message now, because it is older than a day or of another time than the bot's
\* membership, or is of a kind bots are not told of.
NeedSkip(c, item, untold) ==
  \/ untold
  \/ item.edited /\ ~c[item.m].changed
-----------------------------------------------------------------------------
(* The queue.  The handlers compute on b, a record of the state they touch. *)

Bundle == [queue |-> queue, active |-> active, lookups |-> lookups,
           cache |-> cache, stored |-> stored, stale |-> stale, skipped |-> skipped]

Become(b) ==
  /\ queue' = b.queue
  /\ active' = b.active
  /\ lookups' = b.lookups
  /\ cache' = b.cache
  /\ stored' = b.stored
  /\ stale' = b.stale
  /\ skipped' = b.skipped

\* The lookup that the front message waits for in the given state.
Needed(b, state) ==
  LET m == Head(b.queue).m
      r == ReplyTo[m]
  IN  IF state = 0 /\ r # 0 /\ ~b.cache[r].cached THEN "reply"
      ELSE IF state <= 1 /\ (m \in Stickers \/ (r \in Stickers /\ b.cache[r].cached))
      THEN "stickers"
      ELSE "none"

\* The front message passes the cache and becomes an update.
Finish(b, untold) ==
  LET item == Head(b.queue)
      c    == AddMessage(b.cache, item.m, item.v)
      hid  == IF HidesContent(b.cache, item.m, item.v) THEN {item.m} ELSE {}
      d    == [b EXCEPT !.queue = Tail(@), !.cache = c, !.stale = @ \cup hid]
  IN  IF ~NeedSkip(c, item, untold)
      THEN [d EXCEPT !.stored = Append(@, [item EXCEPT !.v = c[item.m].v]),
                     !.cache[item.m].changed = FALSE,
                     !.skipped = @ \ {item.m}]
      ELSE IF NeedSkip(c, item, FALSE) THEN d
      ELSE [d EXCEPT !.skipped = @ \cup {item.m}]

\* b after the first n messages of its queue have passed, for every n; untold are the
\* places in the queue of those that the bot is not to be told of.
After(b, untold) ==
  LET after[n \in 0..Len(b.queue)] == IF n = 0 THEN b ELSE Finish(after[n - 1], n \in untold)
  IN  after

\* The lookup that the next message waits for
LookupAfter(b, untold, state, n) ==
  IF n = Len(b.queue) THEN "none" ELSE Needed(After(b, untold)[n], IF n = 0 THEN state ELSE 0)

\* The loop of process_new_message_queue.
RunQueue(b, untold, state) ==
  LET stop == CHOOSE n \in 0..Len(b.queue) :
                /\ n = Len(b.queue) \/ LookupAfter(b, untold, state, n) # "none"
                /\ \A k \in 0..n-1 : LookupAfter(b, untold, state, k) = "none"
  IN  [After(b, untold)[stop] EXCEPT
         !.active = (stop < Len(b.queue)),
         !.lookups = @ \cup ({LookupAfter(b, untold, state, stop)} \ {"none"})]

\* Fault: the queue is dropped at once when the Client is closing.
ProcessQueueDropping(b, untold, state) ==
  IF closing THEN [b EXCEPT !.queue = <<>>, !.active = FALSE]
  ELSE IF b.active /\ state = 0 THEN b
  ELSE RunQueue([b EXCEPT !.active = FALSE], untold, state)

\* process_new_message_queue
ProcessQueue(b, untold, state) ==
  IF b.active /\ state = 0 THEN b
  ELSE IF closing THEN [b EXCEPT !.queue = <<>>, !.active = FALSE]
  ELSE RunQueue([b EXCEPT !.active = FALSE], untold, state)

\* Fault: an edited message overtakes the messages that wait.
AddNewMessageInFront(b, untold, m, edited) ==
  ProcessQueue([b EXCEPT !.queue =
                  IF b.active /\ edited
                  THEN <<Head(@), [m |-> m, v |-> td'[m].v, edited |-> edited]>> \o Tail(@)
                  ELSE Append(@, [m |-> m, v |-> td'[m].v, edited |-> edited])], untold, 0)

\* add_new_message
AddNewMessage(b, untold, m, edited) ==
  ProcessQueue([b EXCEPT !.queue = Append(@, [m |-> m, v |-> td'[m].v, edited |-> edited])], untold, 0)
-----------------------------------------------------------------------------
(* Updates and answers of TDLib.                                           *)

Init ==
  /\ td = [m \in Message |-> Unknown]
  /\ due = 0
  /\ queue = <<>> /\ active = FALSE /\ lookups = {}
  /\ edits = [m \in Message |-> 0]
  /\ cache = [m \in Message |-> NoInfo]
  /\ stored = <<>> /\ stale = {} /\ skipped = {}
  /\ closing = FALSE

\* What the bot may not be told of in a step: places in the queue, with one message more
Untold == SUBSET (1..Len(queue)+1)

Announced(m) == td[m].state # "unknown"

\* updateNewMessage, for the next message of the chat
UpdateNewMessage(m) ==
  /\ due = 0
  /\ ~Announced(m) /\ \A k \in 1..m-1 : Announced(k)
  /\ td' = [td EXCEPT ![m] = [state |-> "known", v |-> [content |-> 1, markup |-> 1]]]
  /\ \E untold \in Untold : Become(AddNewMessage(Bundle, untold, m, FALSE))
  /\ UNCHANGED <<due, edits, closing>>

\* A message that was sent before the bot came is not announced, but a reply
\* to it can be.
OldMessage(m) ==
  /\ due = 0
  /\ ~Announced(m) /\ \A k \in 1..m-1 : Announced(k)
  /\ td' = [td EXCEPT ![m] = [state |-> "known", v |-> [content |-> 1, markup |-> 1]]]
  /\ UNCHANGED <<due, queue, active, lookups, edits, cache, stored, stale, skipped, closing>>

\* Fault: is_content_changed is not set.
UpdateContentSilently(m, v) ==
  cache' = IF cache[m].cached THEN [cache EXCEPT ![m].v.content = v.content] ELSE cache

\* update_message_content does nothing for a message that is not cached.
UpdateContent(m, v) ==
  cache' = IF cache[m].cached
           THEN [cache EXCEPT ![m].v.content = v.content, ![m].changed = TRUE]
           ELSE cache

\* updateMessageContent; the edit that caused it follows.
UpdateMessageContent(m) ==
  /\ due = 0
  /\ td[m].state = "known" /\ td[m].v.content < MaxContent
  /\ td' = [td EXCEPT ![m].v.content = @ + 1]
  /\ due' = m
  /\ UpdateContent(m, td'[m].v)
  /\ UNCHANGED <<queue, active, lookups, edits, stored, stale, skipped, closing>>

\* updateMessageEdited, with a new inline keyboard or without one; the edited
\* message is asked for.
UpdateMessageEdited(m) ==
  /\ td[m].state = "known"
  /\ \/ due = m /\ td' = td
     \/ /\ due \in {0, m} /\ td[m].v.markup < MaxMarkup
        /\ td' = [td EXCEPT ![m].v.markup = @ + 1]
  /\ due' = 0
  /\ cache' = IF cache[m].cached
              THEN [cache EXCEPT ![m].v.markup = td'[m].v.markup,
                                 ![m].changed = @ \/ cache[m].v.markup # td'[m].v.markup]
              ELSE cache
  /\ edits' = [edits EXCEPT ![m] = @ + 1]
  /\ UNCHANGED <<queue, active, lookups, stored, stale, skipped, closing>>

\* The answer to getMessage; without the message, on_get_edited_message only logs.
GetEditedMessage(m) ==
  /\ due = 0
  /\ edits[m] > 0
  /\ edits' = [edits EXCEPT ![m] = @ - 1]
  /\ td' = td
  /\ \E untold \in Untold :
       Become(IF td[m].state = "known" THEN AddNewMessage(Bundle, untold, m, TRUE) ELSE Bundle)
  /\ UNCHANGED <<due, closing>>

\* on_get_reply_message; TDLib may fail to find even a message that exists.
GetReplyMessage(found) ==
  LET r == ReplyTo[Head(queue).m]
      b == [Bundle EXCEPT !.lookups = @ \ {"reply"}]
  IN  /\ due = 0
      /\ "reply" \in lookups
      /\ found => td[r].state = "known"
      /\ \E untold \in Untold :
           Become(ProcessQueue(
                    IF found
                    THEN [b EXCEPT !.cache = AddMessage(cache, r, td[r].v),
                                   !.stale = @ \cup IF HidesContent(cache, r, td[r].v)
                                                    THEN {r} ELSE {}]
                    ELSE b, untold, 1))
      /\ UNCHANGED <<td, due, edits, closing>>

\* The promise of get_sticker_set_names is kept, whatever TDLib answered.
StickerSetNamesKnown ==
  /\ "stickers" \in lookups
  /\ \E untold \in Untold :
       Become(ProcessQueue([Bundle EXCEPT !.lookups = @ \ {"stickers"}], untold, 2))
  /\ UNCHANGED <<td, due, edits, closing>>

\* updateDeleteMessages; TDLib also sends it for a message that it unloads
\* after it was not used for long.
UpdateDeleteMessages(m, unloaded) ==
  /\ due = 0
  /\ td[m].state = "known"
  /\ unloaded => edits[m] = 0 /\ \A i \in 1..Len(queue) : queue[i].m # m
  /\ td' = IF unloaded THEN td ELSE [td EXCEPT ![m] = Deleted]
  /\ cache' = [cache EXCEPT ![m] = NoInfo]
  /\ UNCHANGED <<due, queue, active, lookups, edits, stored, stale, skipped, closing>>

\* on_update_authorization_state: the bot is logged out, or the Client closed.
StartClosing ==
  /\ ~closing
  /\ closing' = TRUE
  /\ UNCHANGED <<td, due, queue, active, lookups, edits, cache, stored, stale, skipped>>

Next ==
  \/ \E m \in Message :
       \/ UpdateNewMessage(m)
       \/ OldMessage(m)
       \/ UpdateMessageContent(m)
       \/ UpdateMessageEdited(m)
       \/ GetEditedMessage(m)
       \/ \E unloaded \in BOOLEAN : UpdateDeleteMessages(m, unloaded)
  \/ \E found \in BOOLEAN : GetReplyMessage(found)
  \/ StickerSetNamesKnown
  \/ StartClosing

Spec == Init /\ [][Next]_vars
-----------------------------------------------------------------------------
(* Properties.                                                             *)

\* A queue with has_active_request_ waits for exactly one lookup, made for its
\* front message, and every other queue is empty: the answer finds what the
\* CHECKs of on_get_reply_message and process_new_message_queue demand.
FrontAwaited ==
  /\ active <=> queue # <<>>
  /\ active <=> lookups # {}
  /\ Cardinality(lookups) <= 1
  /\ "reply" \in lookups => ReplyTo[Head(queue).m] # 0

\* Although lookups and edits come back whenever they like, the bot is told of
\* new messages in the order of the chat, and of an edited message only after
\* the message itself.
InOrder ==
  \A j \in 1..Len(stored) : \A i \in 1..j-1 :
    ~stored[j].edited => stored[i].m < stored[j].m

\* Two updates about one message never show its versions in the wrong order,
\* although edits are asked for one by one and pass a cache that is ahead of
\* them.  (An edit that still waits when its message is deleted may be old.)
NoOldVersion ==
  \A j \in 1..Len(stored) : \A i \in 1..j-1 :
    stored[i].m = stored[j].m /\ td[stored[i].m].state = "known" =>
      /\ stored[i].v.content <= stored[j].v.content
      /\ stored[i].v.markup <= stored[j].v.markup

Rest == queue = <<>> /\ due = 0 /\ (\A m \in Message : edits[m] = 0) /\ ~closing

Told(m) == \E i \in 1..Len(stored) : stored[i].m = m

LastTold(m) == stored[Max({i \in 1..Len(stored) : stored[i].m = m})].v

\* When nothing is under way, the bot has been told of the last keyboard of
\* every message it knows, and of its last content: is_content_changed is never
\* reset too early.  Two things are excepted.  The last news of a message may have
\* been kept from the bot by design, because they were older than a day when their
\* turn came, or the bot was out of the chat or not yet in it
\* (need_skip_update_message, Client.cpp:18597-18621).  And add_message may have
\* hidden a content (KeptContentIsUnchanged).
EditsArrive ==
  Rest => \A m \in Message :
            td[m].state = "known" /\ Told(m) /\ m \notin skipped =>
              /\ LastTold(m).markup = td[m].v.markup
              /\ m \notin stale => LastTold(m).content = td[m].v.content

\* The comment in add_message, "keep the unchanged old content": the content
\* that is kept is never older than the one that is thrown away.
KeptContentIsUnchanged == stale = {}
=============================================================================
