----------------------------- MODULE SendMessage -----------------------------
(***************************************************************************)
(* How the Client (telegram-bot-api/Client.cpp) sends messages for the     *)
(* bot.  A query passes asynchronous checks, then the flood limit of its   *)
(* chat, and becomes a request to TDLib.  TDLib answers with the messages  *)
(* it will try to send, and later tells what became of each of them; the   *)
(* query is answered after the last one.  Two tables have to agree about   *)
(* that all the time: the number of unsent messages of every chat, and the *)
(* query that every unsent message belongs to.                             *)
(*                                                                         *)
(* TDLib is external: it fails whatever it likes, in any order.  Messages  *)
(* that are sent for a business account are answered at once, like any     *)
(* other request, and are not modelled.                                    *)
(*                                                                         *)
(* "Fault:" marks variants of a definition with a bug the code does not    *)
(* have; the mutation tests of README.md put them in place of it.          *)
(***************************************************************************)
EXTENDS Naturals, Sequences, FiniteSets

CONSTANTS
  Query,         \* queries that send something
  Chat,
  Requests,      \* what they may ask for
  MaxConcurrent  \* MAX_CONCURRENTLY_SENT_CHAT_MESSAGES

\* sendMessage and its relatives send one message, sendMediaGroup an album;
\* forwardMessages and copyMessages may succeed in part.  postStory waits for
\* TDLib in the same way, but has no flood limit.
Request == [kind : {"one", "album", "forward", "story"}, chat : Chat, n : Nat \ {0}]

ASSUME SendMessageAssumption ==
  /\ Requests \subseteq Request /\ Requests # {}
  /\ \A r \in Requests : r.kind \in {"one", "story"} => r.n = 1
  /\ MaxConcurrent \in Nat \ {0}
  /\ IsFiniteSet(Query)

VARIABLES
  args,     \* what every query asks for
  stage,    \* where it is
  count,    \* yet_unsent_message_count_, 0 where there is no entry
  unsent,   \* yet_unsent_messages_: <<q, i>>, the i-th message of query q
  stories,  \* yet_unsent_stories_: their queries
  pending,  \* pending_send_message_queries_
  answer,   \* history: how every query was answered
  outcome,  \* history: what became of every message
  closed    \* on_closed was called: td_client_ is empty

vars == <<args, stage, count, unsent, stories, pending, answer, outcome, closed>>

\* query.error: the first error, or a later one in place of "Group send failed".
\* pos is the number that "Failed to send message #" names.
NoError == [kind |-> "none", pos |-> 0]

NewPending == [total |-> 0, awaited |-> 0, sent |-> <<>>, error |-> NoError]

Multisend(q) == args[q].kind \in {"album", "forward"}
-----------------------------------------------------------------------------
(* Until the request is sent.                                              *)

Init ==
  /\ args \in [Query -> Requests]
  /\ stage = [q \in Query |-> "new"]
  /\ count = [c \in Chat |-> 0]
  /\ unsent = {}
  /\ stories = {}
  /\ pending = [q \in Query |-> NewPending]
  /\ answer = [q \in Query |-> "none"]
  /\ outcome = [q \in Query |-> <<>>]
  /\ closed = FALSE

AnswerQuery(q, a) ==
  /\ stage' = [stage EXCEPT ![q] = "answered"]
  /\ answer' = [answer EXCEPT ![q] = a]

\* fail_query_flood_limit_exceeded is due
Flooded(q) == count[args[q].chat] >= MaxConcurrent

\* on_cmd; sendMessage has a fast path when chat_id is a number.
Receive(q, fast) ==
  /\ ~closed
  /\ stage[q] = "new"
  /\ fast => args[q].kind = "one"
  /\ IF fast /\ Flooded(q) THEN AnswerQuery(q, "flood")
     ELSE stage' = [stage EXCEPT ![q] = "checking"] /\ UNCHANGED answer
  /\ UNCHANGED <<args, count, unsent, stories, pending, outcome, closed>>

CheckFails(q) ==
  /\ stage[q] \in {"checking", "checking_messages"}
  /\ AnswerQuery(q, "error")
  /\ UNCHANGED <<args, count, unsent, stories, pending, outcome, closed>>

\* on_success of do_send_message, process_send_media_group_query and others
SendRequest(q) ==
  IF Flooded(q) THEN AnswerQuery(q, "flood") /\ UNCHANGED count
  ELSE /\ count' = [count EXCEPT ![args[q].chat] = @ + args[q].n]
       /\ stage' = [stage EXCEPT ![q] = "requested"]
       /\ UNCHANGED answer

\* check_reply_parameters succeeds; the messages to forward come next.
ReplyChecked(q) ==
  /\ stage[q] = "checking"
  /\ CASE args[q].kind \in {"one", "album"} -> SendRequest(q)
       [] args[q].kind = "forward" ->
            /\ IF Flooded(q) THEN AnswerQuery(q, "flood")
               ELSE stage' = [stage EXCEPT ![q] = "checking_messages"] /\ UNCHANGED answer
            /\ UNCHANGED count
       [] args[q].kind = "story" ->
            /\ stage' = [stage EXCEPT ![q] = "requested"]
            /\ UNCHANGED <<answer, count>>
  /\ UNCHANGED <<args, unsent, stories, pending, outcome, closed>>

\* check_messages succeeds.
MessagesChecked(q) ==
  /\ stage[q] = "checking_messages"
  /\ SendRequest(q)
  /\ UNCHANGED <<args, unsent, stories, pending, outcome, closed>>
-----------------------------------------------------------------------------
(* TDLib answers the request.                                              *)

DecreaseCount(c, k) == count' = [count EXCEPT ![c] = @ - k]

RequestFails(q) ==
  /\ stage[q] = "requested"
  /\ IF args[q].kind = "story" THEN UNCHANGED count
     ELSE DecreaseCount(args[q].chat, args[q].n)
  /\ AnswerQuery(q, "error")
  /\ UNCHANGED <<args, unsent, stories, pending, outcome, closed>>

\* TDLib will send k messages, as many as asked for unless they are forwarded:
\* get_send_message_query_id and on_sent_message for each of them.
RequestSucceeds(q, k) ==
  /\ stage[q] = "requested"
  /\ args[q].kind \in {"one", "album", "forward"}
  /\ k <= args[q].n /\ (args[q].kind # "forward" => k = args[q].n)
  /\ DecreaseCount(args[q].chat, args[q].n - k)
  /\ IF k = 0 THEN AnswerQuery(q, "error") /\ UNCHANGED <<unsent, pending, outcome>>
     ELSE /\ unsent' = unsent \cup {<<q, i>> : i \in 1..k}
          /\ pending' = [pending EXCEPT ![q].awaited = k, ![q].total = k]
          /\ outcome' = [outcome EXCEPT ![q] = [i \in 1..k |-> "unsent"]]
          /\ stage' = [stage EXCEPT ![q] = "pending"]
          /\ UNCHANGED answer
  /\ UNCHANGED <<args, stories, closed>>

\* on_sent_story
StoryCreated(q) ==
  /\ stage[q] = "requested" /\ args[q].kind = "story"
  /\ stories' = stories \cup {q}
  /\ stage' = [stage EXCEPT ![q] = "pending"]
  /\ UNCHANGED <<args, count, unsent, pending, answer, outcome, closed>>
-----------------------------------------------------------------------------
(* TDLib tells what became of a message.                                   *)

\* Fault: the message stays in yet_unsent_messages_.
ExtractForgetting(m) ==
  /\ unsent' = unsent
  /\ DecreaseCount(args[m[1]].chat, 1)

\* extract_yet_unsent_message_query_id
Extract(m) ==
  /\ unsent' = unsent \ {m}
  /\ DecreaseCount(args[m[1]].chat, 1)

\* One message less to wait for; p is the query after that.
Settled(q, p) ==
  IF p.awaited = 0
  THEN /\ AnswerQuery(q, IF p.error = NoError THEN "ok" ELSE "error")
       /\ pending' = [pending EXCEPT ![q] = p]
  ELSE pending' = [pending EXCEPT ![q] = p] /\ UNCHANGED <<stage, answer>>

Succeeded(q, i) == [pending[q] EXCEPT !.awaited = @ - 1, !.sent = Append(@, i)]

\* updateMessageSendSucceeded
OnMessageSendSucceeded(q, i) ==
  /\ <<q, i>> \in unsent
  /\ Extract(<<q, i>>)
  /\ Settled(q, Succeeded(q, i))
  /\ outcome' = [outcome EXCEPT ![q][i] = "sent"]
  /\ UNCHANGED <<args, stories, closed>>

\* Fault: the last error is reported, whatever it is.
FailedLast(q, how) ==
  [pending[q] EXCEPT
     !.awaited = @ - 1,
     !.error = [kind |-> IF how = "group" THEN "group" ELSE "message", pos |-> 0]]

\* Fault: a message that failed is still awaited.
FailedUncounted(q, how) ==
  [pending[q] EXCEPT !.error = [kind |-> "message", pos |-> 0]]

\* A "Group send failed" says nothing of the reason, and gives way to others.
\* Only errors with ordinary codes get a position.
Failed(q, how) ==
  LET p == pending[q]
  IN  [p EXCEPT
         !.awaited = @ - 1,
         !.error =
           IF p.error.kind = "message" THEN @
           ELSE IF how = "group" THEN [kind |-> "group", pos |-> 0]
           ELSE [kind |-> "message",
                 pos |-> IF Multisend(q) /\ how = "plain"
                         THEN p.total - p.awaited + 1 ELSE 0]]

\* updateMessageSendFailed, or updateDeleteMessages for an unsent message
OnMessageSendFailed(q, i, how) ==
  /\ <<q, i>> \in unsent
  /\ how = "group" => Multisend(q)
  /\ Extract(<<q, i>>)
  /\ Settled(q, Failed(q, how))
  /\ outcome' = [outcome EXCEPT ![q][i] = IF how = "group" THEN "group_failed" ELSE "failed"]
  /\ UNCHANGED <<args, stories, closed>>

\* on_story_send_succeeded, on_story_send_failed
OnStorySent(q, ok) ==
  /\ ~closed
  /\ q \in stories
  /\ stories' = stories \ {q}
  /\ AnswerQuery(q, IF ok THEN "ok" ELSE "error")
  /\ UNCHANGED <<args, count, unsent, pending, outcome, closed>>

\* Fault: yet_unsent_message_count_ is not cleared.
OnClosedCounting ==
  /\ ~closed /\ closed' = TRUE
  /\ \A q \in Query : stage[q] \notin {"checking", "checking_messages", "requested"}
  /\ stage' = [q \in Query |-> IF stage[q] = "pending" /\ q \notin stories
                               THEN "answered" ELSE stage[q]]
  /\ answer' = [q \in Query |-> IF stage[q] = "pending" /\ q \notin stories
                                THEN "closing" ELSE answer[q]]
  /\ unsent' = {}
  /\ UNCHANGED <<args, count, stories, pending, outcome>>

\* on_closed; TDLib has answered every request before.  The queries in
\* yet_unsent_stories_ are left alone.
OnClosed ==
  /\ ~closed /\ closed' = TRUE
  /\ \A q \in Query : stage[q] \notin {"checking", "checking_messages", "requested"}
  /\ stage' = [q \in Query |-> IF stage[q] = "pending" /\ q \notin stories
                               THEN "answered" ELSE stage[q]]
  /\ answer' = [q \in Query |-> IF stage[q] = "pending" /\ q \notin stories
                                THEN "closing" ELSE answer[q]]
  /\ unsent' = {}
  /\ count' = [c \in Chat |-> 0]
  /\ UNCHANGED <<args, stories, pending, outcome>>

\* The Client is destroyed, and with it the queries it still holds.
Destroyed ==
  /\ closed
  /\ stories # {}
  /\ stories' = {}
  /\ stage' = [q \in Query |-> IF q \in stories THEN "answered" ELSE stage[q]]
  /\ answer' = [q \in Query |-> IF q \in stories THEN "retry" ELSE answer[q]]
  /\ UNCHANGED <<args, count, unsent, pending, outcome, closed>>

Next ==
  \/ \E q \in Query :
       \/ \E fast \in BOOLEAN : Receive(q, fast)
       \/ CheckFails(q)
       \/ ReplyChecked(q)
       \/ MessagesChecked(q)
       \/ RequestFails(q)
       \/ \E k \in 0..args[q].n : RequestSucceeds(q, k)
       \/ StoryCreated(q)
       \/ \E ok \in BOOLEAN : OnStorySent(q, ok)
       \/ \E i \in 1..args[q].n :
            \/ OnMessageSendSucceeded(q, i)
            \/ \E how \in {"group", "special", "plain"} : OnMessageSendFailed(q, i, how)
  \/ OnClosed
  \/ Destroyed

\* Checks end, TDLib answers every request and reports every message it tries
\* to send, and a Client whose TDLib is closed is destroyed.
Fairness ==
  /\ \A q \in Query :
       /\ WF_vars(CheckFails(q) \/ ReplyChecked(q) \/ MessagesChecked(q))
       /\ WF_vars(RequestFails(q) \/ StoryCreated(q) \/ \E k \in 0..args[q].n : RequestSucceeds(q, k))
       /\ WF_vars(\E ok \in BOOLEAN : OnStorySent(q, ok))
       /\ WF_vars(\E i \in 1..args[q].n :
                    OnMessageSendSucceeded(q, i) \/ OnMessageSendFailed(q, i, "plain"))
  /\ WF_vars(Destroyed)

Spec == Init /\ [][Next]_vars
FairSpec == Spec /\ Fairness
-----------------------------------------------------------------------------
(* Properties.                                                             *)

UnsentOf(q) == {m \in unsent : m[1] = q}

\* The messages of a chat that were asked for or that TDLib is sending
Outstanding(c) ==
  UNION {IF stage[q] = "requested" THEN {q} \X (1..args[q].n) ELSE UnsentOf(q) :
           q \in {q \in Query : args[q].chat = c /\ args[q].kind # "story"}}

\* The counter of a chat stands for the messages that were asked for and the
\* messages TDLib is sending, no more and no less, through errors, forwards
\* that succeed in part, deleted messages and on_closed: the CHECKs of
\* decrease_yet_unsent_message_count hold, and no chat stays flood-limited.
\* However the checks of several queries interleave, a chat has at most one
\* batch of messages above the limit.
CountsExact ==
  \A c \in Chat :
    /\ count[c] = Cardinality(Outstanding(c))
    /\ \E r \in Requests : count[c] < MaxConcurrent + r.n

\* A query is pending exactly as long as messages of it are unsent, and it
\* awaits as many as there are: the CHECKs of on_message_send_succeeded and
\* on_message_send_failed hold, and the last message answers the query.
AwaitedExact ==
  \A q \in Query :
    IF stage[q] = "pending" /\ q \notin stories
    THEN /\ pending[q].awaited = Cardinality(UnsentOf(q))
         /\ UnsentOf(q) # {}
         /\ ~Multisend(q) => pending[q].awaited = 1
    ELSE UnsentOf(q) = {}

\* The bot is told the truth: "ok" when every message was sent, and then each
\* of them is listed once; an error only when one of them failed, and when all
\* are settled.  In whatever order the failures come, "Group send failed" is
\* never all the bot is told when a message failed for a reason of its own.
AnswerIsTrue ==
  \A q \in Query : pending[q].total > 0 =>
    LET n == pending[q].total
        sent == {i \in 1..n : outcome[q][i] = "sent"}
    IN  /\ answer[q] = "ok" =>
             /\ sent = 1..n /\ Len(pending[q].sent) = n
             /\ {pending[q].sent[k] : k \in 1..Len(pending[q].sent)} = sent
        /\ answer[q] = "error" =>
             /\ sent # 1..n /\ \A i \in 1..n : outcome[q][i] # "unsent"
             /\ pending[q].error.kind = "message" <=> \E i \in 1..n : outcome[q][i] = "failed"

\* Every query that was received is answered, also when the Client closes.
QueriesAnswered ==
  \A q \in Query : (stage[q] # "new") ~> (stage[q] = "answered")
=============================================================================
