------------------------------ MODULE Requests ------------------------------
(***************************************************************************)
(* How Client processes the queries of a bot (telegram-bot-api/Client.cpp):*)
(* the queue of commands, the flood control of big files, the handlers of  *)
(* all methods of SendingMethods, ChatMethods and AccountMethods, the      *)
(* requests to TDLib with their callbacks, the usernames to resolve        *)
(* (BotNames), the files to download (Downloads), and the end of the       *)
(* client, which has to answer every query it still holds.                 *)
(*                                                                         *)
(* All the queries are about one chat, in which the bot's standing changes *)
(* while they are processed.                                               *)
(*                                                                         *)
(* "Fault:" marks variants of a definition with a bug the code does not    *)
(* have; the mutation tests of README.md put them in place of it.          *)
(***************************************************************************)
EXTENDS SendingMethods, ChatMethods, AccountMethods, BotNames, Downloads

CONSTANTS
  Query,        \* the queries the client may receive
  Loads         \* the loads of the client by name: which methods each query may call (calls),
                \* and which standings the bot may have in the chat (chats)

Special == {"close", "logOut"}

Methods == SendingTable @@ ChatTable @@ AccountTable

ASSUME RequestsAssumption ==
  \A l \in DOMAIN Loads :
    /\ DOMAIN Loads[l].calls \subseteq Query
    /\ \A q \in DOMAIN Loads[l].calls : Loads[l].calls[q] \subseteq DOMAIN Methods \cup Special
    /\ Loads[l].chats \subseteq Standing

(***************************************************************************)
(* What the tables of methods have in common.                              *)
(***************************************************************************)
\* check_chat with rights that a bot outside of the chat does not have
KeepsOutsidersAway(step) == step.op = "chat" /\ Outside \subseteq Refused[step.rights]

ChangesTheChat(step) == step.op = "ask" /\ step.does \in {"write", "edit"}

ChecksFirst(steps) ==
  \A i \in DOMAIN steps :
    ChangesTheChat(steps[i]) => \E j \in 1..(i - 1) : KeepsOutsidersAway(steps[j])

ParsesKeyboards == {"names", "results"}

\* Keyboards are parsed in one step, and no file is downloaded then.
OneKeyboard(steps) ==
  \A i, j \in DOMAIN steps :
    steps[i].op \in ParsesKeyboards /\ i < j => steps[j].op \notin ParsesKeyboards \cup {"download"}

\* They are parsed by the handler itself, not by a callback.
KeyboardFirst(steps) ==
  \A i \in DOMAIN steps :
    steps[i].op \in ParsesKeyboards => \A j \in 1..(i - 1) : steps[j].op \in {"parse", "test"}

\* The methods that parse the keyboard after the message was looked up
Copying == {"copyMessage", "forwardMessage"}

\* Nothing is to be assumed of constants here: the tables are definitions, and TLC goes
\* through all of them.
ASSUME MethodsAssumption ==
  \A m \in DOMAIN Methods : \A steps \in Methods[m] :
    /\ steps \in Seq({steps[i] : i \in DOMAIN steps})
    /\ ChecksFirst(steps)
    /\ OneKeyboard(steps)
    /\ m \notin Copying => KeyboardFirst(steps)

\* What a query of a load may do; methods are told apart by their steps alone.
Handlers ==
  [l \in DOMAIN Loads |->
     [q \in DOMAIN Loads[l].calls |-> UNION {Methods[m] : m \in Loads[l].calls[q] \ Special}]]

VARIABLES
  load,         \* the load of this behavior
  was_authorized,
  phase,        \* "open"; "closing": closing_ or logging_out_; "closed": without TDLib; "stopped"
  chat,         \* the standing of the bot in the chat
  received,     \* the queries received so far
  cmd_queue,    \* cmd_queue_
  asleep,       \* queries with big files in a DoSendMessageSleepActor
  asking,       \* handlers_: query -> the steps left, whose first waits for TDLib
  answers,      \* how often each query was answered
  inside,       \* queries that the client had at a time when the bot was in the chat
  aborted       \* the CHECKs that failed, by their causes

requestVars ==
  <<load, was_authorized, phase, chat, received, cmd_queue, asleep, asking, answers, inside, aborted>>

vars == <<requestVars, nameVars, downloadVars>>

Init ==
  /\ was_authorized = FALSE
  /\ phase = "open"
  /\ load \in DOMAIN Loads
  /\ chat \in Loads[load].chats
  /\ received = {}
  /\ cmd_queue = <<>>
  /\ asleep = {}
  /\ asking = <<>>
  /\ answers = [q \in Query |-> 0]
  /\ inside = {}
  /\ aborted = {}
  /\ NamesInit
  /\ DownloadsInit

HasTd == phase \in {"open", "closing"}
Closing == phase # "open"

(***************************************************************************)
(* A handler goes on as far as it gets without TDLib.  What may become of  *)
(* its query there: it is answered, it waits for TDLib with the steps that *)
(* are left, its keyboard is to be parsed, its file is to be downloaded.   *)
(***************************************************************************)
\* send_request of a client that is closing calls the callback with an error at once.
Passes(step) ==
  \/ step.op = "parse"
  \/ step.op = "chat" /\ chat \notin Refused[step.rights]
  \/ step.op = "test" /\ chat \in step.passes
  \/ step.op = "ask" /\ (step.cached \/ (Closing /\ "next" \in step.err))

Ends(steps) ==
  \/ steps = <<>>
  \/ steps[1].op \in {"parse", "chat", "download"}
  \/ steps[1].op = "test" /\ chat \notin steps[1].passes
  \/ steps[1].op = "ask" /\ (steps[1].refuse \/ (Closing /\ "fail" \in steps[1].err))

Left(steps) ==
  {SubSeq(steps, n + 1, Len(steps)) :
     n \in {k \in 0..Len(steps) : \A i \in 1..k : Passes(steps[i])}}

Outcomes(steps) ==
  {[kind |-> "answer", left |-> <<>>] : left \in {l \in Left(steps) : Ends(l)}} \cup
  {[kind |-> "ask", left |-> l] :
     l \in {l \in Left(steps) \ {<<>>} : l[1].op \in {"chat", "ask"} /\ ~Closing}} \cup
  {[kind |-> l[1].op, left |-> Tail(l)] :
     l \in {l \in Left(steps) \ {<<>>} : l[1].op \in ParsesKeyboards \cup {"download"}}}

\* answer_query, fail_query and their kin
Answer(Q) == answers' = [q \in Query |-> answers[q] + (IF q \in Q THEN 1 ELSE 0)]

\* The queries of the domain of outcome are answered or wait for TDLib.
Settle(outcome) ==
  LET done == {q \in DOMAIN outcome : outcome[q].kind = "answer"}
  IN  /\ Answer(done)
      /\ asking' = [q \in (DOMAIN asking \cup DOMAIN outcome) \ done |->
                      IF q \in DOMAIN outcome THEN outcome[q].left ELSE asking[q]]

SettleOne(q, o) == Settle([r \in {q} |-> o])

Unhold(q) == asking' = Without(asking, {q})

(***************************************************************************)
(* The keyboards.  over: the names that are unresolved before they are     *)
(* parsed, then: the steps after them, lists: what the query may bring.    *)
(***************************************************************************)
Lists(op) == IF op = "names" THEN {<<markup>> : markup \in Markup} ELSE Results

\* One of the keyboards is wrong, or what follows it.
MarkupFails(q, over, lists) ==
  /\ \E markups \in lists : \E n \in DOMAIN markups :
       LET before == ReplyMarkups(SubSeq(markups, 1, n - 1), over)
       IN  \/ KeepNames(AfterButtons(before, markups[n].names))
           \/ KeepNames(ReplyMarkup(before, markups[n]))
  /\ Answer({q}) /\ Unhold(q)
  /\ UNCHANGED aborted

\* CHECK(reply_markup != nullptr)
WithoutMarkup(q, over, then) ==
  /\ unresolved' = over
  /\ UNCHANGED <<bot_user_ids, cur_temp_bot_user_id, pending, awaiting, temp_to_real>>
  /\ IF over # {} THEN aborted' = aborted \cup {"keyboard"} /\ UNCHANGED <<answers, asking>>
     ELSE (\E o \in Outcomes(then) : SettleOne(q, o)) /\ UNCHANGED aborted

WithMarkups(q, over, then, lists) ==
  \E markups \in lists :
    LET parsed == ReplyMarkups(markups, over)
    IN  IF parsed.unresolved = {}
        THEN KeepNames(parsed) /\ (\E o \in Outcomes(then) : SettleOne(q, o)) /\ UNCHANGED aborted
        ELSE /\ ResolveBotUsernames(q, parsed, then, Closing)
             /\ Answer(IF ResolveFails(parsed.unresolved, Closing) THEN {q} ELSE {})
             /\ Unhold(q)
             /\ UNCHANGED aborted

ListenToFile(q) ==
  \E f \in File :
    IF Closing
    THEN DoGetFileClosing(f) /\ Answer(Listening(f) \cup {q})
    ELSE DoGetFile(f, q) /\ UNCHANGED answers

Continue(q, steps, over) ==
  \E o \in Outcomes(steps) :
    \/ /\ o.kind \in {"answer", "ask"}
       /\ SettleOne(q, o)
       /\ unresolved' = over
       /\ UNCHANGED <<bot_user_ids, cur_temp_bot_user_id, pending, awaiting, temp_to_real,
                      downloadVars, aborted>>
    \/ /\ o.kind \in ParsesKeyboards
       /\ \/ MarkupFails(q, over, Lists(o.kind))
          \/ o.kind = "names" /\ WithoutMarkup(q, over, o.left)
          \/ WithMarkups(q, over, o.left, Lists(o.kind))
       /\ UNCHANGED downloadVars
    \/ /\ o.kind = "download"
       /\ ListenToFile(q)
       /\ Unhold(q)
       /\ unresolved' = over
       /\ UNCHANGED <<bot_user_ids, cur_temp_bot_user_id, pending, awaiting, temp_to_real, aborted>>

(***************************************************************************)
(* on_cmd.  force: a query with big files that has slept.                  *)
(***************************************************************************)
Finish(q) ==
  /\ Answer({q})
  /\ asleep' = asleep \ {q}
  /\ UNCHANGED <<asking, aborted, nameVars, downloadVars>>

\* close may be refused because the client was started not long ago.
OnSpecial(q, m) ==
  \/ m = "close" /\ Finish(q)
  \/ /\ asking' = Put(asking, q, Do(m))
     /\ asleep' = asleep \ {q}
     /\ UNCHANGED <<answers, aborted, nameVars, downloadVars>>

FloodControl(q) ==
  \/ Finish(q)
  \/ /\ asleep' = asleep \cup {q}
     /\ unresolved' = {}
     /\ UNCHANGED <<answers, asking, aborted, downloadVars>>
     /\ UNCHANGED <<bot_user_ids, cur_temp_bot_user_id, pending, awaiting, temp_to_real>>

\* Fault: names that another query left unresolved are kept.
OnCmdKeepingNames(q, force) ==
  \/ HasTd /\ was_authorized /\ \E m \in Loads[load].calls[q] \cap Special : OnSpecial(q, m)
  \/ Closing /\ Finish(q)
  \/ /\ ~Closing /\ Handlers[load][q] # {}
     /\ \/ ~force /\ FloodControl(q)
        \/ /\ \E steps \in Handlers[load][q] : Continue(q, steps, unresolved)
           /\ asleep' = asleep \ {q}

OnCmd(q, force) ==
  \/ HasTd /\ was_authorized /\ \E m \in Loads[load].calls[q] \cap Special : OnSpecial(q, m)
  \/ Closing /\ Finish(q)
  \/ /\ ~Closing /\ Handlers[load][q] # {}
     /\ \/ ~force /\ FloodControl(q)
        \/ /\ \E steps \in Handlers[load][q] : Continue(q, steps, {})
           /\ asleep' = asleep \ {q}

(***************************************************************************)
(* The client.                                                             *)
(***************************************************************************)
\* loop
Looping == cmd_queue # <<>> /\ (was_authorized \/ Closing) /\ phase \in {"open", "closing"}

Loop ==
  /\ OnCmd(Head(cmd_queue), FALSE)
  /\ cmd_queue' = Tail(cmd_queue)
  /\ UNCHANGED <<load, was_authorized, phase, chat, received, inside>>

\* send.  The bot may have too many active queries; is_local_method exempts the special ones.
Send(q) ==
  /\ q \in DOMAIN Loads[load].calls \ received /\ phase # "stopped"
  /\ received' = received \cup {q}
  /\ inside' = IF chat \in Outside THEN inside ELSE inside \cup {q}
  /\ \/ Handlers[load][q] # {} /\ Finish(q) /\ UNCHANGED cmd_queue
     \/ (was_authorized \/ Closing) /\ OnCmd(q, FALSE) /\ UNCHANGED cmd_queue
     \/ /\ ~was_authorized /\ ~Closing
        /\ cmd_queue' = Append(cmd_queue, q)
        /\ UNCHANGED <<asleep, asking, answers, aborted, nameVars, downloadVars>>
  /\ UNCHANGED <<load, was_authorized, phase, chat>>

\* The end of a DoSendMessageSleepActor; a Client that is gone drops the query,
\* and the promise of the query answers it.
Wake(q) ==
  /\ q \in asleep
  /\ IF phase = "stopped" THEN Finish(q) ELSE OnCmd(q, TRUE)
  /\ UNCHANGED <<load, was_authorized, phase, chat, received, inside, cmd_queue>>

(***************************************************************************)
(* TDLib answers a request: the query of the callback fails or goes on.    *)
(***************************************************************************)
\* Fault: the chat that TDLib knows is not checked.
LeadsAnyway(step) == IF step.op = "chat" THEN {"fail", "next"} ELSE step.err \cup step.ok

\* Where an error or a result leads
Leads(step) ==
  IF step.op = "chat" THEN {"fail"} \cup {"next" : c \in {chat} \ Refused[step.rights]}
  ELSE step.err \cup step.ok

OnResult(q) ==
  /\ q \in DOMAIN asking
  /\ \/ /\ Leads(asking[q][1]) \cap {"fail", "answer"} # {}
        /\ Answer({q}) /\ Unhold(q)
        /\ UNCHANGED <<nameVars, downloadVars, aborted>>
     \/ "next" \in Leads(asking[q][1]) /\ Continue(q, Tail(asking[q]), unresolved)
  /\ UNCHANGED <<load, was_authorized, phase, chat, received, inside, cmd_queue, asleep>>

\* TdOnResolveBotUsernameCallback
OnNameNotFound(u) ==
  /\ awaiting[u] # <<>>
  /\ Answer(Waiting(u))
  /\ NotFound(u)
  /\ UNCHANGED <<load, was_authorized, phase, chat, received, inside, cmd_queue, asleep, asking, aborted,
                 downloadVars>>

\* CHECK(it != temp_to_real_bot_user_id_.end())
OnNameFound(u) ==
  /\ awaiting[u] # <<>>
  /\ Found(u)
  /\ \E outcome \in [Finished(u) -> UNION {Outcomes(pending[q].then) : q \in Finished(u)}] :
       /\ \A q \in Finished(u) : outcome[q] \in Outcomes(pending[q].then)
       /\ Settle(outcome)
  /\ aborted' = aborted \cup UNION {Unfixable(pending[q], temp_to_real') : q \in Finished(u)}
  /\ UNCHANGED <<load, was_authorized, phase, chat, received, inside, cmd_queue, asleep, downloadVars>>

(***************************************************************************)
(* TDLib tells of a file.                                                  *)
(***************************************************************************)
OnFile(f) ==
  /\ HasTd /\ fromTd[f] # <<>>
  /\ LET report == Head(fromTd[f])
     IN  \/ report.kind = "answer" /\ OnFileAnswer(f, report.state, Closing)
         \/ report.kind = "error" /\ OnFileError(f)
         \/ report.kind = "update" /\ OnFileUpdate(f, report.state, Closing)
  /\ fromTd' = [fromTd EXCEPT ![f] = Tail(@)]
  /\ Answer(Listening(f) \ {listeners'[f][i] : i \in DOMAIN listeners'[f]})
  /\ UNCHANGED <<load, was_authorized, phase, chat, received, inside, cmd_queue, asleep, asking, aborted,
                 nameVars>>

TdFile(f) ==
  /\ HasTd
  /\ TdRefuses(f) \/ TdCancels(f) \/ (~Closing /\ (TdDownload(f) \/ TdDownloads(f)))
  /\ UNCHANGED <<requestVars, nameVars>>

(***************************************************************************)
(* TDLib: authorization, updates about the chat, the end.                  *)
(***************************************************************************)
TdAuthorizes ==
  /\ phase = "open" /\ ~was_authorized
  /\ was_authorized' = TRUE
  /\ UNCHANGED <<load, phase, chat, received, cmd_queue, asleep, asking, answers, inside, aborted,
                 nameVars, downloadVars>>

TypeOfChat(c) == CHOOSE T \in {Private, Group, Supergroup \ Channel, Channel} : c \in T

TdChangesChat ==
  /\ HasTd
  /\ \E c \in Loads[load].chats \cap TypeOfChat(chat) :
       /\ c # chat
       /\ chat' = c
       /\ inside' = IF c \in Outside THEN inside ELSE inside \cup received
  /\ UNCHANGED <<load, was_authorized, phase, received, cmd_queue, asleep, asking, answers, aborted,
                 nameVars, downloadVars>>

\* After close, logOut, an error of the authorization, or Client::close
TdCloses ==
  /\ phase = "open"
  /\ phase' = "closing"
  /\ UNCHANGED <<load, was_authorized, chat, received, cmd_queue, asleep, asking, answers, inside, aborted,
                 nameVars, downloadVars>>

\* TDLib answers every request before it is closed.
TdIdle ==
  /\ asking = <<>>
  /\ \A u \in Username : awaiting[u] = <<>>
  /\ \A f \in File : toTd[f] = <<>> /\ fromTd[f] = <<>>

\* on_closed
OnClosed ==
  /\ phase = "closing" /\ TdIdle
  /\ phase' = "closed"
  /\ Answer({cmd_queue[i] : i \in DOMAIN cmd_queue} \cup DOMAIN pending
              \cup UNION {Listening(f) : f \in File})
  /\ cmd_queue' = <<>>
  /\ pending' = <<>>
  /\ DownloadsClosed
  /\ UNCHANGED <<load, was_authorized, chat, received, asleep, asking, inside, aborted,
                 bot_user_ids, cur_temp_bot_user_id, unresolved, awaiting, temp_to_real>>

\* finish_closing: at once, or after the timeout
Stop ==
  /\ phase = "closed"
  /\ phase' = "stopped"
  /\ UNCHANGED <<load, was_authorized, chat, received, cmd_queue, asleep, asking, answers, inside, aborted,
                 nameVars, downloadVars>>

(***************************************************************************)
(* Specification.                                                          *)
(***************************************************************************)
Terminated == (phase = "stopped" /\ asleep = {}) \/ aborted # {}

\* What is left to do for the client and for TDLib
Progress ==
  /\ aborted = {}
  /\ IF Looping THEN Loop
     ELSE \/ \E q \in Query : Wake(q) \/ OnResult(q)
          \/ \E u \in Username : OnNameNotFound(u) \/ OnNameFound(u)
          \/ \E f \in File : OnFile(f) \/ TdFile(f)
          \/ TdAuthorizes \/ OnClosed \/ Stop

\* What the clients of the server and TDLib may do or not
Environment ==
  /\ ~Looping /\ aborted = {}
  /\ (\E q \in Query : Send(q)) \/ TdChangesChat \/ TdCloses

Next == Progress \/ Environment \/ (Terminated /\ UNCHANGED vars)

Spec == Init /\ [][Next]_vars

\* Something of what is left to do is done: actors run, TDLib answers requests, downloads
\* end, sleepers wake.
FairSpec == Spec /\ WF_vars(Progress)

(***************************************************************************)
(* Properties.                                                             *)
(***************************************************************************)
\* How many parts of the client hold the query, or have answered it
Holders(q) ==
  Cardinality({i \in DOMAIN cmd_queue : cmd_queue[i] = q})
    + Cardinality({x \in {q} : x \in asleep})
    + Cardinality({x \in {q} : x \in DOMAIN asking})
    + Cardinality({x \in {q} : x \in DOMAIN pending})
    + Cardinality(UNION {{<<f, i>> : i \in {i \in DOMAIN listeners[f] : listeners[f][i] = q}} : f \in File})
    + answers[q]

\* A query is in exactly one place from its receipt to its answer, and it is answered once:
\* whichever step fails, whatever TDLib answers in which order, and whenever the client is
\* closed, no query is lost with the structure that held it, and none is answered by the
\* structure it was moved from (on_cmd, Client.cpp:13622; on_closed, Client.cpp:9933).
HeldOnce == \A q \in Query : Holders(q) = IF q \in received THEN 1 ELSE 0

\* What changes a group, a supergroup or a channel is asked of TDLib only for a query during
\* which the bot was in the chat: no handler sends such a request without check_chat with
\* the rights it takes (Client.cpp:8788), though the bot may have left in the meantime.
ActsInside ==
  \A q \in DOMAIN asking :
    asking[q][1].op = "ask" /\ asking[q][1].does \in {"write", "edit"} => q \in inside

\* No CHECK fails on names that are left unresolved or on a temporary identifier nobody
\* resolved (Client.cpp:9227, 9269).  It does fail in two cases, which are excepted: the
\* bot's own identifier is a multiple of 1000 and stands in a keyboard that also names a bot
\* to search for (Client.cpp:10380 and 9223); and the keyboard of an inline result made the
\* Client forget a name of an earlier result, while a later result names another
\* (Client.cpp:10495).
ChecksHold == aborted \subseteq {"own identifier", "cleared name"}

\* Every query is answered in the end, unless a CHECK of those excepted above ends the
\* server: again and again there is a moment when all the queries received so far have
\* their answers.
QueriesAnswered == []<>(aborted # {} \/ \A q \in received : answers[q] > 0)

=============================================================================
