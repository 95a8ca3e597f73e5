----------------------------- MODULE MCRequests -----------------------------
(***************************************************************************)
(* Instances of Requests for TLC.                                          *)
(***************************************************************************)
EXTENDS Requests

CONSTANTS NewsBot, QuizBot    \* usernames

\* A bot whose identifier is a multiple of 1000 looks unresolved for ever.
MCRealId == NewsBot :> 1234567 @@ QuizBot :> 7654000

\* The bot of the Client is the quiz bot.
MCMyId == 7654000

MCKeyboards == {<<>>, <<NewsBot>>, <<QuizBot>>, <<Own, NewsBot>>, <<NewsBot, QuizBot, NewsBot>>}

\* The second list of keyboards makes the code forget the news bot, which is resolved
\* nevertheless if the query names it again.
MCResults ==
  LET Inline(names) == [names |-> names, inline |-> TRUE]
      Remove == [names |-> <<>>, inline |-> FALSE]
  IN  {<<>>,
       <<Inline(<<NewsBot>>), Inline(<<QuizBot>>)>>,
       <<Inline(<<NewsBot>>), Remove, Inline(<<QuizBot>>)>>,
       <<Inline(<<NewsBot>>), Remove, Inline(<<NewsBot>>)>>}

\* Any method in any chat, while the client may be closed
AnyMethod == [calls |-> "q1" :> (DOMAIN Methods \cup Special), chats |-> Standing]

\* Queries that name bots, and one that looks up a message before it is sent
NamingMethods ==
  [calls |-> "q1" :> {"editMessageReplyMarkup"} @@ "q2" :> {"answerInlineQuery"}
               @@ "q3" :> {"answerInlineQuery"},
   chats |-> {"group"}]

\* Queries for the same file
Downloading == [calls |-> [q \in {"q1", "q2", "q3"} |-> {"getFile"}], chats |-> {"user"}]

\* A keyboard that is wrong in part, and a message that is copied
CopyingMethods ==
  [calls |-> "q1" :> {"editMessageReplyMarkup"} @@ "q2" :> {"copyMessage"}, chats |-> {"group"}]

LeftLoads == [copying |-> CopyingMethods]

MCLoads ==
  [any |-> AnyMethod, naming |-> NamingMethods, downloading |-> Downloading]

=============================================================================
