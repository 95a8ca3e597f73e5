---------------------------- MODULE RequestSteps ----------------------------
(***************************************************************************)
(* The steps that the handlers of Bot API methods                          *)
(* (Client::process_*_query in telegram-bot-api/Client.cpp) are made of.   *)
(*                                                                         *)
(* A handler parses the arguments and then hands the query from one        *)
(* check_* function to the next, each of which may go on at once, fail the *)
(* query, or send a request to TDLib and go on when the answer comes.  The *)
(* last request's callback answers the query.  A handler is written down   *)
(* as the sequence of its steps, a method as the set of the sequences its  *)
(* arguments may select; the modules *Methods are these tables, and        *)
(* Requests says what a step does.                                         *)
(*                                                                         *)
(* A step is one of                                                        *)
(*   parse     arguments that may be wrong                                 *)
(*   names     usernames of bots in the keyboard, see BotNames             *)
(*   results   the same in the keyboards of a list of inline results       *)
(*   chat      check_chat for the chat the query addresses                 *)
(*   test      a condition on that chat which the handler tests            *)
(*   ask       a request to TDLib, or an object of a cache instead of it   *)
(*   download  the file of the query, see Downloads                        *)
(***************************************************************************)
EXTENDS Sequences

(***************************************************************************)
(* What the bot knows of a chat: its type and the bot's standing in it.    *)
(***************************************************************************)
Private == {"user", "deleted user", "unknown user"}
Group == {"group", "group left", "group kicked", "group gone"}
Channel == {"channel", "channel left"}
Supergroup == {"supergroup", "supergroup left", "public left", "banned"} \cup Channel
Standing == Private \cup Group \cup Supergroup

\* get_chat_type: a channel is not a supergroup there.
Groups == (Group \cup Supergroup) \ Channel

\* is_chat_member and the flags of a group: the bot is out of the chat.
Outside == {"group left", "group kicked", "supergroup left", "public left", "banned", "channel left"}

\* have_message_access: messages of a supergroup are for its members only.
HasMessages == Standing \ (Supergroup \cap Outside)

\* check_chat_access: where the bot has no access of the given kind.
Refused ==
  LET Read == {"unknown user", "supergroup left", "banned", "channel left"}
      Edit == Outside \cup {"deleted user", "unknown user"}
      Write == Edit \cup {"group gone"}
  IN  [Read |-> Read,
       ReadMembers |-> Read \cup (Write \cap Group),
       Edit |-> Edit,
       Write |-> Write,
       Broadcast |-> Write \ Private]

(***************************************************************************)
(* TDLib functions by what they do to the addressed chat.                  *)
(***************************************************************************)
EditsMessage ==
  {"editMessageText", "editMessageLiveLocation", "editMessageMedia", "editMessageCaption",
   "editMessageChecklist", "editMessageReplyMarkup", "editEphemeralMessage", "stopPoll",
   "setGameScore"}

ChangesChat ==
  {"sendMessage", "sendEphemeralMessage", "sendMessageAlbum", "forwardMessages",
   "sendTextMessageDraft", "sendRichMessageDraft",
   "deleteMessages", "deleteMessageReactionsFromSender", "deleteAllRecentMessageReactionsFromSender",
   "replacePrimaryChatInviteLink", "createChatInviteLink", "createChatSubscriptionInviteLink",
   "editChatInviteLink", "editChatSubscriptionInviteLink", "revokeChatInviteLink",
   "setChatPhoto", "setChatTitle", "setChatPermissions", "setChatDescription",
   "pinChatMessage", "unpinChatMessage", "unpinAllChatMessages",
   "approveSuggestedPost", "declineSuggestedPost", "setSupergroupStickerSet",
   "createForumTopic", "editForumTopic", "toggleForumTopicIsClosed",
   "toggleGeneralForumTopicIsHidden", "deleteForumTopic", "unpinAllForumTopicMessages",
   "setChatMemberStatus", "setChatMemberTag", "banChatMember", "processChatJoinRequest"}

Does(f) == IF f \in ChangesChat THEN "write" ELSE IF f \in EditsMessage THEN "edit" ELSE "other"

(***************************************************************************)
(* Callbacks: where an error and where a result of TDLib may lead.         *)
(***************************************************************************)
\* The query fails with the error, and is answered with the result.
Answers == [err |-> {"fail"}, ok |-> {"next"}]

\* The same, but what is in the result may still fail the query.
Verifies == [err |-> {"fail"}, ok |-> {"next", "fail"}]

\* An error does not stop the query.
Ignores == [err |-> {"next"}, ok |-> {"next"}]

\* Only special errors (is_special_error_code) stop the query.
Tolerates == [err |-> {"fail", "next"}, ok |-> {"next"}]

TdOnOkQueryCallback == Answers

MessageCallbacks ==
  [TdOnSendMessage |-> Answers, TdOnReturnBusinessMessage |-> Answers,
   TdOnSendMessageAlbum |-> Answers, TdOnSendBusinessMessageAlbum |-> Answers,
   TdOnForwardMessages |-> Verifies]

EditCallbacks ==
  [TdOnEditMessage |-> Verifies, TdOnEditInlineMessage |-> Answers,
   TdOnStopPoll |-> Verifies, TdOnStopBusinessPoll |-> Verifies,
   TdOnPostStory |-> Answers, TdOnRepostStory |-> Answers, TdOnGetStory |-> Answers]

ProfileCallbacks ==
  [TdOnGetMyCommands |-> Answers, TdOnGetMyDefaultAdministratorRights |-> Verifies,
   TdOnGetMyName |-> Answers, TdOnGetMyDescription |-> Answers, TdOnGetMyShortDescription |-> Answers]

PhotoCallbacks == [TdOnGetUserProfilePhotos |-> Answers, TdOnGetUserProfileAudios |-> Answers]

ChatCallbacks ==
  [TdOnGetForumTopicInfo |-> Answers, TdOnGetMessages |-> Answers, TdOnGetMenuButton |-> Answers,
   TdOnGetChatFullInfo |-> Answers, TdOnGetGroupMembers |-> Answers,
   TdOnGetSupergroupMembers |-> Answers]

LinkCallbacks ==
  [TdOnGetSupergroupMemberCount |-> Answers, TdOnGetBotToken |-> Answers,
   TdOnGetBotAccessSettings |-> Answers, TdOnCreateInvoiceLink |-> Answers,
   TdOnReplacePrimaryChatInviteLink |-> Answers, TdOnGetChatInviteLink |-> Answers,
   TdOnUpgradeGift |-> Answers]

StarCallbacks ==
  [TdOnGetStarAmount |-> Answers, TdOnGetReceivedGifts |-> Answers,
   TdOnGetMyStarBalance |-> Answers, TdOnGetStarTransactions |-> Answers]

InlineCallbacks ==
  [TdOnGetGameHighScores |-> Answers, TdOnAnswerWebAppQuery |-> Answers,
   TdOnSavePreparedInlineMessage |-> Answers,
   TdOnSavePreparedKeyboardButton |-> Answers,
   TdOnGetUserChatBoosts |-> Answers]

StickerCallbacks ==
  [TdOnGetGifts |-> Answers, TdOnReturnFile |-> Answers, TdOnReturnStickerSet |-> Answers,
   TdOnGetStickers |-> Answers, TdOnSendCustomRequest |-> Answers]

(***************************************************************************)
(* Steps.                                                                  *)
(***************************************************************************)
\* TRY_RESULT and the other early returns of a handler
Parse == <<[op |-> "parse"]>>

\* The keyboard of the query, or of its only inline result, and the arguments after it, all
\* of which may be wrong; then resolve_reply_markup_bot_usernames or
\* resolve_inline_query_results_bot_usernames
Names == <<[op |-> "names"]>>

\* get_inline_query_results: a list of results, any of which may be wrong and have a keyboard;
\* then resolve_inline_query_results_bot_usernames
ResultNames == <<[op |-> "results"]>>

\* A request whose callback is cb.  cached: an object of a cache may do instead;
\* refuse: the query may fail before the request is sent.
Request(f, cb, cached, refuse) ==
  <<[op |-> "ask", err |-> cb.err, ok |-> cb.ok, cached |-> cached, refuse |-> refuse, does |-> Does(f)]>>

\* send_request
Ask(f, cb) == Request(f, cb, FALSE, FALSE)

\* send_request with a TdOnOkQueryCallback
Do(f) == Ask(f, TdOnOkQueryCallback)

\* check_user
User == Request("getUser", Answers, TRUE, FALSE)

\* check_user_no_fail
UserNoFail == Request("getUser", Ignores, TRUE, FALSE)

\* check_chat_no_fail: the identifier of the chat may be wrong
ChatNoFail == Request("getChat", Ignores, TRUE, TRUE)

\* check_chat for another chat than the one the query is about
OtherChat == Request("getChat", Verifies, TRUE, TRUE)

\* check_chat for the chat the query is about
Chat(rights) == <<[op |-> "chat", rights |-> rights]>>

\* The handler goes on in chats of the given standings and fails the query in others.
Only(standings) == <<[op |-> "test", passes |-> standings, otherwise |-> "fail"]>>

\* The handler goes on in chats of the given standings and answers in others.
AnswerUnless(standings) == <<[op |-> "test", passes |-> standings, otherwise |-> "answer"]>>

\* have_message_access
MessageAccess == Only(HasMessages)

\* check_message: getMessage, with the chat and the identifier checked first
Message(rights) == Chat(rights) \o MessageAccess \o Request("getMessage", Answers, FALSE, TRUE)

\* check_messages with allow_empty: messages may be missing, and errors are ignored
Messages(rights) == Chat(rights) \o MessageAccess \o Ask("getMessages", Ignores)

\* get_chat_member
Member == UserNoFail \o Ask("getChatMember", Answers)

\* check_business_connection and check_business_connection_chat_id: the
\* identifier of the chat may be wrong
Business == Request("getBusinessConnection", Answers, TRUE, TRUE)

\* resolve_sticker_set: the name may be empty
StickerSet == Request("searchStickerSet", Answers, FALSE, TRUE)

\* check_remote_file_id: the identifier may be empty
RemoteFile == Request("getRemoteFile", Answers, FALSE, TRUE)

\* get_sticker_set_names: sets whose names are not known are asked for; errors are ignored.
StickerSetNames == Request("getStickerSetName", Ignores, TRUE, FALSE)

\* check_bot_command_scope: no chat, a chat, or a member of a chat
Scopes == {<<>>, Chat("ReadMembers"), Chat("ReadMembers") \o UserNoFail}

\* check_message_topic: there may be a topic to look up, and with it the message
\* that began it, which need not be found
Topics(rights) ==
  {Chat(rights),
   Chat(rights) \o Request("getForumTopic", Answers, TRUE, TRUE) \o Request("getMessage", Ignores, TRUE, FALSE)}

\* check_reply_parameters: no reply; a reply to a message of the chat, or of another
\* chat.  A missing message may be ignored (allow_sending_without_reply).
Replies(rights) ==
  LET reply == Request("getMessage", Tolerates, FALSE, TRUE)
  IN  {t \o r : t \in Topics(rights), r \in {<<>>, MessageAccess \o reply, OtherChat \o reply}}

\* do_get_file
Download == <<[op |-> "download"]>>

=============================================================================
