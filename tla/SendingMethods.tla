--------------------------- MODULE SendingMethods ---------------------------
(***************************************************************************)
(* Methods that send or edit messages: for each method the sequences of    *)
(* steps its handler may take (see RequestSteps).  The wait for the sent   *)
(* messages themselves is the subject of SendMessage.                      *)
(***************************************************************************)
EXTENDS RequestSteps, TLC

\* The flood limit may fail the query just before the request.
Limited(f, cb) == Request(f, cb, FALSE, TRUE)

\* do_send_message after its arguments are parsed
DoSendMessage ==
  {Names \o Business \o Ask("sendBusinessMessage", MessageCallbacks.TdOnReturnBusinessMessage)} \cup
  {Names \o r \o Limited(f, MessageCallbacks.TdOnSendMessage) :
     r \in Replies("Write") \cup Replies("Broadcast"), f \in {"sendMessage", "sendEphemeralMessage"}}

Sends == {Parse \o s : s \in DoSendMessage}

ContentMethods ==
  [m \in {"sendMessage", "sendRichMessage", "sendAnimation", "sendAudio", "sendDice", "sendDocument",
          "sendPhoto", "sendLivePhoto", "sendSticker"} |-> Sends]

MediaMethods ==
  [m \in {"sendVideo", "sendVideoNote", "sendVoice", "sendPaidMedia", "sendGame", "sendInvoice",
          "sendLocation", "sendVenue", "sendContact"} |-> Sends]

PollMethods ==
  [m \in {"sendPoll", "sendChecklist"} |-> Sends] @@
  [stopPoll |->
     {Names \o Business \o Ask("stopBusinessPoll", EditCallbacks.TdOnStopBusinessPoll),
      Names \o Message("Edit") \o Ask("stopPoll", EditCallbacks.TdOnStopPoll)}]

\* The message is looked up first; do_send_message parses its arguments after that.
Copies ==
  {Parse \o OtherChat \o Request("getMessage", Answers, FALSE, TRUE) \o s : s \in Sends}

\* A whole batch; messages that are missing are left out.
Batches ==
  {Parse \o t \o OtherChat \o Request("getMessages", Ignores, FALSE, TRUE)
     \o Limited("forwardMessages", MessageCallbacks.TdOnForwardMessages) : t \in Topics("Write")}

CopyMethods ==
  [m \in {"copyMessage", "forwardMessage"} |-> Copies] @@
  [m \in {"copyMessages", "forwardMessages"} |-> Batches]

AlbumMethods ==
  [sendMediaGroup |->
     {Parse \o Business
        \o Ask("sendBusinessMessageAlbum", MessageCallbacks.TdOnSendBusinessMessageAlbum)} \cup
     {Parse \o r \o Limited("sendMessageAlbum", MessageCallbacks.TdOnSendMessageAlbum) :
        r \in Replies("Write") \cup Replies("Broadcast")}]

ActionMethods ==
  [sendChatAction |->
     {Parse \o Business \o Do("sendChatAction"), Parse \o Chat("Write") \o Do("sendChatAction")},
   sendMessageDraft |-> {Parse \o Chat("Write") \o Do("sendTextMessageDraft")},
   sendRichMessageDraft |-> {Parse \o Chat("Write") \o Do("sendRichMessageDraft")},
   setMessageReaction |-> {Parse \o Message("Read") \o Do("setMessageReactions")}]

\* An inline message, a message of a business account, a message of a chat
InlineEdit(f) == Parse \o Names \o Ask(f, EditCallbacks.TdOnEditInlineMessage)
BusinessEdit(f) == Parse \o Names \o Business \o Ask(f, MessageCallbacks.TdOnReturnBusinessMessage)
ChatEdit(f) == Parse \o Names \o Message("Edit") \o Ask(f, EditCallbacks.TdOnEditMessage)

TextEditMethods ==
  [editMessageText |->
     {InlineEdit("editInlineMessageText"), BusinessEdit("editBusinessMessageText"),
      ChatEdit("editMessageText")}] @@
  [m \in {"editMessageLiveLocation", "stopMessageLiveLocation"} |->
     {InlineEdit("editInlineMessageLiveLocation"), BusinessEdit("editBusinessMessageLiveLocation"),
      ChatEdit("editMessageLiveLocation")}]

MediaEditMethods ==
  [editMessageMedia |->
     {InlineEdit("editInlineMessageMedia"), BusinessEdit("editBusinessMessageMedia"),
      ChatEdit("editMessageMedia")},
   editMessageCaption |->
     {InlineEdit("editInlineMessageCaption"), BusinessEdit("editBusinessMessageCaption"),
      ChatEdit("editMessageCaption")}]

MarkupEditMethods ==
  [editMessageChecklist |->
     {BusinessEdit("editBusinessMessageChecklist"), ChatEdit("editMessageChecklist")},
   editMessageReplyMarkup |->
     {InlineEdit("editInlineMessageReplyMarkup"), BusinessEdit("editBusinessMessageReplyMarkup"),
      ChatEdit("editMessageReplyMarkup")}]

\* do_edit_ephemeral_message
EphemeralEditMethods ==
  [m \in {"editEphemeralMessageText", "editEphemeralMessageMedia", "editEphemeralMessageCaption",
          "editEphemeralMessageReplyMarkup"} |->
     {Parse \o Names \o Chat("Edit") \o Do("editEphemeralMessage")}]

DeletionMethods ==
  [deleteMessage |-> {Message("Write") \o Do("deleteMessages")},
   deleteMessages |-> {Parse \o Messages("Write") \o Do("deleteMessages")},
   deleteEphemeralMessage |-> {Parse \o Chat("Read") \o Do("deleteEphemeralMessage")},
   deleteMessageReaction |->
     {Parse \o Message("Write") \o sender \o Do("deleteMessageReactionsFromSender") :
        sender \in {UserNoFail, ChatNoFail}},
   deleteAllMessageReactions |->
     {Parse \o Chat("Write") \o sender \o Do("deleteAllRecentMessageReactionsFromSender") :
        sender \in {UserNoFail, ChatNoFail}}]

\* Results of inline queries may have keyboards, too: answerInlineQuery brings a list of them,
\* the other methods a single one.
InlineResultMethods ==
  [answerWebAppQuery |-> {Parse \o Names \o Ask("answerWebAppQuery", InlineCallbacks.TdOnAnswerWebAppQuery)},
   answerGuestQuery |-> {Parse \o Names \o Ask("answerGuestQuery", InlineCallbacks.TdOnAnswerWebAppQuery)},
   answerInlineQuery |-> {Parse \o ResultNames \o Do("answerInlineQuery")},
   savePreparedInlineMessage |->
     {Parse \o Names
        \o Ask("savePreparedInlineMessage", InlineCallbacks.TdOnSavePreparedInlineMessage)}]

SendingTable ==
  ContentMethods @@ MediaMethods @@ PollMethods @@ CopyMethods @@ AlbumMethods @@ ActionMethods @@
  TextEditMethods @@ MediaEditMethods @@ MarkupEditMethods @@ EphemeralEditMethods @@
  DeletionMethods @@ InlineResultMethods

=============================================================================
