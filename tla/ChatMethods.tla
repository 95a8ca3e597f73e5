----------------------------- MODULE ChatMethods -----------------------------
(***************************************************************************)
(* Methods about a chat, its members, its topics and its invite links: for *)
(* each method the sequences of steps its handler may take (see            *)
(* RequestSteps).                                                          *)
(***************************************************************************)
EXTENDS RequestSteps, TLC

LOCAL LinkAnswer == LinkCallbacks.TdOnGetChatInviteLink

LinkMethods ==
  [exportChatInviteLink |->
     {Chat("Write")
        \o Ask("replacePrimaryChatInviteLink", LinkCallbacks.TdOnReplacePrimaryChatInviteLink)},
   createChatInviteLink |-> {Chat("Write") \o Ask("createChatInviteLink", LinkAnswer)},
   createChatSubscriptionInviteLink |->
     {Chat("Write") \o Ask("createChatSubscriptionInviteLink", LinkAnswer)},
   editChatInviteLink |-> {Chat("Write") \o Ask("editChatInviteLink", LinkAnswer)},
   editChatSubscriptionInviteLink |->
     {Chat("Write") \o Ask("editChatSubscriptionInviteLink", LinkAnswer)},
   revokeChatInviteLink |-> {Chat("Write") \o Ask("revokeChatInviteLink", LinkAnswer)}]

\* The pinned message of the chat is asked for when its full information is there.
GetChat ==
  Chat("Read") \o Ask("getFullInfo", ChatCallbacks.TdOnGetChatFullInfo)
    \o Ask("getChatPinnedMessage", Tolerates) \o StickerSetNames

ChatInfoMethods ==
  [getChat |-> {GetChat},
   getUserPersonalChatMessages |->
     {Parse \o User \o Ask("getPersonalChatHistory", ChatCallbacks.TdOnGetMessages)},
   setChatPhoto |-> {Parse \o Chat("Write") \o Do("setChatPhoto")},
   deleteChatPhoto |-> {Chat("Write") \o Do("setChatPhoto")},
   setChatTitle |-> {Chat("Write") \o Do("setChatTitle")},
   setChatPermissions |-> {Parse \o Chat("Write") \o Do("setChatPermissions")},
   setChatDescription |-> {Chat("Write") \o Do("setChatDescription")}]

PinMethods ==
  [pinChatMessage |->
     {Business \o Do("setBusinessMessageIsPinned"), Message("Write") \o Do("pinChatMessage")},
   unpinChatMessage |->
     {Business \o Do("setBusinessMessageIsPinned"),
      Chat("Write") \o Ask("getChatPinnedMessage", Answers) \o Do("unpinChatMessage"),
      Message("Write") \o Do("unpinChatMessage")},
   unpinAllChatMessages |-> {Chat("Write") \o Do("unpinAllChatMessages")},
   approveSuggestedPost |-> {Message("Write") \o Do("approveSuggestedPost")},
   declineSuggestedPost |-> {Message("Write") \o Do("declineSuggestedPost")}]

ChatStickerSetMethods ==
  [setChatStickerSet |->
     {Chat("Write") \o Only(Groups \cap Supergroup) \o StickerSet \o Do("setSupergroupStickerSet")},
   deleteChatStickerSet |->
     {Chat("Write") \o Only(Groups \cap Supergroup) \o Do("setSupergroupStickerSet")}]

TopicMethods ==
  [getForumTopicIconStickers |->
     {Ask("getForumTopicDefaultIcons", StickerCallbacks.TdOnGetStickers) \o StickerSetNames},
   createForumTopic |->
     {Chat("Write") \o Ask("createForumTopic", ChatCallbacks.TdOnGetForumTopicInfo)},
   editForumTopic |-> {Chat("Write") \o Do("editForumTopic")},
   closeForumTopic |-> {Chat("Write") \o Do("toggleForumTopicIsClosed")},
   reopenForumTopic |-> {Chat("Write") \o Do("toggleForumTopicIsClosed")},
   deleteForumTopic |-> {Chat("Write") \o Do("deleteForumTopic")},
   unpinAllForumTopicMessages |-> {Chat("Write") \o Do("unpinAllForumTopicMessages")}]

GeneralTopicMethods ==
  [editGeneralForumTopic |-> {Chat("Write") \o Do("editForumTopic")},
   unpinAllGeneralForumTopicMessages |-> {Chat("Write") \o Do("unpinAllForumTopicMessages")}] @@
  [m \in {"closeGeneralForumTopic", "reopenGeneralForumTopic"} |->
     {Chat("Write") \o Do("toggleForumTopicIsClosed")}] @@
  [m \in {"hideGeneralForumTopic", "unhideGeneralForumTopic"} |->
     {Chat("Write") \o Do("toggleGeneralForumTopicIsHidden")}]

\* The bot may always ask for itself.
MemberInfoMethods ==
  [getChatMember |-> {Parse \o Chat(rights) \o Member : rights \in {"Read", "ReadMembers"}},
   getChatAdministrators |->
     {Chat("ReadMembers") \o Only(Group) \o Ask("getBasicGroupFullInfo", ChatCallbacks.TdOnGetGroupMembers),
      Chat("ReadMembers") \o Only(Supergroup)
        \o Ask("getSupergroupMembers", ChatCallbacks.TdOnGetSupergroupMembers)},
   getChatMemberCount |->
     {Chat("ReadMembers") \o AnswerUnless(Supergroup)
        \o Ask("getSupergroupFullInfo", LinkCallbacks.TdOnGetSupergroupMemberCount)},
   getUserChatBoosts |->
     {Parse \o Chat("Write") \o UserNoFail
        \o Ask("getUserChatBoosts", InlineCallbacks.TdOnGetUserChatBoosts)},
   leaveChat |-> {Chat("Read") \o Do("leaveChat")}]

PromotionMethods ==
  [promoteChatMember |->
     {Parse \o Chat("Write") \o Only(Supergroup) \o Do("setChatMemberStatus")},
   setChatAdministratorCustomTitle |->
     {Parse \o Chat("Write") \o Only(Groups) \o UserNoFail \o Ask("getChatMember", Verifies)
        \o Do("setChatMemberTag")},
   setChatMemberTag |->
     {Parse \o Chat("Write") \o Only(Groups) \o UserNoFail \o Do("setChatMemberTag")}]

\* A member who is not banned need not be unbanned (only_if_banned).
IfBanned == Ask("getChatMember", [err |-> {"fail"}, ok |-> {"next", "answer"}])

RestrictionMethods ==
  [banChatMember |-> {Parse \o Chat("Write") \o UserNoFail \o Do("banChatMember")},
   restrictChatMember |->
     {Parse \o Chat("Write") \o Only(Groups \cap Supergroup) \o Member \o Do("setChatMemberStatus")},
   unbanChatMember |->
     {Parse \o Chat("Write") \o Only(Supergroup) \o UserNoFail \o banned \o Do("setChatMemberStatus") :
        banned \in {<<>>, IfBanned}}]

SenderMethods ==
  [banChatSenderChat |-> {Chat("Write") \o ChatNoFail \o Do("banChatMember")},
   unbanChatSenderChat |-> {Chat("Write") \o ChatNoFail \o Do("setChatMemberStatus")}] @@
  [m \in {"approveChatJoinRequest", "declineChatJoinRequest"} |->
     {Parse \o Chat("Write") \o UserNoFail \o Do("processChatJoinRequest")}]

ChatTable ==
  LinkMethods @@ ChatInfoMethods @@ PinMethods @@ ChatStickerSetMethods @@ TopicMethods @@
  GeneralTopicMethods @@ MemberInfoMethods @@ PromotionMethods @@ RestrictionMethods @@ SenderMethods

=============================================================================
