--------------------------- MODULE AccountMethods ---------------------------
(***************************************************************************)
(* Methods about the bot itself, users, business accounts, stories, gifts, *)
(* payments, games and sticker sets: for each method the sequences of      *)
(* steps its handler may take (see RequestSteps).                          *)
(***************************************************************************)
EXTENDS RequestSteps, TLC

ProfileMethods ==
  [getMe |-> {<<>>},
   getMyCommands |->
     {Parse \o s \o Ask("getCommands", ProfileCallbacks.TdOnGetMyCommands) : s \in Scopes},
   setMyCommands |-> {Parse \o s \o Do("setCommands") : s \in Scopes},
   deleteMyCommands |-> {Parse \o s \o Do("deleteCommands") : s \in Scopes},
   getMyDefaultAdministratorRights |->
     {Ask("getUserFullInfo", ProfileCallbacks.TdOnGetMyDefaultAdministratorRights)},
   setMyDefaultAdministratorRights |-> {Parse \o Do("setDefaultAdministratorRights")},
   getMyName |-> {Ask("getBotName", ProfileCallbacks.TdOnGetMyName)},
   getMyDescription |-> {Ask("getBotInfoDescription", ProfileCallbacks.TdOnGetMyDescription)},
   getMyShortDescription |->
     {Ask("getBotInfoShortDescription", ProfileCallbacks.TdOnGetMyShortDescription)},
   setMyProfilePhoto |-> {Parse \o Do("setProfilePhoto")},
   removeMyProfilePhoto |-> {Do("deleteProfilePhoto")}] @@
  [m \in {"setMyName", "setMyDescription", "setMyShortDescription"} |-> {Do("setBotInfo")}]

UserMethods ==
  [getChatMenuButton |->
     {u \o Ask("getMenuButton", ChatCallbacks.TdOnGetMenuButton) : u \in {<<>>, Parse \o User}},
   setChatMenuButton |-> {Parse \o u \o Do("setMenuButton") : u \in {<<>>, User}},
   getUserProfilePhotos |->
     {Parse \o User \o Ask("getUserProfilePhotos", PhotoCallbacks.TdOnGetUserProfilePhotos)},
   getUserProfileAudios |->
     {Parse \o User \o Ask("getUserProfileAudios", PhotoCallbacks.TdOnGetUserProfileAudios)}]

StoryMethods ==
  [postStory |-> {Parse \o Business \o Ask("postStory", EditCallbacks.TdOnPostStory)},
   repostStory |-> {Parse \o Business \o OtherChat \o Ask("postStory", EditCallbacks.TdOnRepostStory)},
   editStory |-> {Parse \o Business \o Ask("editBusinessStory", EditCallbacks.TdOnGetStory)},
   deleteStory |-> {Business \o Do("deleteBusinessStory")}]

StarMethods ==
  [createInvoiceLink |->
     {Parse \o b \o Ask("createInvoiceLink", LinkCallbacks.TdOnCreateInvoiceLink) :
        b \in {<<>>, Business}},
   getMyStarBalance |-> {Ask("getStarTransactions", StarCallbacks.TdOnGetMyStarBalance)},
   getStarTransactions |->
     {Ask("getStarTransactions", StarCallbacks.TdOnGetStarTransactions) \o StickerSetNames},
   refundStarPayment |-> {Parse \o UserNoFail \o Do("refundStarPayment")},
   editUserStarSubscription |-> {Parse \o UserNoFail \o Do("editUserStarSubscription")}]

GiftMethods ==
  [getAvailableGifts |-> {Ask("getAvailableGifts", StickerCallbacks.TdOnGetGifts) \o StickerSetNames},
   sendGift |-> {Parse \o receiver \o Do("sendGift") : receiver \in {Chat("Read"), User}},
   giftPremiumSubscription |-> {Parse \o User \o Do("giftPremiumWithStars")}]

ManagedBotMethods ==
  [m \in {"getManagedBotToken", "replaceManagedBotToken"} |->
     {Parse \o User \o Ask("getManagedBotToken", LinkCallbacks.TdOnGetBotToken)}] @@
  [getManagedBotAccessSettings |->
     {Parse \o User \o Ask("getManagedBotAccessSettings", LinkCallbacks.TdOnGetBotAccessSettings)},
   setManagedBotAccessSettings |-> {Parse \o User \o Do("setManagedBotAccessSettings")}]

VerificationMethods ==
  [verifyUser |-> {Parse \o User \o Do("setMessageSenderBotVerification")},
   verifyChat |-> {Chat("Read") \o Do("setMessageSenderBotVerification")},
   removeUserVerification |-> {Parse \o UserNoFail \o Do("removeMessageSenderBotVerification")},
   removeChatVerification |-> {ChatNoFail \o Do("removeMessageSenderBotVerification")}]

\* A game is sent in a chat or through the inline mode.
GameMethods ==
  [setGameScore |->
     {Parse \o UserNoFail \o Ask("setInlineGameScore", EditCallbacks.TdOnEditInlineMessage),
      Parse \o Message("Edit") \o UserNoFail \o Ask("setGameScore", EditCallbacks.TdOnEditMessage)},
   getGameHighScores |->
     {Parse \o UserNoFail \o Ask("getInlineGameHighScores", InlineCallbacks.TdOnGetGameHighScores),
      Parse \o Message("Read") \o UserNoFail
        \o Ask("getGameHighScores", InlineCallbacks.TdOnGetGameHighScores)}]

AnswerMethods ==
  [m \in {"answerChatJoinRequestQuery", "sendChatJoinRequestWebApp"} |->
     {Parse \o Do("answerChatJoinRequestQuery")}] @@
  [savePreparedKeyboardButton |->
     {Parse \o Ask("savePreparedKeyboardButton", InlineCallbacks.TdOnSavePreparedKeyboardButton)},
   answerCallbackQuery |-> {Do("answerCallbackQuery")},
   answerShippingQuery |-> {Parse \o Do("answerShippingQuery")},
   answerPreCheckoutQuery |-> {Parse \o Do("answerPreCheckoutQuery")}]

BusinessMethods ==
  [getBusinessConnection |-> {Business},
   readBusinessMessage |-> {Business \o Do("readBusinessMessage")},
   deleteBusinessMessages |-> {Parse \o Business \o Do("deleteBusinessMessages")},
   setBusinessAccountName |-> {Parse \o Business \o Do("setBusinessAccountName")},
   setBusinessAccountUsername |-> {Business \o Do("setBusinessAccountUsername")},
   setBusinessAccountBio |-> {Business \o Do("setBusinessAccountBio")},
   setBusinessAccountProfilePhoto |-> {Parse \o Business \o Do("setBusinessAccountProfilePhoto")},
   removeBusinessAccountProfilePhoto |-> {Business \o Do("setBusinessAccountProfilePhoto")},
   setBusinessAccountGiftSettings |-> {Parse \o Business \o Do("setBusinessAccountGiftSettings")},
   getBusinessAccountStarBalance |->
     {Business \o Ask("getBusinessAccountStarAmount", StarCallbacks.TdOnGetStarAmount)},
   transferBusinessAccountStars |-> {Business \o Do("transferBusinessAccountStars")}]

LOCAL Received == Ask("getReceivedGifts", StarCallbacks.TdOnGetReceivedGifts) \o StickerSetNames

OwnedGiftMethods ==
  [getBusinessAccountGifts |-> {Business \o Received},
   getUserGifts |-> {Parse \o User \o Received},
   getChatGifts |-> {Chat("Read") \o Received},
   convertGiftToStars |-> {Business \o Do("sellGift")},
   upgradeGift |-> {Business \o Ask("upgradeGift", LinkCallbacks.TdOnUpgradeGift)},
   transferGift |-> {Business \o Do("transferGift")},
   setUserEmojiStatus |-> {Parse \o User \o Do("setUserEmojiStatus")}]

LOCAL SetAnswer == StickerCallbacks.TdOnReturnStickerSet

StickerSetMethods ==
  [getStickerSet |-> {Ask("searchStickerSet", SetAnswer)},
   getCustomEmojiStickers |->
     {Parse \o Ask("getCustomEmojiStickers", StickerCallbacks.TdOnGetStickers) \o StickerSetNames},
   uploadStickerFile |-> {Parse \o User \o Ask("uploadStickerFile", StickerCallbacks.TdOnReturnFile)},
   createNewStickerSet |-> {Parse \o User \o Ask("createNewStickerSet", SetAnswer)},
   addStickerToSet |-> {Parse \o User \o Do("addStickerToSet")},
   replaceStickerInSet |-> {Parse \o User \o Do("replaceStickerInSet")},
   setStickerSetTitle |-> {Do("setStickerSetTitle")},
   setStickerSetThumbnail |-> {Parse \o User \o Do("setStickerSetThumbnail")}]

StickerMethods ==
  [setCustomEmojiStickerSetThumbnail |-> {Do("setCustomEmojiStickerSetThumbnail")},
   deleteStickerSet |-> {Do("deleteStickerSet")},
   setStickerPositionInSet |-> {Parse \o Do("setStickerPositionInSet")},
   deleteStickerFromSet |-> {Parse \o Do("removeStickerFromSet")},
   setStickerEmojiList |-> {Parse \o Do("setStickerEmojis")},
   setStickerKeywords |-> {Parse \o Do("setStickerKeywords")},
   setStickerMaskPosition |-> {Parse \o Do("setStickerMaskPosition")},
   setPassportDataErrors |-> {Parse \o User \o Do("setPassportElementErrors")},
   sendCustomRequest |-> {Parse \o Ask("sendCustomRequest", StickerCallbacks.TdOnSendCustomRequest)},
   answerCustomQuery |-> {Do("answerCustomQuery")}]

FileMethods == [getFile |-> {RemoteFile \o Download}]

AccountTable ==
  ProfileMethods @@ UserMethods @@ StoryMethods @@ StarMethods @@ GiftMethods @@ ManagedBotMethods @@
  VerificationMethods @@ GameMethods @@ AnswerMethods @@ BusinessMethods @@ OwnedGiftMethods @@
  StickerSetMethods @@ StickerMethods @@ FileMethods

=============================================================================
