--------------------------- MODULE MCNewMessages ---------------------------
(* Small chats for NewMessages.                                            *)
EXTENDS NewMessages

\* The second message replies to the first.
ReplyPair == <<0, 1>>
=============================================================================
