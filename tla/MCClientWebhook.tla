--------------------------- MODULE MCClientWebhook ---------------------------
(* Instances of ClientWebhook for TLC.                                     *)
EXTENDS ClientWebhook, TLC

CONSTANTS A, B, Plain, Fancy

SetWebhook(url, settings, cert) ==
  [kind |-> "setwebhook", url |-> url, cert |-> cert, settings |-> settings,
   valid |-> TRUE, allowed |-> FALSE, drop |-> FALSE, wait |-> FALSE,
   internal |-> FALSE]

SetA       == SetWebhook(A, Plain, "none")
SetAFancy  == SetWebhook(A, Fancy, "none")
SetBCert   == SetWebhook(B, Plain, "new")
SetInvalid == [SetA EXCEPT !.valid = FALSE]
Delete     == SetWebhook(NoUrl, NoSettings, "none")
DeleteDrop == [Delete EXCEPT !.drop = TRUE, !.allowed = TRUE]
Get        == [Delete EXCEPT !.kind = "getupdates"]
GetWait    == [Get EXCEPT !.wait = TRUE]
CloseBot   == [Delete EXCEPT !.kind = "close"]
LogOut     == [Delete EXCEPT !.kind = "logout"]

\* Every form of the queries
Everything == {SetA, SetAFancy, SetBCert, SetInvalid, Delete, DeleteDrop, Get,
               GetWait, CloseBot, LogOut}

\* Enough to stop a Client with a webhook, or during a setWebhook
Closable == {SetA, Delete, CloseBot}
Copying  == {SetBCert}

Symmetry == Permutations(Query)
=============================================================================
