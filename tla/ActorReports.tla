---------------------------- MODULE ActorReports ----------------------------
(***************************************************************************)
(* What a Client may rely on when it owns a WebhookActor: the actor sends  *)
(* no update before it told the Client that the webhook is verified, none  *)
(* after it told that it is closed, reports its end at most once and as    *)
(* its last word, and does not end silently: it reports its end before, or *)
(* the Client dropped it.                                                  *)
(*                                                                         *)
(* WebhookActor implements this specification; ClientWebhook relies on it  *)
(* (ActorVerified, ActorClosed, OneActor).                                 *)
(***************************************************************************)

VARIABLES
  works,      \* there is an actor
  heard,      \* the Client still hears it
  told,       \* what the last actor told its Client, or "dropped"
  sending     \* updates that are being sent to the webhook

reportVars == <<works, heard, told, sending>>

NoActorYet ==
  /\ ~works /\ ~heard
  /\ told = {}
  /\ sending = {}

Started ==
  /\ ~works
  /\ works' /\ heard'
  /\ told' = {}
  /\ sending' = {}

\* The actor works on: it may verify the webhook, once or again, and sends
\* nothing to a webhook that is not verified.
Works ==
  /\ works /\ heard
  /\ works' /\ heard'
  /\ told' \in {told, told \cup {"verified"}}
  /\ sending' # {} => "verified" \in told'

\* It reports its end, maybe just after it verified the webhook, and sends
\* nothing any more.
ReportsEnd ==
  /\ works /\ heard
  /\ ~heard'
  /\ told' \in {told \cup {"closed"}, told \cup {"verified", "closed"}}
  /\ sending' = {}

\* It ends after its report, or because the Client dropped it.
Ends ==
  /\ works
  /\ ~works' /\ ~heard'
  /\ \/ ~heard /\ told' = told
     \/ told' = told \cup {"dropped"}
  /\ sending' = {}

ReportsNext == Started \/ Works \/ ReportsEnd \/ Ends

ReportsSpec == NoActorYet /\ [][ReportsNext]_reportVars
=============================================================================
