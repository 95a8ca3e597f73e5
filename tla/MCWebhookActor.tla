--------------------------- MODULE MCWebhookActor ---------------------------
(***************************************************************************)
(* Instances of WebhookActor for TLC.                                      *)
(***************************************************************************)
EXTENDS WebhookActor, TLC

\* Two updates of one chat, then one without a queue of its own.
TwoQueues == <<1, 1, 0>>

OneUpdate == <<0>>

Webhook(from_db, fix_ip, ip, proxy, fits) ==
  [from_db |-> from_db, fix_ip |-> fix_ip, ip |-> ip, proxy |-> proxy, header_fits |-> fits]

\* A webhook restored from webhook_db_ with a fixed address.
FixedWebhook == {Webhook(TRUE, TRUE, TRUE, FALSE, TRUE)}

\* The same, and one of the same kind with too long a URL.
FixedWebhooks == FixedWebhook \cup {Webhook(TRUE, TRUE, TRUE, FALSE, FALSE)}

\* Every webhook the Client may create.
AllWebhooks ==
  {Webhook(from_db, fix_ip, ip, proxy, TRUE) : from_db, fix_ip, ip, proxy \in BOOLEAN} \
    {Webhook(FALSE, FALSE, TRUE, proxy, TRUE) : proxy \in BOOLEAN}

Symmetry == Permutations(Conn)
=============================================================================
