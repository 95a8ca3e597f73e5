--------------------------- MODULE UpdateDelivery ---------------------------
(***************************************************************************)
(* What a webhook promises the bot: its updates are delivered at least     *)
(* once, and within one queue (one chat, for most updates) in order.  An   *)
(* update is sent only when all earlier updates of its queue are done, no  *)
(* update is sent twice at the same time, and an update that is being sent *)
(* is not done before it was answered, given up or its lifetime is over.   *)
(*                                                                         *)
(* WebhookActor implements this specification.                             *)
(***************************************************************************)
EXTENDS Integers

CONSTANTS
  MaxEvent,   \* how many updates there are
  Extra       \* the queue of every update, 0 for none

VARIABLES
  last,       \* the last update that was handed over for delivery
  pending,    \* updates that are not done
  sending,    \* updates that are being sent
  expired     \* updates whose lifetime is over

abstractVars == <<last, pending, sending, expired>>

SameQueue(e, f) == e = f \/ (Extra[e] # 0 /\ Extra[e] = Extra[f])

\* e is the first of the updates P in its queue.
First(e, P) == \A f \in P : SameQueue(e, f) => e <= f

AbstractInit ==
  /\ last = 0
  /\ pending = {}
  /\ sending = {}
  /\ expired = {}

Accept ==
  /\ last < MaxEvent
  /\ last' = last + 1
  /\ pending' = pending \cup {last + 1}
  /\ UNCHANGED <<sending, expired>>

\* Some updates are done, the sending of some others failed, and some that are
\* now the first of their queues are sent.
Deliver(done, returned, sent) ==
  /\ done \subseteq sending \cup expired
  /\ returned \subseteq sending
  /\ pending' = pending \ done
  /\ sent \subseteq pending' \ (sending \ returned)
  /\ \A e \in sent : First(e, pending')
  /\ sending' = (sending \ (done \cup returned)) \cup sent
  /\ UNCHANGED <<last, expired>>

Expires ==
  /\ \E e \in pending : expired' = expired \cup {e}
  /\ UNCHANGED <<last, pending, sending>>

AbstractNext ==
  \/ Accept
  \/ Expires
  \/ \E done, returned, sent \in SUBSET pending : Deliver(done, returned, sent)

AbstractSpec == AbstractInit /\ [][AbstractNext]_abstractVars
=============================================================================
