---------------------------- MODULE UpdateQueues ----------------------------
(***************************************************************************)
(* The queues of the Client (telegram-bot-api/Client.cpp) for updates that *)
(* need more from TDLib before the bot can be told: callback queries by    *)
(* user, callback queries and messages of business accounts by user and by *)
(* connection, and guest queries by chat.  The four kinds share one        *)
(* discipline.  The front of a queue passes states 0, 1, ..., and in each  *)
(* of them it may need a lookup; has_active_request_ says that one is      *)
(* under way, and the queue goes on with the next state when the answer    *)
(* comes.  The fifth kind, new messages, also has to do with the cache of  *)
(* messages and with edits: see NewMessages.                               *)
(*                                                                         *)
(* Which lookups an update needs, and whether the bot gets to know it in   *)
(* the end, is arbitrary here.  Updates are numbered as they arrive.       *)
(*                                                                         *)
(* "Fault:" marks variants of a definition with a bug the code does not    *)
(* have; the mutation tests of README.md put them in place of it.          *)
(***************************************************************************)
EXTENDS Naturals, Sequences, FiniteSets

CONSTANTS
  Key,         \* the queues
  Lookups,     \* number of states in which updates of a queue may need a lookup:
               \* 3 for callback queries, 1 for the other kinds
  MaxArrivals  \* updates in each queue (a bound of the model)

ASSUME UpdateQueuesAssumption ==
  /\ Lookups \in [Key -> Nat \ {0}]
  /\ MaxArrivals \in Nat

VARIABLES
  arrived,  \* how many updates have arrived
  queue,    \* queue_
  active,   \* has_active_request_
  calls,    \* states in which lookups were started whose answers are to come
  stored,   \* history: updates that were pushed to the TQueue
  closing   \* logging_out_ or closing_

vars == <<arrived, queue, active, calls, stored, closing>>

Init ==
  /\ arrived = [k \in Key |-> 0]
  /\ queue = [k \in Key |-> <<>>]
  /\ active = [k \in Key |-> FALSE]
  /\ calls = [k \in Key |-> {}]
  /\ stored = [k \in Key |-> {}]
  /\ closing = FALSE

\* The loop: n updates are finished, and some of them are stored; the next one
\* needs a lookup, or the queue is empty.  state is that of the first update.
RunQueue(k, q, c, state) ==
  \E n \in 0..Len(q) :
    /\ queue' = [queue EXCEPT ![k] = SubSeq(q, n + 1, Len(q))]
    /\ \E kept \in SUBSET {q[i] : i \in 1..n} : stored' = [stored EXCEPT ![k] = @ \cup kept]
    /\ \/ /\ n = Len(q)
          /\ active' = [active EXCEPT ![k] = FALSE]
          /\ calls' = [calls EXCEPT ![k] = c]
       \/ /\ n < Len(q)
          /\ \E s \in 0..Lookups[k]-1 :
               /\ n = 0 => s >= state
               /\ active' = [active EXCEPT ![k] = TRUE]
               /\ calls' = [calls EXCEPT ![k] = c \cup {s}]

\* The queue is erased.
Erase(k, c) ==
  /\ queue' = [queue EXCEPT ![k] = <<>>]
  /\ active' = [active EXCEPT ![k] = FALSE]
  /\ calls' = [calls EXCEPT ![k] = c]
  /\ UNCHANGED stored

\* Another update joins a queue that waits.
Wait(k, q, c) ==
  /\ queue' = [queue EXCEPT ![k] = q]
  /\ calls' = [calls EXCEPT ![k] = c]
  /\ UNCHANGED <<active, stored>>

\* Fault: the queue is erased at once when the Client is closing.
ProcessQueueErasing(k, q, c, state) ==
  IF closing THEN Erase(k, c)
  ELSE IF active[k] /\ state = 0 THEN Wait(k, q, c)
  ELSE RunQueue(k, q, c, state)

\* Fault: the queue is processed even when the Client is closing.
ProcessQueueUnclosed(k, q, c, state) ==
  IF active[k] /\ state = 0 THEN Wait(k, q, c)
  ELSE RunQueue(k, q, c, state)

\* process_new_callback_query_queue and its three relatives, for a queue that
\* holds q and still waits for the answers c
ProcessQueue(k, q, c, state) ==
  IF active[k] /\ state = 0 THEN Wait(k, q, c)
  ELSE IF closing THEN Erase(k, c)
  ELSE RunQueue(k, q, c, state)

\* Fault: a new update is put in front.
AddUpdateInFront(k) ==
  /\ arrived[k] < MaxArrivals
  /\ arrived' = [arrived EXCEPT ![k] = @ + 1]
  /\ ProcessQueue(k, <<arrived[k] + 1>> \o queue[k], calls[k], 0)
  /\ UNCHANGED closing

\* add_new_callback_query, add_new_business_callback_query,
\* add_new_business_message, add_business_message_edited, add_new_guest_query
AddUpdate(k) ==
  /\ arrived[k] < MaxArrivals
  /\ arrived' = [arrived EXCEPT ![k] = @ + 1]
  /\ ProcessQueue(k, Append(queue[k], arrived[k] + 1), calls[k], 0)
  /\ UNCHANGED closing

\* Fault: an answer that says nothing is not passed on.
LookupAnsweredIfFound(k, s) ==
  /\ s \in calls[k]
  /\ \/ ProcessQueue(k, queue[k], calls[k] \ {s}, s + 1)
     \/ Wait(k, queue[k], calls[k] \ {s})
  /\ UNCHANGED <<arrived, closing>>

\* on_get_callback_query_message, or the promise of get_sticker_set_names.  A
\* message that was deleted meanwhile needs no more lookups, whatever the state.
LookupAnswered(k, s) ==
  /\ s \in calls[k]
  /\ ProcessQueue(k, queue[k], calls[k] \ {s}, s + 1)
  /\ UNCHANGED <<arrived, closing>>

\* on_update_authorization_state: the bot is logged out, or the Client closed.
StartClosing ==
  /\ ~closing
  /\ closing' = TRUE
  /\ UNCHANGED <<arrived, queue, active, calls, stored>>

Next ==
  \/ \E k \in Key :
       \/ AddUpdate(k)
       \/ \E s \in 0..Lookups[k]-1 : LookupAnswered(k, s)
  \/ StartClosing

\* TDLib answers every lookup.
Fairness ==
  \A k \in Key : WF_vars(\E s \in 0..Lookups[k]-1 : LookupAnswered(k, s))

Spec == Init /\ [][Next]_vars
FairSpec == Spec /\ Fairness
-----------------------------------------------------------------------------
(* Properties.                                                             *)

TypeOK ==
  /\ arrived \in [Key -> Nat]
  /\ queue \in [Key -> Seq(Nat \ {0})]
  /\ active \in [Key -> BOOLEAN]
  /\ calls \in [Key -> SUBSET Nat] /\ \A k \in Key : calls[k] \subseteq 0..Lookups[k]-1
  /\ stored \in [Key -> SUBSET (Nat \ {0})]
  /\ closing \in BOOLEAN

\* A queue that is not empty waits for exactly one lookup, and an empty one for
\* none: an answer finds the update it was asked for, as the CHECKs at the
\* beginning of the handlers demand, also when the Client began to close.
FrontAwaited ==
  \A k \in Key :
    /\ active[k] <=> queue[k] # <<>>
    /\ active[k] <=> calls[k] # {}
    /\ \A s, t \in calls[k] : s = t

\* Whatever was stored had arrived before everything that still waits; so no
\* update is stored twice either.
StoredBeforeQueued ==
  \A k \in Key : \A i \in 1..Len(queue[k]) : \A u \in stored[k] : u < queue[k][i]

\* However long lookups take, the updates of one queue reach the bot in the
\* order in which they arrived.
StoredInOrder ==
  [][\A k \in Key : \A u \in stored[k], v \in stored'[k] \ stored[k] : u < v]_stored

\* Nothing is stored any more once the Client is closing.
NothingStoredWhenClosing == [][closing => stored' = stored]_stored

Waits(k, u) == \E i \in 1..Len(queue[k]) : queue[k][i] = u

\* No update waits forever, however many come after it.
QueuesMove == \A k \in Key : \A u \in 1..MaxArrivals : Waits(k, u) ~> ~Waits(k, u)
=============================================================================
