---------------------------- MODULE ServerProofs ----------------------------
(***************************************************************************)
(* Proofs of safety properties of Server, for any tokens, queries, signals *)
(* and restarts.  Tame says how messages, timers and directories belong    *)
(* together; Restoring, Accounted and Counting, about the stored webhooks, *)
(* the open queries and the active clients, are inductive relative to it.  *)
(***************************************************************************)
EXTENDS Server, SequenceTheorems, FiniteSetTheorems, TLAPS

Ident == Query \cup {Internal}

QueryMessage ==
  [kind : {"query"}, token : Token \cup {NoToken}, q : Ident, method : Method \cup {"restore"}]

\* What may be in the inbox of ClientManager while the clients gone have stopped
InboxMessage(gone) ==
  QueryMessage \cup {Close} \cup {Raw(id, n) : id \in Nat, n \in {1, -1}} \cup {Hangup(id) : id \in gone}

Client ==
  [token : Token, alive : BOOLEAN, td : BOOLEAN, was_authorized : BOOLEAN, logging_out : BOOLEAN,
   closing : BOOLEAN, need_close : BOOLEAN, asked : BOOLEAN, timer : BOOLEAN,
   cmd_queue : Seq(QueryMessage), waiting : SUBSET Ident,
   mail : Seq(QueryMessage \cup {Close, Removed}), first : Method \cup {"restore"},
   webhook : {"none", "set", "failed"}, served : BOOLEAN]

\* A Client with TDLib has no timer, and nobody told it that its directory was removed.
\* Until the process is told to quit, a Client whose directory is being removed just waits.
Sound(c, quits, removes) ==
  /\ c \in Client
  /\ c.td => c.alive /\ ~c.timer /\ c.mail \in Seq(QueryMessage \cup {Close})
  /\ ~quits /\ (c.td \/ removes) => c.mail \in Seq(QueryMessage)
  /\ removes => ~c.td
  /\ ~quits /\ removes => c.alive /\ ~c.timer

Gone == (1..last_id) \ {id \in DOMAIN clients : clients[id].alive}

Typed ==
  /\ load \in DOMAIN Loads
  /\ last_id \in Nat
  /\ close_flag \in BOOLEAN
  /\ inbox \in Seq(InboxMessage(Gone))
  /\ webhook_db \subseteq Token
  /\ IsFiniteSet(webhook_db)
  /\ DOMAIN clients \subseteq 1..last_id
  /\ clients = [id \in DOMAIN clients |-> clients[id]]
  /\ removing \in [DOMAIN removing -> Token]

OneClient ==
  \A id1, id2 \in DOMAIN clients : clients[id1].token = clients[id2].token => id1 = id2

OneHolder ==
  \A id2 \in DOMAIN removing :
    /\ \A id1 \in DOMAIN removing : removing[id1] = removing[id2] => id1 = id2
    /\ \A id1 \in DOMAIN clients : clients[id1].td /\ clients[id1].token = removing[id2] => id1 = id2

RemovingWaits ==
  ~close_flag => \A id \in DOMAIN removing : id \in DOMAIN clients /\ clients[id].token = removing[id]

Tame ==
  /\ Typed
  /\ \A id \in DOMAIN clients : Sound(clients[id], close_flag, id \in DOMAIN removing)
  /\ OneClient
  /\ OneHolder
  /\ RemovingWaits
-----------------------------------------------------------------------------
(* Sequences and sets.                                                     *)

\* SetToSeqs gives sequences over the set.
LEMMA RestoresTyped ==
  ASSUME NEW W \in SUBSET Token, IsFiniteSet(W), NEW s \in Restores(W)
  PROVE  s \in Seq(QueryMessage)
<1> DEFINE R == {Restore(t) : t \in W}
<1>1. R \subseteq QueryMessage
  BY DEF Restore, QueryTo, QueryMessage, Ident
<1>2. IsFiniteSet(R)
  <2> DEFINE f == [t \in W |-> Restore(t)]
  <2>1. f \in Surjection(W, R)
    BY DEF Surjection
  <2> QED
    BY <2>1, FS_Surjection
<1>3. Cardinality(R) \in Nat
  BY <1>2, FS_CardinalityType
<1>4. s \in [1..Cardinality(R) -> R]
  BY DEF Restores, SetToSeqs
<1>5. s \in [1..Cardinality(R) -> QueryMessage]
  BY <1>1, <1>4
<1> HIDE DEF R
<1> QED
  BY <1>3, <1>5, SeqDef

\* A message for ClientManager stays valid while more clients stop.
LEMMA InboxGrows ==
  ASSUME NEW G, NEW H, G \subseteq H, NEW s \in Seq(InboxMessage(G))
  PROVE  s \in Seq(InboxMessage(H))
<1>1. InboxMessage(G) \subseteq InboxMessage(H)
  BY DEF InboxMessage
<1> QED
  BY <1>1, SeqMonotonic
-----------------------------------------------------------------------------
(* A step of one Client keeps Tame.                                        *)

\* The Client id becomes c, and ClientManager may be told something.
LEMMA ClientChanges ==
  ASSUME Tame,
         NEW id \in DOMAIN clients,
         NEW c,
         clients' = [clients EXCEPT ![id] = c],
         c.token = clients[id].token,
         c.td => clients[id].td,
         clients[id].alive,
         Sound(c, close_flag, id \in DOMAIN removing),
         UNCHANGED <<load, last_id, close_flag, removing>>,
         inbox' = inbox \/ \E m \in InboxMessage(Gone') : inbox' = Append(inbox, m),
         webhook_db' \subseteq Token, IsFiniteSet(webhook_db')
  PROVE  Tame'
<1>1. /\ DOMAIN clients' = DOMAIN clients
      /\ clients'[id] = c
      /\ \A i \in DOMAIN clients : i # id => clients'[i] = clients[i]
      /\ clients' = [i \in DOMAIN clients' |-> clients'[i]]
  OBVIOUS
<1>2. \A i \in DOMAIN clients : clients'[i].token = clients[i].token /\ (clients'[i].td => clients[i].td)
  BY <1>1
<1>3. Gone \subseteq Gone'
  BY <1>1 DEF Gone
<1>4. inbox \in Seq(InboxMessage(Gone'))
  BY <1>3, InboxGrows DEF Tame, Typed
<1>5. inbox' \in Seq(InboxMessage(Gone'))
  BY <1>4
<1>6. Typed'
  BY <1>1, <1>5 DEF Tame, Typed
<1>7. \A i \in DOMAIN clients' : Sound(clients'[i], close_flag', i \in DOMAIN removing')
  BY <1>1 DEF Tame
<1>8. OneClient' /\ OneHolder' /\ RemovingWaits'
  BY <1>1, <1>2 DEF Tame, OneClient, OneHolder, RemovingWaits
<1> QED
  BY <1>6, <1>7, <1>8 DEF Tame

\* A step that touches neither the mail nor the timer of a Client, and does not stop it
LEMMA QuietStep ==
  ASSUME Tame, NEW id \in DOMAIN clients, NEW c \in Client,
         clients' = [clients EXCEPT ![id] = c],
         clients[id].alive,
         c.token = clients[id].token, c.td = clients[id].td, c.alive = clients[id].alive,
         c.timer = clients[id].timer, c.mail = clients[id].mail,
         UNCHANGED <<load, last_id, close_flag, removing>>,
         inbox' = inbox \/ \E n \in {1, -1} : inbox' = Append(inbox, Raw(id, n)),
         webhook_db' \subseteq Token, IsFiniteSet(webhook_db')
  PROVE  Tame'
<1>1. Sound(c, close_flag, id \in DOMAIN removing)
  BY DEF Tame, Sound
<1>2. id \in Nat
  BY DEF Tame, Typed
<1>3. \A n \in {1, -1} : Raw(id, n) \in InboxMessage(Gone')
  BY <1>2 DEF InboxMessage
<1> QED
  BY <1>1, <1>3, ClientChanges

\* stop and finish_closing
LEMMA Stops ==
  ASSUME Tame, NEW id \in DOMAIN clients, NEW c \in Client, StopClient(id, c),
         clients[id].alive, c.token = clients[id].token, ~c.td,
         close_flag \/ id \notin DOMAIN removing,
         UNCHANGED <<load, last_id, close_flag, removing>>,
         webhook_db' \subseteq Token, IsFiniteSet(webhook_db')
  PROVE  Tame'
<1> DEFINE d == [c EXCEPT !.alive = FALSE, !.mail = <<>>, !.cmd_queue = <<>>, !.waiting = {}]
<1>0. <<>> \in Seq(QueryMessage) /\ <<>> \in Seq(QueryMessage \cup {Close, Removed})
  OBVIOUS
<1>1. /\ d \in Client
      /\ ~d.td /\ ~d.alive /\ d.token = c.token /\ d.mail = <<>>
  BY <1>0 DEF Client
<1>2. clients' = [clients EXCEPT ![id] = d] /\ inbox' = Append(inbox, Hangup(id))
  BY DEF StopClient
<1>3. id \in Gone'
  BY <1>1, <1>2 DEF Gone, Tame, Typed
<1>4. Hangup(id) \in InboxMessage(Gone')
  BY <1>3 DEF InboxMessage
<1>5. Sound(d, close_flag, id \in DOMAIN removing)
  BY <1>1 DEF Sound
<1> HIDE DEF d
<1> QED
  BY <1>1, <1>2, <1>4, <1>5, ClientChanges

LEMMA Finishes ==
  ASSUME Tame, NEW id \in DOMAIN clients, NEW c \in Client, FinishClosing(id, c),
         clients[id].alive, c.token = clients[id].token, ~c.td,
         close_flag \/ id \notin DOMAIN removing,
         UNCHANGED <<load, last_id, close_flag, removing>>,
         webhook_db' \subseteq Token, IsFiniteSet(webhook_db')
  PROVE  Tame'
<1>1. CASE c.need_close
  BY <1>1, Stops DEF FinishClosing
<1>2. CASE ~c.need_close
  <2> DEFINE d == [c EXCEPT !.timer = TRUE]
  <2>1. d \in Client /\ ~d.td /\ d.token = c.token /\ d.alive = c.alive
    BY DEF Client
  <2>2. clients' = [clients EXCEPT ![id] = d] /\ inbox' = inbox
    BY <1>2 DEF FinishClosing
  <2>3. Sound(d, close_flag, id \in DOMAIN removing)
    BY <2>1 DEF Sound
  <2> HIDE DEF d
  <2> QED
    BY <2>1, <2>2, <2>3, ClientChanges
<1> QED
  BY <1>1, <1>2
-----------------------------------------------------------------------------
(* The actions of a Client keep Tame.                                      *)

LEMMA ClientTyped ==
  ASSUME Tame, NEW id \in DOMAIN clients
  PROVE  clients[id] \in Client /\ Sound(clients[id], close_flag, id \in DOMAIN removing)
BY DEF Tame, Sound

LEMMA HandleMailTame ==
  ASSUME Tame, NEW id \in DOMAIN clients, HandleMail(id)
  PROVE  Tame'
<1> DEFINE a == clients[id]
           c == [a EXCEPT !.mail = Tail(@)]
           message == Head(a.mail)
<1>1. a \in Client /\ Sound(a, close_flag, id \in DOMAIN removing) /\ a.alive /\ a.mail # <<>>
  BY ClientTyped DEF HandleMail
<1>0. Tail(a.mail) \in Seq(QueryMessage \cup {Close, Removed})
  BY <1>1 DEF Client
<1>2. /\ c \in Client
      /\ c.token = a.token /\ c.td = a.td /\ c.alive = a.alive /\ c.timer = a.timer
      /\ c.mail = Tail(a.mail)
  BY <1>0, <1>1 DEF Client
<1>3. Sound(c, close_flag, id \in DOMAIN removing)
  BY <1>1, <1>2 DEF Sound
<1>4. message \in QueryMessage \cup {Close, Removed}
  BY <1>1 DEF Client
<1>5. a.td => message \in QueryMessage \cup {Close}
  BY <1>1 DEF Sound
<1>6. ~close_flag /\ (a.td \/ id \in DOMAIN removing) => message \in QueryMessage
  BY <1>1 DEF Sound
<1>7. UNCHANGED <<load, last_id, close_flag, removing, webhook_db>>
  BY DEF HandleMail, processVars, managerVars
<1>8. webhook_db' \subseteq Token /\ IsFiniteSet(webhook_db')
  BY <1>7 DEF Tame, Typed
<1>9. Close.kind = "close" /\ Removed.kind = "removed" /\ \A m \in QueryMessage : m.kind = "query"
  BY DEF Close, Removed, QueryMessage
<1>a. CASE message.kind = "query"
  <2>1. message \in QueryMessage
    BY <1>4, <1>9, <1>a
  <2>2. CASE clients' = [clients EXCEPT ![id] = c] /\ UNCHANGED inbox
    <3> HIDE DEF c, message
    <3> QED
      BY <1>1, <1>2, <1>3, <1>7, <1>8, <2>2, ClientChanges
  <2>3. CASE /\ clients' = [clients EXCEPT ![id] = [c EXCEPT !.cmd_queue = Append(@, message)]]
             /\ UNCHANGED inbox
    <3> HIDE DEF c, message
    <3> DEFINE d == [c EXCEPT !.cmd_queue = Append(@, message)]
    <3>0. Append(c.cmd_queue, message) \in Seq(QueryMessage)
      BY <1>2, <2>1 DEF Client
    <3>1. /\ d \in Client /\ d.token = c.token /\ d.td = c.td /\ d.alive = c.alive
          /\ d.timer = c.timer /\ d.mail = c.mail
      BY <1>2, <3>0 DEF Client
    <3>2. Sound(d, close_flag, id \in DOMAIN removing)
      BY <1>3, <3>1 DEF Sound
    <3> HIDE DEF d
    <3>3. clients' = [clients EXCEPT ![id] = d]
      BY <2>3 DEF d
    <3> QED
      BY <1>1, <1>2, <1>7, <1>8, <2>3, <3>1, <3>2, <3>3, ClientChanges
  <2> QED
    BY <1>a, <2>2, <2>3 DEF HandleMail
<1>b. CASE message.kind = "close"
  <2> DEFINE d == CloseClient(c)
  <2>1. close_flag \/ ~(a.td \/ id \in DOMAIN removing)
    BY <1>6, <1>9, <1>b
  <2> HIDE DEF c
  <2>6. d \in Client
    BY <1>2 DEF Client, CloseClient
  <2>2. d.token = c.token /\ d.td = c.td /\ d.alive = c.alive /\ d.mail = c.mail
    BY <1>2 DEF Client, CloseClient
  <2>5. d.timer => c.timer \/ ~c.td
    BY <1>2 DEF Client, CloseClient
  <2>3. Sound(d, close_flag, id \in DOMAIN removing)
    BY <1>2, <1>3, <2>1, <2>2, <2>5, <2>6 DEF Sound
  <2>4. clients' = [clients EXCEPT ![id] = d] /\ UNCHANGED inbox
    BY <1>b DEF HandleMail, c
  <2> HIDE DEF c, d, message
  <2> QED
    BY <1>1, <1>2, <1>7, <1>8, <2>2, <2>3, <2>4, <2>6, ClientChanges
<1>c. CASE message.kind = "removed"
  <2>1. ~a.td /\ (close_flag \/ id \notin DOMAIN removing)
    BY <1>5, <1>6, <1>9, <1>c
  <2>2. FinishClosing(id, c)
    BY <1>c DEF HandleMail
  <2> HIDE DEF c, message
  <2> QED
    BY <1>1, <1>2, <1>7, <1>8, <2>1, <2>2, Finishes
<1> QED
  BY <1>4, <1>9, <1>a, <1>b, <1>c

\* Execute changes webhook_db_ by the token of the Client alone.
LEMMA OnCmdTame ==
  ASSUME Tame, NEW id \in DOMAIN clients, OnCmd(id)
  PROVE  Tame'
<1> DEFINE a == clients[id]
           c == [a EXCEPT !.cmd_queue = Tail(@)]
           query == Head(a.cmd_queue)
           Like(d) == /\ d \in Client
                      /\ d.token = a.token /\ d.td = a.td /\ d.alive = a.alive
                      /\ d.timer = a.timer /\ d.mail = a.mail
<1>1. a \in Client /\ a.alive /\ a.cmd_queue # <<>>
  BY ClientTyped DEF OnCmd, Looping
<1>2. Tail(a.cmd_queue) \in Seq(QueryMessage) /\ query \in QueryMessage
  BY <1>1 DEF Client
<1>3. c \in Client
  BY <1>1, <1>2 DEF Client
<1>4. Like(c)
  BY <1>1, <1>3 DEF Client
<1>5. UNCHANGED <<load, last_id, close_flag, removing, inbox>>
  BY DEF OnCmd, processVars, managerVars
<1>6. /\ webhook_db \subseteq Token /\ IsFiniteSet(webhook_db)
      /\ IsFiniteSet(webhook_db \cup {c.token}) /\ IsFiniteSet(webhook_db \ {c.token})
  BY FS_AddElement, FS_RemoveElement DEF Tame, Typed
<1>7. query.q \in Ident
  BY <1>2 DEF QueryMessage
<1>8. \A d : Like(d) /\ clients' = [clients EXCEPT ![id] = d]
              /\ webhook_db' \subseteq Token /\ IsFiniteSet(webhook_db') => Tame'
  BY <1>1, <1>5, QuietStep
<1>9. c.token \in Token
  BY <1>3 DEF Client
<1> HIDE DEF query
<1>a. CASE UNCHANGED webhook_db /\ clients' = [clients EXCEPT ![id] = c]
  BY <1>4, <1>6, <1>8, <1>a
<1>b. CASE UNCHANGED webhook_db /\ OnSpecial(id, c, query)
  <2> DEFINE closes == query.method = "close"
             d == [c EXCEPT !.need_close = @ \/ closes, !.asked = @ \/ closes,
                            !.waiting = @ \cup {query.q}]
  <2>5. closes \in BOOLEAN
    OBVIOUS
  <2> HIDE DEF c, closes
  <2>4. /\ c.waiting \cup {query.q} \in SUBSET Ident
        /\ (c.need_close \/ closes) \in BOOLEAN /\ (c.asked \/ closes) \in BOOLEAN
    BY <1>3, <1>7, <2>5 DEF Client
  <2>6. \A n, k \in BOOLEAN, w \in SUBSET Ident :
          [c EXCEPT !.need_close = n, !.asked = k, !.waiting = w] \in Client
    BY <1>3 DEF Client
  <2>1. d \in Client
    BY <2>4, <2>6, Zenon
  <2>2. Like(d)
    BY <1>3, <1>4, <2>1 DEF Client
  <2>3. clients' = [clients EXCEPT ![id] = c] \/ clients' = [clients EXCEPT ![id] = d]
    BY <1>b DEF OnSpecial, closes
  <2> QED
    BY <1>4, <1>6, <1>8, <1>b, <2>2, <2>3
<1>c. CASE Execute(id, c, query)
  <2> DEFINE Becomes(w) == [c EXCEPT !.webhook = w]
             d == [c EXCEPT !.served = TRUE]
  <2> HIDE DEF c
  <2>1. \A w \in {"none", "set", "failed"} : Becomes(w) \in Client
    BY <1>3 DEF Client
  <2>2. \A w \in {"none", "set", "failed"} : Like(Becomes(w))
    BY <1>3, <1>4, <2>1 DEF Client
  <2>3. d \in Client
    BY <1>3 DEF Client
  <2>4. Like(d)
    BY <1>3, <1>4, <2>3 DEF Client
  <2>5. c.webhook \in {"none", "set", "failed"}
    BY <1>3 DEF Client
  <2>8. /\ (IF c.webhook = "none" THEN "failed" ELSE c.webhook) \in {"none", "set", "failed"}
        /\ (IF c.webhook = "set" THEN "none" ELSE c.webhook) \in {"none", "set", "failed"}
    BY <2>5
  <2>6. \/ \E w \in {"none", "set", "failed"} : clients' = [clients EXCEPT ![id] = Becomes(w)]
        \/ clients' = [clients EXCEPT ![id] = d]
    BY <1>c, <2>8 DEF Execute
  <2>7. webhook_db' \in {webhook_db, webhook_db \cup {c.token}, webhook_db \ {c.token}}
    BY <1>c DEF Execute
  <2> HIDE DEF Becomes, d
  <2> QED
    BY <1>6, <1>8, <1>9, <2>2, <2>4, <2>6, <2>7
<1> QED
  BY <1>a, <1>b, <1>c DEF OnCmd, query

\* What TDLib tells of the authorization, and its answers
LEMMA TdTame ==
  ASSUME Tame, NEW id \in DOMAIN clients,
         TdAuthorizes(id) \/ TdLogsOut(id) \/ TdCloses(id) \/ TdAnswers(id)
  PROVE  Tame'
<1> DEFINE a == clients[id]
           Becomes(d) == /\ d \in Client
                         /\ d.token = a.token /\ d.td = a.td /\ d.alive = a.alive
                         /\ d.timer = a.timer /\ d.mail = a.mail
                         /\ clients' = [clients EXCEPT ![id] = d]
<1>1. a \in Client /\ (a.td => a.alive)
  BY ClientTyped DEF Sound
<1>2. a.td /\ UNCHANGED <<load, last_id, close_flag, removing, webhook_db>>
  BY DEF TdAuthorizes, TdLogsOut, TdCloses, TdAnswers, TdTells, processVars, managerVars
<1>3. inbox' = inbox \/ \E n \in {1, -1} : inbox' = Append(inbox, Raw(id, n))
  BY DEF TdAuthorizes, TdLogsOut, TdCloses, TdAnswers
<1>4. webhook_db' \subseteq Token /\ IsFiniteSet(webhook_db')
  BY <1>2 DEF Tame, Typed
<1>5. \A d : Becomes(d) => Tame'
  BY <1>1, <1>2, <1>3, <1>4, QuietStep
<1>6. CASE TdAuthorizes(id)
  <2>1. Becomes([a EXCEPT !.was_authorized = TRUE])
    BY <1>1, <1>6 DEF TdAuthorizes, Client
  <2> QED
    BY <1>5, <2>1
<1>7. CASE TdLogsOut(id)
  <2>1. Becomes([a EXCEPT !.logging_out = TRUE])
    BY <1>1, <1>7 DEF TdLogsOut, Client
  <2> QED
    BY <1>5, <2>1
<1>8. CASE TdCloses(id)
  <2>1. Becomes([a EXCEPT !.closing = TRUE])
    BY <1>1, <1>8 DEF TdCloses, Client
  <2> QED
    BY <1>5, <2>1
<1>9. CASE TdAnswers(id)
  <2>1. Becomes([a EXCEPT !.waiting = {}])
    BY <1>1, <1>9 DEF TdAnswers, Client
  <2> QED
    BY <1>5, <2>1
<1> QED
  BY <1>6, <1>7, <1>8, <1>9

LEMMA TdInitFailsTame ==
  ASSUME Tame, NEW id \in DOMAIN clients, TdInitFails(id)
  PROVE  Tame'
<1> DEFINE a == clients[id]
           c == CloseClient(a)
<1>1. a \in Client /\ a.td /\ a.alive
  BY ClientTyped DEF Sound, TdInitFails, TdTells
<1>2. c \in Client
  BY <1>1 DEF Client, CloseClient
<1>3. c.token = a.token /\ c.td = a.td /\ c.alive = a.alive /\ c.timer = a.timer /\ c.mail = a.mail
  BY <1>1 DEF Client, CloseClient
<1>4. /\ UNCHANGED <<load, last_id, close_flag, removing, inbox, webhook_db>>
      /\ clients' = [clients EXCEPT ![id] = c]
  BY DEF TdInitFails, processVars, managerVars
<1>5. webhook_db' \subseteq Token /\ IsFiniteSet(webhook_db')
  BY <1>4 DEF Tame, Typed
<1> HIDE DEF c
<1> QED
  BY <1>1, <1>2, <1>3, <1>4, <1>5, QuietStep

\* on_closed: TDLib is gone, and the removal of its directory takes its place.
LEMMA OnClosedTame ==
  ASSUME Tame, NEW id \in DOMAIN clients, OnClosed(id)
  PROVE  Tame'
<1> DEFINE a == clients[id]
           c == [a EXCEPT !.td = FALSE]
<1>1. /\ a \in Client /\ a.td /\ a.alive /\ ~a.timer
      /\ Sound(a, close_flag, id \in DOMAIN removing)
  BY ClientTyped DEF Sound, OnClosed, TdTells
<1>2. /\ c \in Client /\ c.token = a.token /\ ~c.td /\ c.alive = a.alive
      /\ c.timer = a.timer /\ c.mail = a.mail /\ c.logging_out = a.logging_out
  BY <1>1 DEF Client
<1>3. UNCHANGED <<load, last_id, close_flag>>
  BY DEF OnClosed, processVars, managerVars
<1>4. webhook_db' \subseteq Token /\ IsFiniteSet(webhook_db')
  <2>1. webhook_db' \in {webhook_db, webhook_db \ {c.token}}
    BY DEF OnClosed
  <2> HIDE DEF c
  <2>2. IsFiniteSet(webhook_db) /\ webhook_db \subseteq Token /\ IsFiniteSet(webhook_db \ {c.token})
    BY FS_RemoveElement DEF Tame, Typed
  <2> QED
    BY <2>1, <2>2
<1>5. close_flag \/ id \notin DOMAIN removing
  BY <1>1 DEF Sound
<1>6. CASE ~a.logging_out
  <2>1. FinishClosing(id, c) /\ UNCHANGED removing
    BY <1>2, <1>6 DEF OnClosed
  <2> HIDE DEF c
  <2> QED
    BY <1>1, <1>2, <1>3, <1>4, <1>5, <2>1, Finishes
<1>7. CASE a.logging_out
  <2>1. /\ removing' = Put(removing, id, c.token)
        /\ clients' = [clients EXCEPT ![id] = c]
        /\ UNCHANGED inbox
    BY <1>2, <1>7 DEF OnClosed
  <2> HIDE DEF c
  <2>2. /\ DOMAIN removing' = DOMAIN removing \cup {id}
        /\ removing'[id] = a.token
        /\ \A i \in DOMAIN removing : i # id => removing'[i] = removing[i]
    BY <1>2, <2>1 DEF Put
  <2>3. removing' \in [DOMAIN removing' -> Token]
    BY <1>1, <1>2, <2>1 DEF Put, Tame, Typed, Client
  <2>4. /\ DOMAIN clients' = DOMAIN clients
        /\ clients'[id] = c
        /\ \A i \in DOMAIN clients : i # id => clients'[i] = clients[i]
        /\ clients' = [i \in DOMAIN clients' |-> clients'[i]]
    BY <2>1
  <2>5. Gone' = Gone
    BY <1>2, <1>3, <2>4 DEF Gone
  <2>6. Typed'
    BY <1>3, <1>4, <2>1, <2>2, <2>3, <2>4, <2>5 DEF Tame, Typed
  <2>7. Sound(c, close_flag, TRUE)
    BY <1>1, <1>2 DEF Sound
  <2>8. \A i \in DOMAIN clients' : Sound(clients'[i], close_flag', i \in DOMAIN removing')
    BY <1>3, <2>2, <2>4, <2>7 DEF Tame, Sound
  <2>9. OneClient'
    BY <1>2, <2>4 DEF Tame, OneClient
  <2>10. OneHolder'
    <3>1. \A i \in DOMAIN removing : removing[i] = a.token => i = id
      BY <1>1 DEF Tame, OneHolder
    <3>2. \A i \in DOMAIN clients' : clients'[i].td => i # id /\ clients[i].td /\ clients[i].token # a.token
      BY <1>2, <2>4 DEF Tame, OneClient
    <3> QED
      BY <2>2, <2>4, <3>1, <3>2 DEF Tame, OneHolder
  <2>11. RemovingWaits'
    BY <1>2, <1>3, <2>2, <2>4 DEF Tame, RemovingWaits
  <2> QED
    BY <2>6, <2>8, <2>9, <2>10, <2>11 DEF Tame
<1> QED
  BY <1>1, <1>6, <1>7 DEF Client

LEMMA TimeoutTame ==
  ASSUME Tame, NEW id \in DOMAIN clients, TimeoutExpired(id)
  PROVE  Tame'
<1> DEFINE a == clients[id]
<1>1. a \in Client /\ a.alive /\ ~a.td /\ (close_flag \/ id \notin DOMAIN removing)
  BY ClientTyped DEF Sound, TimeoutExpired
<1>2. UNCHANGED <<load, last_id, close_flag, removing, webhook_db>> /\ StopClient(id, a)
  BY DEF TimeoutExpired, processVars, managerVars
<1>3. webhook_db' \subseteq Token /\ IsFiniteSet(webhook_db')
  BY <1>2 DEF Tame, Typed
<1> QED
  BY <1>1, <1>2, <1>3, Stops
-----------------------------------------------------------------------------
(* ClientManager and the threads keep Tame.                                *)

LEMMA DirectoryRemovedTame ==
  ASSUME Tame, NEW id \in DOMAIN removing, DirectoryRemoved(id)
  PROVE  Tame'
<1>1. /\ DOMAIN removing' = DOMAIN removing \ {id}
      /\ \A i \in DOMAIN removing' : removing'[i] = removing[i]
      /\ removing' \in [DOMAIN removing' -> Token]
  BY DEF DirectoryRemoved, Without, Tame, Typed
<1>2. UNCHANGED <<load, last_id, close_flag, inbox, webhook_db>>
  BY DEF DirectoryRemoved, processVars, managerVars
<1>3. /\ DOMAIN clients' = DOMAIN clients
      /\ clients' = [i \in DOMAIN clients' |-> clients'[i]]
      /\ \A i \in DOMAIN clients : i # id => clients'[i] = clients[i]
  BY DEF DirectoryRemoved, Tame, Typed
<1>4. ASSUME id \in DOMAIN clients
      PROVE  /\ Sound(clients'[id], close_flag, id \in DOMAIN removing')
             /\ clients'[id].token = clients[id].token
             /\ clients'[id].td = clients[id].td
             /\ clients'[id].alive = clients[id].alive
  <2> DEFINE c == [clients[id] EXCEPT !.mail = Append(@, Removed)]
  <2>1. clients[id] \in Client /\ ~clients[id].td /\ Sound(clients[id], close_flag, FALSE)
    BY <1>4, ClientTyped DEF Sound
  <2>2. Append(clients[id].mail, Removed) \in Seq(QueryMessage \cup {Close, Removed})
    BY <2>1 DEF Client
  <2>3. c \in Client /\ c.token = clients[id].token /\ c.td = clients[id].td /\ c.alive = clients[id].alive
    BY <2>1, <2>2 DEF Client
  <2>4. Sound(c, close_flag, id \in DOMAIN removing') /\ Sound(clients[id], close_flag, id \in DOMAIN removing')
    BY <1>1, <2>1, <2>3 DEF Sound
  <2>5. clients'[id] \in {c, clients[id]}
    BY <1>4 DEF DirectoryRemoved
  <2> HIDE DEF c
  <2> QED
    BY <2>1, <2>3, <2>4, <2>5
<1>5. \A i \in DOMAIN clients : /\ clients'[i].token = clients[i].token
                                /\ clients'[i].td = clients[i].td
                                /\ clients'[i].alive = clients[i].alive
  BY <1>3, <1>4
<1>6. Gone' = Gone
  BY <1>2, <1>3, <1>5 DEF Gone
<1>7. Typed'
  BY <1>1, <1>2, <1>3, <1>6 DEF Tame, Typed
<1>8. \A i \in DOMAIN clients' : Sound(clients'[i], close_flag', i \in DOMAIN removing')
  <2>1. \A i \in DOMAIN clients : i # id => Sound(clients'[i], close_flag, i \in DOMAIN removing')
    BY <1>1, <1>3 DEF Tame, Sound
  <2> QED
    BY <1>2, <1>3, <1>4, <2>1
<1>9. OneClient' /\ OneHolder' /\ RemovingWaits'
  BY <1>1, <1>2, <1>3, <1>5 DEF Tame, OneClient, OneHolder, RemovingWaits
<1> QED
  BY <1>7, <1>8, <1>9 DEF Tame

\* A new Client uses the directory of its token alone: no other Client has the token, and
\* whoever removes a directory still has a Client.
LEMMA CreateClientTame ==
  ASSUME Tame, NEW query \in QueryMessage, CreateClient(query),
         query.token \in Token, ~close_flag,
         \A id \in DOMAIN clients : clients[id].token # query.token,
         inbox' \in Seq(InboxMessage(Gone)),
         UNCHANGED <<load, close_flag, removing, webhook_db>>
  PROVE  Tame'
<1> DEFINE new == last_id + 1
           c == NewClient(query.token, query.method, FirstMail(query))
<1>1. /\ last_id \in Nat /\ last_id' = new
      /\ new \notin DOMAIN clients /\ new \notin DOMAIN removing
      /\ DOMAIN clients' = DOMAIN clients \cup {new}
      /\ clients'[new] = c
      /\ \A i \in DOMAIN clients : clients'[i] = clients[i]
      /\ clients' = [i \in DOMAIN clients' |-> clients'[i]]
  <2>1. last_id \in Nat /\ last_id' = new /\ clients' = Put(clients, new, c)
    BY DEF CreateClient, Tame, Typed
  <2>2. new \notin DOMAIN clients
    BY <2>1 DEF Tame, Typed
  <2>3. new \notin DOMAIN removing
    BY <2>2 DEF Tame, RemovingWaits
  <2> HIDE DEF c, new
  <2> QED
    BY <2>1, <2>2, <2>3 DEF Put
<1>2. FirstMail(query) \in Seq(QueryMessage)
  <2>1. Restore(query.token) \in QueryMessage
    BY DEF Restore, QueryTo, QueryMessage, Ident
  <2> QED
    BY <2>1 DEF FirstMail
<1>3. /\ c \in Client /\ c.token = query.token /\ c.alive
      /\ c.mail = FirstMail(query)
      /\ c.td => ~c.timer
  <2>1. <<>> \in Seq(QueryMessage) /\ query.method \in Method \cup {"restore"}
    BY DEF QueryMessage
  <2>3. FirstMail(query) \in Seq(QueryMessage \cup {Close, Removed})
    BY <1>2, SeqMonotonic
  <2>4. (query.token \in Malformed) \in BOOLEAN /\ (query.token \notin Malformed) \in BOOLEAN
    OBVIOUS
  <2>2. c \in Client
    BY <2>1, <2>3, <2>4 DEF NewClient, Client
  <2> QED
    BY <2>2 DEF NewClient
<1>4. Sound(c, close_flag, new \in DOMAIN removing)
  BY <1>1, <1>2, <1>3, SeqMonotonic DEF Sound
<1> HIDE DEF c
<1>5. Gone' = Gone
  BY <1>1, <1>3 DEF Gone, Tame, Typed
<1>6. Typed'
  BY <1>1, <1>5 DEF Tame, Typed
<1>7. \A i \in DOMAIN clients' : Sound(clients'[i], close_flag', i \in DOMAIN removing')
  BY <1>1, <1>4 DEF Tame, CreateClient
<1>8. OneClient'
  BY <1>1, <1>3 DEF Tame, OneClient
<1>9. OneHolder'
  BY <1>1, <1>3 DEF Tame, OneHolder, RemovingWaits
<1>10. RemovingWaits'
  BY <1>1 DEF Tame, RemovingWaits
<1> QED
  BY <1>6, <1>7, <1>8, <1>9, <1>10 DEF Tame

\* A message for all the clients, or for one: none of their timers and tokens change.
LEMMA MailTame ==
  ASSUME Tame, NEW quits \in BOOLEAN, close_flag' = quits, close_flag => quits,
         NEW m \in QueryMessage \cup {Close}, m = Close => quits,
         DOMAIN clients' = DOMAIN clients,
         clients' = [id \in DOMAIN clients' |-> clients'[id]],
         \A id \in DOMAIN clients :
           clients'[id] \in {clients[id], [clients[id] EXCEPT !.mail = Append(@, m)]},
         inbox' \in Seq(InboxMessage(Gone)),
         UNCHANGED <<load, last_id, removing, webhook_db>>
  PROVE  Tame'
<1>1. \A id \in DOMAIN clients :
        /\ Sound(clients'[id], quits, id \in DOMAIN removing)
        /\ clients'[id].token = clients[id].token
        /\ clients'[id].td = clients[id].td
        /\ clients'[id].alive = clients[id].alive
  <2> SUFFICES ASSUME NEW id \in DOMAIN clients
               PROVE  /\ Sound(clients'[id], quits, id \in DOMAIN removing)
                      /\ clients'[id].token = clients[id].token
                      /\ clients'[id].td = clients[id].td
                      /\ clients'[id].alive = clients[id].alive
    OBVIOUS
  <2> DEFINE a == clients[id]
             c == [a EXCEPT !.mail = Append(@, m)]
  <2>1. a \in Client /\ Sound(a, close_flag, id \in DOMAIN removing)
    BY ClientTyped
  <2>2. Append(a.mail, m) \in Seq(QueryMessage \cup {Close, Removed})
    BY <2>1 DEF Client
  <2>3. /\ c \in Client /\ c.token = a.token /\ c.td = a.td /\ c.alive = a.alive
        /\ c.timer = a.timer /\ c.mail = Append(a.mail, m)
    BY <2>1, <2>2 DEF Client
  <2> HIDE DEF c
  <2>4. a.td => a.mail \in Seq(QueryMessage \cup {Close}) /\ c.mail \in Seq(QueryMessage \cup {Close})
    BY <2>1, <2>3 DEF Sound
  <2>5. ~quits /\ (a.td \/ id \in DOMAIN removing) => c.mail \in Seq(QueryMessage)
    BY <2>1, <2>3 DEF Sound
  <2>6. Sound(c, quits, id \in DOMAIN removing)
    BY <2>1, <2>3, <2>4, <2>5 DEF Sound
  <2>7. Sound(a, quits, id \in DOMAIN removing)
    BY <2>1 DEF Sound
  <2>8. clients'[id] \in {a, c}
    BY DEF c
  <2> QED
    BY <2>3, <2>6, <2>7, <2>8
<1>2. Gone' = Gone
  BY <1>1 DEF Gone
<1>3. Typed'
  BY <1>2 DEF Tame, Typed
<1>4. \A i \in DOMAIN clients' : Sound(clients'[i], close_flag', i \in DOMAIN removing')
  BY <1>1
<1>5. OneClient' /\ OneHolder' /\ RemovingWaits'
  BY <1>1 DEF Tame, OneClient, OneHolder, RemovingWaits
<1> QED
  BY <1>3, <1>4, <1>5 DEF Tame

\* Nothing of a Client changes, and messages come or go.
LEMMA InboxTame ==
  ASSUME Tame, UNCHANGED <<load, last_id, close_flag, clients, removing, webhook_db>>,
         inbox' \in Seq(InboxMessage(Gone))
  PROVE  Tame'
BY DEF Tame, Typed, Gone, Sound, OneClient, OneHolder, RemovingWaits

LEMMA HandleInboxTame ==
  ASSUME Tame, HandleInbox
  PROVE  Tame'
<1> DEFINE message == Head(inbox)
<1>1. /\ message \in InboxMessage(Gone)
      /\ inbox' \in Seq(InboxMessage(Gone))
      /\ UNCHANGED <<load, removing, webhook_db>>
  BY DEF HandleInbox, processVars, Tame, Typed
<1>2. /\ Close.kind = "close"
      /\ \A id, n : Raw(id, n).kind = "raw"
      /\ \A id : Hangup(id).kind = "hangup" /\ Hangup(id).id = id
      /\ \A m \in QueryMessage : m.kind = "query"
  BY DEF Close, Raw, Hangup, QueryMessage
<1>3. CASE message \in QueryMessage
  <2>1. Send(message)
    BY <1>2, <1>3 DEF HandleInbox
  <2> HIDE DEF message
  <2>2. UNCHANGED close_flag
    BY <2>1 DEF Send
  <2>3. CASE Refuse(message)
    BY <1>1, <2>2, <2>3, InboxTame DEF Refuse
  <2>4. CASE \E id \in DOMAIN clients : Forward(id, message)
    <3>1. PICK id \in DOMAIN clients : Forward(id, message)
      BY <2>4
    <3>2. CASE UNCHANGED clients
      BY <1>1, <2>2, <3>1, <3>2, InboxTame DEF Forward
    <3>3. CASE clients' = [clients EXCEPT ![id].mail = Append(@, message)]
      <4>1. /\ DOMAIN clients' = DOMAIN clients
            /\ clients' = [i \in DOMAIN clients' |-> clients'[i]]
            /\ \A i \in DOMAIN clients : i # id => clients'[i] = clients[i]
            /\ clients'[id] = [clients[id] EXCEPT !.mail = Append(@, message)]
        BY <3>3
      <4>2. UNCHANGED last_id /\ close_flag \in BOOLEAN /\ message # Close
        BY <1>2, <1>3, <3>1 DEF Forward, Tame, Typed
      <4> QED
        BY <1>1, <1>3, <2>2, <4>1, <4>2, MailTame
    <3> QED
      BY <3>1, <3>2, <3>3 DEF Forward
  <2>5. CASE /\ CreateClient(message) /\ ~close_flag /\ message.token # NoToken
             /\ {id \in DOMAIN clients : clients[id].token = message.token} = {}
    <3>1. message.token \in Token
      BY <1>3, <2>5 DEF QueryMessage
    <3>2. \A id \in DOMAIN clients : clients[id].token # message.token
      BY <2>5
    <3> QED
      BY <1>1, <1>3, <2>2, <2>5, <3>1, <3>2, CreateClientTame
  <2> QED
    BY <2>1, <2>3, <2>4, <2>5 DEF Send
<1>4. CASE message = Close
  <2>1. CloseManager
    BY <1>2, <1>4 DEF HandleInbox
  <2>2. /\ close_flag' = TRUE /\ UNCHANGED last_id
        /\ DOMAIN clients' = DOMAIN clients
        /\ clients' = [id \in DOMAIN clients' |-> clients'[id]]
        /\ \A id \in DOMAIN clients :
             clients'[id] \in {clients[id], [clients[id] EXCEPT !.mail = Append(@, Close)]}
    BY <2>1 DEF CloseManager
  <2> QED
    BY <1>1, <2>2, MailTame
<1>5. CASE \E id \in Nat, n \in {1, -1} : message = Raw(id, n)
  <2>0. message.kind = "raw"
    BY <1>2, <1>5
  <2>2. RawEvent(message.id, message.n)
    BY <2>0 DEF HandleInbox
  <2>1. UNCHANGED <<close_flag, clients, last_id>>
    BY <2>2 DEF RawEvent
  <2> QED
    BY <1>1, <2>1, InboxTame
<1>6. CASE \E id \in Gone : message = Hangup(id)
  <2>1. PICK id \in Gone : message = Hangup(id)
    BY <1>6
  <2>2. HangupShared(id)
    BY <1>2, <2>1 DEF HandleInbox
  <2>3. /\ UNCHANGED <<close_flag, last_id>>
        /\ DOMAIN clients' = DOMAIN clients \ {id}
        /\ clients' = [i \in DOMAIN clients' |-> clients'[i]]
        /\ \A i \in DOMAIN clients' : clients'[i] = clients[i]
    BY <2>2 DEF HangupShared, Without
  <2>4. Gone \subseteq Gone'
    BY <2>3 DEF Gone
  <2>5. inbox' \in Seq(InboxMessage(Gone'))
    BY <1>1, <2>4, InboxGrows
  <2>6. Typed'
    BY <1>1, <2>3, <2>5 DEF Tame, Typed
  <2>7. \A i \in DOMAIN clients' : Sound(clients'[i], close_flag', i \in DOMAIN removing')
    BY <1>1, <2>3 DEF Tame
  <2>8. OneClient' /\ OneHolder'
    BY <1>1, <2>3 DEF Tame, OneClient, OneHolder
  <2>9. RemovingWaits'
    BY <1>1, <2>3 DEF Tame, RemovingWaits, Sound, Gone
  <2> QED
    BY <2>6, <2>7, <2>8, <2>9 DEF Tame
<1> QED
  BY <1>1, <1>3, <1>4, <1>5, <1>6 DEF InboxMessage

\* An empty process
LEMMA EmptyTame ==
  ASSUME load' \in DOMAIN Loads, clients' = <<>>, removing' = <<>>, last_id' = 0, close_flag' = FALSE,
         inbox' \in Seq(QueryMessage), webhook_db' \subseteq Token, IsFiniteSet(webhook_db')
  PROVE  Tame'
<1>1. /\ DOMAIN clients' = {} /\ DOMAIN removing' = {}
      /\ clients' = [id \in DOMAIN clients' |-> clients'[id]]
      /\ removing' \in [DOMAIN removing' -> Token]
  OBVIOUS
<1>2. QueryMessage \subseteq InboxMessage(Gone')
  BY DEF InboxMessage
<1>3. inbox' \in Seq(InboxMessage(Gone'))
  BY <1>2, SeqMonotonic
<1>4. Typed'
  BY <1>1, <1>3 DEF Typed
<1> QED
  BY <1>1, <1>4 DEF Tame, OneClient, OneHolder, RemovingWaits

LEMMA ExitTame ==
  ASSUME Tame, Exit
  PROVE  Tame'
<1>1. inbox' \in Seq(QueryMessage)
  BY DEF Exit
<1>2. load' \in DOMAIN Loads /\ webhook_db' \subseteq Token /\ IsFiniteSet(webhook_db')
  BY DEF Exit, Tame, Typed
<1> QED
  BY <1>1, <1>2, EmptyTame DEF Exit

LEMMA ProcessTame ==
  ASSUME Tame, DatabasesClosed \/ (\E q \in Query : Arrive(q)) \/ Quit \/ Finish
  PROVE  Tame'
<1>1. inbox \in Seq(InboxMessage(Gone)) /\ load \in DOMAIN Loads
  BY DEF Tame, Typed
<1>2. CASE DatabasesClosed
  BY <1>1, <1>2, InboxTame DEF DatabasesClosed, processVars
<1>3. ASSUME NEW q \in Query, Arrive(q)
      PROVE  Tame'
  <2>1. PICK call \in Loads[load].calls[q] : inbox' = Append(inbox, QueryTo(call.token, q, call.method))
    BY <1>3 DEF Arrive
  <2>2. call \in [token : Token \cup {NoToken}, method : Method]
    BY <1>1, <1>3, ServerAssumption DEF Arrive, ServerAssumption
  <2>3. QueryTo(call.token, q, call.method) \in InboxMessage(Gone)
    BY <2>2 DEF QueryTo, QueryMessage, InboxMessage, Ident
  <2>4. inbox' \in Seq(InboxMessage(Gone))
    BY <1>1, <2>1, <2>3
  <2> QED
    BY <1>3, <2>4, InboxTame DEF Arrive, processVars, managerVars
<1>4. CASE Quit
  <2>1. CASE Exit
    BY <2>1, ExitTame
  <2>2. CASE ~Exit
    <3>1. UNCHANGED <<load, last_id, close_flag, clients, removing, webhook_db>> /\ inbox' = Append(inbox, Close)
      BY <1>4, <2>2 DEF Quit, managerVars
    <3>2. inbox' \in Seq(InboxMessage(Gone))
      BY <1>1, <3>1 DEF InboxMessage
    <3> QED
      BY <3>1, <3>2, InboxTame
  <2> QED
    BY <2>1, <2>2
<1>5. CASE Finish
  BY <1>5, ExitTame DEF Finish
<1> QED
  BY <1>2, <1>3, <1>4, <1>5

LEMMA StartTame ==
  ASSUME Tame, Start
  PROVE  Tame'
<1>1. inbox' \in Seq(QueryMessage)
  BY RestoresTyped DEF Start, Tame, Typed
<1>2. inbox' \in Seq(InboxMessage(Gone))
  BY <1>1, SeqMonotonic DEF InboxMessage
<1> QED
  BY <1>2, InboxTame DEF Start

LEMMA InitTame ==
  ASSUME Init
  PROVE  Tame
<1>1. /\ load \in DOMAIN Loads /\ clients = <<>> /\ removing = <<>>
      /\ last_id = 0 /\ close_flag = FALSE
  BY DEF Init
<1>2. webhook_db \subseteq Token /\ IsFiniteSet(webhook_db) /\ inbox \in Restores(webhook_db)
  BY ServerAssumption DEF Init, ServerAssumption
<1>3. /\ DOMAIN clients = {} /\ DOMAIN removing = {}
      /\ clients = [id \in DOMAIN clients |-> clients[id]]
      /\ removing \in [DOMAIN removing -> Token]
  BY <1>1
<1>4. QueryMessage \subseteq InboxMessage(Gone)
  BY DEF InboxMessage
<1>5. inbox \in Seq(InboxMessage(Gone))
  BY <1>2, <1>4, RestoresTyped, SeqMonotonic
<1>6. Typed
  BY <1>1, <1>2, <1>3, <1>5 DEF Typed
<1> QED
  BY <1>3, <1>6 DEF Tame, OneClient, OneHolder, RemovingWaits

LEMMA StutterTame ==
  ASSUME Tame, UNCHANGED vars
  PROVE  Tame'
BY InboxTame DEF vars, processVars, managerVars, Tame, Typed

LEMMA NextTame ==
  ASSUME Tame, [Next]_vars
  PROVE  Tame'
<1>1. ASSUME NEW id \in DOMAIN clients,
             \/ HandleMail(id) \/ OnCmd(id) \/ TdAuthorizes(id) \/ TdCloses(id) \/ TdAnswers(id)
             \/ OnClosed(id) \/ TimeoutExpired(id) \/ TdLogsOut(id) \/ TdInitFails(id)
      PROVE  Tame'
  BY <1>1, HandleMailTame, OnCmdTame, TdTame, OnClosedTame, TimeoutTame, TdInitFailsTame
<1>2. ASSUME NEW id \in DOMAIN removing, DirectoryRemoved(id)
      PROVE  Tame'
  BY <1>2, DirectoryRemovedTame
<1> QED
  BY <1>1, <1>2, HandleInboxTame, ProcessTame, StartTame, StutterTame DEF Next, Progress, Environment

THEOREM TameHolds == Spec => []Tame
<1>1. Init => Tame
  BY InitTame
<1>2. Tame /\ [Next]_vars => Tame'
  BY NextTame
<1> QED
  BY <1>1, <1>2, PTL DEF Spec
-----------------------------------------------------------------------------
(* DirectoryExclusive.                                                     *)

LEMMA AtMostOne ==
  ASSUME NEW S, \A x, y \in S : x = y
  PROVE  Cardinality(S) <= 1
<1>1. CASE S = {}
  BY <1>1, FS_EmptySet
<1>2. CASE S # {}
  <2>1. PICK x \in S : S = {x}
    BY <1>2
  <2> QED
    BY <2>1, FS_Singleton
<1> QED
  BY <1>1, <1>2

LEMMA TameExclusive ==
  ASSUME Tame
  PROVE  DirectoryExclusive
<1> SUFFICES ASSUME NEW t \in Token
             PROVE  Cardinality({id \in DOMAIN clients : clients[id].token = t /\ clients[id].td}
                                  \cup {id \in DOMAIN removing : removing[id] = t}) <= 1
  BY DEF DirectoryExclusive
<1> DEFINE S == {id \in DOMAIN clients : clients[id].token = t /\ clients[id].td}
                  \cup {id \in DOMAIN removing : removing[id] = t}
<1>1. \A x, y \in S : x = y
  BY DEF Tame, OneClient, OneHolder
<1> QED
  BY <1>1, AtMostOne

\* The directory of a token is never used by two TDLib instances, nor by one while it is
\* being removed (clients_ of ClientManager::send, and Client::on_closed).
THEOREM DirectoryIsExclusive == Spec => []DirectoryExclusive
<1>1. Tame => DirectoryExclusive
  BY TameExclusive
<1> QED
  BY <1>1, TameHolds, PTL
-----------------------------------------------------------------------------
(* RestoredFirst: a Client that may miss its webhook restores it next.     *)

RestoreNext(c) ==
  \/ c.cmd_queue # <<>> /\ Head(c.cmd_queue).method = "restore"
  \/ c.cmd_queue = <<>> /\ c.mail # <<>> /\ Head(c.mail).kind = "query" /\ Head(c.mail).method = "restore"

\* stored: webhook_db_ holds a webhook for the Client.
Restored(c, stored) ==
  stored /\ c.first \notin {"setwebhook", "deletewebhook"} /\ c.webhook = "none"
    => ~c.served /\ (Leaving(c) \/ ~c.alive \/ RestoreNext(c))

Restoring == \A id \in DOMAIN clients : Restored(clients[id], clients[id].token \in webhook_db)

\* The Client id becomes c, and webhook_db_ changes at most for its token.
LEMMA RestoredChanges ==
  ASSUME Tame, Restoring, NEW id \in DOMAIN clients, NEW c,
         clients' = [clients EXCEPT ![id] = c], c.token = clients[id].token,
         \A t \in Token : t # c.token => (t \in webhook_db' <=> t \in webhook_db),
         Restored(c, c.token \in webhook_db')
  PROVE  Restoring'
<1>1. DOMAIN clients' = DOMAIN clients /\ clients'[id] = c
  OBVIOUS
<1>2. ASSUME NEW i \in DOMAIN clients, i # id
      PROVE  Restored(clients'[i], clients'[i].token \in webhook_db')
  <2>1. clients'[i] = clients[i] /\ clients[i].token # c.token
    BY <1>2 DEF Tame, OneClient
  <2>2. clients[i].token \in Token
    BY ClientTyped DEF Client
  <2>3. Restored(clients[i], clients[i].token \in webhook_db)
    BY DEF Restoring
  <2> QED
    BY <2>1, <2>2, <2>3 DEF Restored
<1> QED
  BY <1>1, <1>2 DEF Restoring

\* A step that changes of a Client only what Restored does not look at
LEMMA RestoredKept ==
  ASSUME Tame, Restoring, NEW id \in DOMAIN clients, NEW c,
         clients' = [clients EXCEPT ![id] = c], UNCHANGED webhook_db,
         c.token = clients[id].token, c.first = clients[id].first, c.webhook = clients[id].webhook,
         c.served = clients[id].served,
         Leaving(clients[id]) => Leaving(c),
         ~clients[id].alive => ~c.alive,
         RestoreNext(clients[id]) => RestoreNext(c) \/ ~c.alive
  PROVE  Restoring'
<1>1. Restored(clients[id], clients[id].token \in webhook_db)
  BY DEF Restoring
<1>2. Restored(c, c.token \in webhook_db')
  BY <1>1 DEF Restored
<1> QED
  BY <1>2, RestoredChanges

LEMMA HandleMailRestoring ==
  ASSUME Tame, Restoring, NEW id \in DOMAIN clients, HandleMail(id)
  PROVE  Restoring'
<1> DEFINE a == clients[id]
           c == [a EXCEPT !.mail = Tail(@)]
           message == Head(a.mail)
           Kept(d) == /\ clients' = [clients EXCEPT ![id] = d]
                      /\ d.token = a.token /\ d.first = a.first /\ d.webhook = a.webhook
                      /\ d.served = a.served
                      /\ (Leaving(a) => Leaving(d))
                      /\ (RestoreNext(a) => RestoreNext(d) \/ ~d.alive)
<1>1. a \in Client /\ a.alive /\ a.mail # <<>>
  BY ClientTyped DEF HandleMail
<1>2. UNCHANGED webhook_db
  BY DEF HandleMail
<1>3. \A d : Kept(d) => Restoring'
  BY <1>1, <1>2, RestoredKept
<1>4. Tail(a.mail) \in Seq(QueryMessage \cup {Close, Removed}) /\ message \in QueryMessage \cup {Close, Removed}
  BY <1>1 DEF Client
<1>5. /\ c \in Client
      /\ c.token = a.token /\ c.first = a.first /\ c.webhook = a.webhook /\ c.served = a.served
      /\ c.logging_out = a.logging_out /\ c.closing = a.closing /\ c.cmd_queue = a.cmd_queue
  BY <1>1, <1>4 DEF Client
<1>6. /\ Leaving(a) => Leaving(c)
      /\ RestoreNext(a) => RestoreNext(c) \/ (c.cmd_queue = <<>> /\ message.kind = "query" /\ message.method = "restore")
  BY <1>5 DEF Leaving, RestoreNext
<1>7. Close.kind = "close" /\ Removed.kind = "removed" /\ \A m \in QueryMessage : m.kind = "query"
  BY DEF Close, Removed, QueryMessage
<1> HIDE DEF c, message
<1>8. CASE message.kind = "query"
  <2>1. message \in QueryMessage
    BY <1>4, <1>7, <1>8
  <2>2. CASE message.method = "other" /\ clients' = [clients EXCEPT ![id] = c]
    BY <1>3, <1>5, <1>6, <2>2
  <2>3. CASE clients' = [clients EXCEPT ![id] = [c EXCEPT !.cmd_queue = Append(@, message)]]
    <3> DEFINE d == [c EXCEPT !.cmd_queue = Append(@, message)]
    <3>1. /\ d.token = c.token /\ d.first = c.first /\ d.webhook = c.webhook /\ d.served = c.served
          /\ d.logging_out = c.logging_out /\ d.closing = c.closing
          /\ d.cmd_queue = Append(c.cmd_queue, message)
      BY <1>5 DEF Client
    <3>2. /\ d.cmd_queue # <<>>
          /\ Head(d.cmd_queue) = IF c.cmd_queue = <<>> THEN message ELSE Head(c.cmd_queue)
      BY <1>5, <2>1, <3>1 DEF Client
    <3> HIDE DEF d
    <3>3. Leaving(c) => Leaving(d)
      BY <3>1 DEF Leaving
    <3>5. c.cmd_queue # <<>> /\ RestoreNext(c) => RestoreNext(d)
      BY <3>2 DEF RestoreNext
    <3>6. c.cmd_queue = <<>> /\ message.method = "restore" => RestoreNext(d)
      BY <3>2 DEF RestoreNext
    <3>7. c.cmd_queue = <<>> /\ RestoreNext(a) => message.method = "restore"
      BY <1>5 DEF RestoreNext, message
    <3>8. RestoreNext(a) => RestoreNext(d)
      BY <1>6, <3>5, <3>6, <3>7
    <3>4. clients' = [clients EXCEPT ![id] = d]
      BY <2>3 DEF d
    <3> QED
      BY <1>3, <1>5, <1>6, <3>1, <3>3, <3>4, <3>8
  <2> QED
    BY <1>8, <2>2, <2>3 DEF HandleMail, c, message
<1>9. CASE message.kind # "query"
  <2>1. RestoreNext(a) => RestoreNext(c)
    BY <1>6, <1>9
  <2>2. CASE message.kind = "close"
    <3> DEFINE d == CloseClient(c)
    <3>1. /\ d.token = c.token /\ d.first = c.first /\ d.webhook = c.webhook /\ d.served = c.served
          /\ d.logging_out = c.logging_out /\ d.closing = c.closing
          /\ d.cmd_queue = c.cmd_queue /\ d.mail = c.mail
      BY <1>5 DEF Client, CloseClient
    <3>2. clients' = [clients EXCEPT ![id] = d]
      BY <2>2 DEF HandleMail, c, message
    <3> HIDE DEF d
    <3>3. (Leaving(c) => Leaving(d)) /\ (RestoreNext(c) => RestoreNext(d))
      BY <3>1 DEF Leaving, RestoreNext
    <3> QED
      BY <1>3, <1>5, <1>6, <2>1, <3>1, <3>2, <3>3
  <2>3. CASE message.kind = "removed"
    <3>1. FinishClosing(id, c)
      BY <2>3 DEF HandleMail, c, message
    <3> DEFINE d == [c EXCEPT !.alive = FALSE, !.mail = <<>>, !.cmd_queue = <<>>, !.waiting = {}]
               e == [c EXCEPT !.timer = TRUE]
    <3>2. clients' = [clients EXCEPT ![id] = d] \/ clients' = [clients EXCEPT ![id] = e]
      BY <3>1 DEF FinishClosing, StopClient
    <3>3. /\ d.token = c.token /\ d.first = c.first /\ d.webhook = c.webhook /\ d.served = c.served
          /\ d.logging_out = c.logging_out /\ d.closing = c.closing /\ ~d.alive
      BY <1>5 DEF Client
    <3>4. /\ e.token = c.token /\ e.first = c.first /\ e.webhook = c.webhook /\ e.served = c.served
          /\ e.logging_out = c.logging_out /\ e.closing = c.closing
          /\ e.cmd_queue = c.cmd_queue /\ e.mail = c.mail
      BY <1>5 DEF Client
    <3> HIDE DEF d, e
    <3>5. (Leaving(c) => Leaving(d)) /\ (Leaving(c) => Leaving(e)) /\ (RestoreNext(c) => RestoreNext(e))
      BY <3>3, <3>4 DEF Leaving, RestoreNext
    <3> QED
      BY <1>3, <1>5, <1>6, <2>1, <3>2, <3>3, <3>4, <3>5
  <2> QED
    BY <1>4, <1>7, <1>9, <2>2, <2>3
<1> QED
  BY <1>8, <1>9

LEMMA OnCmdRestoring ==
  ASSUME Tame, Restoring, NEW id \in DOMAIN clients, OnCmd(id)
  PROVE  Restoring'
<1> DEFINE a == clients[id]
           c == [a EXCEPT !.cmd_queue = Tail(@)]
           query == Head(a.cmd_queue)
           stored == a.token \in webhook_db
           exempt == a.first \in {"setwebhook", "deletewebhook"}
           Fine(d) == /\ clients' = [clients EXCEPT ![id] = d] /\ d.token = a.token
                      /\ \A t \in Token : t # d.token => (t \in webhook_db' <=> t \in webhook_db)
                      /\ Restored(d, d.token \in webhook_db')
<1>1. a \in Client /\ a.alive /\ a.cmd_queue # <<>> /\ Restored(a, stored)
  BY ClientTyped DEF OnCmd, Looping, Restoring
<1>2. Tail(a.cmd_queue) \in Seq(QueryMessage)
  BY <1>1 DEF Client
<1>3. /\ c \in Client
      /\ c.token = a.token /\ c.first = a.first /\ c.webhook = a.webhook /\ c.served = a.served
      /\ c.logging_out = a.logging_out /\ c.closing = a.closing
  BY <1>1, <1>2 DEF Client
<1>4. \A d : Fine(d) => Restoring'
  BY RestoredChanges
<1>5. Leaving(a) <=> Leaving(c)
  BY <1>3 DEF Leaving
\* It has restored its webhook, or it does so now.
<1>6. \/ Leaving(c) \/ ~stored \/ exempt \/ a.webhook # "none"
      \/ query.method = "restore" /\ ~a.served
  BY <1>1, <1>5 DEF Restored, RestoreNext
<1> HIDE DEF c, query, stored, exempt
<1>7. CASE UNCHANGED webhook_db /\ \E d : /\ clients' = [clients EXCEPT ![id] = d]
                                         /\ d.token = a.token /\ d.first = a.first
                                         /\ d.webhook = a.webhook /\ d.served = a.served
                                         /\ (Leaving(a) => Leaving(d))
                                         /\ (Leaving(a) \/ query.method # "restore")
  <2>1. PICK d : /\ clients' = [clients EXCEPT ![id] = d]
                 /\ d.token = a.token /\ d.first = a.first
                 /\ d.webhook = a.webhook /\ d.served = a.served
                 /\ (Leaving(a) => Leaving(d))
                 /\ (Leaving(a) \/ query.method # "restore")
    BY <1>7
  <2>2. Restored(d, stored)
    BY <1>1, <1>5, <1>6, <2>1 DEF Restored, exempt
  <2>3. Fine(d)
    BY <1>7, <2>1, <2>2 DEF stored
  <2> QED
    BY <1>4, <2>3
<1>8. CASE UNCHANGED webhook_db /\ clients' = [clients EXCEPT ![id] = c]
                                /\ (Leaving(a) \/ query.method # "restore")
  BY <1>3, <1>5, <1>7, <1>8
<1>9. CASE UNCHANGED webhook_db /\ OnSpecial(id, c, query) /\ query.method \in {"close", "logout"}
  <2> DEFINE d == [c EXCEPT !.need_close = @ \/ query.method = "close",
                            !.asked = @ \/ query.method = "close",
                            !.waiting = @ \cup {query.q}]
  <2>1. /\ d.token = c.token /\ d.first = c.first /\ d.webhook = c.webhook /\ d.served = c.served
        /\ d.logging_out = c.logging_out /\ d.closing = c.closing
    BY <1>3 DEF Client
  <2>2. clients' = [clients EXCEPT ![id] = c] \/ clients' = [clients EXCEPT ![id] = d]
    BY <1>9 DEF OnSpecial
  <2> HIDE DEF d
  <2>3. Leaving(a) => Leaving(d)
    BY <1>5, <2>1 DEF Leaving
  <2> QED
    BY <1>3, <1>7, <1>8, <1>9, <2>1, <2>2, <2>3
<1>10. CASE Execute(id, c, query) /\ ~Leaving(c)
  <2> DEFINE Becomes(w) == [c EXCEPT !.webhook = w]
             d == [c EXCEPT !.served = TRUE]
  <2>1. \A w \in {"none", "set", "failed"} :
          /\ Becomes(w).token = a.token /\ Becomes(w).first = a.first /\ Becomes(w).webhook = w
          /\ Becomes(w).served = a.served
    BY <1>3 DEF Client
  <2>2. d.token = a.token /\ d.first = a.first /\ d.webhook = a.webhook
    BY <1>3 DEF Client
  <2>3. CASE /\ query.method \in {"setwebhook", "restore"}
             /\ webhook_db' = webhook_db \cup {c.token}
             /\ clients' = [clients EXCEPT ![id] = [c EXCEPT !.webhook = "set"]]
    <3>1. clients' = [clients EXCEPT ![id] = Becomes("set")] /\ Becomes("set").webhook = "set"
      BY <2>1, <2>3
    <3>2. Becomes("set").token = a.token
      BY <2>1
    <3> HIDE DEF Becomes
    <3>3. Restored(Becomes("set"), Becomes("set").token \in webhook_db')
      BY <3>1 DEF Restored
    <3>4. Fine(Becomes("set"))
      BY <1>3, <2>3, <3>1, <3>2, <3>3
    <3> QED
      BY <1>4, <3>4
  <2>7. CASE /\ query.method \in {"setwebhook", "restore"}
             /\ webhook_db' = webhook_db \ {c.token}
             /\ clients' = [clients EXCEPT ![id] = [c EXCEPT !.webhook = "failed"]]
    <3>1. clients' = [clients EXCEPT ![id] = Becomes("failed")] /\ Becomes("failed").webhook = "failed"
      BY <2>1, <2>7
    <3>2. Becomes("failed").token = a.token
      BY <2>1
    <3> HIDE DEF Becomes
    <3>3. Restored(Becomes("failed"), Becomes("failed").token \in webhook_db')
      BY <3>1 DEF Restored
    <3>4. Fine(Becomes("failed"))
      BY <1>3, <2>7, <3>1, <3>2, <3>3
    <3> QED
      BY <1>4, <3>4
  <2>4. CASE /\ query.method \in {"setwebhook", "restore"}
             /\ clients' = [clients EXCEPT ![id] = [c EXCEPT !.webhook = IF @ = "none" THEN "failed" ELSE @]]
             /\ UNCHANGED webhook_db
    <3> DEFINE w == IF c.webhook = "none" THEN "failed" ELSE c.webhook
    <3>1. w \in {"none", "set", "failed"} /\ w # "none"
      BY <1>3 DEF Client
    <3>2. clients' = [clients EXCEPT ![id] = Becomes(w)]
      BY <2>4
    <3> HIDE DEF Becomes, w
    <3>3. Becomes(w).token = a.token /\ Becomes(w).webhook = w
      BY <2>1, <3>1
    <3>4. Restored(Becomes(w), Becomes(w).token \in webhook_db')
      BY <3>1, <3>3 DEF Restored
    <3>5. Fine(Becomes(w))
      BY <2>4, <3>2, <3>3, <3>4
    <3> QED
      BY <1>4, <3>5
  <2>5. CASE /\ query.method = "deletewebhook"
             /\ webhook_db' = IF c.webhook = "set" THEN webhook_db \ {c.token} ELSE webhook_db
             /\ clients' = [clients EXCEPT ![id] = [c EXCEPT !.webhook = IF @ = "set" THEN "none" ELSE @]]
    <3> DEFINE w == IF c.webhook = "set" THEN "none" ELSE c.webhook
    <3>1. w \in {"none", "set", "failed"}
      BY <1>3 DEF Client
    <3>2. clients' = [clients EXCEPT ![id] = Becomes(w)]
      BY <2>5
    <3>0. w = IF c.webhook = "set" THEN "none" ELSE c.webhook
      OBVIOUS
    <3> HIDE DEF Becomes, w
    <3>3. Becomes(w).token = a.token /\ Becomes(w).webhook = w /\ Becomes(w).first = a.first
      BY <2>1, <3>1
    <3>6. ~(a.token \in webhook_db' /\ ~exempt /\ w = "none")
      BY <1>3, <1>6, <1>10, <2>5, <3>0 DEF stored
    <3>4. Restored(Becomes(w), Becomes(w).token \in webhook_db')
      BY <3>3, <3>6 DEF Restored, exempt
    <3>5. Fine(Becomes(w))
      BY <1>3, <2>5, <3>2, <3>3, <3>4
    <3> QED
      BY <1>4, <3>5
  <2>6. CASE /\ query.method = "other"
             /\ clients' = [clients EXCEPT ![id] = [c EXCEPT !.served = TRUE]]
             /\ UNCHANGED webhook_db
    <3>1. clients' = [clients EXCEPT ![id] = d]
      BY <2>6
    <3> HIDE DEF d
    <3>2. Restored(d, d.token \in webhook_db')
      BY <1>6, <1>10, <2>2, <2>6 DEF Restored, stored, exempt
    <3>3. Fine(d)
      BY <2>2, <2>6, <3>1, <3>2
    <3> QED
      BY <1>4, <3>3
  <2> QED
    BY <1>10, <2>3, <2>4, <2>5, <2>6, <2>7 DEF Execute
<1> QED
  BY <1>5, <1>8, <1>9, <1>10 DEF OnCmd, c, query

LEMMA TdRestoring ==
  ASSUME Tame, Restoring, NEW id \in DOMAIN clients,
         TdAuthorizes(id) \/ TdLogsOut(id) \/ TdCloses(id) \/ TdAnswers(id) \/ TdInitFails(id)
  PROVE  Restoring'
<1> DEFINE a == clients[id]
           Becomes(d) == /\ clients' = [clients EXCEPT ![id] = d]
                         /\ d.token = a.token /\ d.first = a.first /\ d.webhook = a.webhook
                         /\ d.served = a.served /\ d.cmd_queue = a.cmd_queue /\ d.mail = a.mail
                         /\ (Leaving(a) => Leaving(d))
<1>1. a \in Client /\ a.alive /\ UNCHANGED webhook_db
  BY ClientTyped DEF Sound, TdAuthorizes, TdLogsOut, TdCloses, TdAnswers, TdInitFails, TdTells
<1>2. \A d : Becomes(d) => Restoring'
  <2> SUFFICES ASSUME NEW d, Becomes(d)
               PROVE  Restoring'
    OBVIOUS
  <2>1. RestoreNext(a) => RestoreNext(d)
    BY DEF RestoreNext
  <2> QED
    BY <1>1, <2>1, RestoredKept
<1>3. CASE TdAuthorizes(id)
  <2>1. Becomes([a EXCEPT !.was_authorized = TRUE])
    BY <1>1, <1>3 DEF TdAuthorizes, Client, Leaving
  <2> QED
    BY <1>2, <2>1
<1>4. CASE TdLogsOut(id)
  <2>1. Becomes([a EXCEPT !.logging_out = TRUE])
    BY <1>1, <1>4 DEF TdLogsOut, Client, Leaving
  <2> QED
    BY <1>2, <2>1
<1>5. CASE TdCloses(id)
  <2>1. Becomes([a EXCEPT !.closing = TRUE])
    BY <1>1, <1>5 DEF TdCloses, Client, Leaving
  <2> QED
    BY <1>2, <2>1
<1>6. CASE TdAnswers(id)
  <2>1. Becomes([a EXCEPT !.waiting = {}])
    BY <1>1, <1>6 DEF TdAnswers, Client, Leaving
  <2> QED
    BY <1>2, <2>1
<1>7. CASE TdInitFails(id)
  <2>1. Becomes(CloseClient(a))
    BY <1>1, <1>7 DEF TdInitFails, Client, Leaving, CloseClient
  <2> QED
    BY <1>2, <2>1
<1> QED
  BY <1>3, <1>4, <1>5, <1>6, <1>7

\* A Client that has stopped, or is about to
LEMMA LeavesRestoring ==
  ASSUME Tame, Restoring, NEW id \in DOMAIN clients, NEW c,
         clients' = [clients EXCEPT ![id] = c],
         c.token = clients[id].token, c.first = clients[id].first, c.webhook = clients[id].webhook,
         c.served = clients[id].served,
         webhook_db' \in {webhook_db, webhook_db \ {c.token}},
         Leaving(c) \/ ~c.alive
  PROVE  Restoring'
<1>1. Restored(clients[id], clients[id].token \in webhook_db)
  BY DEF Restoring
<1>2. Restored(c, c.token \in webhook_db')
  BY <1>1 DEF Restored
<1> QED
  BY <1>2, RestoredChanges

LEMMA OnClosedRestoring ==
  ASSUME Tame, Restoring, NEW id \in DOMAIN clients, OnClosed(id) \/ TimeoutExpired(id)
  PROVE  Restoring'
<1> DEFINE a == clients[id]
           Stopped(c) == [c EXCEPT !.alive = FALSE, !.mail = <<>>, !.cmd_queue = <<>>, !.waiting = {}]
           Like(d) == d.token = a.token /\ d.first = a.first /\ d.webhook = a.webhook /\ d.served = a.served
<1>1. a \in Client
  BY ClientTyped
<1>2. \A c \in Client : Like(c) => Like(Stopped(c)) /\ ~Stopped(c).alive
  BY DEF Client
<1>3. CASE TimeoutExpired(id)
  <2>1. clients' = [clients EXCEPT ![id] = Stopped(a)] /\ UNCHANGED webhook_db
    BY <1>3 DEF TimeoutExpired, StopClient
  <2>2. Like(Stopped(a)) /\ ~Stopped(a).alive
    BY <1>1, <1>2
  <2> HIDE DEF Stopped
  <2> QED
    BY <2>1, <2>2, LeavesRestoring
<1>4. CASE OnClosed(id)
  <2> DEFINE c == [a EXCEPT !.td = FALSE]
             d == [c EXCEPT !.timer = TRUE]
  <2>1. c \in Client /\ Like(c) /\ c.logging_out = a.logging_out /\ c.closing = a.closing
    BY <1>1 DEF Client
  <2>2. Leaving(c)
    BY <1>4, <2>1 DEF OnClosed, Leaving
  <2>3. /\ webhook_db' \in {webhook_db, webhook_db \ {c.token}}
        /\ clients' = [clients EXCEPT ![id] = c] \/ FinishClosing(id, c)
    BY <1>4 DEF OnClosed
  <2> HIDE DEF c
  <2>4. Like(d) /\ d.logging_out = c.logging_out /\ d.closing = c.closing
    BY <2>1 DEF Client
  <2>5. Leaving(d)
    BY <2>2, <2>4 DEF Leaving
  <2>6. Like(Stopped(c)) /\ ~Stopped(c).alive
    BY <1>2, <2>1
  <2>7. \/ clients' = [clients EXCEPT ![id] = c]
        \/ clients' = [clients EXCEPT ![id] = d]
        \/ clients' = [clients EXCEPT ![id] = Stopped(c)]
    BY <2>3 DEF FinishClosing, StopClient
  <2>8. c.token = a.token
    BY <2>1
  <2> HIDE DEF d, Stopped
  <2> QED
    BY <2>1, <2>2, <2>3, <2>4, <2>5, <2>6, <2>7, LeavesRestoring
<1> QED
  BY <1>3, <1>4

\* Mail comes after what a Client already has.
LEMMA AppendRestored ==
  ASSUME NEW a \in Client, NEW m \in QueryMessage \cup {Close, Removed}, NEW stored, Restored(a, stored)
  PROVE  Restored([a EXCEPT !.mail = Append(@, m)], stored)
<1> DEFINE c == [a EXCEPT !.mail = Append(@, m)]
<1>1. /\ c.token = a.token /\ c.first = a.first /\ c.webhook = a.webhook /\ c.served = a.served
      /\ c.logging_out = a.logging_out /\ c.closing = a.closing /\ c.alive = a.alive
      /\ c.cmd_queue = a.cmd_queue /\ c.mail = Append(a.mail, m)
  BY DEF Client
<1>2. a.mail # <<>> => c.mail # <<>> /\ Head(c.mail) = Head(a.mail)
  BY <1>1 DEF Client
<1> HIDE DEF c
<1>3. RestoreNext(a) => RestoreNext(c)
  BY <1>1, <1>2 DEF RestoreNext
<1>4. Restored(c, stored)
  BY <1>1, <1>3 DEF Restored, Leaving
<1> QED
  BY <1>4 DEF c

LEMMA DirectoryRemovedRestoring ==
  ASSUME Tame, Restoring, NEW id \in DOMAIN removing, DirectoryRemoved(id)
  PROVE  Restoring'
<1>1. UNCHANGED webhook_db
  BY DEF DirectoryRemoved
<1>2. DOMAIN clients' = DOMAIN clients /\ \A i \in DOMAIN clients :
        clients'[i] \in {clients[i], [clients[i] EXCEPT !.mail = Append(@, Removed)]}
  BY DEF DirectoryRemoved
<1>3. ASSUME NEW i \in DOMAIN clients
      PROVE  Restored(clients'[i], clients'[i].token \in webhook_db')
  <2> DEFINE c == [clients[i] EXCEPT !.mail = Append(@, Removed)]
  <2>1. clients[i] \in Client /\ Restored(clients[i], clients[i].token \in webhook_db)
    BY ClientTyped DEF Restoring
  <2>2. Restored(c, clients[i].token \in webhook_db)
    BY <2>1, AppendRestored
  <2>3. c.token = clients[i].token
    BY <2>1 DEF Client
  <2> HIDE DEF c
  <2>4. clients'[i] \in {clients[i], c}
    BY <1>2 DEF c
  <2> QED
    BY <1>1, <2>1, <2>2, <2>3, <2>4
<1> QED
  BY <1>2, <1>3 DEF Restoring

LEMMA HandleInboxRestoring ==
  ASSUME Tame, Restoring, HandleInbox
  PROVE  Restoring'
<1> DEFINE message == Head(inbox)
<1>1. message \in InboxMessage(Gone) /\ UNCHANGED webhook_db
  BY DEF HandleInbox, Tame, Typed
<1>2. Close.kind = "close" /\ (\A id, n : Raw(id, n).kind = "raw") /\ (\A id : Hangup(id).kind = "hangup")
  BY DEF Close, Raw, Hangup
<1>3. message.kind = "query" => message \in QueryMessage
  BY <1>1, <1>2 DEF InboxMessage
<1>4. ASSUME DOMAIN clients' = DOMAIN clients,
             NEW m \in QueryMessage \cup {Close},
             \A i \in DOMAIN clients :
               clients'[i] \in {clients[i], [clients[i] EXCEPT !.mail = Append(@, m)]}
      PROVE  Restoring'
  <2>1. ASSUME NEW i \in DOMAIN clients
        PROVE  Restored(clients'[i], clients'[i].token \in webhook_db')
    <3> DEFINE c == [clients[i] EXCEPT !.mail = Append(@, m)]
    <3>1. clients[i] \in Client /\ Restored(clients[i], clients[i].token \in webhook_db)
      BY ClientTyped DEF Restoring
    <3>2. Restored(c, clients[i].token \in webhook_db)
      BY <3>1, AppendRestored
    <3>3. c.token = clients[i].token
      BY <3>1 DEF Client
    <3> HIDE DEF c
    <3>4. clients'[i] \in {clients[i], c}
      BY <1>4 DEF c
    <3> QED
      BY <1>1, <3>1, <3>2, <3>3, <3>4
  <2> QED
    BY <1>4, <2>1 DEF Restoring
<1>5. CASE UNCHANGED clients
  BY <1>1, <1>5 DEF Restoring
<1>6. CASE message.kind = "query"
  <2>1. Send(message) /\ message \in QueryMessage
    BY <1>3, <1>6 DEF HandleInbox
  <2> HIDE DEF message
  <2>2. CASE Refuse(message)
    BY <1>5, <2>2 DEF Refuse
  <2>3. CASE \E id \in DOMAIN clients : Forward(id, message)
    <3>1. PICK id \in DOMAIN clients : Forward(id, message)
      BY <2>3
    <3>2. CASE clients' = [clients EXCEPT ![id].mail = Append(@, message)]
      <4>1. DOMAIN clients' = DOMAIN clients /\ \A i \in DOMAIN clients :
              clients'[i] \in {clients[i], [clients[i] EXCEPT !.mail = Append(@, message)]}
        BY <3>2
      <4> QED
        BY <1>4, <2>1, <4>1
    <3> QED
      BY <1>5, <3>1, <3>2 DEF Forward
  <2>4. CASE CreateClient(message) /\ message.token # NoToken
    <3> DEFINE new == last_id + 1
               c == NewClient(message.token, message.method, FirstMail(message))
    <3>1. /\ DOMAIN clients' = DOMAIN clients \cup {new}
          /\ clients'[new] = c
          /\ \A i \in DOMAIN clients : i # new => clients'[i] = clients[i]
      BY <2>4 DEF CreateClient, Put
    <3>2. /\ c.token = message.token /\ c.first = message.method /\ c.webhook = "none" /\ ~c.served
          /\ c.cmd_queue = <<>> /\ c.mail = FirstMail(message)
      BY DEF NewClient
    <3> HIDE DEF c
    <3>3. message.token \in webhook_db /\ message.method \notin {"setwebhook", "deletewebhook"}
            => /\ FirstMail(message) # <<>>
               /\ Head(FirstMail(message)).kind = "query"
               /\ Head(FirstMail(message)).method = "restore"
      <4>1. Restore(message.token).kind = "query" /\ Restore(message.token).method = "restore"
        BY DEF Restore, QueryTo
      <4>2. message.kind = "query"
        BY <1>6
      <4>3. CASE message.method = "restore"
        BY <4>2, <4>3 DEF FirstMail
      <4>4. CASE message.method # "restore"
        BY <4>1, <4>4 DEF FirstMail
      <4> QED
        BY <4>3, <4>4
    <3>4. Restored(c, c.token \in webhook_db)
      BY <3>2, <3>3 DEF Restored, RestoreNext
    <3> QED
      BY <1>1, <3>1, <3>4 DEF Restoring
  <2> QED
    BY <2>1, <2>2, <2>3, <2>4 DEF Send
<1>7. CASE message.kind = "close"
  <2>1. CloseManager
    BY <1>7 DEF HandleInbox
  <2>2. DOMAIN clients' = DOMAIN clients /\ \A i \in DOMAIN clients :
          clients'[i] \in {clients[i], [clients[i] EXCEPT !.mail = Append(@, Close)]}
    BY <2>1 DEF CloseManager
  <2> QED
    BY <1>4, <2>2
<1>8. CASE message.kind = "raw"
  <2>1. RawEvent(message.id, message.n)
    BY <1>8 DEF HandleInbox
  <2> QED
    BY <1>5, <2>1 DEF RawEvent
<1>9. CASE message.kind = "hangup"
  <2>1. HangupShared(message.id)
    BY <1>9 DEF HandleInbox
  <2>2. \A i \in DOMAIN clients' : i \in DOMAIN clients /\ clients'[i] = clients[i]
    BY <2>1 DEF HangupShared, Without
  <2> QED
    BY <1>1, <2>2 DEF Restoring
<1> QED
  BY <1>1, <1>2, <1>6, <1>7, <1>8, <1>9 DEF InboxMessage, QueryMessage

LEMMA ProcessRestoring ==
  ASSUME Tame, Restoring,
         \/ DatabasesClosed \/ (\E q \in Query : Arrive(q)) \/ Quit \/ Finish \/ Start
         \/ UNCHANGED vars
  PROVE  Restoring'
<1>1. CASE UNCHANGED <<clients, webhook_db>>
  BY <1>1 DEF Restoring
<1>2. CASE Exit
  <2>1. DOMAIN clients' = {}
    BY <1>2 DEF Exit
  <2> QED
    BY <2>1 DEF Restoring
<1> QED
  BY <1>1, <1>2 DEF DatabasesClosed, Arrive, Quit, Finish, Start, vars

LEMMA NextRestoring ==
  ASSUME Tame, Restoring, [Next]_vars
  PROVE  Restoring'
<1>1. ASSUME NEW id \in DOMAIN clients,
             \/ HandleMail(id) \/ OnCmd(id) \/ TdAuthorizes(id) \/ TdCloses(id) \/ TdAnswers(id)
             \/ OnClosed(id) \/ TimeoutExpired(id) \/ TdLogsOut(id) \/ TdInitFails(id)
      PROVE  Restoring'
  BY <1>1, HandleMailRestoring, OnCmdRestoring, TdRestoring, OnClosedRestoring
<1>2. ASSUME NEW id \in DOMAIN removing, DirectoryRemoved(id)
      PROVE  Restoring'
  BY <1>2, DirectoryRemovedRestoring
<1> QED
  BY <1>1, <1>2, HandleInboxRestoring, ProcessRestoring DEF Next, Progress, Environment

\* A Client serves nothing before the webhook that webhook_db_ holds for it was restored
\* (get_webhook_restore_query in ClientManager::send and start_up).
THEOREM WebhookRestoredFirst == Spec => []RestoredFirst
<1>1. Init => Restoring
  <2>1. Init => DOMAIN clients = {}
    BY DEF Init
  <2> QED
    BY <2>1 DEF Restoring
<1>2. Tame /\ Restoring /\ [Next]_vars => Restoring'
  BY NextRestoring
<1>3. Restoring => RestoredFirst
  BY DEF Restoring, Restored, RestoredFirst
<1> QED
  BY <1>1, <1>2, <1>3, TameHolds, PTL DEF Spec
-----------------------------------------------------------------------------
(* DatabasesOutliveClients: every open query is somewhere.                 *)

Somewhere(q) == q \in QueriesIn(inbox) \/ \E id \in DOMAIN clients : q \in Held(clients[id])

Accounted ==
  /\ \A q \in open : Somewhere(q)
  /\ \A id \in DOMAIN clients : ~clients[id].alive => Held(clients[id]) = {}
  /\ up /\ databases # "open" => close_flag /\ DOMAIN clients = {}
  /\ ~up => databases = "closed" /\ open = {} /\ DOMAIN clients = {}

LEMMA QueriesInAppend ==
  ASSUME NEW S, NEW s \in Seq(S), NEW m \in S
  PROVE  /\ QueriesIn(s) \subseteq QueriesIn(Append(s, m))
         /\ m.kind = "query" => m.q \in QueriesIn(Append(s, m))
<1> DEFINE r == Append(s, m)
<1>1. /\ DOMAIN s = 1..Len(s) /\ DOMAIN r = 1..(Len(s) + 1) /\ Len(s) \in Nat
      /\ r[Len(s) + 1] = m /\ \A i \in 1..Len(s) : r[i] = s[i]
  OBVIOUS
<1> HIDE DEF r
<1>2. QueriesIn(s) \subseteq QueriesIn(r)
  BY <1>1 DEF QueriesIn
<1>3. m.kind = "query" => m.q \in QueriesIn(r)
  BY <1>1 DEF QueriesIn
<1> QED
  BY <1>2, <1>3 DEF r

LEMMA QueriesInTail ==
  ASSUME NEW S, NEW s \in Seq(S), s # <<>>, NEW q \in QueriesIn(s)
  PROVE  q \in QueriesIn(Tail(s)) \/ (Head(s).kind = "query" /\ q = Head(s).q)
<1> DEFINE r == Tail(s)
<1>1. /\ DOMAIN s = 1..Len(s) /\ DOMAIN r = 1..(Len(s) - 1) /\ Len(s) \in Nat \ {0}
      /\ s[1] = Head(s) /\ \A i \in 1..(Len(s) - 1) : r[i] = s[i + 1]
  OBVIOUS
<1> HIDE DEF r
<1>2. PICK i \in 1..Len(s) : s[i].kind = "query" /\ q = s[i].q
  BY <1>1 DEF QueriesIn
<1>3. CASE i = 1
  BY <1>1, <1>2, <1>3
<1>4. CASE i # 1
  <2>1. i - 1 \in 1..(Len(s) - 1) /\ r[i - 1] = s[i]
    BY <1>1, <1>4
  <2>2. q \in QueriesIn(r)
    BY <1>1, <1>2, <2>1 DEF QueriesIn
  <2> QED
    BY <2>2 DEF r
<1> QED
  BY <1>3, <1>4

LEMMA StoppedHoldsNothing ==
  ASSUME NEW c \in Client
  PROVE  LET d == [c EXCEPT !.alive = FALSE, !.mail = <<>>, !.cmd_queue = <<>>, !.waiting = {}]
         IN  ~d.alive /\ Held(d) = {}
<1> DEFINE d == [c EXCEPT !.alive = FALSE, !.mail = <<>>, !.cmd_queue = <<>>, !.waiting = {}]
<1>1. ~d.alive /\ d.mail = <<>> /\ d.cmd_queue = <<>> /\ d.waiting = {}
  BY DEF Client
<1>2. QueriesIn(<<>>) = {}
  BY DEF QueriesIn
<1> HIDE DEF d
<1>3. ~d.alive /\ Held(d) = {}
  BY <1>1, <1>2 DEF Held
<1> QED
  BY <1>3 DEF d

\* Of the queries of the Client id, those that it no longer holds are answered.
LEMMA AccountedChanges ==
  ASSUME Tame, Accounted, NEW id \in DOMAIN clients, NEW c,
         clients' = [clients EXCEPT ![id] = c],
         open' \subseteq open,
         inbox' = inbox \/ \E m \in InboxMessage(Gone') : inbox' = Append(inbox, m),
         \A q \in open' : q \in Held(clients[id]) => q \in Held(c),
         c.alive \/ Held(c) = {},
         UNCHANGED <<up, databases, close_flag>>
  PROVE  Accounted'
<1>1. DOMAIN clients' = DOMAIN clients /\ clients'[id] = c
      /\ \A i \in DOMAIN clients : i # id => clients'[i] = clients[i]
  OBVIOUS
<1>2. inbox \in Seq(InboxMessage(Gone) \cup InboxMessage(Gone'))
  BY SeqMonotonic DEF Tame, Typed
<1>3. QueriesIn(inbox) \subseteq QueriesIn(inbox')
  <2>1. CASE inbox' = inbox
    BY <2>1
  <2>2. ASSUME NEW m \in InboxMessage(Gone'), inbox' = Append(inbox, m)
        PROVE  QueriesIn(inbox) \subseteq QueriesIn(inbox')
    <3>1. m \in InboxMessage(Gone) \cup InboxMessage(Gone')
      OBVIOUS
    <3>2. QueriesIn(inbox) \subseteq QueriesIn(Append(inbox, m))
      BY <1>2, <3>1, QueriesInAppend
    <3> QED
      BY <2>2, <3>2
  <2> QED
    BY <2>1, <2>2
<1>4. \A q \in open' : Somewhere(q)'
  BY <1>1, <1>3 DEF Accounted, Somewhere
<1> QED
  BY <1>1, <1>4 DEF Accounted

LEMMA HandleMailAccounted ==
  ASSUME Tame, Accounted, NEW id \in DOMAIN clients, HandleMail(id)
  PROVE  Accounted'
<1> DEFINE a == clients[id]
           c == [a EXCEPT !.mail = Tail(@)]
           message == Head(a.mail)
           Stopped == [c EXCEPT !.alive = FALSE, !.mail = <<>>, !.cmd_queue = <<>>, !.waiting = {}]
<1>1. a \in Client /\ a.alive /\ a.mail # <<>> /\ UNCHANGED <<up, databases, close_flag>>
  BY ClientTyped DEF HandleMail, processVars, managerVars
<1>2. Tail(a.mail) \in Seq(QueryMessage \cup {Close, Removed}) /\ message \in QueryMessage \cup {Close, Removed}
  BY <1>1 DEF Client
<1>3. /\ c \in Client
      /\ c.mail = Tail(a.mail) /\ c.cmd_queue = a.cmd_queue /\ c.waiting = a.waiting
      /\ c.alive
  BY <1>1, <1>2 DEF Client
<1>4. \A q \in Held(a) : q \in Held(c) \/ (message.kind = "query" /\ q = message.q)
  BY <1>1, <1>3, QueriesInTail DEF Held, Client
<1>5. Close.kind = "close" /\ Removed.kind = "removed" /\ \A m \in QueryMessage : m.kind = "query"
  BY DEF Close, Removed, QueryMessage
<1> HIDE DEF c, message
<1>6. CASE message.kind = "query"
  <2>1. message \in QueryMessage
    BY <1>2, <1>5, <1>6
  <2>2. CASE clients' = [clients EXCEPT ![id] = c] /\ Answer({message.q}) /\ UNCHANGED inbox
    BY <1>1, <1>3, <1>4, <2>2, AccountedChanges DEF Answer
  <2>3. CASE /\ clients' = [clients EXCEPT ![id] = [c EXCEPT !.cmd_queue = Append(@, message)]]
             /\ UNCHANGED <<inbox, open>>
    <3> DEFINE d == [c EXCEPT !.cmd_queue = Append(@, message)]
    <3>1. d.mail = c.mail /\ d.waiting = c.waiting /\ d.alive /\ d.cmd_queue = Append(c.cmd_queue, message)
      BY <1>3 DEF Client
    <3>2. c.cmd_queue \in Seq(QueryMessage)
      BY <1>3 DEF Client
    <3> HIDE DEF d
    <3>3. QueriesIn(c.cmd_queue) \subseteq QueriesIn(d.cmd_queue) /\ message.q \in QueriesIn(d.cmd_queue)
      BY <1>6, <2>1, <3>1, <3>2, QueriesInAppend
    <3>4. \A q \in Held(a) : q \in Held(d)
      BY <1>4, <3>1, <3>3 DEF Held
    <3>5. clients' = [clients EXCEPT ![id] = d]
      BY <2>3 DEF d
    <3> QED
      BY <1>1, <2>3, <3>1, <3>4, <3>5, AccountedChanges
  <2> QED
    BY <1>6, <2>2, <2>3 DEF HandleMail, c, message
<1>7. CASE message.kind = "close"
  <2> DEFINE d == CloseClient(c)
  <2>1. d.mail = c.mail /\ d.waiting = c.waiting /\ d.cmd_queue = c.cmd_queue /\ d.alive
    BY <1>3 DEF Client, CloseClient
  <2>2. clients' = [clients EXCEPT ![id] = d] /\ UNCHANGED <<inbox, open>>
    BY <1>7 DEF HandleMail, c, message
  <2> HIDE DEF d
  <2>3. \A q \in Held(a) : q \in Held(d)
    BY <1>4, <1>7, <2>1 DEF Held
  <2> QED
    BY <1>1, <2>1, <2>2, <2>3, AccountedChanges
<1>8. CASE message.kind = "removed"
  <2>1. FinishClosing(id, c)
    BY <1>8 DEF HandleMail, c, message
  <2>2. CASE c.need_close
    <3>1. /\ clients' = [clients EXCEPT ![id] = Stopped] /\ inbox' = Append(inbox, Hangup(id))
          /\ open' = open \ Held(c)
      BY <2>1, <2>2 DEF FinishClosing, StopClient, Answer
    <3>2. ~Stopped.alive /\ Held(Stopped) = {}
      BY <1>3, StoppedHoldsNothing
    <3>3. Hangup(id) \in InboxMessage(Gone')
      BY <3>1, <3>2 DEF InboxMessage, Gone, HandleMail, managerVars, Tame, Typed
    <3> HIDE DEF Stopped
    <3> QED
      BY <1>1, <1>4, <1>8, <3>1, <3>2, <3>3, AccountedChanges
  <2>3. CASE ~c.need_close
    <3> DEFINE d == [c EXCEPT !.timer = TRUE]
    <3>1. d.mail = c.mail /\ d.waiting = c.waiting /\ d.cmd_queue = c.cmd_queue /\ d.alive
      BY <1>3 DEF Client
    <3>2. clients' = [clients EXCEPT ![id] = d] /\ UNCHANGED <<inbox, open>>
      BY <2>1, <2>3 DEF FinishClosing
    <3> HIDE DEF d
    <3>3. \A q \in Held(a) : q \in Held(d)
      BY <1>4, <1>8, <3>1 DEF Held
    <3> QED
      BY <1>1, <3>1, <3>2, <3>3, AccountedChanges
  <2> QED
    BY <2>2, <2>3
<1> QED
  BY <1>2, <1>5, <1>6, <1>7, <1>8

LEMMA OnCmdAccounted ==
  ASSUME Tame, Accounted, NEW id \in DOMAIN clients, OnCmd(id)
  PROVE  Accounted'
<1> DEFINE a == clients[id]
           c == [a EXCEPT !.cmd_queue = Tail(@)]
           query == Head(a.cmd_queue)
           Keeps(d) == d.cmd_queue = c.cmd_queue /\ d.mail = c.mail /\ c.waiting \subseteq d.waiting /\ d.alive
<1>1. a \in Client /\ a.alive /\ a.cmd_queue # <<>> /\ UNCHANGED <<up, databases, close_flag, inbox>>
  BY ClientTyped DEF OnCmd, Looping, processVars, managerVars
<1>2. Tail(a.cmd_queue) \in Seq(QueryMessage) /\ a.cmd_queue \in Seq(QueryMessage)
  BY <1>1 DEF Client
<1>3. c \in Client /\ c.cmd_queue = Tail(a.cmd_queue) /\ c.mail = a.mail /\ c.waiting = a.waiting
      /\ c.alive
  BY <1>1, <1>2 DEF Client
<1>4. \A q \in Held(a) : q \in Held(c) \/ q = query.q
  BY <1>1, <1>2, <1>3, QueriesInTail DEF Held
<1> HIDE DEF c, query
<1>5. \A d : Keeps(d) => \A q \in Held(c) : q \in Held(d)
  BY DEF Held
<1>6. CASE \E d : clients' = [clients EXCEPT ![id] = d] /\ Keeps(d) /\ Answer({query.q})
  BY <1>1, <1>4, <1>5, <1>6, AccountedChanges DEF Answer
<1>7. Keeps(c)
  BY <1>3
<1>8. CASE OnSpecial(id, c, query)
  <2> DEFINE d == [c EXCEPT !.need_close = @ \/ query.method = "close",
                            !.asked = @ \/ query.method = "close",
                            !.waiting = @ \cup {query.q}]
  <2>1. d.cmd_queue = c.cmd_queue /\ d.mail = c.mail /\ d.waiting = c.waiting \cup {query.q} /\ d.alive
    BY <1>3 DEF Client
  <2>2. \/ clients' = [clients EXCEPT ![id] = c] /\ Answer({query.q})
        \/ clients' = [clients EXCEPT ![id] = d] /\ UNCHANGED open
    BY <1>8 DEF OnSpecial
  <2> HIDE DEF d
  <2>3. \A q \in Held(a) : q \in Held(d)
    BY <1>4, <2>1 DEF Held
  <2> QED
    BY <1>1, <1>6, <1>7, <2>1, <2>2, <2>3, AccountedChanges
<1>9. CASE Execute(id, c, query)
  <2> DEFINE Becomes(w) == [c EXCEPT !.webhook = w]
             d == [c EXCEPT !.served = TRUE]
  <2>1. (\A w : Keeps(Becomes(w))) /\ Keeps(d)
    BY <1>3 DEF Client
  <2>2. /\ \/ \E w : clients' = [clients EXCEPT ![id] = Becomes(w)]
           \/ clients' = [clients EXCEPT ![id] = d]
        /\ Answer({query.q})
    BY <1>9 DEF Execute
  <2> HIDE DEF Becomes, d, Keeps
  <2> QED
    BY <1>6, <2>1, <2>2
<1> QED
  BY <1>6, <1>7, <1>8, <1>9 DEF OnCmd, c, query

LEMMA TdAccounted ==
  ASSUME Tame, Accounted, NEW id \in DOMAIN clients,
         TdAuthorizes(id) \/ TdLogsOut(id) \/ TdCloses(id) \/ TdAnswers(id) \/ TdInitFails(id)
  PROVE  Accounted'
<1> DEFINE a == clients[id]
<1>1. a \in Client /\ a.alive /\ UNCHANGED <<up, databases, close_flag>> /\ id \in Nat
  BY ClientTyped
     DEF Sound, TdTells, TdAuthorizes, TdLogsOut, TdCloses, TdAnswers, TdInitFails, processVars, managerVars, Tame, Typed
<1>2. inbox' = inbox \/ \E m \in InboxMessage(Gone') : inbox' = Append(inbox, m)
  <2>1. inbox' = inbox \/ \E n \in {1, -1} : inbox' = Append(inbox, Raw(id, n))
    BY DEF TdAuthorizes, TdLogsOut, TdCloses, TdAnswers, TdInitFails
  <2>2. \A n \in {1, -1} : Raw(id, n) \in InboxMessage(Gone')
    BY <1>1 DEF InboxMessage
  <2> QED
    BY <2>1, <2>2
<1>3. ASSUME UNCHANGED open,
             NEW d, clients' = [clients EXCEPT ![id] = d],
             d.cmd_queue = a.cmd_queue, d.mail = a.mail, d.waiting = a.waiting, d.alive
      PROVE  Accounted'
  <2>1. \A q \in open' : q \in Held(a) => q \in Held(d)
    BY <1>3 DEF Held
  <2> QED
    BY <1>1, <1>2, <1>3, <2>1, AccountedChanges
<1>4. CASE TdAuthorizes(id)
  <2> DEFINE d == [a EXCEPT !.was_authorized = TRUE]
  <2>1. clients' = [clients EXCEPT ![id] = d] /\ UNCHANGED open
    BY <1>4 DEF TdAuthorizes
  <2>2. d.cmd_queue = a.cmd_queue /\ d.mail = a.mail /\ d.waiting = a.waiting /\ d.alive
    BY <1>1 DEF Client
  <2> QED
    BY <1>3, <2>1, <2>2
<1>5. CASE TdLogsOut(id)
  <2> DEFINE d == [a EXCEPT !.logging_out = TRUE]
  <2>1. clients' = [clients EXCEPT ![id] = d] /\ UNCHANGED open
    BY <1>5 DEF TdLogsOut
  <2>2. d.cmd_queue = a.cmd_queue /\ d.mail = a.mail /\ d.waiting = a.waiting /\ d.alive
    BY <1>1 DEF Client
  <2> QED
    BY <1>3, <2>1, <2>2
<1>6. CASE TdCloses(id)
  <2> DEFINE d == [a EXCEPT !.closing = TRUE]
  <2>1. clients' = [clients EXCEPT ![id] = d] /\ UNCHANGED open
    BY <1>6 DEF TdCloses
  <2>2. d.cmd_queue = a.cmd_queue /\ d.mail = a.mail /\ d.waiting = a.waiting /\ d.alive
    BY <1>1 DEF Client
  <2> QED
    BY <1>3, <2>1, <2>2
<1>7. CASE TdInitFails(id)
  <2> DEFINE d == CloseClient(a)
  <2>1. clients' = [clients EXCEPT ![id] = d] /\ UNCHANGED open
    BY <1>7 DEF TdInitFails
  <2>2. d.cmd_queue = a.cmd_queue /\ d.mail = a.mail /\ d.waiting = a.waiting /\ d.alive
    BY <1>1 DEF Client, CloseClient
  <2> QED
    BY <1>3, <2>1, <2>2
<1>8. CASE TdAnswers(id)
  <2> DEFINE d == [a EXCEPT !.waiting = {}]
  <2>1. clients' = [clients EXCEPT ![id] = d] /\ open' = open \ a.waiting
    BY <1>8 DEF TdAnswers, Answer
  <2>2. d.cmd_queue = a.cmd_queue /\ d.mail = a.mail /\ d.alive
    BY <1>1 DEF Client
  <2>3. \A q \in open' : q \in Held(a) => q \in Held(d)
    BY <2>1, <2>2 DEF Held
  <2> HIDE DEF d
  <2> QED
    BY <1>1, <1>2, <2>1, <2>2, <2>3, AccountedChanges
<1> QED
  BY <1>4, <1>5, <1>6, <1>7, <1>8

LEMMA OnClosedAccounted ==
  ASSUME Tame, Accounted, NEW id \in DOMAIN clients, OnClosed(id) \/ TimeoutExpired(id)
  PROVE  Accounted'
<1> DEFINE a == clients[id]
           Stopped(c) == [c EXCEPT !.alive = FALSE, !.mail = <<>>, !.cmd_queue = <<>>, !.waiting = {}]
           Keeps(d) == d.cmd_queue = a.cmd_queue /\ d.mail = a.mail /\ d.waiting = a.waiting /\ d.alive
<1>1. a \in Client /\ a.alive /\ UNCHANGED <<up, databases, close_flag, last_id>>
  BY ClientTyped DEF Sound, TdTells, OnClosed, TimeoutExpired, processVars, managerVars
<1>2. ASSUME NEW d, clients' = [clients EXCEPT ![id] = d], Keeps(d), UNCHANGED <<inbox, open>>
      PROVE  Accounted'
  <2>1. \A q \in open' : q \in Held(a) => q \in Held(d)
    BY <1>2 DEF Held
  <2> QED
    BY <1>1, <1>2, <2>1, AccountedChanges
<1>3. ASSUME NEW c \in Client, Keeps(c), StopClient(id, c)
      PROVE  Accounted'
  <2>1. /\ clients' = [clients EXCEPT ![id] = Stopped(c)] /\ inbox' = Append(inbox, Hangup(id))
        /\ open' = open \ Held(c)
    BY <1>3 DEF StopClient, Answer
  <2>2. ~Stopped(c).alive /\ Held(Stopped(c)) = {}
    BY StoppedHoldsNothing
  <2>3. Hangup(id) \in InboxMessage(Gone')
    BY <1>1, <2>1, <2>2 DEF InboxMessage, Gone, Tame, Typed
  <2>4. Held(a) = Held(c)
    BY <1>3 DEF Held
  <2> HIDE DEF Stopped
  <2> QED
    BY <1>1, <2>1, <2>2, <2>3, <2>4, AccountedChanges
<1>4. CASE TimeoutExpired(id)
  BY <1>1, <1>3, <1>4 DEF TimeoutExpired
<1>5. CASE OnClosed(id)
  <2> DEFINE c == [a EXCEPT !.td = FALSE]
             d == [c EXCEPT !.timer = TRUE]
  <2>1. c \in Client /\ Keeps(c)
    BY <1>1 DEF Client
  <2>2. \/ clients' = [clients EXCEPT ![id] = c] /\ UNCHANGED <<inbox, open>>
        \/ FinishClosing(id, c)
    BY <1>5 DEF OnClosed
  <2> HIDE DEF c
  <2>3. Keeps(d)
    BY <2>1 DEF Client
  <2>4. FinishClosing(id, c) => \/ StopClient(id, c)
                                \/ clients' = [clients EXCEPT ![id] = d] /\ UNCHANGED <<inbox, open>>
    BY DEF FinishClosing
  <2> HIDE DEF d, Keeps
  <2> QED
    BY <1>2, <1>3, <2>1, <2>2, <2>3, <2>4
<1> QED
  BY <1>4, <1>5

\* What comes by mail is held by the Client.
LEMMA AppendHeld ==
  ASSUME NEW a \in Client, NEW m \in QueryMessage \cup {Close, Removed},
         NEW c, c = [a EXCEPT !.mail = Append(@, m)]
  PROVE  c.alive = a.alive /\ Held(a) \subseteq Held(c) /\ (m.kind = "query" => m.q \in Held(c))
<1>1. /\ c.cmd_queue = a.cmd_queue /\ c.waiting = a.waiting /\ c.mail = Append(a.mail, m)
      /\ c.alive = a.alive
  BY DEF Client
<1>2. a.mail \in Seq(QueryMessage \cup {Close, Removed})
  BY DEF Client
<1> QED
  BY <1>1, <1>2, QueriesInAppend DEF Held

LEMMA DirectoryRemovedAccounted ==
  ASSUME Tame, Accounted, NEW id \in DOMAIN removing, DirectoryRemoved(id)
  PROVE  Accounted'
<1>1. UNCHANGED <<up, databases, close_flag, inbox, open>>
  BY DEF DirectoryRemoved, processVars, managerVars
<1>2. DOMAIN clients' = DOMAIN clients /\ \A i \in DOMAIN clients :
        \/ clients'[i] = clients[i]
        \/ clients[i].alive /\ clients'[i] = [clients[i] EXCEPT !.mail = Append(@, Removed)]
  BY DEF DirectoryRemoved
<1>3. \A i \in DOMAIN clients : /\ Held(clients[i]) \subseteq Held(clients'[i])
                                /\ clients'[i] = clients[i] \/ clients'[i].alive
  BY <1>2, ClientTyped, AppendHeld
<1>4. \A q \in open' : Somewhere(q)'
  BY <1>1, <1>2, <1>3 DEF Accounted, Somewhere
<1> QED
  BY <1>1, <1>2, <1>3, <1>4 DEF Accounted

LEMMA HandleInboxAccounted ==
  ASSUME Tame, Accounted, HandleInbox
  PROVE  Accounted'
<1> DEFINE message == Head(inbox)
<1>1. /\ message \in InboxMessage(Gone) /\ inbox # <<>> /\ inbox' = Tail(inbox)
      /\ inbox \in Seq(InboxMessage(Gone)) /\ UNCHANGED up /\ databases # "closed"
  BY DEF HandleInbox, processVars, Tame, Typed
<1>2. /\ Close.kind = "close"
      /\ \A id, n : Raw(id, n).kind = "raw"
      /\ \A id : Hangup(id).kind = "hangup" /\ Hangup(id).id = id
  BY DEF Close, Raw, Hangup
<1>3. message.kind = "query" => message \in QueryMessage
  BY <1>1, <1>2 DEF InboxMessage
<1>4. \A q \in QueriesIn(inbox) : q \in QueriesIn(inbox') \/ (message.kind = "query" /\ q = message.q)
  BY <1>1, QueriesInTail
<1>5. up
  BY <1>1 DEF Accounted
<1>6. CASE message.kind = "query"
  <2>1. Send(message) /\ message \in QueryMessage
    BY <1>3, <1>6 DEF HandleInbox
  <2>2. UNCHANGED <<close_flag, databases>>
    BY <2>1 DEF Send
  <2> HIDE DEF message
  <2>3. CASE Refuse(message)
    <3>1. UNCHANGED clients /\ open' = open \ {message.q}
      BY <2>3 DEF Refuse, Answer
    <3>2. \A q \in open' : Somewhere(q)'
      BY <1>4, <3>1 DEF Accounted, Somewhere
    <3> QED
      BY <1>5, <1>1, <2>2, <3>1, <3>2 DEF Accounted
  <2>4. CASE \E id \in DOMAIN clients : Forward(id, message)
    <3>1. PICK id \in DOMAIN clients : Forward(id, message)
      BY <2>4
    <3>2. CASE clients[id].alive
      <4>1. /\ DOMAIN clients' = DOMAIN clients
            /\ clients'[id] = [clients[id] EXCEPT !.mail = Append(@, message)]
            /\ \A i \in DOMAIN clients : i # id => clients'[i] = clients[i]
            /\ UNCHANGED open
        BY <3>1, <3>2 DEF Forward
      <4>2. /\ Held(clients[id]) \subseteq Held(clients'[id]) /\ message.q \in Held(clients'[id])
            /\ clients'[id].alive
        BY <1>6, <3>2, <2>1, <4>1, ClientTyped, AppendHeld
      <4>3. \A q \in open' : Somewhere(q)'
        BY <1>4, <4>1, <4>2 DEF Accounted, Somewhere
      <4> QED
        BY <1>1, <1>5, <2>2, <4>1, <4>2, <4>3 DEF Accounted
    <3>3. CASE ~clients[id].alive
      <4>1. UNCHANGED clients /\ open' = open \ {message.q}
        BY <3>1, <3>3 DEF Forward, Answer
      <4>2. \A q \in open' : Somewhere(q)'
        BY <1>4, <4>1 DEF Accounted, Somewhere
      <4> QED
        BY <1>5, <1>1, <2>2, <4>1, <4>2 DEF Accounted
    <3> QED
      BY <3>2, <3>3
  <2>5. CASE CreateClient(message) /\ ~close_flag
    <3> DEFINE new == last_id + 1
               c == NewClient(message.token, message.method, FirstMail(message))
    <3>1. /\ new \notin DOMAIN clients
          /\ DOMAIN clients' = DOMAIN clients \cup {new}
          /\ clients'[new] = c
          /\ \A i \in DOMAIN clients : clients'[i] = clients[i]
          /\ UNCHANGED open
      BY <2>5 DEF CreateClient, Put, Tame, Typed
    <3>2. message.q \in QueriesIn(FirstMail(message))
      <4>1. /\ DOMAIN <<message>> = {1} /\ <<message>>[1] = message
            /\ DOMAIN <<Restore(message.token), message>> = {1, 2}
            /\ <<Restore(message.token), message>>[2] = message
        OBVIOUS
      <4>2. message.q \in QueriesIn(<<message>>) /\ message.q \in QueriesIn(<<Restore(message.token), message>>)
        BY <1>6, <4>1 DEF QueriesIn
      <4> QED
        BY <4>2 DEF FirstMail
    <3>3. c.mail = FirstMail(message) /\ c.alive
      BY DEF NewClient
    <3>4. message.q \in Held(c)
      BY <3>2, <3>3 DEF Held
    <3> HIDE DEF c, new
    <3>5. \A q \in open' : Somewhere(q)'
      BY <1>4, <3>1, <3>4 DEF Accounted, Somewhere
    <3> QED
      BY <1>1, <1>5, <2>2, <2>5, <3>1, <3>3, <3>5 DEF Accounted
  <2> QED
    BY <2>1, <2>3, <2>4, <2>5 DEF Send
<1>7. CASE message.kind = "close"
  <2>1. CloseManager
    BY <1>7 DEF HandleInbox
  <2>2. /\ close_flag' /\ UNCHANGED open
        /\ DOMAIN clients' = DOMAIN clients
        /\ databases' = databases \/ clients = <<>>
        /\ \A i \in DOMAIN clients :
             \/ clients'[i] = clients[i]
             \/ clients[i].alive /\ clients'[i] = [clients[i] EXCEPT !.mail = Append(@, Close)]
    BY <2>1 DEF CloseManager
  <2>3. \A i \in DOMAIN clients : /\ Held(clients[i]) \subseteq Held(clients'[i])
                                  /\ clients'[i] = clients[i] \/ clients'[i].alive
    BY <2>2, ClientTyped, AppendHeld
  <2>4. \A q \in open' : Somewhere(q)'
    BY <1>4, <1>7, <2>2, <2>3 DEF Accounted, Somewhere
  <2>5. clients = <<>> => DOMAIN clients = {}
    OBVIOUS
  <2> QED
    BY <1>1, <1>5, <2>2, <2>3, <2>4, <2>5 DEF Accounted
<1>8. CASE message.kind = "raw"
  <2>1. RawEvent(message.id, message.n)
    BY <1>8 DEF HandleInbox
  <2>2. UNCHANGED <<open, clients, databases, close_flag>>
    BY <2>1 DEF RawEvent
  <2>3. \A q \in open' : Somewhere(q)'
    BY <1>4, <1>8, <2>2 DEF Accounted, Somewhere
  <2> QED
    BY <1>1, <1>5, <2>2, <2>3 DEF Accounted
<1>9. CASE message.kind = "hangup"
  <2>1. PICK id \in Gone : message = Hangup(id)
    <3>1. message \notin QueryMessage
      BY <1>9 DEF QueryMessage
    <3> QED
      BY <1>1, <1>2, <1>9, <3>1 DEF InboxMessage
  <2>2. HangupShared(id)
    BY <1>2, <1>9, <2>1 DEF HandleInbox
  <2>3. /\ DOMAIN clients' = DOMAIN clients \ {id}
        /\ \A i \in DOMAIN clients' : clients'[i] = clients[i]
        /\ UNCHANGED <<open, close_flag>>
        /\ databases' = databases \/ (close_flag /\ clients' = <<>>)
    BY <2>2 DEF HangupShared, Without
  <2>4. id \in DOMAIN clients => \A q \in open : q \notin Held(clients[id])
    BY <2>1 DEF Gone, Accounted
  <2>5. \A q \in open' : Somewhere(q)'
    BY <1>4, <1>9, <2>3, <2>4 DEF Accounted, Somewhere
  <2>6. clients' = <<>> => DOMAIN clients' = {}
    OBVIOUS
  <2> QED
    BY <1>1, <1>5, <2>3, <2>5, <2>6 DEF Accounted
<1> QED
  BY <1>1, <1>2, <1>6, <1>7, <1>8, <1>9 DEF InboxMessage, QueryMessage

LEMMA ProcessAccounted ==
  ASSUME Tame, Accounted,
         \/ DatabasesClosed \/ (\E q \in Query : Arrive(q)) \/ Quit \/ Finish \/ Start
         \/ UNCHANGED vars
  PROVE  Accounted'
<1>1. ASSUME NEW S, inbox \in Seq(S), NEW m \in S, inbox' = Append(inbox, m),
             UNCHANGED <<up, databases, close_flag, clients>>,
             open' \subseteq open \cup (IF m.kind = "query" THEN {m.q} ELSE {}),
             up
      PROVE  Accounted'
  <2>1. \A q \in open' : Somewhere(q)'
    BY <1>1, QueriesInAppend DEF Accounted, Somewhere
  <2> QED
    BY <1>1, <2>1 DEF Accounted
<1>2. inbox \in Seq(InboxMessage(Gone)) /\ load \in DOMAIN Loads
  BY DEF Tame, Typed
<1>3. CASE Exit
  <2>1. DOMAIN clients' = {} /\ ~up' /\ databases' = "closed" /\ open' = {}
    BY <1>3 DEF Exit
  <2> QED
    BY <2>1 DEF Accounted
<1>4. CASE DatabasesClosed
  <2>1. UNCHANGED <<up, inbox, close_flag, clients, open>> /\ databases = "closing" /\ databases' = "closed"
    BY <1>4 DEF DatabasesClosed, processVars
  <2>2. \A q \in open' : Somewhere(q)'
    BY <2>1 DEF Accounted, Somewhere
  <2> QED
    BY <2>1, <2>2 DEF Accounted
<1>5. ASSUME NEW q \in Query, Arrive(q)
      PROVE  Accounted'
  <2>1. PICK call \in Loads[load].calls[q] : inbox' = Append(inbox, QueryTo(call.token, q, call.method))
    BY <1>5 DEF Arrive
  <2>2. call \in [token : Token \cup {NoToken}, method : Method]
    BY <1>2, <1>5, ServerAssumption DEF Arrive, ServerAssumption
  <2> DEFINE m == QueryTo(call.token, q, call.method)
  <2>3. m \in InboxMessage(Gone) /\ m.kind = "query" /\ m.q = q
    BY <2>2 DEF QueryTo, QueryMessage, InboxMessage, Ident
  <2>4. UNCHANGED <<up, databases, close_flag, clients>> /\ open' = open \cup {q} /\ up
    BY <1>5 DEF Arrive, processVars, managerVars
  <2> HIDE DEF m
  <2>5. inbox' = Append(inbox, m)
    BY <2>1 DEF m
  <2> QED
    BY <1>1, <1>2, <2>3, <2>4, <2>5
<1>6. CASE Quit /\ ~Exit
  <2>1. UNCHANGED <<up, databases, close_flag, clients, open>> /\ inbox' = Append(inbox, Close) /\ up
    BY <1>6 DEF Quit, managerVars
  <2>2. Close \in InboxMessage(Gone)
    BY DEF InboxMessage
  <2> QED
    BY <1>1, <1>2, <2>1, <2>2
<1>7. CASE Start
  <2>1. ~up /\ up' /\ databases' = "open" /\ UNCHANGED <<open, clients>>
    BY <1>7 DEF Start
  <2> QED
    BY <2>1 DEF Accounted
<1>8. CASE UNCHANGED vars
  BY <1>8 DEF Accounted, Somewhere, vars, processVars, managerVars
<1> QED
  BY <1>3, <1>4, <1>5, <1>6, <1>7, <1>8 DEF Finish

LEMMA NextAccounted ==
  ASSUME Tame, Accounted, [Next]_vars
  PROVE  Accounted'
<1>1. ASSUME NEW id \in DOMAIN clients,
             \/ HandleMail(id) \/ OnCmd(id) \/ TdAuthorizes(id) \/ TdCloses(id) \/ TdAnswers(id)
             \/ OnClosed(id) \/ TimeoutExpired(id) \/ TdLogsOut(id) \/ TdInitFails(id)
      PROVE  Accounted'
  BY <1>1, HandleMailAccounted, OnCmdAccounted, TdAccounted, OnClosedAccounted
<1>2. ASSUME NEW id \in DOMAIN removing, DirectoryRemoved(id)
      PROVE  Accounted'
  BY <1>2, DirectoryRemovedAccounted
<1> QED
  BY <1>1, <1>2, HandleInboxAccounted, ProcessAccounted DEF Next, Progress, Environment

LEMMA InitAccounted ==
  ASSUME Init
  PROVE  Accounted
<1>1. up /\ open = {} /\ databases = "open" /\ DOMAIN clients = {}
  BY DEF Init
<1> QED
  BY <1>1 DEF Accounted

\* When the databases are being closed no Client is left to write to them, and whatever
\* query is still open will be refused (the CHECKs of ClientManager::close and hangup_shared).
THEOREM DatabasesAreLast == Spec => []DatabasesOutliveClients
<1>1. Init => Accounted
  BY InitAccounted
<1>2. Tame /\ Accounted /\ [Next]_vars => Accounted'
  BY NextAccounted
<1>3. Tame /\ Accounted => DatabasesOutliveClients
  <2> SUFFICES ASSUME Tame, Accounted, up, databases # "open"
               PROVE  clients = <<>> /\ open \subseteq QueriesIn(inbox)
    BY DEF DatabasesOutliveClients
  <2>1. DOMAIN clients = {} /\ clients = [id \in DOMAIN clients |-> clients[id]]
    BY DEF Tame, Typed, Accounted
  <2>2. clients = <<>>
    BY <2>1
  <2>3. open \subseteq QueriesIn(inbox)
    BY <2>1 DEF Accounted, Somewhere
  <2> QED
    BY <2>2, <2>3
<1> QED
  BY <1>1, <1>2, <1>3, TameHolds, PTL DEF Spec

-----------------------------------------------------------------------------
(* ActiveCountsExact: who is counted.                                      *)

\* What is on its way to active_client_count_ is about clients that exist, comes before the
\* news that they are gone, and counts them off after it counted them.
Heralded(box, cs) ==
  /\ \A i \in 1..Len(box) : box[i].kind = "raw" =>
       /\ box[i].id \in DOMAIN cs /\ cs[box[i].id].was_authorized
       /\ box[i].n = -1 => Leaving(cs[box[i].id])
  /\ \A j \in 1..Len(box) : \A i \in 1..j-1 :
       box[j].kind = "raw" /\ box[i].kind \in {"raw", "hangup"} /\ box[i].id = box[j].id =>
         box[i].kind = "raw" /\ box[i].n = 1 /\ box[j].n = -1

Told(box, id, n) == \E i \in 1..Len(box) : box[i] = Raw(id, n)

\* The client c is among those that active_client_count_ counts now.
Counted(box, c, id) ==
  c.was_authorized /\ ~Told(box, id, 1) /\ (Leaving(c) => Told(box, id, -1))

Members(box, cs, tq) == {id \in DOMAIN cs : TQueueOf[cs[id].token] = tq /\ Counted(box, cs[id], id)}

Counting ==
  /\ Heralded(inbox, clients)
  /\ \A id \in DOMAIN clients : ~clients[id].td => Leaving(clients[id])
  /\ \A id \in DOMAIN clients : Leaving(clients[id]) /\ Told(inbox, id, 1) => Told(inbox, id, -1)
  /\ active \in [TQueue -> Int]
  /\ \A tq \in TQueue : active[tq] = Cardinality(Members(inbox, clients, tq))

\* new tells the same about active_client_count_ as old, and no news are late.
Carries(old, new) ==
  \E d \in {0, 1} :
    /\ \A i \in 1..Len(new) : new[i].kind = "raw" => i + d \in 1..Len(old) /\ new[i] = old[i + d]
    /\ \A i \in 1..Len(new) : new[i].kind = "hangup" =>
         i = Len(new) \/ (i + d \in 1..Len(old) /\ new[i] = old[i + d])
    /\ \A i \in 1..Len(old) : old[i].kind = "raw" => i - d \in 1..Len(new) /\ new[i - d] = old[i]

\* What matters here of a Client does not change when c becomes d.
Same(c, d) ==
  /\ d.token = c.token
  /\ d.was_authorized <=> c.was_authorized
  /\ c.was_authorized => (Leaving(d) <=> Leaving(c))

LEMMA RawFields ==
  ASSUME NEW id, NEW n
  PROVE  Raw(id, n).kind = "raw" /\ Raw(id, n).id = id /\ Raw(id, n).n = n
  BY DEF Raw

LEMMA RawInbox ==
  ASSUME Tame
  PROVE  /\ Len(inbox) \in Nat
         /\ \A i \in 1..Len(inbox) : inbox[i] \in InboxMessage(Gone)
         /\ \A i \in 1..Len(inbox) : inbox[i].kind = "raw" =>
              inbox[i].n \in {1, -1} /\ inbox[i] = Raw(inbox[i].id, inbox[i].n)
         /\ \A i \in 1..Len(inbox) : inbox[i].kind = "hangup" => inbox[i].id \in Gone
<1>1. inbox \in Seq(InboxMessage(Gone))
  BY DEF Tame, Typed
<1>2. Len(inbox) \in Nat /\ \A i \in 1..Len(inbox) : inbox[i] \in InboxMessage(Gone)
  BY <1>1, ElementOfSeq
<1>3. /\ Close.kind = "close"
      /\ \A m \in QueryMessage : m.kind = "query"
      /\ \A id : Hangup(id).kind = "hangup" /\ Hangup(id).id = id
  BY DEF Close, QueryMessage, Hangup
<1>4. ASSUME NEW m \in InboxMessage(Gone)
      PROVE  /\ m.kind = "raw" => m.n \in {1, -1} /\ m = Raw(m.id, m.n)
             /\ m.kind = "hangup" => m.id \in Gone
  <2>1. CASE m \in QueryMessage \cup {Close}
    BY <1>3, <2>1
  <2>2. CASE \E id \in Nat, n \in {1, -1} : m = Raw(id, n)
    <3>1. PICK id \in Nat, n \in {1, -1} : m = Raw(id, n)
      BY <2>2
    <3>2. m.kind = "raw" /\ m.id = id /\ m.n = n
      BY <3>1, RawFields
    <3> QED
      BY <3>1, <3>2
  <2>3. CASE \E id \in Gone : m = Hangup(id)
    BY <1>3, <2>3
  <2> QED
    BY <2>1, <2>2, <2>3 DEF InboxMessage
<1> QED
  BY <1>2, <1>4

LEMMA CarriesTold ==
  ASSUME NEW old, NEW new, Carries(old, new), NEW id, NEW n
  PROVE  Told(new, id, n) <=> Told(old, id, n)
<1>1. PICK d \in {0, 1} :
        /\ \A i \in 1..Len(new) : new[i].kind = "raw" => i + d \in 1..Len(old) /\ new[i] = old[i + d]
        /\ \A i \in 1..Len(old) : old[i].kind = "raw" => i - d \in 1..Len(new) /\ new[i - d] = old[i]
  BY DEF Carries
<1>2. ASSUME Told(new, id, n) PROVE Told(old, id, n)
  <2>1. PICK i \in 1..Len(new) : new[i] = Raw(id, n)
    BY <1>2 DEF Told
  <2>2. i + d \in 1..Len(old) /\ new[i] = old[i + d]
    BY <1>1, <2>1, RawFields
  <2> QED
    BY <2>1, <2>2 DEF Told
<1>3. ASSUME Told(old, id, n) PROVE Told(new, id, n)
  <2>1. PICK i \in 1..Len(old) : old[i] = Raw(id, n)
    BY <1>3 DEF Told
  <2>2. i - d \in 1..Len(new) /\ new[i - d] = old[i]
    BY <1>1, <2>1, RawFields
  <2> QED
    BY <2>1, <2>2 DEF Told
<1> QED
  BY <1>2, <1>3

LEMMA CarriesHeralded ==
  ASSUME NEW old, NEW new, Len(old) \in Nat, Len(new) \in Nat, Carries(old, new), NEW cs, NEW ds,
         Heralded(old, cs),
         \A i \in 1..Len(old) : old[i].kind = "raw" =>
           LET id == old[i].id
           IN  id \in DOMAIN ds /\ (cs[id].was_authorized => ds[id].was_authorized)
               /\ (Leaving(cs[id]) => Leaving(ds[id]))
  PROVE  Heralded(new, ds)
<1>1. PICK d \in {0, 1} :
        /\ \A i \in 1..Len(new) : new[i].kind = "raw" => i + d \in 1..Len(old) /\ new[i] = old[i + d]
        /\ \A i \in 1..Len(new) : new[i].kind = "hangup" =>
             i = Len(new) \/ (i + d \in 1..Len(old) /\ new[i] = old[i + d])
  BY DEF Carries
<1>2. ASSUME NEW i \in 1..Len(new), new[i].kind = "raw"
      PROVE  /\ new[i].id \in DOMAIN ds /\ ds[new[i].id].was_authorized
             /\ new[i].n = -1 => Leaving(ds[new[i].id])
  <2>1. i + d \in 1..Len(old) /\ new[i] = old[i + d]
    BY <1>1, <1>2
  <2>2. PICK j \in 1..Len(old) : j = i + d
    BY <2>1
  <2>3. old[j].kind = "raw" /\ new[i] = old[j]
    BY <1>2, <2>1, <2>2
  <2> QED
    BY <2>3 DEF Heralded
<1>3. ASSUME NEW j \in 1..Len(new), NEW i \in 1..j-1,
             new[j].kind = "raw", new[i].kind \in {"raw", "hangup"}, new[i].id = new[j].id
      PROVE  new[i].kind = "raw" /\ new[i].n = 1 /\ new[j].n = -1
  <2>1. i \in 1..Len(new) /\ i # Len(new)
    OBVIOUS
  <2>2. j + d \in 1..Len(old) /\ new[j] = old[j + d]
    BY <1>1, <1>3
  <2>3. i + d \in 1..Len(old) /\ new[i] = old[i + d]
    BY <1>1, <1>3, <2>1
  <2>4. i + d \in 1..(j + d) - 1
    BY <2>2, <2>3
  <2> QED
    BY <1>3, <2>2, <2>3, <2>4 DEF Heralded
<1> QED
  BY <1>2, <1>3 DEF Heralded

\* Messages that are not about active_client_count_ come and are taken.
LEMMA AppendCarries ==
  ASSUME NEW S, NEW s \in Seq(S), NEW m \in S, m.kind # "raw"
  PROVE  Carries(s, Append(s, m))
<1>1. /\ Len(s) \in Nat /\ Len(Append(s, m)) = Len(s) + 1
      /\ \A i \in 1..Len(s) : Append(s, m)[i] = s[i]
      /\ Append(s, m)[Len(s) + 1] = m
  BY AppendProperties
<1>2. PICK r : r = Append(s, m)
  OBVIOUS
<1>3. /\ \A i \in 1..Len(r) : r[i].kind = "raw" => i + 0 \in 1..Len(s) /\ r[i] = s[i + 0]
      /\ \A i \in 1..Len(r) : r[i].kind = "hangup" => i = Len(r) \/ (i + 0 \in 1..Len(s) /\ r[i] = s[i + 0])
      /\ \A i \in 1..Len(s) : s[i].kind = "raw" => i - 0 \in 1..Len(r) /\ r[i - 0] = s[i]
  BY <1>1, <1>2
<1> QED
  BY <1>2, <1>3 DEF Carries

LEMMA TailCarries ==
  ASSUME NEW S, NEW s \in Seq(S), s # <<>>, Head(s).kind # "raw"
  PROVE  Carries(s, Tail(s))
<1>1. /\ Len(s) \in Nat /\ Len(Tail(s)) = Len(s) - 1 /\ Head(s) = s[1]
      /\ \A i \in 1..Len(Tail(s)) : Tail(s)[i] = s[i + 1]
  BY HeadTailProperties
<1>2. PICK r : r = Tail(s)
  OBVIOUS
<1>3. ASSUME NEW i \in 1..Len(r) PROVE i + 1 \in 1..Len(s) /\ r[i] = s[i + 1]
  BY <1>1, <1>2
<1>4. ASSUME NEW i \in 1..Len(s), s[i].kind = "raw" PROVE i - 1 \in 1..Len(r) /\ r[i - 1] = s[i]
  <2>1. i # 1
    BY <1>1, <1>4
  <2>2. i - 1 \in 1..Len(r)
    BY <1>1, <1>2, <2>1
  <2>3. r[i - 1] = s[(i - 1) + 1]
    BY <1>3, <2>2
  <2> QED
    BY <2>2, <2>3
<1> QED
  BY <1>2, <1>3, <1>4 DEF Carries

LEMMA SameCarries ==
  ASSUME NEW s, Len(s) \in Nat
  PROVE  Carries(s, s)
<1>1. \A i \in 1..Len(s) : i + 0 = i /\ i - 0 = i
  OBVIOUS
<1> QED
  BY <1>1 DEF Carries
-----------------------------------------------------------------------------
(* The count is kept.                                                      *)

\* A step that neither changes who is active nor tells or hears of it.
LEMMA CountingKept ==
  ASSUME Tame, Counting, Len(inbox') \in Nat, Carries(inbox, inbox'), active' = active,
         \A i \in DOMAIN clients' : ~clients'[i].td => Leaving(clients'[i]),
         \A i \in DOMAIN clients' : i \in DOMAIN clients => Same(clients[i], clients'[i]),
         \A i \in DOMAIN clients' : i \notin DOMAIN clients => ~clients'[i].was_authorized,
         \A i \in DOMAIN clients : i \notin DOMAIN clients' =>
           Leaving(clients[i]) /\ ~Told(inbox, i, 1) /\ ~Told(inbox, i, -1)
  PROVE  Counting'
<1>1. PICK box : box = inbox'
  OBVIOUS
<1>2. PICK cs : cs = clients'
  OBVIOUS
<1>3. \A id, n : Told(box, id, n) <=> Told(inbox, id, n)
  BY <1>1, CarriesTold
<1>4. ASSUME NEW i \in 1..Len(inbox), inbox[i].kind = "raw"
      PROVE  inbox[i].id \in DOMAIN clients /\ Told(inbox, inbox[i].id, inbox[i].n) /\ inbox[i].n \in {1, -1}
  <2>1. inbox[i].id \in DOMAIN clients
    BY <1>4 DEF Counting, Heralded
  <2>2. inbox[i].n \in {1, -1} /\ inbox[i] = Raw(inbox[i].id, inbox[i].n)
    BY <1>4, RawInbox
  <2> QED
    BY <2>1, <2>2 DEF Told
<1>5. Heralded(box, cs)
  <2>1. \A i \in 1..Len(inbox) : inbox[i].kind = "raw" =>
          LET id == inbox[i].id
          IN  id \in DOMAIN cs /\ (clients[id].was_authorized => cs[id].was_authorized)
              /\ (Leaving(clients[id]) => Leaving(cs[id]))
    <3> SUFFICES ASSUME NEW i \in 1..Len(inbox), inbox[i].kind = "raw",
                        NEW id, id = inbox[i].id
                 PROVE  id \in DOMAIN cs /\ (clients[id].was_authorized => cs[id].was_authorized)
                        /\ (Leaving(clients[id]) => Leaving(cs[id]))
      OBVIOUS
    <3>1. id \in DOMAIN clients /\ (Told(inbox, id, 1) \/ Told(inbox, id, -1))
      BY <1>4
    <3>2. id \in DOMAIN cs
      BY <1>2, <3>1
    <3>3. clients[id].was_authorized
      BY DEF Counting, Heralded
    <3> QED
      BY <1>2, <3>1, <3>2, <3>3 DEF Same
  <2>2. Heralded(inbox, clients) /\ Len(inbox) \in Nat /\ Len(box) \in Nat /\ Carries(inbox, box)
    BY <1>1, RawInbox DEF Counting
  <2> QED
    BY <2>1, <2>2, CarriesHeralded
<1>6. ASSUME NEW id \in DOMAIN cs, Leaving(cs[id]), Told(box, id, 1) PROVE Told(box, id, -1)
  <2>1. Told(inbox, id, 1)
    BY <1>3, <1>6
  <2>2. PICK i \in 1..Len(inbox) : inbox[i] = Raw(id, 1)
    BY <2>1 DEF Told
  <2>3. id \in DOMAIN clients
    BY <1>4, <2>2, RawFields
  <2>4. Leaving(clients[id])
    <3>1. clients[id].was_authorized
      <4>1. inbox[i].kind = "raw" /\ inbox[i].id = id
        BY <2>2, RawFields
      <4> QED
        BY <4>1 DEF Counting, Heralded
    <3> QED
      BY <1>2, <1>6, <2>3, <3>1 DEF Same
  <2>5. Told(inbox, id, -1)
    BY <2>1, <2>3, <2>4 DEF Counting
  <2> QED
    BY <1>3, <2>5
<1>7. ASSUME NEW tq \in TQueue PROVE Members(box, cs, tq) = Members(inbox, clients, tq)
  <2>1. ASSUME NEW id \in DOMAIN cs, id \in DOMAIN clients
        PROVE  /\ TQueueOf[cs[id].token] = TQueueOf[clients[id].token]
               /\ Counted(box, cs[id], id) <=> Counted(inbox, clients[id], id)
    <3>1. Same(clients[id], cs[id])
      BY <1>2, <2>1
    <3> QED
      BY <1>3, <3>1 DEF Same, Counted
  <2>2. ASSUME NEW id \in DOMAIN cs, id \notin DOMAIN clients PROVE ~Counted(box, cs[id], id)
    BY <1>2, <2>2 DEF Counted
  <2>3. ASSUME NEW id \in DOMAIN clients, id \notin DOMAIN cs PROVE ~Counted(inbox, clients[id], id)
    BY <1>2, <2>3 DEF Counted
  <2> QED
    BY <2>1, <2>2, <2>3 DEF Members
<1>8. active \in [TQueue -> Int] /\ \A tq \in TQueue : active[tq] = Cardinality(Members(inbox, clients, tq))
  BY DEF Counting
<1>9. \A tq \in TQueue : active[tq] = Cardinality(Members(box, cs, tq))
  BY <1>7, <1>8
<1>10. \A id \in DOMAIN cs : ~cs[id].td => Leaving(cs[id])
  BY <1>2
<1>11. \A id \in DOMAIN cs : Leaving(cs[id]) /\ Told(box, id, 1) => Told(box, id, -1)
  BY <1>6
<1>12. TQueue' = TQueue
  BY DEF TQueue
<1> QED
  BY <1>1, <1>2, <1>5, <1>8, <1>9, <1>10, <1>11, <1>12 DEF Counting

\* One Client changes in what does not matter here.
LEMMA OneChanges ==
  ASSUME Tame, Counting, NEW id \in DOMAIN clients, NEW c,
         clients' = [clients EXCEPT ![id] = c], Same(clients[id], c), ~c.td => Leaving(c),
         active' = active,
         inbox' = inbox \/ \E m : m.kind # "raw" /\ inbox' = Append(inbox, m)
  PROVE  Counting'
<1>1. /\ DOMAIN clients' = DOMAIN clients /\ clients'[id] = c
      /\ \A i \in DOMAIN clients : i # id => clients'[i] = clients[i]
  OBVIOUS
<1>2. \A i \in DOMAIN clients : Same(clients[i], clients[i])
  BY DEF Same
<1>3. \A i \in DOMAIN clients : Same(clients[i], clients'[i])
  BY <1>1, <1>2
<1>4. \A i \in DOMAIN clients' : ~clients'[i].td => Leaving(clients'[i])
  BY <1>1 DEF Counting
<1>5. Len(inbox) \in Nat
  BY RawInbox
<1>6. Carries(inbox, inbox') /\ Len(inbox') \in Nat
  <2>1. CASE inbox' = inbox
    BY <1>5, <2>1, SameCarries
  <2>2. ASSUME NEW m, m.kind # "raw", inbox' = Append(inbox, m)
        PROVE  Carries(inbox, inbox') /\ Len(inbox') \in Nat
    <3>1. PICK S : S = InboxMessage(Gone) \cup {m}
      OBVIOUS
    <3>2. inbox \in Seq(S) /\ m \in S
      BY <3>1, SeqMonotonic DEF Tame, Typed
    <3>3. Carries(inbox, Append(inbox, m)) /\ Len(Append(inbox, m)) = Len(inbox) + 1
      BY <2>2, <3>2, AppendCarries, AppendProperties
    <3> QED
      BY <1>5, <2>2, <3>3
  <2> QED
    BY <2>1, <2>2
<1> QED
  BY <1>1, <1>3, <1>4, <1>6, CountingKept

\* A Client tells ClientManager that it became active, or that it is no longer.
LEMMA ClientTellsCounting ==
  ASSUME Tame, Counting, NEW id \in DOMAIN clients, NEW a, a = clients[id], a.alive,
         NEW d, NEW n \in {1, -1},
         clients' = [clients EXCEPT ![id] = d], d.token = a.token, ~d.td => Leaving(d),
         inbox' = Append(inbox, Raw(id, n)), active' = active,
         d.was_authorized, ~Leaving(a),
         n = 1 => ~a.was_authorized /\ ~Leaving(d),
         n = -1 => a.was_authorized /\ Leaving(d)
  PROVE  Counting'
<1>1. PICK box : box = inbox'
  OBVIOUS
<1>2. PICK cs : cs = clients'
  OBVIOUS
<1>3. DOMAIN cs = DOMAIN clients /\ cs[id] = d /\ \A i \in DOMAIN clients : i # id => cs[i] = clients[i]
  BY <1>2
<1>4. PICK last : last = Raw(id, n)
  OBVIOUS
<1>5. last.kind = "raw" /\ last.id = id /\ last.n = n
  BY <1>4, RawFields
<1>6. /\ Len(inbox) \in Nat /\ Len(box) = Len(inbox) + 1 /\ box[Len(box)] = last
      /\ \A i \in 1..Len(inbox) : box[i] = inbox[i]
  <2>1. PICK s \in Seq(InboxMessage(Gone)) : s = inbox
    BY DEF Tame, Typed
  <2>2. PICK S : S = InboxMessage(Gone) \cup {last}
    OBVIOUS
  <2>3. s \in Seq(S) /\ last \in S
    BY <2>1, <2>2, SeqMonotonic
  <2>4. box = Append(s, last)
    BY <1>1, <1>4, <2>1
  <2>5. /\ Len(box) = Len(s) + 1 /\ box[Len(s) + 1] = last
        /\ \A i \in 1..Len(s) : box[i] = s[i]
    BY <2>3, <2>4, AppendProperties
  <2> QED
    BY <2>1, <2>5, RawInbox
<1>7. /\ Len(box) \in 1..Len(box)
      /\ \A i \in 1..Len(box) : i # Len(box) => i \in 1..Len(inbox)
      /\ \A i \in 1..Len(inbox) : i \in 1..Len(box)
      /\ \A j \in 1..Len(box) : \A i \in 1..j-1 : i \in 1..Len(inbox)
  BY <1>6
<1>8. ASSUME NEW i \in 1..Len(inbox), inbox[i].kind \in {"raw", "hangup"}, inbox[i].id = id
      PROVE  inbox[i].kind = "raw" /\ inbox[i].n = 1 /\ n = -1
  <2>1. inbox[i].kind # "hangup"
    <3>1. inbox[i].kind = "hangup" => inbox[i].id \in Gone
      BY RawInbox
    <3> QED
      BY <1>8, <3>1 DEF Gone
  <2>2. inbox[i].kind = "raw" /\ inbox[i].n \in {1, -1}
    BY <1>8, <2>1, RawInbox
  <2>3. a.was_authorized /\ (inbox[i].n = -1 => Leaving(a))
    BY <1>8, <2>2 DEF Counting, Heralded
  <2> QED
    BY <2>2, <2>3
<1>9. \A k, x : Told(box, k, x) <=> Told(inbox, k, x) \/ (k = id /\ x = n)
  <2> SUFFICES ASSUME NEW k, NEW x
               PROVE  Told(box, k, x) <=> Told(inbox, k, x) \/ (k = id /\ x = n)
    OBVIOUS
  <2>1. ASSUME Told(inbox, k, x) PROVE Told(box, k, x)
    BY <1>6, <1>7, <2>1 DEF Told
  <2>2. ASSUME k = id, x = n PROVE Told(box, k, x)
    BY <1>4, <1>6, <1>7, <2>2 DEF Told
  <2>3. ASSUME Told(box, k, x), ~Told(inbox, k, x) PROVE k = id /\ x = n
    <3>1. PICK i \in 1..Len(box) : box[i] = Raw(k, x)
      BY <2>3 DEF Told
    <3>2. i = Len(box)
      BY <1>6, <1>7, <2>3, <3>1 DEF Told
    <3> QED
      BY <1>5, <1>6, <3>1, <3>2, RawFields
  <2> QED
    BY <2>1, <2>2, <2>3
<1>10. Heralded(box, cs)
  <2>1. ASSUME NEW i \in 1..Len(box), box[i].kind = "raw"
        PROVE  /\ box[i].id \in DOMAIN cs /\ cs[box[i].id].was_authorized
               /\ box[i].n = -1 => Leaving(cs[box[i].id])
    <3>1. CASE i = Len(box)
      BY <1>3, <1>5, <1>6, <3>1
    <3>2. CASE i # Len(box)
      <4>1. i \in 1..Len(inbox) /\ box[i] = inbox[i]
        BY <1>6, <1>7, <3>2
      <4>2. PICK k : k = inbox[i].id
        OBVIOUS
      <4>3. k \in DOMAIN clients /\ clients[k].was_authorized /\ (inbox[i].n = -1 => Leaving(clients[k]))
        BY <2>1, <4>1, <4>2 DEF Counting, Heralded
      <4>4. k = id => inbox[i].n = 1
        BY <1>8, <2>1, <4>1, <4>2
      <4> QED
        BY <1>3, <4>1, <4>2, <4>3, <4>4
    <3> QED
      BY <3>1, <3>2
  <2>2. ASSUME NEW j \in 1..Len(box), NEW i \in 1..j-1,
               box[j].kind = "raw", box[i].kind \in {"raw", "hangup"}, box[i].id = box[j].id
        PROVE  box[i].kind = "raw" /\ box[i].n = 1 /\ box[j].n = -1
    <3>1. i \in 1..Len(inbox) /\ box[i] = inbox[i]
      BY <1>6, <1>7
    <3>2. CASE j = Len(box)
      BY <1>5, <1>6, <1>8, <2>2, <3>1, <3>2
    <3>3. CASE j # Len(box)
      <4>1. j \in 1..Len(inbox) /\ box[j] = inbox[j]
        BY <1>6, <1>7, <3>3
      <4> QED
        BY <2>2, <3>1, <4>1 DEF Counting, Heralded
    <3> QED
      BY <3>2, <3>3
  <2> QED
    BY <2>1, <2>2 DEF Heralded
<1>11. ASSUME NEW k \in DOMAIN cs, Leaving(cs[k]), Told(box, k, 1) PROVE Told(box, k, -1)
  <2>1. CASE k = id
    BY <1>3, <1>9, <1>11, <2>1
  <2>2. CASE k # id
    BY <1>3, <1>9, <1>11, <2>2 DEF Counting
  <2> QED
    BY <2>1, <2>2
<1>12. ASSUME NEW tq \in TQueue PROVE Members(box, cs, tq) = Members(inbox, clients, tq)
  <2>1. ASSUME NEW k \in DOMAIN clients
        PROVE  /\ TQueueOf[cs[k].token] = TQueueOf[clients[k].token]
               /\ Counted(box, cs[k], k) <=> Counted(inbox, clients[k], k)
    <3>1. CASE k # id
      BY <1>3, <1>9, <3>1 DEF Counted
    <3>2. CASE k = id /\ n = 1
      <4>1. ~Counted(box, cs[k], k)
        BY <1>9, <3>2 DEF Counted
      <4>2. ~Counted(inbox, clients[k], k)
        BY <3>2 DEF Counted
      <4> QED
        BY <1>3, <3>2, <4>1, <4>2
    <3>3. CASE k = id /\ n = -1
      <4>1. Told(box, id, 1) <=> Told(inbox, id, 1)
        BY <1>9, <3>3
      <4>2. Told(box, id, -1)
        BY <1>9, <3>3
      <4> QED
        BY <1>3, <3>3, <4>1, <4>2 DEF Counted
    <3> QED
      BY <3>1, <3>2, <3>3
  <2> QED
    BY <1>3, <2>1 DEF Members
<1>13. active \in [TQueue -> Int] /\ \A tq \in TQueue : active[tq] = Cardinality(Members(box, cs, tq))
  BY <1>12 DEF Counting
<1>14. \A k \in DOMAIN cs : ~cs[k].td => Leaving(cs[k])
  BY <1>3 DEF Counting
<1>15. TQueue' = TQueue
  BY DEF TQueue
<1> QED
  BY <1>1, <1>2, <1>10, <1>11, <1>13, <1>14, <1>15 DEF Counting

LEMMA MembersFinite ==
  ASSUME Tame, NEW box, NEW tq
  PROVE  /\ IsFiniteSet(Members(box, clients, tq))
         /\ Cardinality(Members(box, clients, tq)) \in Nat
<1>1. Members(box, clients, tq) \subseteq 1..last_id /\ last_id \in Nat
  BY DEF Tame, Typed, Members
<1>2. IsFiniteSet(1..last_id)
  BY <1>1, FS_Interval
<1>3. IsFiniteSet(Members(box, clients, tq))
  BY <1>1, <1>2, FS_Subset
<1> QED
  BY <1>3, FS_CardinalityType

\* raw_event: the first message of the inbox is counted.
LEMMA RawEventCounting ==
  ASSUME Tame, Counting, inbox # <<>>, inbox' = Tail(inbox), Head(inbox).kind = "raw",
         RawEvent(Head(inbox).id, Head(inbox).n)
  PROVE  Counting'
<1>1. PICK box : box = inbox'
  OBVIOUS
<1>2. PICK id : id = Head(inbox).id
  OBVIOUS
<1>3. PICK n : n = Head(inbox).n
  OBVIOUS
<1>4. /\ Len(inbox) \in Nat /\ 1 \in 1..Len(inbox) /\ Len(box) = Len(inbox) - 1 /\ inbox[1] = Head(inbox)
      /\ \A i \in 1..Len(box) : i + 1 \in 1..Len(inbox) /\ box[i] = inbox[i + 1]
  <2>1. PICK s \in Seq(InboxMessage(Gone)) : s = inbox
    BY DEF Tame, Typed
  <2>2. Len(Tail(s)) = Len(s) - 1 /\ Head(s) = s[1] /\ \A i \in 1..Len(Tail(s)) : Tail(s)[i] = s[i + 1]
    BY <2>1, HeadTailProperties
  <2>3. Len(s) \in Nat /\ Len(s) # 0
    BY <2>1, EmptySeq
  <2> QED
    BY <1>1, <2>1, <2>2, <2>3
<1>5. \A i \in 2..Len(inbox) : i - 1 \in 1..Len(box) /\ box[i - 1] = inbox[i]
  <2> SUFFICES ASSUME NEW i \in 2..Len(inbox) PROVE i - 1 \in 1..Len(box) /\ box[i - 1] = inbox[i]
    OBVIOUS
  <2>1. i - 1 \in 1..Len(box) /\ (i - 1) + 1 = i
    BY <1>4
  <2> QED
    BY <1>4, <2>1
<1>6. n \in {1, -1} /\ inbox[1] = Raw(id, n) /\ inbox[1].kind = "raw" /\ inbox[1].id = id /\ inbox[1].n = n
  BY <1>2, <1>3, <1>4, RawInbox
<1>7. Heralded(inbox, clients)
  BY DEF Counting
<1>8. id \in DOMAIN clients /\ clients[id].was_authorized /\ (n = -1 => Leaving(clients[id]))
  BY <1>4, <1>6, <1>7 DEF Heralded
<1>9. ASSUME NEW i \in 2..Len(inbox), inbox[i].kind = "raw", inbox[i].id = id
      PROVE  n = 1 /\ inbox[i].n = -1
  <2>1. i \in 1..Len(inbox) /\ 1 \in 1..i-1
    BY <1>4
  <2> QED
    BY <1>6, <1>7, <1>9, <2>1 DEF Heralded
<1>10. /\ \A k, x : Told(box, k, x) => Told(inbox, k, x)
       /\ \A k, x : Told(inbox, k, x) => Told(box, k, x) \/ (k = id /\ x = n)
       /\ ~Told(box, id, n)
       /\ Told(inbox, id, n)
  <2>1. ASSUME NEW k, NEW x, Told(box, k, x) PROVE Told(inbox, k, x)
    BY <1>4, <2>1 DEF Told
  <2>2. ASSUME NEW k, NEW x, Told(inbox, k, x) PROVE Told(box, k, x) \/ (k = id /\ x = n)
    <3>1. PICK i \in 1..Len(inbox) : inbox[i] = Raw(k, x)
      BY <2>2 DEF Told
    <3>2. CASE i = 1
      BY <1>6, <3>1, <3>2, RawFields
    <3>3. CASE i # 1
      <4>1. i \in 2..Len(inbox)
        BY <1>4, <3>3
      <4> QED
        BY <1>5, <3>1, <4>1 DEF Told
    <3> QED
      BY <3>2, <3>3
  <2>3. ASSUME Told(box, id, n) PROVE FALSE
    <3>1. PICK i \in 1..Len(box) : box[i] = Raw(id, n)
      BY <2>3 DEF Told
    <3>2. i + 1 \in 2..Len(inbox) /\ inbox[i + 1] = Raw(id, n)
      BY <1>4, <3>1
    <3>3. n = 1 /\ n = -1
      BY <1>9, <3>2, RawFields
    <3> QED
      BY <3>3
  <2>4. Told(inbox, id, n)
    BY <1>4, <1>6 DEF Told
  <2> QED
    BY <2>1, <2>2, <2>3, <2>4
<1>11. Heralded(box, clients)
  <2>1. ASSUME NEW i \in 1..Len(box), box[i].kind = "raw"
        PROVE  /\ box[i].id \in DOMAIN clients /\ clients[box[i].id].was_authorized
               /\ box[i].n = -1 => Leaving(clients[box[i].id])
    <3>1. i + 1 \in 1..Len(inbox) /\ box[i] = inbox[i + 1]
      BY <1>4
    <3> QED
      BY <1>7, <2>1, <3>1 DEF Heralded
  <2>2. ASSUME NEW j \in 1..Len(box), NEW i \in 1..j-1,
               box[j].kind = "raw", box[i].kind \in {"raw", "hangup"}, box[i].id = box[j].id
        PROVE  box[i].kind = "raw" /\ box[i].n = 1 /\ box[j].n = -1
    <3>1. i \in 1..Len(box) /\ i + 1 \in 1..(j + 1) - 1
      BY <1>4
    <3>2. j + 1 \in 1..Len(inbox) /\ box[j] = inbox[j + 1] /\ box[i] = inbox[i + 1]
      BY <1>4, <3>1
    <3> QED
      BY <1>7, <2>2, <3>1, <3>2 DEF Heralded
  <2> QED
    BY <2>1, <2>2 DEF Heralded
<1>12. ASSUME NEW k \in DOMAIN clients, Leaving(clients[k]), Told(box, k, 1) PROVE Told(box, k, -1)
  <2>1. Told(inbox, k, -1)
    BY <1>10, <1>12 DEF Counting
  <2>2. CASE k = id /\ n = -1
    <3>1. PICK i \in 1..Len(box) : box[i] = Raw(id, 1)
      BY <1>12, <2>2 DEF Told
    <3>2. i + 1 \in 2..Len(inbox) /\ inbox[i + 1] = Raw(id, 1)
      BY <1>4, <3>1
    <3>3. n = 1
      BY <1>9, <3>2, RawFields
    <3> QED
      BY <2>2, <3>3
  <2>3. CASE ~(k = id /\ n = -1)
    BY <1>10, <2>1, <2>3
  <2> QED
    BY <2>2, <2>3
<1>13. PICK queue : queue = TQueueOf[clients[id].token]
  OBVIOUS
<1>14. queue \in TQueue
  BY <1>8, <1>13, ClientTyped DEF TQueue, Client
<1>15. ASSUME NEW k \in DOMAIN clients, k # id
       PROVE  Counted(box, clients[k], k) <=> Counted(inbox, clients[k], k)
  BY <1>10, <1>15 DEF Counted
<1>16. /\ n = 1 => Counted(box, clients[id], id) /\ ~Counted(inbox, clients[id], id)
       /\ n = -1 => ~Counted(box, clients[id], id) /\ Counted(inbox, clients[id], id)
  <2>1. ASSUME n = 1 PROVE Counted(box, clients[id], id) /\ ~Counted(inbox, clients[id], id)
    <3>1. Leaving(clients[id]) => Told(inbox, id, -1)
      BY <1>8, <1>10, <2>1 DEF Counting
    <3>2. Told(inbox, id, -1) => Told(box, id, -1)
      BY <1>10, <2>1
    <3> QED
      BY <1>8, <1>10, <2>1, <3>1, <3>2 DEF Counted
  <2>2. ASSUME n = -1 PROVE ~Counted(box, clients[id], id) /\ Counted(inbox, clients[id], id)
    <3>1. ~Told(inbox, id, 1)
      <4> SUFFICES ASSUME Told(inbox, id, 1) PROVE FALSE
        OBVIOUS
      <4>1. Told(box, id, 1)
        BY <1>10, <2>2
      <4>2. PICK i \in 1..Len(box) : box[i] = Raw(id, 1)
        BY <4>1 DEF Told
      <4>3. i + 1 \in 2..Len(inbox) /\ inbox[i + 1] = Raw(id, 1)
        BY <1>4, <4>2
      <4>4. n = 1
        BY <1>9, <4>3, RawFields
      <4> QED
        BY <2>2, <4>4
    <3> QED
      BY <1>8, <1>10, <2>2, <3>1 DEF Counted
  <2> QED
    BY <2>1, <2>2
<1>17. ASSUME NEW tq \in TQueue
       PROVE  Cardinality(Members(box, clients, tq)) =
                Cardinality(Members(inbox, clients, tq)) + (IF tq = queue THEN n ELSE 0)
  <2> DEFINE A == Members(box, clients, tq)
             B == Members(inbox, clients, tq)
  <2>1. IsFiniteSet(A) /\ IsFiniteSet(B) /\ Cardinality(A) \in Nat /\ Cardinality(B) \in Nat
    BY MembersFinite
  <2>2. CASE tq # queue
    <3>1. A = B
      BY <1>13, <1>15, <2>2 DEF Members
    <3> QED
      BY <2>1, <2>2, <3>1
  <2>3. CASE tq = queue /\ n = 1
    <3>1. A = B \cup {id} /\ id \notin B
      BY <1>8, <1>13, <1>15, <1>16, <2>3 DEF Members
    <3> HIDE DEF A, B
    <3>2. Cardinality(A) = Cardinality(B) + 1
      BY <2>1, <3>1, FS_AddElement
    <3> QED
      BY <2>3, <3>2 DEF A, B
  <2>4. CASE tq = queue /\ n = -1
    <3>1. B = A \cup {id} /\ id \notin A
      BY <1>8, <1>13, <1>15, <1>16, <2>4 DEF Members
    <3> HIDE DEF A, B
    <3>2. Cardinality(B) = Cardinality(A) + 1
      BY <2>1, <3>1, FS_AddElement
    <3>3. Cardinality(A) = Cardinality(B) + n
      BY <2>1, <2>4, <3>2
    <3> QED
      BY <2>4, <3>3 DEF A, B
  <2> QED
    BY <1>6, <2>2, <2>3, <2>4
<1>18. PICK count : count = active'
  OBVIOUS
<1>19. count = [active EXCEPT ![queue] = @ + n] /\ clients' = clients
  BY <1>2, <1>3, <1>13, <1>18 DEF RawEvent
<1>20. active \in [TQueue -> Int] /\ n \in Int /\ \A tq \in TQueue : active[tq] = Cardinality(Members(inbox, clients, tq))
  BY <1>6 DEF Counting
<1>21. count \in [TQueue -> Int] /\ \A tq \in TQueue : count[tq] = active[tq] + (IF tq = queue THEN n ELSE 0)
  BY <1>14, <1>19, <1>20
<1>22. \A tq \in TQueue : count[tq] = Cardinality(Members(box, clients, tq))
  BY <1>17, <1>20, <1>21
<1>23. \A k \in DOMAIN clients : ~clients[k].td => Leaving(clients[k])
  BY DEF Counting
<1>24. TQueue' = TQueue
  BY DEF TQueue
<1> QED
  BY <1>1, <1>11, <1>12, <1>18, <1>19, <1>21, <1>22, <1>23, <1>24 DEF Counting
-----------------------------------------------------------------------------
(* Every step keeps the count.                                             *)

\* A Client does not change in what is counted, but TDLib may end when it is leaving.
Alike(a, d) ==
  /\ d.token = a.token
  /\ d.was_authorized <=> a.was_authorized
  /\ d.logging_out <=> a.logging_out
  /\ d.closing <=> a.closing
  /\ (d.td <=> a.td) \/ Leaving(a)

Stopped(c) == [c EXCEPT !.alive = FALSE, !.mail = <<>>, !.cmd_queue = <<>>, !.waiting = {}]

LEMMA AlikeCounting ==
  ASSUME Tame, Counting, NEW id \in DOMAIN clients, NEW d,
         clients' = [clients EXCEPT ![id] = d], Alike(clients[id], d), active' = active,
         inbox' = inbox \/ inbox' = Append(inbox, Hangup(id))
  PROVE  Counting'
<1>1. Same(clients[id], d)
  BY DEF Alike, Same, Leaving
<1>2. ~d.td => Leaving(d)
  BY DEF Alike, Counting, Leaving
<1>3. Hangup(id).kind # "raw"
  BY DEF Hangup
<1> QED
  BY <1>1, <1>2, <1>3, OneChanges

LEMMA AlikeStaysAlike ==
  ASSUME NEW a, NEW c \in Client, Alike(a, c)
  PROVE  /\ Alike(a, Stopped(c))
         /\ Alike(a, CloseClient(c))
         /\ Alike(a, [c EXCEPT !.timer = TRUE])
         /\ Alike(a, [c EXCEPT !.served = TRUE])
         /\ \A x : /\ Alike(a, [c EXCEPT !.cmd_queue = x])
                   /\ Alike(a, [c EXCEPT !.mail = x])
                   /\ Alike(a, [c EXCEPT !.webhook = x])
                   /\ Alike(a, [c EXCEPT !.waiting = x])
         /\ \A x, y, z : Alike(a, [c EXCEPT !.need_close = x, !.asked = y, !.waiting = z])
<1>1. Alike(a, Stopped(c))
  BY DEF Alike, Client, Stopped
<1>2. Alike(a, CloseClient(c))
  BY DEF Alike, Client, CloseClient
<1>3. Alike(a, [c EXCEPT !.timer = TRUE]) /\ Alike(a, [c EXCEPT !.served = TRUE])
  BY DEF Alike, Client
<1>4. ASSUME NEW x
      PROVE  /\ Alike(a, [c EXCEPT !.cmd_queue = x]) /\ Alike(a, [c EXCEPT !.mail = x])
             /\ Alike(a, [c EXCEPT !.webhook = x]) /\ Alike(a, [c EXCEPT !.waiting = x])
  BY DEF Alike, Client
<1>5. ASSUME NEW x, NEW y, NEW z
      PROVE  Alike(a, [c EXCEPT !.need_close = x, !.asked = y, !.waiting = z])
  BY DEF Alike, Client
<1> QED
  BY <1>1, <1>2, <1>3, <1>4, <1>5

LEMMA FinishClosingCounting ==
  ASSUME Tame, Counting, NEW id \in DOMAIN clients, NEW c \in Client, Alike(clients[id], c),
         FinishClosing(id, c) \/ StopClient(id, c), UNCHANGED active
  PROVE  Counting'
<1>1. PICK d, e : d = Stopped(c) /\ e = [c EXCEPT !.timer = TRUE]
  OBVIOUS
<1>2. Alike(clients[id], d) /\ Alike(clients[id], e)
  BY <1>1, AlikeStaysAlike
<1>3. \/ clients' = [clients EXCEPT ![id] = d] /\ inbox' = Append(inbox, Hangup(id))
      \/ clients' = [clients EXCEPT ![id] = e] /\ inbox' = inbox
  BY <1>1 DEF FinishClosing, StopClient, Stopped
<1> QED
  BY <1>2, <1>3, AlikeCounting

LEMMA HandleMailCounting ==
  ASSUME Tame, Counting, NEW id \in DOMAIN clients, HandleMail(id)
  PROVE  Counting'
<1>1. PICK a : a = clients[id]
  OBVIOUS
<1>2. PICK c : c = [a EXCEPT !.mail = Tail(@)]
  OBVIOUS
<1>3. PICK message : message = Head(a.mail)
  OBVIOUS
<1>4. a \in Client /\ a.mail # <<>> /\ UNCHANGED active
  BY <1>1, ClientTyped DEF HandleMail, managerVars
<1>5. Tail(a.mail) \in Seq(QueryMessage \cup {Close, Removed}) /\ message \in QueryMessage \cup {Close, Removed}
  BY <1>3, <1>4 DEF Client
<1>6. c \in Client
  BY <1>2, <1>4, <1>5 DEF Client
<1>7. Alike(a, c)
  BY <1>2, <1>4 DEF Alike, Client
<1>8. PICK d : d = CloseClient(c)
  OBVIOUS
<1>9. PICK e : e = [c EXCEPT !.cmd_queue = Append(@, message)]
  OBVIOUS
<1>10. Alike(a, d) /\ Alike(a, e)
  BY <1>6, <1>7, <1>8, <1>9, AlikeStaysAlike
<1>11. Close.kind = "close" /\ Removed.kind = "removed" /\ \A m \in QueryMessage : m.kind = "query"
  BY DEF Close, Removed, QueryMessage
<1>12. CASE message.kind = "query"
  <2>1. \/ clients' = [clients EXCEPT ![id] = c] /\ inbox' = inbox
        \/ clients' = [clients EXCEPT ![id] = e] /\ inbox' = inbox
    BY <1>1, <1>2, <1>3, <1>9, <1>12 DEF HandleMail
  <2> QED
    BY <1>1, <1>4, <1>7, <1>10, <2>1, AlikeCounting
<1>13. CASE message.kind = "close"
  <2>1. clients' = [clients EXCEPT ![id] = d] /\ inbox' = inbox
    BY <1>1, <1>2, <1>3, <1>8, <1>13 DEF HandleMail
  <2> QED
    BY <1>1, <1>4, <1>10, <2>1, AlikeCounting
<1>14. CASE message.kind = "removed"
  <2>1. FinishClosing(id, c)
    BY <1>1, <1>2, <1>3, <1>14 DEF HandleMail
  <2> QED
    BY <1>1, <1>4, <1>6, <1>7, <2>1, FinishClosingCounting
<1> QED
  BY <1>5, <1>11, <1>12, <1>13, <1>14

LEMMA OnCmdCounting ==
  ASSUME Tame, Counting, NEW id \in DOMAIN clients, OnCmd(id)
  PROVE  Counting'
<1>1. PICK a : a = clients[id]
  OBVIOUS
<1>2. PICK c : c = [a EXCEPT !.cmd_queue = Tail(@)]
  OBVIOUS
<1>3. PICK query : query = Head(a.cmd_queue)
  OBVIOUS
<1>4. a \in Client /\ a.cmd_queue # <<>> /\ UNCHANGED <<active, inbox>>
  BY <1>1, ClientTyped DEF OnCmd, Looping, managerVars
<1>5. Tail(a.cmd_queue) \in Seq(QueryMessage)
  BY <1>4 DEF Client
<1>6. c \in Client
  BY <1>2, <1>4, <1>5 DEF Client
<1>7. Alike(a, c)
  BY <1>2, <1>4 DEF Alike, Client
<1>8. ASSUME NEW d, Alike(a, d), clients' = [clients EXCEPT ![id] = d]
      PROVE  Counting'
  BY <1>1, <1>4, <1>8, AlikeCounting
<1>9. CASE OnSpecial(id, c, query)
  <2>1. PICK d : d = [c EXCEPT !.need_close = @ \/ query.method = "close",
                               !.asked = @ \/ query.method = "close",
                               !.waiting = @ \cup {query.q}]
    OBVIOUS
  <2>2. clients' = [clients EXCEPT ![id] = c] \/ clients' = [clients EXCEPT ![id] = d]
    BY <1>9, <2>1 DEF OnSpecial
  <2>3. Alike(a, d)
    BY <1>6, <1>7, <2>1, AlikeStaysAlike
  <2> QED
    BY <1>7, <1>8, <2>2, <2>3
<1>10. CASE Execute(id, c, query)
  <2>1. PICK e : e = [c EXCEPT !.served = TRUE]
    OBVIOUS
  <2>2. \/ \E w : clients' = [clients EXCEPT ![id] = [c EXCEPT !.webhook = w]]
        \/ clients' = [clients EXCEPT ![id] = e]
    BY <1>10, <2>1 DEF Execute
  <2>3. Alike(a, e) /\ \A w : Alike(a, [c EXCEPT !.webhook = w])
    BY <1>6, <1>7, <2>1, AlikeStaysAlike
  <2> QED
    BY <1>8, <2>2, <2>3
<1>11. CASE clients' = [clients EXCEPT ![id] = c]
  BY <1>7, <1>8, <1>11
<1> QED
  BY <1>1, <1>2, <1>3, <1>9, <1>10, <1>11 DEF OnCmd

LEMMA TdCounting ==
  ASSUME Tame, Counting, NEW id \in DOMAIN clients,
         TdAuthorizes(id) \/ TdLogsOut(id) \/ TdCloses(id) \/ TdAnswers(id) \/ TdInitFails(id)
  PROVE  Counting'
<1>1. PICK a : a = clients[id]
  OBVIOUS
<1>2. a \in Client /\ a.td /\ a.alive /\ UNCHANGED active
  BY <1>1, ClientTyped
     DEF Tame, Sound, TdTells, TdAuthorizes, TdLogsOut, TdCloses, TdAnswers, TdInitFails, managerVars
<1>3. CASE TdAuthorizes(id)
  <2>1. PICK d : d = [a EXCEPT !.was_authorized = TRUE]
    OBVIOUS
  <2>2. /\ d.token = a.token /\ d.td /\ d.was_authorized /\ ~a.was_authorized
        /\ d.logging_out = a.logging_out /\ d.closing = a.closing /\ ~Leaving(a)
    BY <1>1, <1>2, <1>3, <2>1 DEF Client, TdAuthorizes
  <2>3. ~Leaving(d)
    BY <2>2 DEF Leaving
  <2>4. clients' = [clients EXCEPT ![id] = d] /\ inbox' = Append(inbox, Raw(id, 1))
    BY <1>1, <1>3, <2>1 DEF TdAuthorizes
  <2>5. PICK n \in {1, -1} : n = 1
    OBVIOUS
  <2>6. inbox' = Append(inbox, Raw(id, n)) /\ n # -1
    BY <2>4, <2>5
  <2> QED
    BY <1>1, <1>2, <2>2, <2>3, <2>4, <2>6, ClientTellsCounting
<1>4. CASE TdLogsOut(id)
  <2>1. PICK d : d = [a EXCEPT !.logging_out = TRUE]
    OBVIOUS
  <2>2. d.token = a.token /\ d.was_authorized = a.was_authorized /\ d.logging_out /\ ~Leaving(a)
    BY <1>1, <1>2, <1>4, <2>1 DEF Client, TdLogsOut
  <2>3. Leaving(d)
    BY <2>2 DEF Leaving
  <2>4. /\ clients' = [clients EXCEPT ![id] = d]
        /\ inbox' = IF a.was_authorized THEN Append(inbox, Raw(id, -1)) ELSE inbox
    BY <1>1, <1>4, <2>1 DEF TdLogsOut
  <2>5. CASE a.was_authorized
    <3>1. PICK n \in {1, -1} : n = -1
      OBVIOUS
    <3>2. inbox' = Append(inbox, Raw(id, n)) /\ n # 1
      BY <2>4, <2>5, <3>1
    <3> QED
      BY <1>1, <1>2, <2>2, <2>3, <2>4, <2>5, <3>2, ClientTellsCounting
  <2>6. CASE ~a.was_authorized
    <3>1. Same(a, d)
      BY <2>2, <2>6 DEF Same
    <3> QED
      BY <1>1, <1>2, <2>3, <2>4, <2>6, <3>1, OneChanges
  <2> QED
    BY <2>5, <2>6
<1>5. CASE TdCloses(id)
  <2>1. PICK d : d = [a EXCEPT !.closing = TRUE]
    OBVIOUS
  <2>2. d.token = a.token /\ d.was_authorized = a.was_authorized /\ d.closing /\ ~a.closing
    BY <1>1, <1>2, <1>5, <2>1 DEF Client, TdCloses
  <2>3. Leaving(d)
    BY <2>2 DEF Leaving
  <2>4. /\ clients' = [clients EXCEPT ![id] = d]
        /\ inbox' = IF a.was_authorized /\ ~a.logging_out THEN Append(inbox, Raw(id, -1)) ELSE inbox
    BY <1>1, <1>5, <2>1 DEF TdCloses
  <2>5. CASE a.was_authorized /\ ~a.logging_out
    <3>1. ~Leaving(a)
      BY <2>2, <2>5 DEF Leaving
    <3>2. PICK n \in {1, -1} : n = -1
      OBVIOUS
    <3>3. inbox' = Append(inbox, Raw(id, n)) /\ n # 1
      BY <2>4, <2>5, <3>2
    <3> QED
      BY <1>1, <1>2, <2>2, <2>3, <2>4, <2>5, <3>1, <3>3, ClientTellsCounting
  <2>6. CASE ~(a.was_authorized /\ ~a.logging_out)
    <3>1. Same(a, d)
      BY <2>2, <2>3, <2>6 DEF Same, Leaving
    <3> QED
      BY <1>1, <1>2, <2>3, <2>4, <2>6, <3>1, OneChanges
  <2> QED
    BY <2>5, <2>6
<1>6. Alike(a, a)
  BY DEF Alike
<1>7. CASE TdAnswers(id)
  <2>1. PICK d : d = [a EXCEPT !.waiting = {}]
    OBVIOUS
  <2>2. clients' = [clients EXCEPT ![id] = d] /\ inbox' = inbox
    BY <1>1, <1>7, <2>1 DEF TdAnswers
  <2>3. Alike(a, d)
    BY <1>2, <1>6, <2>1, AlikeStaysAlike
  <2> QED
    BY <1>1, <1>2, <2>2, <2>3, AlikeCounting
<1>8. CASE TdInitFails(id)
  <2>1. PICK d : d = CloseClient(a)
    OBVIOUS
  <2>2. clients' = [clients EXCEPT ![id] = d] /\ inbox' = inbox
    BY <1>1, <1>8, <2>1 DEF TdInitFails
  <2>3. Alike(a, d)
    BY <1>2, <1>6, <2>1, AlikeStaysAlike
  <2> QED
    BY <1>1, <1>2, <2>2, <2>3, AlikeCounting
<1> QED
  BY <1>3, <1>4, <1>5, <1>7, <1>8

LEMMA OnClosedCounting ==
  ASSUME Tame, Counting, NEW id \in DOMAIN clients, OnClosed(id) \/ TimeoutExpired(id)
  PROVE  Counting'
<1>1. PICK a : a = clients[id]
  OBVIOUS
<1>2. a \in Client /\ UNCHANGED active
  BY <1>1, ClientTyped DEF OnClosed, TimeoutExpired, managerVars
<1>3. CASE TimeoutExpired(id)
  <2>1. StopClient(id, a)
    BY <1>1, <1>3 DEF TimeoutExpired
  <2>2. Alike(a, a)
    BY DEF Alike
  <2> QED
    BY <1>1, <1>2, <2>1, <2>2, FinishClosingCounting
<1>4. CASE OnClosed(id)
  <2>1. PICK c : c = [a EXCEPT !.td = FALSE]
    OBVIOUS
  <2>2. c \in Client
    BY <1>2, <2>1 DEF Client
  <2>3. Leaving(a)
    BY <1>1, <1>4 DEF OnClosed
  <2>4. Alike(a, c)
    BY <1>2, <2>1, <2>3 DEF Client, Alike
  <2>5. FinishClosing(id, c) \/ (clients' = [clients EXCEPT ![id] = c] /\ inbox' = inbox)
    BY <1>1, <1>4, <2>1 DEF OnClosed
  <2> QED
    BY <1>1, <1>2, <2>2, <2>4, <2>5, FinishClosingCounting, AlikeCounting
<1> QED
  BY <1>3, <1>4

\* Mail for Clients is not counted.
LEMMA MailCounting ==
  ASSUME Tame, Counting, DOMAIN clients' = DOMAIN clients, NEW m,
         \A i \in DOMAIN clients :
           clients'[i] \in {clients[i], [clients[i] EXCEPT !.mail = Append(@, m)]},
         Carries(inbox, inbox'), Len(inbox') \in Nat, active' = active
  PROVE  Counting'
<1>1. ASSUME NEW i \in DOMAIN clients
      PROVE  Same(clients[i], clients'[i]) /\ (~clients'[i].td => Leaving(clients'[i]))
  <2>1. PICK a : a = clients[i]
    OBVIOUS
  <2>2. PICK d : d = [a EXCEPT !.mail = Append(@, m)]
    OBVIOUS
  <2>3. a \in Client
    BY <2>1, ClientTyped
  <2>4. /\ d.token = a.token /\ d.was_authorized = a.was_authorized /\ d.td = a.td
        /\ d.logging_out = a.logging_out /\ d.closing = a.closing
    BY <2>2, <2>3 DEF Client
  <2>5. clients'[i] = a \/ clients'[i] = d
    BY <2>1, <2>2
  <2>6. ~a.td => Leaving(a)
    BY <2>1 DEF Counting
  <2> QED
    BY <2>1, <2>4, <2>5, <2>6 DEF Same, Leaving
<1> QED
  BY <1>1, CountingKept

\* Nothing of active_client_count_ is on its way to a ClientManager without clients.
LEMMA NobodyIsCounted ==
  ASSUME NEW box, NEW cs, DOMAIN cs = {}, Len(box) \in Nat, \A i \in 1..Len(box) : box[i].kind # "raw"
  PROVE  Heralded(box, cs) /\ \A tq : Cardinality(Members(box, cs, tq)) = 0
<1>1. \A tq : Members(box, cs, tq) = {}
  BY DEF Members
<1>2. \A j \in 1..Len(box) : \A i \in 1..j-1 : j \in 1..Len(box)
  OBVIOUS
<1> QED
  BY <1>1, <1>2, FS_EmptySet DEF Heralded

LEMMA OnlyQueries ==
  ASSUME NEW s \in Seq(QueryMessage)
  PROVE  Len(s) \in Nat /\ \A i \in 1..Len(s) : s[i].kind = "query"
<1>1. Len(s) \in Nat /\ \A i \in 1..Len(s) : s[i] \in QueryMessage
  BY ElementOfSeq
<1>2. \A m \in QueryMessage : m.kind = "query"
  BY DEF QueryMessage
<1> QED
  BY <1>1, <1>2

LEMMA HandleInboxCounting ==
  ASSUME Tame, Counting, HandleInbox
  PROVE  Counting'
<1>1. PICK message : message = Head(inbox)
  OBVIOUS
<1>2. PICK s \in Seq(InboxMessage(Gone)) : s = inbox
  BY DEF Tame, Typed
<1>3. inbox # <<>> /\ inbox' = Tail(inbox)
  BY DEF HandleInbox
<1>4. message \in InboxMessage(Gone) /\ message = inbox[1] /\ Len(inbox) \in Nat /\ 1 \in 1..Len(inbox)
      /\ Len(inbox') \in Nat
  <2>1. Len(s) \in Nat /\ Len(s) # 0 /\ Head(s) = s[1] /\ Len(Tail(s)) = Len(s) - 1
    BY <1>2, <1>3, EmptySeq, HeadTailProperties
  <2>2. s[1] \in InboxMessage(Gone)
    BY <2>1, ElementOfSeq
  <2> QED
    BY <1>1, <1>2, <1>3, <2>1, <2>2
<1>5. message.kind # "raw" => Carries(inbox, inbox')
  BY <1>1, <1>2, <1>3, TailCarries
<1>6. /\ Close.kind = "close"
      /\ \A id, n : Raw(id, n).kind = "raw"
      /\ \A id : Hangup(id).kind = "hangup" /\ Hangup(id).id = id
      /\ \A m \in QueryMessage : m.kind = "query"
  BY DEF Close, Raw, Hangup, QueryMessage
<1>7. CASE message.kind = "query"
  <2>1. Send(message) /\ active' = active
    BY <1>1, <1>7 DEF HandleInbox, Send
  <2>2. CASE Refuse(message) \/ UNCHANGED clients
    BY <1>4, <1>5, <1>7, <2>1, <2>2, MailCounting DEF Refuse
  <2>3. CASE \E id \in DOMAIN clients : Forward(id, message)
    <3>1. PICK id \in DOMAIN clients : Forward(id, message)
      BY <2>3
    <3>2. CASE clients' = [clients EXCEPT ![id].mail = Append(@, message)]
      <4>1. DOMAIN clients' = DOMAIN clients /\ \A i \in DOMAIN clients :
              clients'[i] \in {clients[i], [clients[i] EXCEPT !.mail = Append(@, message)]}
        BY <3>2
      <4> QED
        BY <1>4, <1>5, <1>7, <2>1, <4>1, MailCounting
    <3> QED
      BY <2>2, <3>1, <3>2 DEF Forward
  <2>4. CASE CreateClient(message)
    <3>1. PICK new : new = last_id + 1
      OBVIOUS
    <3>2. PICK c : c = NewClient(message.token, message.method, FirstMail(message))
      OBVIOUS
    <3>3. new \notin DOMAIN clients
      BY <3>1 DEF Tame, Typed
    <3>4. /\ DOMAIN clients' = DOMAIN clients \cup {new}
          /\ clients'[new] = c
          /\ \A i \in DOMAIN clients : clients'[i] = clients[i]
      BY <2>4, <3>1, <3>2, <3>3 DEF CreateClient, Put
    <3>5. ~c.was_authorized /\ (~c.td => Leaving(c))
      BY <3>2 DEF NewClient, Leaving
    <3>6. \A i \in DOMAIN clients : Same(clients[i], clients'[i]) /\ (~clients'[i].td => Leaving(clients'[i]))
      BY <3>4 DEF Same, Counting
    <3>7. /\ \A i \in DOMAIN clients' : ~clients'[i].td => Leaving(clients'[i])
          /\ \A i \in DOMAIN clients' : i \in DOMAIN clients => Same(clients[i], clients'[i])
          /\ \A i \in DOMAIN clients' : i \notin DOMAIN clients => ~clients'[i].was_authorized
          /\ \A i \in DOMAIN clients : i \in DOMAIN clients'
      BY <3>4, <3>5, <3>6
    <3> QED
      BY <1>4, <1>5, <1>7, <2>1, <3>7, CountingKept
  <2> QED
    BY <2>1, <2>2, <2>3, <2>4 DEF Send
<1>8. CASE message.kind = "close"
  <2>1. CloseManager
    BY <1>1, <1>8 DEF HandleInbox
  <2>2. active' = active /\ DOMAIN clients' = DOMAIN clients /\ \A i \in DOMAIN clients :
          clients'[i] \in {clients[i], [clients[i] EXCEPT !.mail = Append(@, Close)]}
    BY <2>1 DEF CloseManager
  <2> QED
    BY <1>4, <1>5, <1>8, <2>2, MailCounting
<1>9. CASE message.kind = "raw"
  <2>1. RawEvent(Head(inbox).id, Head(inbox).n)
    BY <1>1, <1>9 DEF HandleInbox
  <2> QED
    BY <1>1, <1>3, <1>9, <2>1, RawEventCounting
<1>10. CASE message.kind = "hangup"
  <2>1. PICK id \in Gone : message = Hangup(id)
    BY <1>4, <1>6, <1>10 DEF InboxMessage
  <2>2. HangupShared(id)
    BY <1>1, <1>6, <1>10, <2>1 DEF HandleInbox
  <2>3. /\ DOMAIN clients' = DOMAIN clients \ {id} /\ active' = active
        /\ \A i \in DOMAIN clients' : clients'[i] = clients[i]
    BY <2>2 DEF HangupShared, Without
  <2>4. ASSUME id \in DOMAIN clients
        PROVE  Leaving(clients[id]) /\ ~Told(inbox, id, 1) /\ ~Told(inbox, id, -1)
    <3>1. ~clients[id].td
      BY <2>1, <2>4 DEF Gone, Tame, Sound
    <3>2. \A n : ~Told(inbox, id, n)
      <4> SUFFICES ASSUME NEW n, Told(inbox, id, n) PROVE FALSE
        OBVIOUS
      <4>1. PICK j \in 1..Len(inbox) : inbox[j] = Raw(id, n)
        BY DEF Told
      <4>2. inbox[j].kind = "raw" /\ inbox[j].id = id
        BY <4>1, RawFields
      <4>3. inbox[1].kind = "hangup" /\ inbox[1].id = id
        BY <1>4, <1>6, <2>1
      <4>4. j # 1
        BY <4>2, <4>3
      <4>5. 1 \in 1..j-1
        BY <1>4, <4>4
      <4> QED
        BY <4>2, <4>3, <4>5 DEF Counting, Heralded
    <3> QED
      BY <2>4, <3>1, <3>2 DEF Counting
  <2>5. /\ \A i \in DOMAIN clients' : ~clients'[i].td => Leaving(clients'[i])
        /\ \A i \in DOMAIN clients' : i \in DOMAIN clients /\ Same(clients[i], clients'[i])
        /\ \A i \in DOMAIN clients : i \notin DOMAIN clients' => i = id
    BY <2>3 DEF Same, Counting
  <2> QED
    BY <1>4, <1>5, <1>10, <2>3, <2>4, <2>5, CountingKept
<1> QED
  BY <1>4, <1>6, <1>7, <1>8, <1>9, <1>10 DEF InboxMessage

LEMMA DirectoryRemovedCounting ==
  ASSUME Tame, Counting, NEW id \in DOMAIN removing, DirectoryRemoved(id)
  PROVE  Counting'
<1>1. inbox' = inbox /\ active' = active /\ Len(inbox) \in Nat
  BY RawInbox DEF DirectoryRemoved, managerVars
<1>2. DOMAIN clients' = DOMAIN clients /\ \A i \in DOMAIN clients :
        clients'[i] \in {clients[i], [clients[i] EXCEPT !.mail = Append(@, Removed)]}
  BY DEF DirectoryRemoved
<1> QED
  BY <1>1, <1>2, SameCarries, MailCounting

LEMMA ExitCounting ==
  ASSUME Exit
  PROVE  Counting'
<1>1. DOMAIN clients' = {} /\ inbox' = <<>> /\ active' = [tq \in TQueue |-> 0]
  BY DEF Exit
<1>2. Len(inbox') = 0
  BY <1>1
<1>3. Heralded(inbox', clients') /\ \A tq : Cardinality(Members(inbox', clients', tq)) = 0
  BY <1>1, <1>2, NobodyIsCounted
<1>4. Heralded(inbox, clients)' /\ \A tq : Cardinality(Members(inbox, clients, tq))' = 0
  BY <1>3
<1>5. TQueue' = TQueue
  BY DEF TQueue
<1> QED
  BY <1>1, <1>4, <1>5 DEF Counting

LEMMA ProcessCounting ==
  ASSUME Tame, Accounted, Counting,
         \/ DatabasesClosed \/ (\E q \in Query : Arrive(q)) \/ Quit \/ Finish \/ Start
         \/ UNCHANGED vars
  PROVE  Counting'
<1>1. Len(inbox) \in Nat
  BY RawInbox
<1>2. ASSUME UNCHANGED <<clients, active>>, Carries(inbox, inbox'), Len(inbox') \in Nat
      PROVE  Counting'
  BY <1>2, MailCounting
<1>3. ASSUME UNCHANGED <<clients, active>>, NEW m, m.kind # "raw", inbox' = Append(inbox, m)
      PROVE  Counting'
  <2>1. PICK S : S = InboxMessage(Gone) \cup {m}
    OBVIOUS
  <2>2. inbox \in Seq(S) /\ m \in S
    BY <2>1, SeqMonotonic DEF Tame, Typed
  <2>3. Carries(inbox, Append(inbox, m)) /\ Len(Append(inbox, m)) = Len(inbox) + 1
    BY <1>3, <2>2, AppendCarries, AppendProperties
  <2> QED
    BY <1>1, <1>2, <1>3, <2>3
<1>4. CASE UNCHANGED <<clients, active, inbox>>
  BY <1>1, <1>2, <1>4, SameCarries
<1>5. CASE DatabasesClosed
  BY <1>4, <1>5 DEF DatabasesClosed
<1>6. ASSUME NEW q \in Query, Arrive(q) PROVE Counting'
  <2>1. PICK call : inbox' = Append(inbox, QueryTo(call.token, q, call.method))
    BY <1>6 DEF Arrive
  <2>2. QueryTo(call.token, q, call.method).kind # "raw"
    BY DEF QueryTo
  <2>3. UNCHANGED <<clients, active>>
    BY <1>6 DEF Arrive, managerVars
  <2> QED
    BY <1>3, <2>1, <2>2, <2>3
<1>7. CASE Exit
  BY <1>7, ExitCounting
<1>8. CASE Quit /\ ~Exit
  <2>1. UNCHANGED <<clients, active>> /\ inbox' = Append(inbox, Close) /\ Close.kind # "raw"
    BY <1>8 DEF Quit, managerVars, Close
  <2> QED
    BY <1>3, <2>1
<1>9. CASE Start
  <2>1. inbox' \in Seq(QueryMessage)
    BY <1>9, RestoresTyped DEF Start, Tame, Typed
  <2>2. Len(inbox') \in Nat /\ \A i \in 1..Len(inbox') : inbox'[i].kind = "query"
    BY <2>1, OnlyQueries
  <2>3. DOMAIN clients = {} /\ UNCHANGED <<clients, active>>
    BY <1>9 DEF Start, Accounted
  <2>4. \A i \in 1..Len(inbox) : inbox[i].kind # "raw"
    BY <2>3 DEF Counting, Heralded
  <2>5. Carries(inbox, inbox')
    BY <2>2, <2>4 DEF Carries
  <2> QED
    BY <1>2, <2>2, <2>3, <2>5
<1>10. CASE UNCHANGED vars
  BY <1>4, <1>10 DEF vars, managerVars
<1> QED
  BY <1>5, <1>6, <1>7, <1>8, <1>9, <1>10 DEF Finish

LEMMA NextCounting ==
  ASSUME Tame, Accounted, Counting, [Next]_vars
  PROVE  Counting'
<1>1. ASSUME NEW id \in DOMAIN clients,
             \/ HandleMail(id) \/ OnCmd(id) \/ TdAuthorizes(id) \/ TdCloses(id) \/ TdAnswers(id)
             \/ OnClosed(id) \/ TimeoutExpired(id) \/ TdLogsOut(id) \/ TdInitFails(id)
      PROVE  Counting'
  BY <1>1, HandleMailCounting, OnCmdCounting, TdCounting, OnClosedCounting
<1>2. ASSUME NEW id \in DOMAIN removing, DirectoryRemoved(id)
      PROVE  Counting'
  BY <1>2, DirectoryRemovedCounting
<1> QED
  BY <1>1, <1>2, HandleInboxCounting, ProcessCounting DEF Next, Progress, Environment

LEMMA InitCounting ==
  ASSUME Init
  PROVE  Counting
<1>1. webhook_db \subseteq Token /\ IsFiniteSet(webhook_db) /\ inbox \in Restores(webhook_db)
  BY ServerAssumption DEF Init, ServerAssumption
<1>2. inbox \in Seq(QueryMessage)
  BY <1>1, RestoresTyped
<1>3. Len(inbox) \in Nat /\ \A i \in 1..Len(inbox) : inbox[i].kind = "query"
  BY <1>2, OnlyQueries
<1>4. DOMAIN clients = {} /\ active = [tq \in TQueue |-> 0]
  BY DEF Init
<1>5. Heralded(inbox, clients) /\ \A tq : Cardinality(Members(inbox, clients, tq)) = 0
  BY <1>3, <1>4, NobodyIsCounted
<1> QED
  BY <1>4, <1>5 DEF Counting

Messages(tq, n) ==
  {i \in DOMAIN inbox :
     inbox[i].kind = "raw" /\ inbox[i].n = n /\ TQueueOf[clients[inbox[i].id].token] = tq}

Awaiting(tq, n) == {id \in DOMAIN clients : TQueueOf[clients[id].token] = tq /\ Told(inbox, id, n)}

\* No two messages tell the same of one Client, so messages count clients.
LEMMA MessagesCountClients ==
  ASSUME Tame, Counting, NEW tq, NEW n \in {1, -1}
  PROVE  /\ Cardinality(Messages(tq, n)) = Cardinality(Awaiting(tq, n))
         /\ IsFiniteSet(Awaiting(tq, n))
<1>1. PICK I : I = Messages(tq, n)
  OBVIOUS
<1>2. PICK T : T = Awaiting(tq, n)
  OBVIOUS
<1>3. Len(inbox) \in Nat /\ DOMAIN inbox = 1..Len(inbox)
  <2>1. PICK s \in Seq(InboxMessage(Gone)) : s = inbox
    BY DEF Tame, Typed
  <2>2. Len(s) \in Nat /\ DOMAIN s = 1..Len(s)
    BY <2>1, LenProperties
  <2> QED
    BY <2>1, <2>2
<1>4. IsFiniteSet(I)
  <2>1. I \subseteq 1..Len(inbox)
    BY <1>3, <1>1 DEF Messages
  <2>2. IsFiniteSet(1..Len(inbox))
    BY <1>3, FS_Interval
  <2> QED
    BY <2>1, <2>2, FS_Subset
<1>5. PICK f : f = [i \in I |-> inbox[i].id]
  OBVIOUS
<1>6. ASSUME NEW i \in I PROVE f[i] \in T
  <2>1. /\ i \in 1..Len(inbox) /\ inbox[i].kind = "raw" /\ inbox[i].n = n
        /\ f[i] = inbox[i].id /\ TQueueOf[clients[f[i]].token] = tq
    BY <1>3, <1>5, <1>1 DEF Messages
  <2>2. f[i] \in DOMAIN clients
    BY <2>1 DEF Counting, Heralded
  <2>3. inbox[i] = Raw(f[i], n)
    BY <2>1, RawInbox
  <2>4. Told(inbox, f[i], n)
    BY <2>1, <2>3 DEF Told
  <2> QED
    BY <1>2, <2>1, <2>2, <2>4 DEF Awaiting
<1>7. ASSUME NEW i \in I, NEW j \in I, f[i] = f[j] PROVE i = j
  <2>1. /\ i \in 1..Len(inbox) /\ inbox[i].kind = "raw" /\ inbox[i].n = n
        /\ j \in 1..Len(inbox) /\ inbox[j].kind = "raw" /\ inbox[j].n = n
        /\ inbox[i].id = inbox[j].id
    BY <1>3, <1>5, <1>7, <1>1 DEF Messages
  <2>2. ~(i < j)
    <3> SUFFICES ASSUME i < j PROVE FALSE
      OBVIOUS
    <3>1. i \in 1..j-1
      BY <2>1
    <3>2. inbox[i].n = 1 /\ inbox[j].n = -1
      BY <2>1, <3>1 DEF Counting, Heralded
    <3> QED
      BY <2>1, <3>2
  <2>3. ~(j < i)
    <3> SUFFICES ASSUME j < i PROVE FALSE
      OBVIOUS
    <3>1. j \in 1..i-1
      BY <2>1
    <3>2. inbox[j].n = 1 /\ inbox[i].n = -1
      BY <2>1, <3>1 DEF Counting, Heralded
    <3> QED
      BY <2>1, <3>2
  <2> QED
    BY <2>1, <2>2, <2>3
<1>8. ASSUME NEW id \in T PROVE \E i \in I : f[i] = id
  <2>1. PICK i \in 1..Len(inbox) : inbox[i] = Raw(id, n)
    BY <1>8, <1>2 DEF Told, Awaiting
  <2>2. inbox[i].kind = "raw" /\ inbox[i].n = n /\ inbox[i].id = id
    BY <2>1, RawFields
  <2>3. i \in I
    BY <1>3, <1>8, <1>1, <1>2, <2>2 DEF Messages, Awaiting
  <2> QED
    BY <1>5, <2>2, <2>3
<1>9. f \in Bijection(I, T)
  <2>1. f \in [I -> T]
    BY <1>5, <1>6
  <2>2. f \in Injection(I, T)
    BY <1>7, <2>1 DEF Injection, IsInjective
  <2>3. f \in Surjection(I, T)
    BY <1>8, <2>1 DEF Surjection
  <2> QED
    BY <2>2, <2>3 DEF Bijection
<1> QED
  BY <1>4, <1>9, <1>1, <1>2, FS_Bijection DEF ExistsBijection

LEMMA CountsAreExact ==
  ASSUME Tame, Accounted, Counting
  PROVE  ActiveCountsExact
<1> SUFFICES ASSUME NEW tq \in TQueue
             PROVE  LET of(id) == TQueueOf[clients[id].token] = tq
                        told(n) == Cardinality({i \in DOMAIN inbox :
                                     inbox[i].kind = "raw" /\ inbox[i].n = n /\ of(inbox[i].id)})
                    IN  /\ active[tq] + told(1) - told(-1)
                             = Cardinality({id \in DOMAIN clients :
                                 of(id) /\ clients[id].was_authorized /\ ~Leaving(clients[id])})
                        /\ active[tq] >= 0
                        /\ databases # "open" => active[tq] = 0
  BY DEF ActiveCountsExact
<1>1. PICK U : U = Awaiting(tq, 1)
  OBVIOUS
<1>2. PICK D : D = Awaiting(tq, -1)
  OBVIOUS
<1>3. PICK A : A = {id \in DOMAIN clients : TQueueOf[clients[id].token] = tq
                                            /\ clients[id].was_authorized /\ ~Leaving(clients[id])}
  OBVIOUS
<1>4. PICK C : C = Members(inbox, clients, tq)
  OBVIOUS
<1>5. Cardinality(Messages(tq, 1)) = Cardinality(U) /\ IsFiniteSet(U)
  BY <1>1, MessagesCountClients
<1>6. Cardinality(Messages(tq, -1)) = Cardinality(D) /\ IsFiniteSet(D)
  BY <1>2, MessagesCountClients
<1>7. IsFiniteSet(C) /\ active[tq] = Cardinality(C)
  BY <1>4, MembersFinite DEF Counting
<1>8. IsFiniteSet(A)
  <2>1. A \subseteq 1..last_id /\ last_id \in Nat
    BY <1>3 DEF Tame, Typed
  <2>2. IsFiniteSet(1..last_id)
    BY <2>1, FS_Interval
  <2> QED
    BY <2>1, <2>2, FS_Subset
<1>9. ASSUME NEW id \in DOMAIN clients
       PROVE  /\ Told(inbox, id, 1) => clients[id].was_authorized
              /\ Told(inbox, id, -1) => clients[id].was_authorized /\ Leaving(clients[id])
              /\ Leaving(clients[id]) /\ Told(inbox, id, 1) => Told(inbox, id, -1)
  <2>1. ASSUME NEW n \in {1, -1}, Told(inbox, id, n)
        PROVE  clients[id].was_authorized /\ (n = -1 => Leaving(clients[id]))
    <3>1. PICK i \in 1..Len(inbox) : inbox[i] = Raw(id, n)
      BY <2>1 DEF Told
    <3>2. inbox[i].kind = "raw" /\ inbox[i].n = n /\ inbox[i].id = id
      BY <3>1, RawFields
    <3> QED
      BY <3>2 DEF Counting, Heralded
  <2>2. Leaving(clients[id]) /\ Told(inbox, id, 1) => Told(inbox, id, -1)
    BY DEF Counting
  <2> QED
    BY <2>1, <2>2
<1>10. C \cup U = A \cup D
  BY <1>1, <1>2, <1>3, <1>4, <1>9 DEF Members, Counted, Awaiting
<1>11. C \cap U = {} /\ A \cap D = {}
  BY <1>1, <1>2, <1>3, <1>4, <1>9 DEF Members, Counted, Awaiting
<1>12. Cardinality(C) + Cardinality(U) = Cardinality(A) + Cardinality(D)
  <2>1. Cardinality({}) = 0
    BY FS_EmptySet
  <2>2. Cardinality(C \cup U) = Cardinality(C) + Cardinality(U) - Cardinality(C \cap U)
    BY <1>5, <1>7, FS_Union
  <2>3. Cardinality(A \cup D) = Cardinality(A) + Cardinality(D) - Cardinality(A \cap D)
    BY <1>6, <1>8, FS_Union
  <2>4. /\ Cardinality(A) \in Nat /\ Cardinality(C) \in Nat
        /\ Cardinality(D) \in Nat /\ Cardinality(U) \in Nat
    BY <1>5, <1>6, <1>7, <1>8, FS_CardinalityType
  <2>5. Cardinality(C \cap U) = 0 /\ Cardinality(A \cap D) = 0
    BY <1>11, <2>1
  <2>6. Cardinality(C \cup U) = Cardinality(C) + Cardinality(U)
    BY <2>2, <2>4, <2>5
  <2>7. Cardinality(A \cup D) = Cardinality(A) + Cardinality(D)
    BY <2>3, <2>4, <2>5
  <2> QED
    BY <1>10, <2>6, <2>7
<1>13. /\ Cardinality(A) \in Nat /\ Cardinality(C) \in Nat
       /\ Cardinality(D) \in Nat /\ Cardinality(U) \in Nat
  BY <1>5, <1>6, <1>7, <1>8, FS_CardinalityType
<1>14. databases # "open" => Cardinality(C) = 0
  <2>1. databases # "open" => DOMAIN clients = {}
    BY DEF Accounted
  <2>2. databases # "open" => C = {}
    BY <1>4, <2>1 DEF Members
  <2> QED
    BY <2>2, FS_EmptySet
<1>15. /\ active[tq] + Cardinality(Messages(tq, 1)) - Cardinality(Messages(tq, -1)) = Cardinality(A)
       /\ active[tq] >= 0
  BY <1>5, <1>6, <1>7, <1>12, <1>13
<1>16. databases # "open" => active[tq] = 0
  BY <1>7, <1>14
<1> QED
  BY <1>3, <1>15, <1>16 DEF Messages

\* active_client_count_ and what is on its way to it make up the authorized clients of a bot
\* (raw_event of ClientManager, on_update_authorization_state of Client).
THEOREM ActiveCountsAreExact == Spec => []ActiveCountsExact
<1>1. Init => Accounted /\ Counting
  BY InitAccounted, InitCounting
<1>2. Tame /\ Accounted /\ Counting /\ [Next]_vars => Accounted' /\ Counting'
  BY NextAccounted, NextCounting
<1>3. Tame /\ Accounted /\ Counting => ActiveCountsExact
  BY CountsAreExact
<1> QED
  BY <1>1, <1>2, <1>3, TameHolds, PTL DEF Spec

=============================================================================
