------------------------- MODULE ClientWebhookProofs -------------------------
(***************************************************************************)
(* What holds of ClientWebhook for any queries, URLs and settings, and any *)
(* number of restarts.                                                     *)
(*                                                                         *)
(* The handlers of setWebhook pass a bundle of members on to one another,  *)
(* so the invariant is a predicate of bundles, SetterInv, and each method  *)
(* is shown to keep it.  Between two methods a query is in nobody's hands: *)
(* it is one of those in W, which are accounted for by whoever called.     *)
(***************************************************************************)
EXTENDS ClientWebhook, FiniteSetTheorems, TLAPS

(***************************************************************************)
(* The state that the handlers compute on.                                 *)
(***************************************************************************)
AnyUrl == Url \cup {NoUrl}
AnySettings == Settings \cup {NoSettings}
Maybe == AnyQuery \cup {NoQuery}

Answers == {"new", "waiting", "ok", "bad", "retry", "conflict", "closing"}

Members ==
  [url : AnyUrl, cert : BOOLEAN, settings : AnySettings, id : Nat, generation : Nat \ {0},
   verify : BOOLEAN, set_query : Maybe, active_query : Maybe, long_poll : Maybe]

BundleType ==
  [wh : Members, db : Entry \cup {NoEntry}, answer : [AnyQuery -> Answers],
   actors : SUBSET Nat, dying : SUBSET Nat, jobs : SUBSET {"copy", "unlink", "remove"}]

Mails == SUBSET ({"verified", "closed"} \X Nat)

\* The queries that the members of the Client hold.
InHand(w) == {w.set_query, w.active_query, w.long_poll} \ {NoQuery}

\* The queries that wait are in hand or among those in W, which are somewhere else.
HeldInv(b, W) ==
  /\ W \subseteq AnyQuery
  /\ W \cap InHand(b.wh) = {}
  /\ \A q \in AnyQuery : b.answer[q] = "waiting" <=> q \in W \cup InHand(b.wh)

\* SettersApart.  A Client that is closing may keep the mark of a certificate.
ApartInv(w) ==
  /\ w.active_query # NoQuery => w.url = NoUrl /\ w.set_query = NoQuery
  /\ w.set_query # NoQuery => w.url # NoUrl
  /\ ~ClosingNow /\ w.cert => w.url # NoUrl
  /\ w.long_poll # NoQuery =>
       w.url = NoUrl /\ w.set_query = NoQuery /\ w.active_query = NoQuery

\* An actor, its report that it closed, or the removal of its certificate: at most one of
\* them exists, and only while there is a URL.
SuccessionInv(b, M) ==
  /\ b.actors # {} \/ (\E m \in M : m[1] = "closed") \/ "unlink" \in b.jobs => b.wh.url # NoUrl
  /\ \A g, h \in b.actors : g = h
  /\ \A m, n \in M : m[1] = "closed" /\ n[1] = "closed" => m = n
  /\ b.actors # {} => ~(\E m \in M : m[1] = "closed") /\ "unlink" \notin b.jobs
  /\ (\E m \in M : m[1] = "closed") => "unlink" \notin b.jobs

\* OneActor, and who reports: nobody that is younger than the generation; and while a query
\* waits for the old actor to close, only older ones.
ActorInv(b, M) ==
  /\ b.actors \ b.dying \subseteq {b.wh.id}
  /\ b.wh.id # 0 => b.wh.url # NoUrl /\ b.wh.id = b.wh.generation
  /\ \A g \in b.actors \cup {m[2] : m \in M} :
       /\ 0 < g /\ g <= b.wh.generation
       /\ b.wh.set_query # NoQuery /\ ~b.wh.verify => g < b.wh.generation

\* What the members say of the query they hold.
QueryInv(w) ==
  /\ w.set_query # NoQuery /\ w.verify =>
       w.url = args[w.set_query].url /\ w.settings = args[w.set_query].settings
  /\ w.active_query # NoQuery => args[w.active_query].url # NoUrl
  /\ w.long_poll # NoQuery => args[w.long_poll].kind = "getupdates"

\* DatabaseFollows
SavedInv(b) ==
  cl.td /\ b.wh.url # NoUrl /\ b.wh.set_query = NoQuery =>
    b.db = [url |-> b.wh.url, cert |-> b.wh.cert, settings |-> b.wh.settings]

SetterInv(b, W, M) ==
  /\ b \in BundleType
  /\ HeldInv(b, W)
  /\ ApartInv(b.wh)
  /\ SuccessionInv(b, M)
  /\ ActorInv(b, M)
  /\ QueryInv(b.wh)
  /\ SavedInv(b)
-----------------------------------------------------------------------------
(* The invariant.                                                          *)

Queued == {queue[i] : i \in DOMAIN queue}

TypeInv ==
  /\ cl \in [up : BOOLEAN, authorized : BOOLEAN, logging_out : BOOLEAN, closing : BOOLEAN,
             need_close : BOOLEAN, td : BOOLEAN, td_queries : SUBSET AnyQuery, timer : BOOLEAN]
  /\ queue \in Seq(AnyQuery)
  /\ args \in [AnyQuery -> Request]
  /\ mail \in Mails

\* The queries in cmd_queue_ and those that wait for TDLib
QueueInv ==
  /\ \A i, j \in DOMAIN queue : queue[i] = queue[j] => i = j
  /\ Queued \cap cl.td_queries = {}
  /\ \A q \in cl.td_queries : args[q].kind \in {"close", "logout"}

LifeInv ==
  /\ ~cl.up => /\ cl = NoClient /\ wh = NoWebhook /\ queue = <<>>
               /\ actors = {} /\ dying = {} /\ mail = {} /\ jobs = {}
  /\ cl.up /\ ~ClosingNow => cl.td

Setters == SetterInv(Bundle, Queued \cup cl.td_queries, mail)

IInv ==
  /\ TypeInv
  /\ QueueInv
  /\ LifeInv
  /\ Setters
-----------------------------------------------------------------------------
(* Methods.                                                                *)

LEMMA Apart == NoQuery \notin AnyQuery /\ NoUrl \notin Url /\ NoEntry \notin Entry
  BY RequestsAssumption DEF AnyQuery

\* What Answer does, and that it leaves everything else alone.
LEMMA AnswerIs ==
  ASSUME NEW b \in BundleType, NEW q \in Maybe, NEW a \in Answers
  PROVE  /\ Answer(b, q, a) \in BundleType
         /\ Answer(b, q, a).wh = b.wh /\ Answer(b, q, a).db = b.db
         /\ Answer(b, q, a).actors = b.actors /\ Answer(b, q, a).dying = b.dying
         /\ Answer(b, q, a).jobs = b.jobs
         /\ \A p \in AnyQuery : Answer(b, q, a).answer[p] = IF p = q THEN a ELSE b.answer[p]
  BY Apart DEF Answer, BundleType, Maybe

\* A query that waited somewhere else is answered.
LEMMA AnswerKeepsInv ==
  ASSUME NEW b, NEW W, NEW M, NEW q \in AnyQuery, NEW a \in Answers \ {"waiting"},
         q \notin W, SetterInv(b, W \cup {q}, M)
  PROVE  SetterInv(Answer(b, q, a), W, M)
  <1> DEFINE c == Answer(b, q, a)
  <1>1. b \in BundleType
    BY DEF SetterInv
  <1>2. /\ c \in BundleType
        /\ c.wh = b.wh /\ c.db = b.db /\ c.actors = b.actors /\ c.jobs = b.jobs
        /\ c.dying = b.dying
        /\ \A p \in AnyQuery : c.answer[p] = IF p = q THEN a ELSE b.answer[p]
    BY <1>1, AnswerIs DEF Maybe
  <1> HIDE DEF c
  <1>3. HeldInv(c, W)
    BY <1>2 DEF SetterInv, HeldInv
  <1> QED
    BY <1>2, <1>3 DEF SetterInv, SuccessionInv, ActorInv, SavedInv, c

\* The same for the query of the long poll.
LEMMA AbortKeepsInv ==
  ASSUME NEW b, NEW W, NEW M, NEW a \in Answers \ {"waiting"}, SetterInv(b, W, M)
  PROVE  LET c == [Answer(b, b.wh.long_poll, a) EXCEPT !.wh.long_poll = NoQuery]
         IN  /\ SetterInv(c, W, M)
             /\ c.wh = [b.wh EXCEPT !.long_poll = NoQuery]
             /\ c.db = b.db /\ c.actors = b.actors /\ c.jobs = b.jobs
  <1> DEFINE d == Answer(b, b.wh.long_poll, a)
             c == [d EXCEPT !.wh.long_poll = NoQuery]
  <1>1. b \in BundleType /\ b.wh \in Members
    BY DEF SetterInv, BundleType
  <1>2. b.wh.long_poll \in Maybe
    BY <1>1 DEF Members
  <1>3. /\ d \in BundleType
        /\ d.wh = b.wh /\ d.db = b.db /\ d.actors = b.actors /\ d.jobs = b.jobs
        /\ d.dying = b.dying
        /\ \A p \in AnyQuery : d.answer[p] = IF p = b.wh.long_poll THEN a ELSE b.answer[p]
    BY <1>1, <1>2, AnswerIs
  <1> HIDE DEF d
  <1>4. /\ c.wh = [b.wh EXCEPT !.long_poll = NoQuery]
        /\ c.db = b.db /\ c.actors = b.actors /\ c.jobs = b.jobs
        /\ c.dying = b.dying /\ c.answer = d.answer
    BY <1>3 DEF BundleType
  <1>5. c \in BundleType
    BY <1>3 DEF BundleType, Members, Maybe
  <1> HIDE DEF c
  <1>6. HeldInv(c, W)
    BY <1>1, <1>3, <1>4, Apart DEF SetterInv, HeldInv, ApartInv, InHand, Members
  <1>7. ApartInv(c.wh) /\ QueryInv(c.wh)
    BY <1>1, <1>4 DEF SetterInv, ApartInv, QueryInv, Members
  <1>8. SuccessionInv(c, M) /\ ActorInv(c, M) /\ SavedInv(c)
    BY <1>1, <1>4 DEF SetterInv, SuccessionInv, ActorInv, SavedInv, Members
  <1>9. SetterInv(c, W, M)
    BY <1>5, <1>6, <1>7, <1>8 DEF SetterInv
  <1> QED
    BY <1>4, <1>9 DEF c, d

\* No actor is left, none has just reported that it closed, and no certificate is removed.
NoneLeft(b, M) == b.actors = {} /\ ~(\E m \in M : m[1] = "closed") /\ "unlink" \notin b.jobs

\* A new actor takes the query.  The mark of the certificate may have been set before.
LEMMA FinishKeepsInv ==
  ASSUME NEW b, NEW W, NEW M, NEW q \in AnyQuery, NEW cert \in BOOLEAN,
         q \notin W, SetterInv(b, W \cup {q}, M), NoneLeft(b, M),
         InHand(b.wh) = {}, b.wh.url = NoUrl, args[q].url \in Url, args[q].settings \in AnySettings
  PROVE  SetterInv(FinishSetWebhook([b EXCEPT !.wh.cert = cert], q), W, M)
  <1> DEFINE d == [b EXCEPT !.wh.cert = cert]
             c == [d EXCEPT !.wh.url       = args[q].url,
                            !.wh.settings  = args[q].settings,
                            !.wh.id        = d.wh.generation,
                            !.wh.verify    = TRUE,
                            !.wh.set_query = q,
                            !.actors       = @ \cup {d.wh.generation}]
  <1>1. b \in BundleType /\ b.wh \in Members
    BY DEF SetterInv, BundleType
  <1>2. /\ d \in BundleType /\ d.wh = [b.wh EXCEPT !.cert = cert] /\ d.db = b.db
        /\ d.actors = b.actors /\ d.dying = b.dying /\ d.jobs = b.jobs /\ d.answer = b.answer
    BY <1>1 DEF BundleType, Members
  <1>3. b.wh.set_query = NoQuery /\ b.wh.active_query = NoQuery /\ b.wh.long_poll = NoQuery
    BY DEF InHand
  <1> HIDE DEF d
  <1>4. CASE ClosingNow
    <2>1. SetterInv(d, W \cup {q}, M)
      BY <1>1, <1>2, <1>3, <1>4
      DEF SetterInv, HeldInv, ApartInv, SuccessionInv, ActorInv, QueryInv, SavedInv, InHand, Members
    <2> QED
      BY <1>4, <2>1, AnswerKeepsInv DEF FinishSetWebhook, Answers, d
  <1>5. CASE ~ClosingNow
    <2> DEFINE w == [d.wh EXCEPT !.url       = args[q].url,
                                 !.settings  = args[q].settings,
                                 !.id        = d.wh.generation,
                                 !.verify    = TRUE,
                                 !.set_query = q]
    <2>1. c = [d EXCEPT !.wh = w, !.actors = d.actors \cup {d.wh.generation}]
      BY <1>2 DEF BundleType
    <2> HIDE DEF c
    <2>2. w \in Members
      BY <1>1, <1>2 DEF Members, Maybe, AnyUrl, AnySettings
    <2>3. /\ w.url = args[q].url /\ w.settings = args[q].settings /\ w.cert = cert
          /\ w.id = b.wh.generation /\ w.generation = b.wh.generation
          /\ w.verify = TRUE /\ w.set_query = q
          /\ w.active_query = NoQuery /\ w.long_poll = NoQuery
      BY <1>1, <1>2, <1>3 DEF Members
    <2> HIDE DEF w
    <2>4. d.wh.generation = b.wh.generation /\ b.wh.generation \in Nat
      BY <1>1, <1>2 DEF Members
    <2>5. /\ c.wh = w
          /\ c.actors = {b.wh.generation} /\ c.dying = b.dying /\ c.jobs = b.jobs
          /\ c.answer = b.answer /\ c.db = b.db
      BY <1>1, <1>2, <2>1, <2>4 DEF BundleType, NoneLeft
    <2>6. c \in BundleType
      BY <1>2, <2>1, <2>2, <2>4 DEF BundleType
    <2>7. HeldInv(c, W)
      BY <1>3, <2>3, <2>5, Apart DEF SetterInv, HeldInv, InHand
    <2>8. ApartInv(c.wh) /\ QueryInv(c.wh)
      BY <2>3, <2>5, Apart DEF ApartInv, QueryInv
    <2>9. SuccessionInv(c, M)
      BY <2>3, <2>5, Apart DEF SuccessionInv, NoneLeft
    <2>10. ActorInv(c, M)
      BY <1>1, <1>3, <2>3, <2>5, Apart DEF SetterInv, ActorInv, Members
    <2>11. SavedInv(c)
      BY <2>3, <2>5, Apart DEF SavedInv
    <2>12. SetterInv(c, W, M)
      BY <2>6, <2>7, <2>8, <2>9, <2>10, <2>11 DEF SetterInv
    <2> QED
      BY <1>5, <2>12 DEF FinishSetWebhook, c, d
  <1> QED
    BY <1>4, <1>5

\* The query is refused, waits for its certificate, or for the new actor.
LEMMA DoSetWebhookKeepsInv ==
  ASSUME args \in [AnyQuery -> Request],
         NEW b, NEW W, NEW M, NEW q \in AnyQuery, q \notin W, SetterInv(b, W \cup {q}, M),
         NoneLeft(b, M), b.wh.url = NoUrl, args[q].url # NoUrl => b.wh.long_poll = NoQuery
  PROVE  SetterInv(DoSetWebhook(b, q), W, M)
  <1> DEFINE r == args[q]
  <1>1. b \in BundleType /\ b.wh \in Members /\ r \in Request
    BY DEF SetterInv, BundleType
  <1>2. b.wh.set_query = NoQuery
    BY DEF SetterInv, ApartInv
  <1>3. \A a \in Answers \ {"waiting"} : SetterInv(Answer(b, q, a), W, M)
    BY AnswerKeepsInv
  <1>4. CASE ClosingNow \/ r.url = NoUrl \/ ~r.valid \/ b.wh.active_query # NoQuery
    BY <1>3, <1>4 DEF DoSetWebhook, Answers
  <1>5. CASE ~(ClosingNow \/ r.url = NoUrl \/ ~r.valid \/ b.wh.active_query # NoQuery)
    <2>1. /\ b.wh.active_query = NoQuery /\ b.wh.long_poll = NoQuery /\ InHand(b.wh) = {}
          /\ r.url \in Url /\ r.settings \in AnySettings /\ r.cert \in {"none", "new", "previous"}
      BY <1>1, <1>2, <1>5 DEF InHand, Request, AnySettings
    <2>2. CASE r.cert = "new"
      <3> DEFINE w == [b.wh EXCEPT !.active_query = q]
                 c == CopyCertificate(b, q)
      <3>1. /\ c.wh = w /\ c.db = b.db /\ c.answer = b.answer
            /\ c.actors = b.actors /\ c.dying = b.dying /\ c.jobs = b.jobs \cup {"copy"}
        BY <1>1 DEF CopyCertificate, BundleType
      <3>2. c \in BundleType
        BY <1>1 DEF CopyCertificate, BundleType, Members, Maybe
      <3>3. /\ w.url = NoUrl /\ w.cert = b.wh.cert /\ w.id = b.wh.id
            /\ w.generation = b.wh.generation /\ w.verify = b.wh.verify
            /\ w.set_query = NoQuery /\ w.active_query = q /\ w.long_poll = NoQuery
        BY <1>1, <1>2, <2>1 DEF Members
      <3> HIDE DEF c, w
      <3>4. HeldInv(c, W)
        BY <1>2, <2>1, <3>1, <3>3, Apart DEF SetterInv, HeldInv, InHand
      <3>5. ApartInv(c.wh) /\ QueryInv(c.wh) /\ SavedInv(c)
        BY <1>2, <1>5, <2>1, <3>1, <3>3, Apart
        DEF SetterInv, ApartInv, QueryInv, SavedInv
      <3>6. SuccessionInv(c, M) /\ ActorInv(c, M)
        BY <1>2, <2>1, <3>1, <3>3 DEF SetterInv, SuccessionInv, ActorInv, NoneLeft
      <3>7. SetterInv(c, W, M)
        BY <3>2, <3>4, <3>5, <3>6 DEF SetterInv
      <3> QED
        BY <1>5, <2>2, <3>7 DEF DoSetWebhook, c
    <2>3. CASE r.cert # "new"
      <3> DEFINE cert == IF r.internal THEN r.cert = "previous" ELSE b.wh.cert
      <3>1. cert \in BOOLEAN
        BY <1>1 DEF Members
      <3>2. (IF r.internal THEN [b EXCEPT !.wh.cert = (r.cert = "previous")] ELSE b)
              = [b EXCEPT !.wh.cert = cert]
        BY <1>1 DEF BundleType, Members
      <3>3. DoSetWebhook(b, q) = FinishSetWebhook([b EXCEPT !.wh.cert = cert], q)
        BY <1>5, <2>3, <3>2 DEF DoSetWebhook
      <3> HIDE DEF cert
      <3> QED
        BY <2>1, <3>1, <3>3, FinishKeepsInv
    <2> QED
      BY <2>2, <2>3
  <1> QED
    BY <1>4, <1>5

\* The old webhook is gone; whoever waited for that is in nobody's hands.
LEMMA ForgetKeepsInv ==
  ASSUME NEW b, NEW W, NEW M, SetterInv(b, W, M), NoneLeft(b, M)
  PROVE  /\ SetterInv(ForgetWebhook(b), W \cup ({b.wh.set_query} \ {NoQuery}), M)
         /\ NoneLeft(ForgetWebhook(b), M)
         /\ ForgetWebhook(b).wh.url = NoUrl
         /\ ForgetWebhook(b).wh.long_poll = b.wh.long_poll
         /\ ForgetWebhook(b).answer = b.answer
         /\ b.wh.set_query # NoQuery => b.wh.set_query \in AnyQuery \ W
  <1> DEFINE c == ForgetWebhook(b)
             w == [b.wh EXCEPT !.id = 0, !.url = NoUrl, !.cert = FALSE,
                               !.settings = NoSettings, !.set_query = NoQuery]
             V == W \cup ({b.wh.set_query} \ {NoQuery})
  <1>1. b \in BundleType /\ b.wh \in Members
    BY DEF SetterInv, BundleType
  <1>2. c = [b EXCEPT !.wh = w, !.db = NoEntry]
    BY <1>1 DEF ForgetWebhook, BundleType
  <1>3. w \in Members
    BY <1>1 DEF Members, Maybe, AnyUrl, AnySettings
  <1>4. /\ w.url = NoUrl /\ w.cert = FALSE /\ w.id = 0 /\ w.set_query = NoQuery
        /\ w.active_query = b.wh.active_query /\ w.long_poll = b.wh.long_poll
        /\ w.generation = b.wh.generation
    BY <1>1 DEF Members
  <1> HIDE DEF c, w
  <1>5. /\ c.wh = w /\ c.actors = b.actors /\ c.dying = b.dying /\ c.jobs = b.jobs
        /\ c.answer = b.answer
    BY <1>1, <1>2 DEF BundleType
  <1>6. c \in BundleType
    BY <1>1, <1>2, <1>3 DEF BundleType
  <1>7. b.wh.set_query \in Maybe /\ (b.wh.set_query # NoQuery => b.wh.set_query \in AnyQuery \ W)
    BY <1>1 DEF SetterInv, HeldInv, InHand, Members, Maybe
  <1>8. HeldInv(c, V)
    BY <1>4, <1>5, <1>7 DEF SetterInv, HeldInv, ApartInv, InHand
  <1>9. ApartInv(c.wh) /\ QueryInv(c.wh) /\ SavedInv(c)
    BY <1>4, <1>5 DEF SetterInv, ApartInv, QueryInv, SavedInv
  <1>10. NoneLeft(c, M)
    BY <1>5 DEF NoneLeft
  <1>11. SuccessionInv(c, M) /\ ActorInv(c, M)
    BY <1>4, <1>5, <1>10 DEF SetterInv, SuccessionInv, ActorInv, NoneLeft
  <1>12. SetterInv(c, V, M)
    BY <1>6, <1>8, <1>9, <1>11 DEF SetterInv
  <1> QED
    BY <1>4, <1>5, <1>7, <1>10, <1>12 DEF c

\* The query that waited for the end of the old webhook goes on.
LEMMA OnWebhookClosedKeepsInv ==
  ASSUME args \in [AnyQuery -> Request],
         NEW b, NEW W, NEW M, SetterInv(b, W, M), NoneLeft(b, M)
  PROVE  SetterInv(OnWebhookClosed(b), W, M)
  <1> DEFINE q == b.wh.set_query
             c == ForgetWebhook(b)
  <1>1. /\ SetterInv(c, W \cup ({q} \ {NoQuery}), M)
        /\ NoneLeft(c, M) /\ c.wh.url = NoUrl /\ c.wh.long_poll = b.wh.long_poll
        /\ q # NoQuery => q \in AnyQuery \ W
    BY ForgetKeepsInv
  <1> HIDE DEF c
  <1>2. CASE q = NoQuery
    <2>1. W \cup ({q} \ {NoQuery}) = W
      BY <1>2
    <2> QED
      BY <1>1, <1>2, <2>1 DEF OnWebhookClosed, c
  <1>3. CASE q # NoQuery
    <2>1. SetterInv(c, W \cup {q}, M)
      <3>1. W \cup ({q} \ {NoQuery}) = W \cup {q}
        BY <1>3
      <3> QED
        BY <1>1, <3>1
    <2>2. CASE b.wh.verify
      <3>1. OnWebhookClosed(b) = Answer(c, q, "bad")
        BY <1>3, <2>2 DEF OnWebhookClosed, c
      <3> QED
        BY <1>1, <1>3, <2>1, <3>1, AnswerKeepsInv DEF Answers
    <2>3. CASE ~b.wh.verify
      <3>1. OnWebhookClosed(b) = DoSetWebhook(c, q)
        BY <1>3, <2>3 DEF OnWebhookClosed, c
      <3>2. c.wh.long_poll = NoQuery
        BY <1>1, <1>3 DEF SetterInv, ApartInv
      <3> QED
        BY <1>1, <1>3, <2>1, <3>1, <3>2, DoSetWebhookKeepsInv
    <2> QED
      BY <2>2, <2>3
  <1> QED
    BY <1>2, <1>3

LEMMA SaveKeepsInv ==
  ASSUME NEW b, NEW W, NEW M, SetterInv(b, W, M)
  PROVE  SetterInv(SaveWebhook(b), W, M)
  <1> DEFINE entry == [url |-> b.wh.url, cert |-> b.wh.cert, settings |-> b.wh.settings]
             c == [b EXCEPT !.db = entry]
  <1>1. b \in BundleType /\ entry \in Entry
    BY DEF SetterInv, BundleType, Members, Entry, AnyUrl, AnySettings
  <1>2. /\ c \in BundleType /\ c.db = entry
        /\ c.wh = b.wh /\ c.answer = b.answer /\ c.actors = b.actors
        /\ c.dying = b.dying /\ c.jobs = b.jobs
    BY <1>1 DEF BundleType
  <1>3. SaveWebhook(b) = c
    BY DEF SaveWebhook
  <1> HIDE DEF c
  <1>4. SavedInv(c)
    BY <1>2 DEF SavedInv
  <1>5. HeldInv(c, W) /\ ApartInv(c.wh) /\ SuccessionInv(c, M) /\ ActorInv(c, M) /\ QueryInv(c.wh)
    BY <1>2 DEF SetterInv, HeldInv, SuccessionInv, ActorInv
  <1> QED
    BY <1>2, <1>3, <1>4, <1>5 DEF SetterInv

\* Without a webhook, the next generation may begin.
LEMMA GenerationKeepsInv ==
  ASSUME NEW b, NEW W, NEW M \in Mails, SetterInv(b, W, M), b.wh.url = NoUrl
  PROVE  LET c == [b EXCEPT !.wh.generation = @ + 1]
         IN  /\ SetterInv(c, W, M)
             /\ c.wh.url = NoUrl /\ c.wh.long_poll = b.wh.long_poll
             /\ c.actors = b.actors /\ c.jobs = b.jobs
  <1> DEFINE w == [b.wh EXCEPT !.generation = @ + 1]
             c == [b EXCEPT !.wh.generation = @ + 1]
  <1>1. b \in BundleType /\ b.wh \in Members /\ b.wh.generation \in Nat \ {0}
    BY DEF SetterInv, BundleType, Members
  <1>2. c = [b EXCEPT !.wh = w]
    BY <1>1 DEF BundleType
  <1>3. w \in Members
    BY <1>1 DEF Members
  <1>4. /\ w.url = b.wh.url /\ w.cert = b.wh.cert /\ w.id = b.wh.id
        /\ w.set_query = b.wh.set_query /\ w.active_query = b.wh.active_query
        /\ w.long_poll = b.wh.long_poll /\ w.generation = b.wh.generation + 1
        /\ w.settings = b.wh.settings /\ w.verify = b.wh.verify
    BY <1>1 DEF Members
  <1> HIDE DEF c, w
  <1>5. /\ c.wh = w /\ c.db = b.db /\ c.answer = b.answer /\ c.actors = b.actors
        /\ c.dying = b.dying /\ c.jobs = b.jobs
    BY <1>1, <1>2 DEF BundleType
  <1>6. c \in BundleType
    BY <1>1, <1>2, <1>3 DEF BundleType
  <1>7. HeldInv(c, W) /\ ApartInv(c.wh) /\ SuccessionInv(c, M)
    BY <1>4, <1>5 DEF SetterInv, HeldInv, ApartInv, SuccessionInv, InHand
  <1>8. QueryInv(c.wh) /\ SavedInv(c)
    BY <1>4, <1>5 DEF SetterInv, QueryInv, SavedInv
  <1>9. ActorInv(c, M)
    <2>1. b.wh.id = 0 /\ b.wh.set_query = NoQuery
      BY DEF SetterInv, ActorInv, ApartInv
    <2>2. \A g \in b.actors \cup {m[2] : m \in M} : 0 < g /\ g <= b.wh.generation
      BY DEF SetterInv, ActorInv
    <2>3. b.actors = {}
      BY DEF SetterInv, SuccessionInv
    <2> QED
      <3>1. ASSUME NEW m \in M
            PROVE  0 < m[2] /\ m[2] <= b.wh.generation + 1
        BY <1>1, <2>2 DEF Mails
      <3> QED
        BY <1>4, <1>5, <2>1, <2>3, <3>1 DEF ActorInv
  <1>10. SetterInv(c, W, M)
    BY <1>6, <1>7, <1>8, <1>9 DEF SetterInv
  <1> QED
    BY <1>4, <1>5, <1>10 DEF c

\* The query becomes the one that waits for the old webhook to close; who waited before is
\* answered.
LEMMA ReplaceKeepsInv ==
  ASSUME NEW b, NEW W, NEW M \in Mails, NEW q \in AnyQuery, q \notin W,
         SetterInv(b, W \cup {q}, M), b.wh.url # NoUrl,
         NEW c \in BundleType,
         c.wh.url = b.wh.url, c.wh.cert = b.wh.cert, c.wh.id = 0,
         c.wh.generation = b.wh.generation + 1, c.wh.verify = FALSE, c.wh.set_query = q,
         c.wh.active_query = b.wh.active_query, c.wh.long_poll = NoQuery,
         c.dying = b.dying \cup ({b.wh.id} \cap b.actors),
         c.actors = b.actors, c.jobs = b.jobs,
         \A p \in AnyQuery :
           c.answer[p] = IF p = b.wh.set_query THEN "conflict" ELSE b.answer[p]
  PROVE  SetterInv(c, W, M)
  <1>1. b \in BundleType /\ b.wh \in Members /\ b.wh.generation \in Nat
    BY DEF SetterInv, BundleType, Members
  <1>2. b.wh.active_query = NoQuery /\ b.wh.long_poll = NoQuery
    BY DEF SetterInv, ApartInv
  <1>3. HeldInv(c, W)
    BY <1>2, Apart DEF SetterInv, HeldInv, InHand
  <1>4. ApartInv(c.wh) /\ QueryInv(c.wh) /\ SavedInv(c)
    BY <1>2, Apart DEF ApartInv, QueryInv, SavedInv
  <1>5. SuccessionInv(c, M)
    BY DEF SetterInv, SuccessionInv
  <1>6. ActorInv(c, M)
    <2>1. c.actors \ c.dying \subseteq {c.wh.id}
      BY DEF SetterInv, ActorInv
    <2>2. ASSUME NEW g \in b.actors \cup {m[2] : m \in M}
          PROVE  0 < g /\ g < b.wh.generation + 1
      <3>1. g \in Nat
        BY <1>1 DEF BundleType, Mails
      <3> QED
        BY <1>1, <3>1 DEF SetterInv, ActorInv
    <2>3. \A g \in b.actors \cup {m[2] : m \in M} : 0 < g /\ g <= b.wh.generation + 1
      <3>1. \A g \in b.actors \cup {m[2] : m \in M} : g \in Nat
        BY <1>1 DEF BundleType, Mails
      <3> QED
        BY <1>1, <2>2, <3>1
    <2> QED
      BY <2>1, <2>2, <2>3 DEF ActorInv
  <1> QED
    BY <1>3, <1>4, <1>5, <1>6 DEF SetterInv

LEMMA ProcessSetWebhookKeepsInv ==
  ASSUME args \in [AnyQuery -> Request],
         NEW b0, NEW W, NEW M \in Mails, NEW q \in AnyQuery, NEW changed \in BOOLEAN,
         q \notin W, SetterInv(b0, W \cup {q}, M)
  PROVE  SetterInv(ProcessSetWebhook(b0, q, changed), W, M)
  <1> DEFINE r == args[q]
             e == Answer(b0, b0.wh.set_query, "conflict")
             b == [e EXCEPT !.wh.set_query = NoQuery]
             c == IF r.url = NoUrl THEN b ELSE AbortLongPoll(b)
             d == [c EXCEPT !.wh.generation = @ + 1]
  <1>1. b0 \in BundleType /\ b0.wh \in Members /\ b0.wh.set_query \in Maybe
    BY DEF SetterInv, BundleType, Members
  <1>2. CASE b0.wh.set_query = NoQuery /\ b0.wh.active_query # NoQuery
    <2>1. ProcessSetWebhook(b0, q, changed) = Answer(b0, q, "retry")
      BY <1>2 DEF ProcessSetWebhook
    <2> QED
      BY <2>1, AnswerKeepsInv DEF Answers
  <1>3. CASE ~(b0.wh.set_query = NoQuery /\ b0.wh.active_query # NoQuery)
             /\ b0.wh.set_query = NoQuery /\ NotModified(b0, r)
    <2>1. ProcessSetWebhook(b0, q, changed) =
            Answer(IF changed THEN SaveWebhook(b0) ELSE b0, q, "ok")
      BY <1>3 DEF ProcessSetWebhook
    <2>2. SetterInv(IF changed THEN SaveWebhook(b0) ELSE b0, W \cup {q}, M)
      BY SaveKeepsInv
    <2> QED
      BY <2>1, <2>2, AnswerKeepsInv DEF Answers
  <1>4. CASE ~(b0.wh.set_query = NoQuery /\ b0.wh.active_query # NoQuery)
             /\ ~(b0.wh.set_query = NoQuery /\ NotModified(b0, r))
    <2>1. ProcessSetWebhook(b0, q, changed) =
            IF d.wh.url # NoUrl THEN ReplaceWebhook(d, q) ELSE DoSetWebhook(d, q)
      BY <1>4 DEF ProcessSetWebhook
    <2>2. /\ e \in BundleType
          /\ e.wh = b0.wh /\ e.db = b0.db /\ e.actors = b0.actors /\ e.jobs = b0.jobs
          /\ e.dying = b0.dying
          /\ \A p \in AnyQuery :
               e.answer[p] = IF p = b0.wh.set_query THEN "conflict" ELSE b0.answer[p]
      <3>1. "conflict" \in Answers
        BY DEF Answers
      <3> QED
        BY <1>1, <3>1, AnswerIs
    <2>3. b0.wh.set_query = NoQuery => e = b0
      BY DEF Answer
    <2> HIDE DEF e
    <2>4. /\ b \in BundleType /\ b.wh = [b0.wh EXCEPT !.set_query = NoQuery]
          /\ b.db = b0.db /\ b.actors = b0.actors /\ b.jobs = b0.jobs
          /\ b.dying = b0.dying /\ b.answer = e.answer
      BY <1>1, <2>2 DEF BundleType, Members, Maybe
    <2>5. b0.wh.set_query = NoQuery => b = b0
      BY <1>1, <2>3 DEF BundleType, Members
    <2> HIDE DEF b
    <2>6. CASE b0.wh.url = NoUrl
      <3>1. b = b0 /\ b0.wh.set_query = NoQuery
        BY <2>5, <2>6 DEF SetterInv, ApartInv
      <3>2. /\ SetterInv(c, W \cup {q}, M)
            /\ c.wh.url = NoUrl /\ (r.url # NoUrl => c.wh.long_poll = NoQuery)
            /\ c.actors = b0.actors /\ c.jobs = b0.jobs
        <4>1. CASE r.url = NoUrl
          BY <2>6, <3>1, <4>1
        <4>2. CASE r.url # NoUrl
          <5>1. /\ SetterInv(AbortLongPoll(b0), W \cup {q}, M)
                /\ AbortLongPoll(b0).wh = [b0.wh EXCEPT !.long_poll = NoQuery]
                /\ AbortLongPoll(b0).actors = b0.actors
                /\ AbortLongPoll(b0).jobs = b0.jobs
            BY AbortKeepsInv DEF AbortLongPoll, Answers
          <5>2. AbortLongPoll(b0).wh.url = NoUrl /\ AbortLongPoll(b0).wh.long_poll = NoQuery
            BY <1>1, <2>6, <5>1 DEF Members
          <5> QED
            BY <3>1, <4>2, <5>1, <5>2
        <4> QED
          BY <4>1, <4>2
      <3> HIDE DEF c
      <3>3. /\ SetterInv(d, W \cup {q}, M)
            /\ d.wh.url = NoUrl /\ d.wh.long_poll = c.wh.long_poll
            /\ d.actors = c.actors /\ d.jobs = c.jobs
        BY <3>2, GenerationKeepsInv
      <3> HIDE DEF d
      <3>4. NoneLeft(d, M)
        BY <2>6, <3>2, <3>3 DEF SetterInv, SuccessionInv, NoneLeft
      <3>5. SetterInv(DoSetWebhook(d, q), W, M)
        BY <3>2, <3>3, <3>4, DoSetWebhookKeepsInv
      <3> QED
        BY <2>1, <3>3, <3>5
    <2>7. CASE b0.wh.url # NoUrl
      <3>1. b0.wh.long_poll = NoQuery /\ b.wh.long_poll = NoQuery /\ b.wh.url = b0.wh.url
        BY <1>1, <2>4, <2>7 DEF SetterInv, ApartInv, Members
      <3>2. c = b
        BY <2>4, <3>1 DEF AbortLongPoll, Answer, BundleType, Members
      <3>3. d = [b EXCEPT !.wh.generation = @ + 1]
        BY <3>2
      <3> HIDE DEF d
      <3>4. /\ d.wh = [b.wh EXCEPT !.generation = @ + 1]
            /\ d.db = b.db /\ d.actors = b.actors /\ d.jobs = b.jobs
            /\ d.dying = b.dying /\ d.answer = b.answer
        BY <2>4, <3>3 DEF BundleType
      <3>5. d \in BundleType
        <4>1. d.wh \in Members
          <5>1. b.wh \in Members /\ b.wh.generation \in Nat \ {0}
            BY <2>4 DEF BundleType, Members
          <5>2. b.wh.generation + 1 \in Nat \ {0}
            BY <5>1
          <5> QED
            BY <3>4, <5>1, <5>2 DEF Members
        <4>2. d = [b EXCEPT !.wh = d.wh]
          BY <2>4, <3>3 DEF BundleType
        <4> QED
          BY <2>4, <4>1, <4>2 DEF BundleType
      <3> DEFINE f == ReplaceWebhook(d, q)
      <3>6. f \in BundleType
        BY <3>5 DEF ReplaceWebhook, BundleType, Members, Maybe
      <3>7. /\ f.wh = [d.wh EXCEPT !.id = 0, !.verify = FALSE, !.set_query = q]
            /\ f.dying = d.dying \cup ({d.wh.id} \cap d.actors)
            /\ f.actors = d.actors /\ f.jobs = d.jobs /\ f.answer = d.answer
        BY <3>5 DEF ReplaceWebhook, BundleType, Members
      <3> HIDE DEF f
      <3>8. d.wh.url # NoUrl /\ d.wh.id = b0.wh.id
        BY <1>1, <2>4, <2>7, <3>4 DEF Members
      <3>9. /\ f.wh.url = b0.wh.url /\ f.wh.cert = b0.wh.cert /\ f.wh.id = 0
            /\ f.wh.generation = b0.wh.generation + 1 /\ f.wh.verify = FALSE
            /\ f.wh.set_query = q /\ f.wh.active_query = b0.wh.active_query
            /\ f.wh.long_poll = NoQuery
        BY <1>1, <2>4, <3>1, <3>4, <3>7 DEF Members
      <3>10. SetterInv(f, W, M)
        <4>1. /\ f.dying = b0.dying \cup ({b0.wh.id} \cap b0.actors)
              /\ f.actors = b0.actors /\ f.jobs = b0.jobs
          BY <2>4, <3>4, <3>7, <3>8
        <4>2. \A p \in AnyQuery :
                f.answer[p] = IF p = b0.wh.set_query THEN "conflict" ELSE b0.answer[p]
          BY <2>2, <2>4, <3>4, <3>7
        <4> QED
          BY <2>7, <3>6, <3>9, <4>1, <4>2, ReplaceKeepsInv
      <3> QED
        BY <2>1, <3>8, <3>10 DEF f
    <2> QED
      BY <2>6, <2>7
  <1> QED
    BY <1>2, <1>3, <1>4

LEMMA ProcessGetUpdatesKeepsInv ==
  ASSUME NEW b, NEW W, NEW M, NEW q \in AnyQuery, NEW found \in BOOLEAN,
         q \notin W, SetterInv(b, W \cup {q}, M), args[q].kind = "getupdates"
  PROVE  SetterInv(ProcessGetUpdates(b, q, found), W, M)
  <1>1. \A a \in Answers \ {"waiting"} : SetterInv(Answer(b, q, a), W, M)
    BY AnswerKeepsInv
  <1>2. CASE b.wh.url # NoUrl \/ b.wh.set_query # NoQuery \/ b.wh.active_query # NoQuery
    BY <1>1, <1>2 DEF ProcessGetUpdates, Answers
  <1>3. CASE ~(b.wh.url # NoUrl \/ b.wh.set_query # NoQuery \/ b.wh.active_query # NoQuery)
    <2>1. CASE args[q].wait /\ ~found
      <3> DEFINE c == AbortLongPoll(b)
                 d == [c EXCEPT !.wh.long_poll = q]
      <3>1. /\ SetterInv(c, W \cup {q}, M)
            /\ c.wh = [b.wh EXCEPT !.long_poll = NoQuery]
        BY AbortKeepsInv DEF AbortLongPoll, Answers
      <3>2. b.wh \in Members /\ c \in BundleType
        BY <3>1 DEF SetterInv, BundleType
      <3> HIDE DEF c
      <3>3. /\ c.wh.url = NoUrl /\ c.wh.set_query = NoQuery
            /\ c.wh.active_query = NoQuery /\ c.wh.long_poll = NoQuery
        BY <1>3, <3>1, <3>2 DEF Members
      <3>4. /\ d \in BundleType
            /\ d.wh = [c.wh EXCEPT !.long_poll = q]
            /\ d.db = c.db /\ d.answer = c.answer /\ d.actors = c.actors
            /\ d.dying = c.dying /\ d.jobs = c.jobs
        BY <3>2 DEF BundleType, Members, Maybe
      <3> HIDE DEF d
      <3>5. /\ d.wh.url = NoUrl /\ d.wh.set_query = NoQuery /\ d.wh.active_query = NoQuery
            /\ d.wh.long_poll = q /\ d.wh.cert = c.wh.cert /\ d.wh.id = c.wh.id
            /\ d.wh.generation = c.wh.generation /\ d.wh.verify = c.wh.verify
        BY <3>2, <3>3, <3>4 DEF BundleType, Members
      <3>6. HeldInv(d, W)
        BY <3>1, <3>3, <3>4, <3>5, Apart DEF SetterInv, HeldInv, InHand
      <3>7. ApartInv(d.wh) /\ QueryInv(d.wh) /\ SavedInv(d)
        BY <3>1, <3>3, <3>5 DEF SetterInv, ApartInv, QueryInv, SavedInv
      <3>8. SuccessionInv(d, M) /\ ActorInv(d, M)
        BY <3>1, <3>3, <3>4, <3>5 DEF SetterInv, SuccessionInv, ActorInv
      <3>9. SetterInv(d, W, M)
        BY <3>4, <3>6, <3>7, <3>8 DEF SetterInv
      <3> QED
        BY <1>3, <2>1, <3>9 DEF ProcessGetUpdates, DoGetUpdates, d, c
    <2>2. CASE ~(args[q].wait /\ ~found)
      BY <1>1, <1>3, <2>2 DEF ProcessGetUpdates, DoGetUpdates, Answers
    <2> QED
      BY <2>1, <2>2
  <1> QED
    BY <1>2, <1>3

\* The webhook has reported that it works.
LEMMA VerifiedKeepsInv ==
  ASSUME NEW b, NEW W, NEW M, NEW g \in Nat, NEW ip_changed \in BOOLEAN,
         SetterInv(b, W, M), <<"verified", g>> \in M
  PROVE  LET c == [Answer(b, b.wh.set_query, "ok") EXCEPT !.wh.set_query = NoQuery]
         IN  SetterInv(IF g # b.wh.generation THEN b
                       ELSE IF b.wh.set_query # NoQuery \/ ip_changed THEN SaveWebhook(c)
                       ELSE c, W, M)
  <1> DEFINE e == Answer(b, b.wh.set_query, "ok")
             c == [e EXCEPT !.wh.set_query = NoQuery]
             s == SaveWebhook(c)
             entry == [url |-> c.wh.url, cert |-> c.wh.cert, settings |-> c.wh.settings]
  <1>1. b \in BundleType /\ b.wh \in Members /\ b.wh.set_query \in Maybe /\ "ok" \in Answers
    BY DEF SetterInv, BundleType, Members, Answers
  <1>2. /\ e \in BundleType
        /\ e.wh = b.wh /\ e.db = b.db /\ e.actors = b.actors /\ e.jobs = b.jobs
        /\ e.dying = b.dying
        /\ \A p \in AnyQuery : e.answer[p] = IF p = b.wh.set_query THEN "ok" ELSE b.answer[p]
    BY <1>1, AnswerIs
  <1>3. b.wh.set_query = NoQuery => e = b
    BY DEF Answer
  <1> HIDE DEF e
  <1>4. /\ c \in BundleType
        /\ c.wh = [b.wh EXCEPT !.set_query = NoQuery]
        /\ c.db = b.db /\ c.actors = b.actors /\ c.jobs = b.jobs
        /\ c.dying = b.dying /\ c.answer = e.answer
    BY <1>2 DEF BundleType, Members, Maybe
  <1>5. b.wh.set_query = NoQuery => c = b
    BY <1>1, <1>3 DEF BundleType, Members
  <1> HIDE DEF c
  <1>6. CASE b.wh.set_query = NoQuery
    BY <1>5, <1>6, SaveKeepsInv DEF c, e
  <1>7. CASE b.wh.set_query # NoQuery
    <2>1. entry \in Entry
      BY <1>4 DEF BundleType, Members, Entry, AnyUrl, AnySettings
    <2>2. /\ s \in BundleType /\ s.db = entry
          /\ s.wh = c.wh /\ s.answer = c.answer /\ s.actors = c.actors
          /\ s.dying = c.dying /\ s.jobs = c.jobs
      BY <1>4, <2>1 DEF SaveWebhook, BundleType
    <2> HIDE DEF s
    <2>3. /\ s.wh.url = b.wh.url /\ s.wh.cert = b.wh.cert /\ s.wh.id = b.wh.id
          /\ s.wh.generation = b.wh.generation /\ s.wh.set_query = NoQuery
          /\ s.wh.active_query = b.wh.active_query /\ s.wh.long_poll = b.wh.long_poll
      BY <1>1, <1>4, <2>2 DEF Members
    <2>4. HeldInv(s, W)
      BY <1>1, <1>2, <1>4, <1>7, <2>2, <2>3, Apart DEF SetterInv, HeldInv, ApartInv, InHand
    <2>5. ApartInv(s.wh) /\ QueryInv(s.wh)
      BY <2>3 DEF SetterInv, ApartInv, QueryInv
    <2>6. SuccessionInv(s, M) /\ ActorInv(s, M)
      BY <1>4, <2>2, <2>3 DEF SetterInv, SuccessionInv, ActorInv
    <2>7. SavedInv(s)
      BY <2>2 DEF SavedInv
    <2>8. SetterInv(s, W, M)
      BY <2>2, <2>4, <2>5, <2>6, <2>7 DEF SetterInv
    <2> QED
      BY <1>7, <2>8 DEF s, c, e
  <1> QED
    BY <1>6, <1>7 DEF c, e

\* Reports that are read are gone.
LEMMA FewerMailsKeepInv ==
  ASSUME NEW b, NEW W, NEW M, NEW N \in SUBSET M, SetterInv(b, W, M)
  PROVE  SetterInv(b, W, N)
  BY DEF SetterInv, SuccessionInv, ActorInv

\* So are the copying and the removal of a directory.
LEMMA FewerJobsKeepInv ==
  ASSUME NEW b, NEW W, NEW M, NEW j \in {"copy", "unlink", "remove"}, SetterInv(b, W, M)
  PROVE  LET c == [b EXCEPT !.jobs = @ \ {j}]
         IN  /\ SetterInv(c, W, M)
             /\ c.wh = b.wh /\ c.actors = b.actors /\ c.jobs = b.jobs \ {j}
  <1> DEFINE c == [b EXCEPT !.jobs = @ \ {j}]
  <1>1. b \in BundleType
    BY DEF SetterInv
  <1>2. /\ c \in BundleType
        /\ c.wh = b.wh /\ c.db = b.db /\ c.answer = b.answer /\ c.actors = b.actors
        /\ c.dying = b.dying /\ c.jobs = b.jobs \ {j}
    BY <1>1 DEF BundleType
  <1> HIDE DEF c
  <1>3. HeldInv(c, W) /\ SuccessionInv(c, M) /\ ActorInv(c, M) /\ SavedInv(c)
    BY <1>2 DEF SetterInv, HeldInv, SuccessionInv, ActorInv, SavedInv
  <1> QED
    BY <1>2, <1>3 DEF SetterInv, c
-----------------------------------------------------------------------------
(* Steps.                                                                  *)

\* What a bundle has becomes true of the members, if args and cl are as before as far as it
\* matters.
LEMMA BecomeKeepsInv ==
  ASSUME NEW b, Become(b), SetterInv(b, (Queued \cup cl.td_queries)', mail'),
         ClosingNow => ClosingNow', cl'.td => cl.td,
         \A p \in InHand(b.wh) : args'[p] = args[p]
  PROVE  Setters'
  <1> DEFINE W == (Queued \cup cl.td_queries)'
  <1>1. b \in BundleType /\ Bundle' = b
    BY DEF SetterInv, Become, Bundle, BundleType
  <1> HIDE DEF W
  <1>2. HeldInv(b, W) /\ SuccessionInv(b, mail') /\ ActorInv(b, mail')
    BY DEF SetterInv, W
  <1>3. (ApartInv(b.wh))' /\ (SavedInv(b))'
    BY DEF SetterInv, ApartInv, SavedInv
  <1>4. (QueryInv(b.wh))'
    BY DEF SetterInv, QueryInv, InHand
  <1> QED
    BY <1>1, <1>2, <1>3, <1>4 DEF Setters, SetterInv, W

\* The Client is new or gone, and has no webhook.
LEMMA ResetKeepsInv ==
  ASSUME wh' = NoWebhook, actors' = {}, dying' = {}, mail' = {}, jobs' = {},
         db' \in Entry \cup {NoEntry}, answer' \in [AnyQuery -> Answers],
         (Queued \cup cl.td_queries)' \subseteq AnyQuery,
         \A q \in AnyQuery : answer'[q] = "waiting" <=> q \in (Queued \cup cl.td_queries)'
  PROVE  Setters'
  <1> DEFINE W == (Queued \cup cl.td_queries)'
  <1>1. /\ Bundle'.wh = NoWebhook /\ Bundle'.db = db' /\ Bundle'.answer = answer'
        /\ Bundle'.actors = {} /\ Bundle'.dying = {} /\ Bundle'.jobs = {}
    BY DEF Bundle
  <1>2. (Bundle \in BundleType)'
    BY DEF Bundle, BundleType, NoWebhook, Members, Maybe, AnyUrl, AnySettings
  <1> HIDE DEF W
  <1>3. HeldInv(Bundle', W)
    BY <1>1 DEF HeldInv, InHand, NoWebhook, W
  <1>4. (ApartInv(Bundle.wh) /\ QueryInv(Bundle.wh) /\ SavedInv(Bundle))'
    BY <1>1 DEF ApartInv, QueryInv, SavedInv, NoWebhook
  <1>5. SuccessionInv(Bundle', mail') /\ ActorInv(Bundle', mail')
    BY <1>1 DEF SuccessionInv, ActorInv, NoWebhook
  <1> QED
    BY <1>2, <1>3, <1>4, <1>5 DEF Setters, SetterInv, W

\* The types of the members, and which queries wait.
LEMMA BundleFacts ==
  ASSUME Setters
  PROVE  /\ wh \in Members /\ db \in Entry \cup {NoEntry} /\ answer \in [AnyQuery -> Answers]
         /\ Bundle \in BundleType /\ Bundle.wh = wh /\ Bundle.answer = answer /\ Bundle.db = db
         /\ Bundle.actors = actors /\ Bundle.dying = dying /\ Bundle.jobs = jobs
         /\ Queued \cup cl.td_queries \subseteq AnyQuery
         /\ \A q \in AnyQuery :
              answer[q] = "waiting" <=> q \in Queued \cup cl.td_queries \cup InHand(wh)
         /\ (Queued \cup cl.td_queries) \cap InHand(wh) = {}
  BY DEF Setters, SetterInv, HeldInv, Bundle, BundleType

\* The first query is taken off cmd_queue_.
LEMMA HeadOfQueue ==
  ASSUME TypeInv, QueueInv, queue # <<>>, queue' = Tail(queue)
  PROVE  /\ Head(queue) \in AnyQuery
         /\ queue' \in Seq(AnyQuery)
         /\ Queued = Queued' \cup {Head(queue)} /\ Head(queue) \notin Queued'
         /\ \A i, j \in DOMAIN queue' : queue'[i] = queue'[j] => i = j
  <1>1. /\ queue \in Seq(AnyQuery) /\ Len(queue) \in Nat \ {0}
        /\ DOMAIN queue = 1..Len(queue) /\ Head(queue) = queue[1]
    BY DEF TypeInv
  <1>2. /\ queue' \in Seq(AnyQuery) /\ DOMAIN queue' = 1..(Len(queue) - 1)
        /\ \A i \in 1..(Len(queue) - 1) : queue'[i] = queue[i + 1]
    BY <1>1
  <1>3. \A i \in 1..Len(queue) : i = 1 \/ (i - 1 \in 1..(Len(queue) - 1) /\ i = (i - 1) + 1)
    BY <1>1
  <1>4. \A i \in 1..(Len(queue) - 1) : i + 1 \in 1..Len(queue) /\ i + 1 # 1
    BY <1>1
  <1>5. Queued = Queued' \cup {Head(queue)}
    <2>1. Queued \subseteq Queued' \cup {Head(queue)}
      <3> SUFFICES ASSUME NEW i \in 1..Len(queue), i # 1
                   PROVE  queue[i] \in Queued'
        BY <1>1 DEF Queued
      <3>1. i - 1 \in 1..(Len(queue) - 1) /\ queue'[i - 1] = queue[i]
        BY <1>2, <1>3
      <3> QED
        BY <1>2, <3>1 DEF Queued
    <2>2. Queued' \subseteq Queued
      BY <1>1, <1>2, <1>4 DEF Queued
    <2> QED
      BY <1>1, <2>1, <2>2 DEF Queued
  <1>6. Head(queue) \notin Queued'
    BY <1>1, <1>2, <1>4 DEF QueueInv, Queued
  <1>7. ASSUME NEW i \in DOMAIN queue', NEW j \in DOMAIN queue', queue'[i] = queue'[j]
        PROVE  i = j
    <2>1. i \in 1..(Len(queue) - 1) /\ j \in 1..(Len(queue) - 1)
      BY <1>2
    <2>2. i + 1 = j + 1
      BY <1>1, <1>2, <1>4, <1>7, <2>1 DEF QueueInv
    <2> QED
      BY <2>1, <2>2
  <1> QED
    BY <1>1, <1>2, <1>5, <1>6, <1>7

\* A query is appended to cmd_queue_.
LEMMA EndOfQueue ==
  ASSUME TypeInv, QueueInv, NEW q \in AnyQuery, q \notin Queued, queue' = Append(queue, q)
  PROVE  /\ queue' \in Seq(AnyQuery)
         /\ Queued' = Queued \cup {q}
         /\ \A i, j \in DOMAIN queue' : queue'[i] = queue'[j] => i = j
  <1>1. /\ queue \in Seq(AnyQuery) /\ Len(queue) \in Nat /\ DOMAIN queue = 1..Len(queue)
    BY DEF TypeInv
  <1>2. /\ queue' \in Seq(AnyQuery) /\ DOMAIN queue' = 1..(Len(queue) + 1)
        /\ \A i \in 1..Len(queue) : queue'[i] = queue[i]
        /\ queue'[Len(queue) + 1] = q
    BY <1>1
  <1>3. \A i \in 1..(Len(queue) + 1) : i \in 1..Len(queue) \/ i = Len(queue) + 1
    BY <1>1
  <1>4. 1..Len(queue) \subseteq 1..(Len(queue) + 1) /\ Len(queue) + 1 \in 1..(Len(queue) + 1)
    BY <1>1
  <1>5. Queued' = Queued \cup {q}
    BY <1>1, <1>2, <1>3, <1>4 DEF Queued
  <1>6. \A i, j \in DOMAIN queue' : queue'[i] = queue'[j] => i = j
    BY <1>1, <1>2, <1>3 DEF Queued, QueueInv
  <1> QED
    BY <1>2, <1>5, <1>6

\* The Client stops: nobody waits any more.
LEMMA DroppedFacts ==
  ASSUME NEW a \in [AnyQuery -> Answers]
  PROVE  LET dropped == [q \in AnyQuery |-> IF a[q] = "waiting" THEN "retry" ELSE a[q]]
         IN  /\ dropped \in [AnyQuery -> Answers]
             /\ \A q \in AnyQuery : dropped[q] # "waiting"
  BY DEF Answers

LEMMA StopKeepsInv ==
  ASSUME IInv, cl' = NoClient, wh' = NoWebhook, queue' = <<>>, actors' = {}, dying' = {},
         mail' = {}, jobs' = {}, args' = args, db' \in Entry \cup {NoEntry},
         answer' \in [AnyQuery -> Answers], \A q \in AnyQuery : answer'[q] # "waiting"
  PROVE  IInv'
  <1>1. Queued' = {} /\ cl'.td_queries = {}
    BY DEF Queued, NoClient
  <1>2. Setters'
    BY <1>1, ResetKeepsInv
  <1>3. TypeInv' /\ QueueInv' /\ LifeInv'
    BY <1>1 DEF IInv, TypeInv, QueueInv, LifeInv, NoClient, Mails
  <1> QED
    BY <1>2, <1>3 DEF IInv

LEMMA StopClientKeepsInv ==
  ASSUME IInv, StopClient, UNCHANGED <<db, args>>
  PROVE  IInv'
  <1>1. answer' \in [AnyQuery -> Answers] /\ \A q \in AnyQuery : answer'[q] # "waiting"
    BY BundleFacts, DroppedFacts DEF StopClient, Dropped, IInv
  <1> QED
    BY <1>1, StopKeepsInv, BundleFacts DEF StopClient, IInv

\* A handler that only changes the members, and may read a report.
LEMMA HandlerKeepsInv ==
  ASSUME IInv, cl.up, NEW b, Become(b), UNCHANGED <<cl, args, queue>>, mail' \subseteq mail,
         SetterInv(b, Queued \cup cl.td_queries, mail')
  PROVE  IInv'
  <1>1. Queued' = Queued /\ cl' = cl /\ args' = args
    BY DEF Queued
  <1>2. Setters'
    BY <1>1, BecomeKeepsInv DEF ClosingNow
  <1>3. TypeInv' /\ QueueInv' /\ LifeInv'
    BY <1>1 DEF IInv, TypeInv, QueueInv, LifeInv, Mails, ClosingNow
  <1> QED
    BY <1>2, <1>3 DEF IInv

\* A change of the Client's life that leaves the webhook and the queries alone.
LEMMA LifeKeepsInv ==
  ASSUME IInv, UNCHANGED <<wh, db, queue, args, answer, actors, dying, mail, jobs>>,
         TypeInv', LifeInv', cl'.td_queries = cl.td_queries,
         cl'.td => cl.td, ClosingNow => ClosingNow'
  PROVE  IInv'
  <1>1. Become(Bundle) /\ Queued' = Queued /\ args' = args /\ mail' = mail
    BY DEF Become, Bundle, Queued
  <1>2. SetterInv(Bundle, (Queued \cup cl.td_queries)', mail')
    BY <1>1 DEF IInv, Setters
  <1>3. Setters'
    BY <1>1, <1>2, BecomeKeepsInv
  <1>4. QueueInv'
    BY <1>1 DEF IInv, QueueInv
  <1> QED
    BY <1>3, <1>4 DEF IInv

LEMMA ClosedKeepsInv ==
  ASSUME IInv, NEW g \in Nat, WebhookClosed(g)
  PROVE  IInv'
  <1> DEFINE W == Queued \cup cl.td_queries
             c == [Bundle EXCEPT !.jobs = @ \cup {"unlink"}]
  <1>1. /\ cl.up /\ UNCHANGED <<cl, args, queue>> /\ <<"closed", g>> \in mail
        /\ mail' = mail \ {<<"closed", g>>} /\ mail' \subseteq mail
        /\ Become(IF wh.cert THEN c ELSE OnWebhookClosed(Bundle))
    BY DEF WebhookClosed, Idle, Rest
  <1>2. SetterInv(Bundle, W, mail) /\ args \in [AnyQuery -> Request]
    BY DEF IInv, Setters, TypeInv
  <1>3. SetterInv(Bundle, W, mail')
    BY <1>1, <1>2, FewerMailsKeepInv
  <1>4. NoneLeft(Bundle, mail')
    BY <1>1, <1>2 DEF SetterInv, SuccessionInv, NoneLeft
  <1>5. CASE wh.cert
    <2>1. Bundle \in BundleType /\ Bundle.wh = wh /\ wh.url # NoUrl
      BY <1>1, <1>2, BundleFacts DEF IInv, SetterInv, SuccessionInv
    <2>2. /\ c \in BundleType /\ c.wh = wh /\ c.db = Bundle.db /\ c.answer = Bundle.answer
          /\ c.actors = Bundle.actors /\ c.dying = Bundle.dying /\ c.jobs = Bundle.jobs \cup {"unlink"}
      BY <2>1 DEF BundleType
    <2> HIDE DEF c
    <2>3. HeldInv(c, W) /\ ApartInv(c.wh) /\ ActorInv(c, mail') /\ QueryInv(c.wh) /\ SavedInv(c)
      BY <1>3, <2>1, <2>2 DEF SetterInv, HeldInv, ActorInv, SavedInv
    <2>4. SuccessionInv(c, mail')
      BY <1>3, <1>4, <2>1, <2>2 DEF SetterInv, SuccessionInv, NoneLeft
    <2>5. SetterInv(c, W, mail')
      BY <2>2, <2>3, <2>4 DEF SetterInv
    <2> QED
      BY <1>1, <1>5, <2>5, HandlerKeepsInv
  <1>6. CASE ~wh.cert
    <2>1. SetterInv(OnWebhookClosed(Bundle), W, mail')
      BY <1>2, <1>3, <1>4, OnWebhookClosedKeepsInv
    <2> QED
      BY <1>1, <1>6, <2>1, HandlerKeepsInv
  <1> QED
    BY <1>5, <1>6

LEMMA UnlinkedKeepsInv ==
  ASSUME IInv, CertificateUnlinked
  PROVE  IInv'
  <1> DEFINE W == Queued \cup cl.td_queries
             b == [Bundle EXCEPT !.jobs = @ \ {"unlink"}]
  <1>1. /\ cl.up /\ UNCHANGED <<cl, args, queue, mail>> /\ "unlink" \in jobs
        /\ Become(OnWebhookClosed(b))
    BY DEF CertificateUnlinked, Idle, Rest
  <1>2. SetterInv(Bundle, W, mail) /\ args \in [AnyQuery -> Request]
    BY DEF IInv, Setters, TypeInv
  <1>3. /\ SetterInv(b, W, mail) /\ b.actors = Bundle.actors
        /\ b.jobs = Bundle.jobs \ {"unlink"}
    BY <1>2, FewerJobsKeepInv
  <1>4. NoneLeft(b, mail)
    BY <1>1, <1>2, <1>3, BundleFacts DEF IInv, SetterInv, SuccessionInv, NoneLeft
  <1> HIDE DEF b
  <1>5. SetterInv(OnWebhookClosed(b), W, mail')
    BY <1>1, <1>2, <1>3, <1>4, OnWebhookClosedKeepsInv
  <1> QED
    BY <1>1, <1>5, HandlerKeepsInv

LEMMA VerifiedStep ==
  ASSUME IInv, NEW g, NEW ip_changed \in BOOLEAN, WebhookVerified(g, ip_changed)
  PROVE  IInv'
  <1> DEFINE W == Queued \cup cl.td_queries
             c == [Answer(Bundle, wh.set_query, "ok") EXCEPT !.wh.set_query = NoQuery]
             d == IF g # wh.generation THEN Bundle
                  ELSE IF wh.set_query # NoQuery \/ ip_changed THEN SaveWebhook(c)
                  ELSE c
  <1>1. /\ cl.up /\ UNCHANGED <<cl, args, queue>> /\ <<"verified", g>> \in mail
        /\ mail' = mail \ {<<"verified", g>>} /\ mail' \subseteq mail
        /\ Become(d)
    BY DEF WebhookVerified, Idle, Rest
  <1>2. SetterInv(Bundle, W, mail) /\ g \in Nat /\ Bundle.wh = wh
    BY <1>1, BundleFacts DEF IInv, Setters, TypeInv, Mails
  <1>3. SetterInv(d, W, mail)
    BY <1>1, <1>2, VerifiedKeepsInv
  <1> HIDE DEF d
  <1>4. SetterInv(d, W, mail')
    BY <1>1, <1>3, FewerMailsKeepInv
  <1> QED
    BY <1>1, <1>4, HandlerKeepsInv

LEMMA WakeupKeepsInv ==
  ASSUME IInv, LongPollWakeup
  PROVE  IInv'
  <1> DEFINE W == Queued \cup cl.td_queries
             c == [Answer(Bundle, wh.long_poll, "ok") EXCEPT !.wh.long_poll = NoQuery]
  <1>1. /\ cl.up /\ UNCHANGED <<cl, args, queue, mail>> /\ Become(c)
    BY DEF LongPollWakeup, Idle, Rest
  <1>2. SetterInv(Bundle, W, mail) /\ Bundle.wh = wh /\ "ok" \in Answers \ {"waiting"}
    BY BundleFacts DEF IInv, Setters, Answers
  <1>3. SetterInv(c, W, mail)
    BY <1>2, AbortKeepsInv
  <1> HIDE DEF c
  <1> QED
    BY <1>1, <1>3, HandlerKeepsInv

LEMMA RestoreRequestType ==
  ASSUME NEW e \in Entry
  PROVE  RestoreRequest(e) \in Request
  BY DEF RestoreRequest, Entry, Request

LEMMA RestartKeepsInv ==
  ASSUME IInv, Restart
  PROVE  IInv'
  <1>1. /\ wh' = NoWebhook /\ actors' = {} /\ dying' = {} /\ mail' = {} /\ jobs' = {}
        /\ db' = db /\ db \in Entry \cup {NoEntry}
    BY BundleFacts DEF Restart, IInv
  <1>2. Dropped \in [AnyQuery -> Answers] /\ \A q \in AnyQuery : Dropped[q] # "waiting"
    BY BundleFacts, DroppedFacts DEF Dropped, IInv
  <1> HIDE DEF Dropped
  <1>3. RestoreQuery \in AnyQuery
    BY DEF AnyQuery
  <1>4. CASE db # NoEntry
    <2>1. /\ cl' = NewClient /\ queue' = <<RestoreQuery>>
          /\ args' = [args EXCEPT ![RestoreQuery] = RestoreRequest(db)]
          /\ answer' = [Dropped EXCEPT ![RestoreQuery] = "waiting"]
      BY <1>4 DEF Restart
    <2>2. Queued' = {RestoreQuery} /\ cl'.td_queries = {}
      BY <2>1 DEF Queued, NewClient, NoClient
    <2>3. answer' \in [AnyQuery -> Answers]
      BY <1>2, <1>3, <2>1 DEF Answers
    <2>4. \A q \in AnyQuery : answer'[q] = "waiting" <=> q \in (Queued \cup cl.td_queries)'
      BY <1>2, <1>3, <2>1, <2>2
    <2>5. Setters'
      BY <1>1, <1>3, <2>2, <2>3, <2>4, ResetKeepsInv
    <2>6. RestoreRequest(db) \in Request
      BY <1>1, <1>4, RestoreRequestType
    <2>7. TypeInv' /\ QueueInv' /\ LifeInv'
      <3>1. queue' \in Seq(AnyQuery) /\ DOMAIN queue' = {1}
        BY <1>3, <2>1
      <3>2. args' \in [AnyQuery -> Request]
        BY <2>1, <2>6 DEF IInv, TypeInv
      <3> QED
        BY <1>1, <2>1, <2>2, <3>1, <3>2
        DEF TypeInv, QueueInv, LifeInv, NewClient, NoClient, Mails
    <2> QED
      BY <2>5, <2>7 DEF IInv
  <1>5. CASE db = NoEntry
    <2>1. cl' = NoClient /\ queue' = <<>> /\ args' = args /\ answer' = Dropped
      <3>1. args \in [AnyQuery -> Request]
        BY DEF IInv, TypeInv
      <3> QED
        BY <1>2, <1>3, <1>5, <3>1 DEF Restart
    <2> QED
      BY <1>1, <1>2, <2>1, StopKeepsInv
  <1> QED
    BY <1>4, <1>5

\* The query that waited for the copy leaves the Client's hands.
LEMMA CopiedKeepsInv ==
  ASSUME IInv, NEW ok \in BOOLEAN, OnWebhookCertificateCopied(ok)
  PROVE  IInv'
  <1> DEFINE W == Queued \cup cl.td_queries
             q == wh.active_query
             f == [Bundle EXCEPT !.jobs = @ \ {"copy"}]
             b == [f EXCEPT !.wh.active_query = NoQuery]
  <1>1. CASE q = NoQuery
    BY <1>1, RestartKeepsInv DEF OnWebhookCertificateCopied
  <1>2. CASE q # NoQuery
    <2>1. /\ cl.up /\ UNCHANGED <<cl, args, queue, mail>>
          /\ Become(IF ok THEN FinishSetWebhook([b EXCEPT !.wh.cert = TRUE], q)
                    ELSE Answer(b, q, "bad"))
      BY <1>2, BundleFacts DEF OnWebhookCertificateCopied, Idle, Rest, IInv, BundleType
    <2>2. SetterInv(Bundle, W, mail) /\ Bundle.wh = wh /\ args \in [AnyQuery -> Request]
      BY BundleFacts DEF IInv, Setters, TypeInv
    <2>3. SetterInv(f, W, mail) /\ f.wh = wh /\ f.actors = actors /\ f.jobs = jobs \ {"copy"}
      <3>1. SetterInv(f, W, mail) /\ f.wh = Bundle.wh /\ f.actors = Bundle.actors
            /\ f.jobs = Bundle.jobs \ {"copy"}
        BY <2>2, FewerJobsKeepInv
      <3> QED
        BY <3>1, BundleFacts DEF IInv
    <2>4. f \in BundleType /\ wh \in Members
      BY <2>3, BundleFacts DEF SetterInv, IInv
    <2> HIDE DEF f
    <2>5. /\ b \in BundleType
          /\ b.wh = [wh EXCEPT !.active_query = NoQuery]
          /\ b.db = f.db /\ b.actors = f.actors /\ b.jobs = f.jobs
          /\ b.dying = f.dying /\ b.answer = f.answer
      BY <2>3, <2>4 DEF BundleType, Members, Maybe
    <2> HIDE DEF b
    <2>6. /\ wh.url = NoUrl /\ wh.set_query = NoQuery /\ wh.long_poll = NoQuery
          /\ q \in AnyQuery /\ q \notin W /\ args[q].url # NoUrl
      BY <1>2, <2>3, <2>4 DEF SetterInv, ApartInv, QueryInv, HeldInv, InHand, Members, Maybe
    <2>7. /\ b.wh.url = NoUrl /\ b.wh.set_query = NoQuery /\ b.wh.active_query = NoQuery
          /\ b.wh.long_poll = NoQuery /\ b.wh.cert = wh.cert /\ b.wh.id = wh.id
          /\ b.wh.generation = wh.generation /\ b.wh.verify = wh.verify
      BY <2>4, <2>5, <2>6 DEF Members
    <2>8. HeldInv(b, W \cup {q})
      <3>1. InHand(wh) = {q} /\ InHand(b.wh) = {}
        BY <1>2, <2>6, <2>7 DEF InHand
      <3> QED
        BY <2>3, <2>5, <2>6, <3>1 DEF SetterInv, HeldInv
    <2>9. ApartInv(b.wh) /\ QueryInv(b.wh) /\ SavedInv(b)
      BY <2>3, <2>6, <2>7 DEF SetterInv, ApartInv, QueryInv, SavedInv
    <2>10. SuccessionInv(b, mail) /\ ActorInv(b, mail) /\ NoneLeft(b, mail)
      BY <2>3, <2>5, <2>6, <2>7 DEF SetterInv, SuccessionInv, ActorInv, NoneLeft
    <2>11. SetterInv(b, W \cup {q}, mail)
      BY <2>5, <2>8, <2>9, <2>10 DEF SetterInv
    <2>12. CASE ok
      <3>1. args[q].url \in Url /\ args[q].settings \in AnySettings /\ InHand(b.wh) = {}
        BY <2>2, <2>6, <2>7 DEF Request, AnySettings, InHand
      <3>2. SetterInv(FinishSetWebhook([b EXCEPT !.wh.cert = TRUE], q), W, mail)
        BY <2>6, <2>7, <2>10, <2>11, <3>1, FinishKeepsInv
      <3> QED
        BY <2>1, <2>12, <3>2, HandlerKeepsInv
    <2>13. CASE ~ok
      <3>1. SetterInv(Answer(b, q, "bad"), W, mail)
        BY <2>6, <2>11, AnswerKeepsInv DEF Answers
      <3> QED
        BY <2>1, <2>13, <3>1, HandlerKeepsInv
    <2> QED
      BY <2>12, <2>13
  <1> QED
    BY <1>1, <1>2

\* A query arrives, and a new Client restores its webhook first.
LEMMA ReceiveKeepsInv ==
  ASSUME IInv, NEW q \in Query, NEW r \in Requests, Receive(q, r)
  PROVE  IInv'
  <1> DEFINE restore == ~cl.up /\ db # NoEntry /\ r.kind # "setwebhook"
  <1>1. /\ q \in AnyQuery /\ RestoreQuery \in AnyQuery /\ q # RestoreQuery /\ r \in Request
        /\ answer[q] = "new"
        /\ UNCHANGED <<wh, db, actors, dying, mail, jobs>>
    BY RequestsAssumption DEF Receive, AnyQuery
  <1>2. /\ db \in Entry \cup {NoEntry} /\ answer \in [AnyQuery -> Answers]
        /\ Queued \cup cl.td_queries \subseteq AnyQuery
        /\ \A p \in AnyQuery :
             answer[p] = "waiting" <=> p \in Queued \cup cl.td_queries \cup InHand(wh)
        /\ args \in [AnyQuery -> Request]
    BY BundleFacts DEF IInv, TypeInv
  <1>3. q \notin Queued \cup cl.td_queries \cup InHand(wh)
    BY <1>1, <1>2
  <1>4. CASE cl.up
    <2>1. /\ cl' = cl /\ queue' = Append(queue, q)
          /\ args' = [args EXCEPT ![q] = r]
          /\ answer' = [answer EXCEPT ![q] = "waiting"]
      BY <1>1, <1>2, <1>4 DEF Receive
    <2>2. /\ queue' \in Seq(AnyQuery) /\ Queued' = Queued \cup {q}
          /\ \A i, j \in DOMAIN queue' : queue'[i] = queue'[j] => i = j
      BY <1>1, <1>3, <2>1, EndOfQueue DEF IInv
    <2>3. TypeInv' /\ QueueInv' /\ LifeInv'
      <3>1. args' \in [AnyQuery -> Request] /\ \A p \in cl.td_queries : args'[p] = args[p]
        BY <1>1, <1>2, <1>3, <2>1
      <3> QED
        BY <1>1, <1>3, <1>4, <2>1, <2>2, <3>1 DEF IInv, TypeInv, QueueInv, LifeInv, ClosingNow
    <2>4. Setters'
      <3> DEFINE b == [Bundle EXCEPT !.answer = answer']
      <3>1. /\ Bundle \in BundleType /\ answer' \in [AnyQuery -> Answers]
            /\ Bundle.wh = wh /\ Bundle.db = db
            /\ Bundle.actors = actors /\ Bundle.dying = dying /\ Bundle.jobs = jobs
        BY <1>1, <1>2, <2>1, BundleFacts DEF Answers, IInv
      <3>2. /\ b \in BundleType
            /\ b.wh = wh /\ b.db = db /\ b.answer = answer' /\ b.actors = actors
            /\ b.dying = dying /\ b.jobs = jobs
        BY <3>1 DEF BundleType
      <3> HIDE DEF b
      <3>3. HeldInv(b, (Queued \cup cl.td_queries)')
        BY <1>1, <1>2, <1>3, <2>1, <2>2, <3>1, <3>2, BundleFacts DEF IInv, HeldInv
      <3>4. SetterInv(b, (Queued \cup cl.td_queries)', mail')
        BY <1>1, <3>1, <3>2, <3>3 DEF IInv, Setters, SetterInv, SuccessionInv, ActorInv, SavedInv
      <3>5. Become(b)
        BY <1>1, <3>2 DEF Become
      <3>6. \A p \in InHand(b.wh) : args'[p] = args[p]
        BY <1>2, <1>3, <2>1, <3>2
      <3> QED
        BY <2>1, <3>4, <3>5, <3>6, BecomeKeepsInv DEF ClosingNow
    <2> QED
      BY <2>3, <2>4 DEF IInv
  <1>5. CASE ~cl.up
    <2>1. /\ cl = NoClient /\ wh = NoWebhook /\ queue = <<>>
          /\ actors = {} /\ dying = {} /\ mail = {} /\ jobs = {}
      BY <1>5 DEF IInv, LifeInv
    <2>2. /\ Queued = {} /\ cl.td_queries = {} /\ InHand(wh) = {}
          /\ \A p \in AnyQuery : answer[p] # "waiting"
      BY <1>2, <2>1 DEF Queued, NoClient, NoWebhook, InHand
    <2>3. cl' = NewClient /\ cl'.td_queries = {}
      BY <1>5 DEF Receive, NewClient, NoClient
    <2>4. /\ queue' \in Seq(AnyQuery)
          /\ \A i, j \in DOMAIN queue' : queue'[i] = queue'[j] => i = j
          /\ Queued' = IF restore THEN {RestoreQuery, q} ELSE {q}
      <3>1. CASE restore
        <4>1. queue' = <<RestoreQuery, q>>
          BY <3>1 DEF Receive
        <4>2. DOMAIN queue' = {1, 2} /\ queue'[1] = RestoreQuery /\ queue'[2] = q
          BY <4>1
        <4>3. queue' \in Seq(AnyQuery)
          BY <1>1, <4>1
        <4> QED
          BY <1>1, <3>1, <4>2, <4>3 DEF Queued
      <3>2. CASE ~restore
        <4>1. queue' = <<q>>
          BY <2>1, <3>2 DEF Receive
        <4>2. DOMAIN queue' = {1} /\ queue'[1] = q /\ queue' \in Seq(AnyQuery)
          BY <1>1, <4>1
        <4> QED
          BY <3>2, <4>2 DEF Queued
      <3> QED
        BY <3>1, <3>2
    <2>5. /\ args' \in [AnyQuery -> Request]
          /\ answer' \in [AnyQuery -> Answers]
          /\ \A p \in AnyQuery : answer'[p] = "waiting" <=> p \in Queued'
      <3>1. CASE restore
        <4>1. /\ args' = [args EXCEPT ![q] = r, ![RestoreQuery] = RestoreRequest(db)]
              /\ answer' = [answer EXCEPT ![q] = "waiting", ![RestoreQuery] = "waiting"]
          BY <3>1 DEF Receive
        <4>2. RestoreRequest(db) \in Request
          BY <1>2, <3>1, RestoreRequestType
        <4> QED
          BY <1>1, <1>2, <2>2, <2>4, <3>1, <4>1, <4>2 DEF Answers
      <3>2. CASE ~restore
        <4>1. /\ args' = [args EXCEPT ![q] = r]
              /\ answer' = [answer EXCEPT ![q] = "waiting"]
          BY <1>1, <1>2, <3>2 DEF Receive
        <4> QED
          BY <1>1, <1>2, <2>2, <2>4, <3>2, <4>1 DEF Answers
      <3> QED
        BY <3>1, <3>2
    <2>6. Setters'
      <3>1. Queued' \subseteq AnyQuery
        BY <1>1, <2>4
      <3> QED
        BY <1>1, <1>2, <2>1, <2>3, <2>5, <3>1, ResetKeepsInv
    <2>7. TypeInv' /\ QueueInv' /\ LifeInv'
      BY <1>1, <2>1, <2>3, <2>4, <2>5 DEF IInv, TypeInv, QueueInv, LifeInv, NewClient, NoClient, Mails
    <2> QED
      BY <2>6, <2>7 DEF IInv
  <1> QED
    BY <1>4, <1>5

LEMMA OnCmdKeepsInv ==
  ASSUME IInv, NEW q \in AnyQuery, NEW throttled \in BOOLEAN, NEW changed \in BOOLEAN,
         NEW found \in BOOLEAN, OnCmd(q, throttled, changed, found)
  PROVE  IInv'
  <1> DEFINE r == args[q]
             V == Queued' \cup cl.td_queries
  <1>1. /\ cl.up /\ queue # <<>> /\ q = Head(queue) /\ queue' = Tail(queue)
        /\ UNCHANGED <<args, mail>>
    BY DEF OnCmd, Ready, Rest
  <1>2. /\ queue' \in Seq(AnyQuery)
        /\ Queued = Queued' \cup {q} /\ q \notin Queued'
        /\ \A i, j \in DOMAIN queue' : queue'[i] = queue'[j] => i = j
    BY <1>1, HeadOfQueue DEF IInv
  <1>3. /\ SetterInv(Bundle, V \cup {q}, mail) /\ q \notin V /\ mail \in Mails
        /\ args \in [AnyQuery -> Request]
    <2>1. Queued \cup cl.td_queries = V \cup {q}
      BY <1>2
    <2> QED
      BY <1>2, <2>1 DEF IInv, Setters, QueueInv, TypeInv
  \* The query is answered or put into hand.
  <1>4. ASSUME NEW b, Become(b), SetterInv(b, V, mail), cl' = cl
        PROVE  IInv'
    <2>1. (Queued \cup cl.td_queries)' = V /\ mail' = mail /\ args' = args
      BY <1>1, <1>4
    <2>2. Setters'
      BY <1>4, <2>1, BecomeKeepsInv DEF ClosingNow
    <2>3. QueueInv'
      BY <1>1, <1>2, <1>4 DEF IInv, QueueInv
    <2>4. TypeInv' /\ LifeInv'
      BY <1>1, <1>2, <1>4 DEF IInv, TypeInv, LifeInv, ClosingNow
    <2> QED
      BY <2>2, <2>3, <2>4 DEF IInv
  <1>5. ASSUME NEW a \in Answers \ {"waiting"}, Become(Answer(Bundle, q, a)), cl' = cl
        PROVE  IInv'
    <2>1. SetterInv(Answer(Bundle, q, a), V, mail)
      BY <1>3, AnswerKeepsInv
    <2> QED
      BY <1>4, <1>5, <2>1
  <1>6. CASE /\ r.kind \in {"close", "logout"} /\ cl.td /\ cl.authorized
             /\ Become(IF throttled THEN Answer(Bundle, q, "retry") ELSE Bundle)
             /\ cl' = IF throttled THEN cl
                      ELSE [cl EXCEPT !.need_close = @ \/ r.kind = "close",
                                      !.td_queries = @ \cup {q}]
    <2>1. CASE throttled
      BY <1>5, <1>6, <2>1 DEF Answers
    <2>2. CASE ~throttled
      <3>1. /\ cl' = [cl EXCEPT !.need_close = @ \/ r.kind = "close", !.td_queries = @ \cup {q}]
            /\ Become(Bundle)
        BY <1>6, <2>2
      <3>2. /\ cl'.td_queries = cl.td_queries \cup {q} /\ cl'.td = cl.td /\ cl'.up = cl.up
            /\ (ClosingNow <=> ClosingNow')
        BY <3>1 DEF IInv, TypeInv, ClosingNow
      <3>3. (Queued \cup cl.td_queries)' = V \cup {q}
        BY <3>2
      <3>4. Setters'
        BY <1>1, <1>3, <3>1, <3>2, <3>3, BecomeKeepsInv
      <3>5. QueueInv'
        BY <1>1, <1>2, <1>6, <3>2 DEF IInv, QueueInv
      <3>6. TypeInv'
        BY <1>1, <1>2, <3>1 DEF IInv, TypeInv
      <3>7. LifeInv'
        BY <1>1, <3>2 DEF IInv, LifeInv
      <3> QED
        BY <3>4, <3>5, <3>6, <3>7 DEF IInv
    <2> QED
      BY <2>1, <2>2
  <1>7. CASE Become(Answer(Bundle, q, "closing")) /\ cl' = cl
    BY <1>5, <1>7 DEF Answers
  <1>8. CASE /\ r.kind = "setwebhook" /\ cl' = cl
             /\ Become(IF throttled THEN Answer(Bundle, q, "retry")
                       ELSE ProcessSetWebhook(Bundle, q, changed))
    <2>1. CASE throttled
      BY <1>5, <1>8, <2>1 DEF Answers
    <2>2. CASE ~throttled
      <3>1. SetterInv(ProcessSetWebhook(Bundle, q, changed), V, mail)
        BY <1>3, ProcessSetWebhookKeepsInv
      <3> QED
        BY <1>4, <1>8, <2>2, <3>1
    <2> QED
      BY <2>1, <2>2
  <1>9. CASE /\ r.kind = "getupdates" /\ cl' = cl
             /\ Become(ProcessGetUpdates(Bundle, q, found))
    <2>1. SetterInv(ProcessGetUpdates(Bundle, q, found), V, mail)
      BY <1>3, <1>9, ProcessGetUpdatesKeepsInv
    <2> QED
      BY <1>4, <1>9, <2>1
  <1> QED
    BY <1>6, <1>7, <1>8, <1>9 DEF OnCmd

LEMMA TdAnswersKeepsInv ==
  ASSUME IInv, NEW q \in Query, NEW a \in {"ok", "bad"}, TdAnswers(q, a)
  PROVE  IInv'
  <1> DEFINE V == Queued \cup (cl.td_queries \ {q})
             b == Answer(Bundle, q, a)
  <1>1. /\ q \in AnyQuery /\ q # NoQuery /\ a \in Answers \ {"waiting"}
        /\ cl.up /\ q \in cl.td_queries /\ cl' = [cl EXCEPT !.td_queries = @ \ {q}]
        /\ answer' = [answer EXCEPT ![q] = a]
        /\ UNCHANGED <<args, wh, db, actors, dying, jobs, queue, mail>>
    BY Apart DEF TdAnswers, Idle, Rest, AnyQuery, Answers
  <1>2. /\ cl'.td_queries = cl.td_queries \ {q} /\ cl'.td = cl.td /\ cl'.up = cl.up
        /\ (ClosingNow <=> ClosingNow') /\ Queued' = Queued
    BY <1>1 DEF IInv, TypeInv, ClosingNow, Queued
  <1>3. Become(b)
    BY <1>1 DEF Become, Answer, Bundle
  <1>4. Queued \cup cl.td_queries = V \cup {q} /\ q \notin V
    BY <1>1 DEF IInv, QueueInv
  <1>5. SetterInv(b, V, mail)
    BY <1>1, <1>4, AnswerKeepsInv DEF IInv, Setters
  <1> HIDE DEF b
  <1>6. Setters'
    <2>1. (Queued \cup cl.td_queries)' = V
      BY <1>2
    <2> QED
      BY <1>1, <1>2, <1>3, <1>5, <2>1, BecomeKeepsInv
  <1>7. TypeInv' /\ QueueInv' /\ LifeInv'
    <2>1. TypeInv'
      BY <1>1 DEF IInv, TypeInv
    <2>2. QueueInv'
      BY <1>1, <1>2 DEF IInv, QueueInv
    <2>3. LifeInv'
      BY <1>1, <1>2 DEF IInv, LifeInv
    <2> QED
      BY <2>1, <2>2, <2>3
  <1> QED
    BY <1>6, <1>7 DEF IInv

\* SetterInv of a Client without TDLib that holds no query.
EndedInv(b, W, M) ==
  /\ b \in BundleType
  /\ HeldInv(b, W)
  /\ SuccessionInv(b, M)
  /\ ActorInv(b, M)
  /\ InHand(b.wh) = {}

\* on_closed answers what the Client holds and hangs up on its actor.
LEMMA EndKeepsInv ==
  ASSUME NEW b, NEW W, NEW M, SetterInv(b, W, M)
  PROVE  EndedInv(EndWebhook(b), W, M) /\ EndWebhook(b).wh.generation = b.wh.generation
  <1> DEFINE hung_up == IF b.wh.url = NoUrl THEN {} ELSE {b.wh.id}
             id == IF b.wh.url = NoUrl THEN b.wh.id ELSE 0
             w == [b.wh EXCEPT !.set_query = NoQuery, !.active_query = NoQuery,
                               !.long_poll = NoQuery, !.id = id]
             e == EndWebhook(b)
  <1>1. b \in BundleType /\ b.wh \in Members /\ "closing" \in Answers /\ "ok" \in Answers
    BY DEF SetterInv, BundleType, Answers
  <1>2. b.wh.set_query \in Maybe /\ b.wh.active_query \in Maybe /\ b.wh.long_poll \in Maybe
    BY <1>1 DEF Members
  <1>3. PICK c1 : c1 = Answer(b, b.wh.set_query, "closing")
    OBVIOUS
  <1>4. PICK c : c = Answer(c1, b.wh.active_query, "closing")
    OBVIOUS
  <1>5. PICK d : d = Answer(c, b.wh.long_poll, "ok")
    OBVIOUS
  <1>6. /\ c1 \in BundleType /\ c1.wh = b.wh /\ c1.actors = b.actors
        /\ c1.dying = b.dying /\ c1.jobs = b.jobs
        /\ \A p \in AnyQuery :
             c1.answer[p] = IF p = b.wh.set_query THEN "closing" ELSE b.answer[p]
    BY <1>1, <1>2, <1>3, Apart DEF Answer, BundleType, Maybe
  <1>7. /\ c \in BundleType /\ c.wh = b.wh /\ c.actors = b.actors
        /\ c.dying = b.dying /\ c.jobs = b.jobs
        /\ \A p \in AnyQuery :
             c.answer[p] = IF p = b.wh.active_query THEN "closing" ELSE c1.answer[p]
    BY <1>1, <1>2, <1>4, <1>6, Apart DEF Answer, BundleType, Maybe
  <1>8. /\ d \in BundleType /\ d.wh = b.wh /\ d.actors = b.actors
        /\ d.dying = b.dying /\ d.jobs = b.jobs
        /\ \A p \in AnyQuery :
             d.answer[p] = IF p = b.wh.long_poll THEN "ok" ELSE c.answer[p]
    BY <1>1, <1>2, <1>5, <1>7, Apart DEF Answer, BundleType, Maybe
  <1>9. /\ e = [d EXCEPT !.wh = w, !.actors = b.actors \ hung_up, !.dying = b.dying \ hung_up]
    <2>1. e = [d EXCEPT !.wh.set_query = NoQuery, !.wh.active_query = NoQuery,
                        !.wh.long_poll = NoQuery,
                        !.wh.id = IF b.wh.url = NoUrl THEN @ ELSE 0,
                        !.actors = @ \ hung_up, !.dying = @ \ hung_up]
      BY <1>3, <1>4, <1>5 DEF EndWebhook
    <2> QED
      BY <1>1, <1>8, <2>1 DEF BundleType, Members
  <1> HIDE DEF e
  <1>10. w \in Members
    BY <1>1 DEF Members, Maybe
  <1>11. /\ w.url = b.wh.url /\ w.set_query = NoQuery /\ w.active_query = NoQuery
         /\ w.long_poll = NoQuery /\ w.id = id /\ w.generation = b.wh.generation
    BY <1>1 DEF Members
  <1> HIDE DEF w
  <1>12. /\ e.wh = w /\ e.answer = d.answer /\ e.jobs = b.jobs
         /\ e.actors = b.actors \ hung_up /\ e.dying = b.dying \ hung_up
    BY <1>8, <1>9 DEF BundleType
  <1>13. e \in BundleType
    BY <1>1, <1>8, <1>9, <1>10 DEF BundleType
  <1>14. InHand(e.wh) = {}
    BY <1>11, <1>12 DEF InHand
  <1>15. HeldInv(e, W)
    BY <1>6, <1>7, <1>8, <1>12, <1>14, Apart DEF SetterInv, HeldInv, InHand
  <1>16. SuccessionInv(e, M)
    BY <1>11, <1>12 DEF SetterInv, SuccessionInv
  <1>17. ActorInv(e, M)
    BY <1>11, <1>12 DEF SetterInv, ActorInv
  <1> QED
    BY <1>11, <1>12, <1>13, <1>14, <1>15, <1>16, <1>17 DEF EndedInv, e

\* TDLib is gone, and with it what the database should follow.
LEMMA EndedBecomeKeepsInv ==
  ASSUME IInv, NEW b, Become(b), EndedInv(b, Queued \cup cl.td_queries, mail),
         UNCHANGED <<args, queue, mail>>, TypeInv', LifeInv',
         cl'.td_queries = cl.td_queries, ~cl'.td, ClosingNow'
  PROVE  IInv'
  <1>1. b \in BundleType /\ Bundle' = b /\ (Queued \cup cl.td_queries)' = Queued \cup cl.td_queries
        /\ mail' = mail
    BY DEF EndedInv, Become, Bundle, BundleType, Queued
  <1>2. (HeldInv(Bundle, Queued \cup cl.td_queries) /\ SuccessionInv(Bundle, mail)
          /\ ActorInv(Bundle, mail))'
    BY <1>1 DEF EndedInv
  <1>3. (ApartInv(b.wh) /\ SavedInv(b) /\ QueryInv(b.wh))'
    BY DEF EndedInv, InHand, ApartInv, SavedInv, QueryInv
  <1>4. Setters'
    BY <1>1, <1>2, <1>3 DEF Setters, SetterInv
  <1>5. QueueInv'
    BY DEF IInv, QueueInv, Queued
  <1> QED
    BY <1>4, <1>5 DEF IInv

LEMMA OnClosedKeepsInv ==
  ASSUME IInv, OnClosed
  PROVE  IInv'
  <1> DEFINE e == EndWebhook(Bundle)
             W == Queued \cup cl.td_queries
  <1>1. /\ cl.up /\ ClosingNow /\ args' = args
        /\ EndedInv(e, W, mail) /\ e \in BundleType
    BY EndKeepsInv DEF OnClosed, Idle, IInv, Setters, EndedInv
  <1>2. CASE cl.logging_out
    <2> DEFINE f == [e EXCEPT !.db = NoEntry, !.jobs = @ \cup {"remove"}]
    <2>1. Become(f) /\ cl' = [cl EXCEPT !.td = FALSE] /\ UNCHANGED <<queue, mail>>
      BY <1>2 DEF OnClosed
    <2>2. /\ f \in BundleType /\ f.wh = e.wh /\ f.answer = e.answer /\ f.actors = e.actors
          /\ f.dying = e.dying /\ f.jobs = e.jobs \cup {"remove"}
      BY <1>1 DEF BundleType
    <2> HIDE DEF e, f
    <2>3. EndedInv(f, W, mail)
      BY <1>1, <2>2 DEF EndedInv, HeldInv, SuccessionInv, ActorInv
    <2>4. TypeInv' /\ LifeInv' /\ ClosingNow' /\ ~cl'.td /\ cl'.td_queries = cl.td_queries
      BY <1>1, <2>1 DEF IInv, TypeInv, LifeInv, ClosingNow
    <2> QED
      BY <1>1, <2>1, <2>3, <2>4, EndedBecomeKeepsInv
  <1>3. CASE ~cl.logging_out /\ cl.need_close
    <2>1. /\ cl' = NoClient /\ wh' = NoWebhook /\ queue' = <<>> /\ db' = db
          /\ answer' = [q \in AnyQuery |-> IF e.answer[q] = "waiting" THEN "retry" ELSE e.answer[q]]
          /\ actors' = {} /\ dying' = {} /\ mail' = {} /\ jobs' = {}
      BY <1>3 DEF OnClosed
    <2>2. e.answer \in [AnyQuery -> Answers]
      BY <1>1 DEF BundleType
    <2> HIDE DEF e
    <2>3. answer' \in [AnyQuery -> Answers] /\ \A q \in AnyQuery : answer'[q] # "waiting"
      BY <2>1, <2>2, DroppedFacts
    <2>4. db \in Entry \cup {NoEntry}
      BY BundleFacts DEF IInv
    <2> QED
      BY <1>1, <2>1, <2>3, <2>4, StopKeepsInv
  <1>4. CASE ~cl.logging_out /\ ~cl.need_close
    <2>1. Become(e) /\ cl' = [cl EXCEPT !.td = FALSE, !.timer = TRUE] /\ UNCHANGED <<queue, mail>>
      BY <1>4 DEF OnClosed
    <2> HIDE DEF e
    <2>2. TypeInv' /\ LifeInv' /\ ClosingNow' /\ ~cl'.td /\ cl'.td_queries = cl.td_queries
      BY <1>1, <2>1 DEF IInv, TypeInv, LifeInv, ClosingNow
    <2> QED
      BY <1>1, <2>1, <2>2, EndedBecomeKeepsInv
  <1> QED
    BY <1>2, <1>3, <1>4

LEMMA FinishClosingKeepsInv ==
  ASSUME IInv, FinishClosing
  PROVE  IInv'
  <1> DEFINE b == [Bundle EXCEPT !.jobs = @ \ {"remove"}]
  <1>1. CASE cl.need_close
    BY <1>1, StopClientKeepsInv DEF FinishClosing
  <1>2. CASE ~cl.need_close
    <2>1. /\ cl.up /\ cl' = [cl EXCEPT !.timer = TRUE] /\ jobs' = jobs \ {"remove"}
          /\ UNCHANGED <<args, wh, db, answer, actors, dying, queue, mail>>
      BY <1>2 DEF FinishClosing, Idle, Rest
    <2>2. Become(b)
      BY <2>1 DEF Become, Bundle
    <2>3. SetterInv(b, Queued \cup cl.td_queries, mail)
      BY FewerJobsKeepInv DEF IInv, Setters
    <2> HIDE DEF b
    <2>4. /\ cl'.td_queries = cl.td_queries /\ cl'.td = cl.td /\ cl'.up = cl.up
          /\ (ClosingNow <=> ClosingNow') /\ Queued' = Queued
      BY <2>1 DEF IInv, TypeInv, ClosingNow, Queued
    <2>5. Setters'
      <3>1. (Queued \cup cl.td_queries)' = Queued \cup cl.td_queries /\ mail' = mail
        BY <2>1, <2>4
      <3> QED
        BY <2>1, <2>2, <2>3, <2>4, <3>1, BecomeKeepsInv
    <2>6. TypeInv' /\ QueueInv' /\ LifeInv'
      BY <2>1, <2>4 DEF IInv, TypeInv, QueueInv, LifeInv
    <2> QED
      BY <2>5, <2>6 DEF IInv
  <1> QED
    BY <1>1, <1>2

\* TDLib reports a new state, or close() is called.
LEMMA AuthorizationKeepsInv ==
  ASSUME IInv, AuthorizationReady \/ LoggingOut \/ Closing \/ InitFailed \/ ShutDown
  PROVE  IInv'
  <1>1. UNCHANGED <<wh, db, queue, args, answer, actors, dying, mail, jobs>>
    BY DEF AuthorizationReady, LoggingOut, Closing, InitFailed, ShutDown, Rest
  <1>2. cl' \in [up : BOOLEAN, authorized : BOOLEAN, logging_out : BOOLEAN, closing : BOOLEAN,
                 need_close : BOOLEAN, td : BOOLEAN, td_queries : SUBSET AnyQuery, timer : BOOLEAN]
    BY DEF AuthorizationReady, LoggingOut, Closing, InitFailed, ShutDown, Close, IInv, TypeInv
  <1>3. /\ cl'.up = cl.up /\ cl'.td = cl.td /\ cl'.td_queries = cl.td_queries
        /\ ClosingNow => ClosingNow'
        /\ ~cl.up => cl' = cl
    BY DEF AuthorizationReady, LoggingOut, Closing, InitFailed, ShutDown, Close, Idle,
           IInv, TypeInv, ClosingNow
  <1>4. TypeInv'
    BY <1>1, <1>2 DEF IInv, TypeInv
  <1>5. LifeInv'
    BY <1>1, <1>3 DEF IInv, LifeInv
  <1> QED
    BY <1>1, <1>3, <1>4, <1>5, LifeKeepsInv

\* An actor reports that it works, perhaps not for the first time.
LEMMA ActorVerifiedKeepsInv ==
  ASSUME IInv, NEW g \in actors, ActorVerified(g)
  PROVE  IInv'
  <1> DEFINE W == Queued \cup cl.td_queries
             m == <<"verified", g>>
  <1>1. /\ UNCHANGED <<cl, wh, db, queue, args, answer, actors, dying, jobs>>
        /\ mail' = mail \cup {m} /\ m[1] = "verified" /\ m[2] = g
    BY DEF ActorVerified
  <1>2. SetterInv(Bundle, W, mail) /\ Bundle.actors = actors
    BY BundleFacts DEF IInv, Setters
  <1>3. g \in Nat /\ cl.up
    BY BundleFacts DEF IInv, LifeInv, Setters, SetterInv, BundleType
  <1>4. SuccessionInv(Bundle, mail')
    BY <1>1, <1>2 DEF SetterInv, SuccessionInv
  <1>5. ActorInv(Bundle, mail')
    BY <1>1, <1>2 DEF SetterInv, ActorInv
  <1>6. SetterInv(Bundle, W, mail')
    BY <1>2, <1>4, <1>5 DEF SetterInv
  <1>7. Setters'
    <2>1. Become(Bundle) /\ W' = W
      BY <1>1 DEF Become, Bundle, Queued
    <2> QED
      BY <1>1, <1>6, <2>1, BecomeKeepsInv DEF ClosingNow
  <1>8. TypeInv' /\ QueueInv' /\ LifeInv'
    <2>1. mail' \in Mails
      BY <1>1, <1>3 DEF IInv, TypeInv, Mails
    <2> QED
      BY <1>1, <1>3, <2>1 DEF IInv, TypeInv, QueueInv, LifeInv, ClosingNow, Queued
  <1> QED
    BY <1>7, <1>8 DEF IInv

\* An actor closes, for whatever reason.
LEMMA ActorClosedKeepsInv ==
  ASSUME IInv, NEW g \in actors, ActorClosed(g)
  PROVE  IInv'
  <1> DEFINE W == Queued \cup cl.td_queries
             m == <<"closed", g>>
             b == [Bundle EXCEPT !.actors = actors \ {g}, !.dying = dying \ {g}]
  <1>1. /\ UNCHANGED <<cl, wh, db, queue, args, answer, jobs>>
        /\ actors' = actors \ {g} /\ dying' = dying \ {g}
        /\ mail' = mail \cup {m} /\ m[1] = "closed" /\ m[2] = g
    BY DEF ActorClosed
  <1>2. SetterInv(Bundle, W, mail)
    BY DEF IInv, Setters
  <1>3. /\ Bundle \in BundleType /\ Bundle.wh = wh /\ Bundle.actors = actors
        /\ Bundle.dying = dying
    BY BundleFacts DEF IInv
  <1>4. /\ b \in BundleType /\ b.wh = wh /\ b.actors = actors \ {g} /\ b.dying = dying \ {g}
        /\ b.jobs = Bundle.jobs /\ b.answer = Bundle.answer /\ b.db = Bundle.db
    BY <1>3 DEF BundleType
  <1>5. Become(b)
    BY <1>1 DEF Become, Bundle
  <1>6. g \in Nat /\ cl.up /\ actors = {g}
    BY <1>2, <1>3 DEF IInv, LifeInv, SetterInv, SuccessionInv, BundleType
  <1> HIDE DEF b
  <1>7. SuccessionInv(b, mail')
    BY <1>1, <1>2, <1>3, <1>4, <1>6 DEF SetterInv, SuccessionInv
  <1>8. ActorInv(b, mail')
    BY <1>1, <1>2, <1>3, <1>4, <1>6 DEF SetterInv, ActorInv
  <1>9. SetterInv(b, W, mail')
    BY <1>2, <1>3, <1>4, <1>7, <1>8 DEF SetterInv, HeldInv, SavedInv
  <1>10. Setters'
    <2>1. W' = W
      BY <1>1 DEF Queued
    <2> QED
      BY <1>1, <1>5, <1>9, <2>1, BecomeKeepsInv DEF ClosingNow
  <1>11. TypeInv' /\ QueueInv' /\ LifeInv'
    <2>1. mail' \in Mails
      BY <1>1, <1>6 DEF IInv, TypeInv, Mails
    <2> QED
      BY <1>1, <1>6, <2>1 DEF IInv, TypeInv, QueueInv, LifeInv, ClosingNow, Queued
  <1> QED
    BY <1>10, <1>11 DEF IInv
-----------------------------------------------------------------------------
(* Every step.                                                             *)

LEMMA InitInv ==
  ASSUME Init
  PROVE  IInv
  <1> DEFINE none == [url |-> NoUrl, cert |-> FALSE, settings |-> NoSettings]
  <1>1. none \in Entry
    BY DEF Entry
  <1>2. RestoreRequest(none) \in Request
    BY <1>1, RestoreRequestType
  <1>3. Queued = {} /\ cl.td_queries = {}
    BY DEF Init, Queued, NoClient
  <1>4. TypeInv
    <2>1. queue \in Seq(AnyQuery) /\ mail \in Mails
      BY DEF Init, Mails
    <2>2. args \in [AnyQuery -> Request]
      BY <1>2 DEF Init
    <2> QED
      BY <2>1, <2>2 DEF Init, TypeInv, NoClient
  <1>5. QueueInv /\ LifeInv
    BY <1>3 DEF Init, QueueInv, LifeInv, NoClient
  <1>6. /\ Bundle.wh = NoWebhook /\ Bundle.db = NoEntry
        /\ Bundle.actors = {} /\ Bundle.dying = {} /\ Bundle.jobs = {}
        /\ Bundle.answer = [q \in AnyQuery |-> "new"]
    BY DEF Init, Bundle
  <1>7. Bundle \in BundleType
    BY DEF Init, Bundle, BundleType, NoWebhook, Members, Maybe, AnyUrl, AnySettings, Answers
  <1>8. HeldInv(Bundle, {})
    BY <1>6 DEF HeldInv, InHand, NoWebhook
  <1>9. ApartInv(Bundle.wh) /\ QueryInv(Bundle.wh) /\ SavedInv(Bundle)
    BY <1>6 DEF ApartInv, QueryInv, SavedInv, NoWebhook
  <1>10. SuccessionInv(Bundle, mail) /\ ActorInv(Bundle, mail)
    BY <1>6 DEF Init, SuccessionInv, ActorInv, NoWebhook
  <1>11. Setters
    <2>1. Queued \cup cl.td_queries = {}
      BY <1>3
    <2> QED
      BY <1>7, <1>8, <1>9, <1>10, <2>1 DEF Setters, SetterInv
  <1> QED
    BY <1>4, <1>5, <1>11 DEF IInv

LEMMA StutterKeepsInv ==
  ASSUME IInv, UNCHANGED vars
  PROVE  IInv'
  BY DEF IInv, TypeInv, QueueInv, LifeInv, Setters, Queued, Bundle, SetterInv, ApartInv, QueryInv,
         SavedInv, ClosingNow, vars

LEMMA NextKeepsInv ==
  ASSUME IInv, [Next]_vars
  PROVE  IInv'
  <1>1. ASSUME NEW q \in Query, NEW r \in Requests, Receive(q, r) PROVE IInv'
    BY <1>1, ReceiveKeepsInv
  <1>2. CASE Restart
    BY <1>2, RestartKeepsInv
  <1>3. ASSUME NEW q \in AnyQuery, NEW throttled \in BOOLEAN, NEW changed \in BOOLEAN,
               NEW found \in BOOLEAN, OnCmd(q, throttled, changed, found)
        PROVE  IInv'
    BY <1>3, OnCmdKeepsInv
  <1>4. ASSUME NEW g, NEW ip_changed \in BOOLEAN, WebhookVerified(g, ip_changed) PROVE IInv'
    BY <1>4, VerifiedStep
  <1>5. ASSUME NEW g, WebhookClosed(g) PROVE IInv'
    <2>1. g \in Nat
      BY <1>5 DEF WebhookClosed, IInv, TypeInv, Mails
    <2> QED
      BY <1>5, <2>1, ClosedKeepsInv
  <1>6. CASE CertificateUnlinked
    BY <1>6, UnlinkedKeepsInv
  <1>7. ASSUME NEW ok \in BOOLEAN, OnWebhookCertificateCopied(ok) PROVE IInv'
    BY <1>7, CopiedKeepsInv
  <1>8. CASE LongPollWakeup
    BY <1>8, WakeupKeepsInv
  <1>9. CASE AuthorizationReady \/ LoggingOut \/ Closing \/ InitFailed \/ ShutDown
    BY <1>9, AuthorizationKeepsInv
  <1>10. ASSUME NEW q \in Query, NEW a \in {"ok", "bad"}, TdAnswers(q, a) PROVE IInv'
    BY <1>10, TdAnswersKeepsInv
  <1>11. CASE OnClosed
    BY <1>11, OnClosedKeepsInv
  <1>12. CASE FinishClosing
    BY <1>12, FinishClosingKeepsInv
  <1>13. CASE TimeoutExpired
    BY <1>13, StopClientKeepsInv DEF TimeoutExpired
  <1>14. ASSUME NEW g \in actors, ActorVerified(g) \/ ActorClosed(g) PROVE IInv'
    BY <1>14, ActorVerifiedKeepsInv, ActorClosedKeepsInv
  <1>15. CASE UNCHANGED vars
    BY <1>15, StutterKeepsInv
  <1> QED
    BY <1>1, <1>2, <1>3, <1>4, <1>5, <1>6, <1>7, <1>8, <1>9, <1>10, <1>11, <1>12, <1>13, <1>14,
       <1>15 DEF Next

\* The members of the Client, cmd_queue_, the reports of the actors and what other threads do
\* for it always fit together as IInv says.
THEOREM Inductive == Spec => []IInv
  <1>1. Init => IInv
    BY InitInv
  <1>2. IInv /\ [Next]_vars => IInv'
    BY NextKeepsInv
  <1> QED
    BY <1>1, <1>2, PTL DEF Spec

\* Two setWebhook queries are never in progress at once, nor a webhook and a long poll; the
\* CHECKs of finish_set_webhook and do_set_webhook hold.
THEOREM SettersStayApart == Spec => []SettersApart
  <1>1. IInv => SettersApart
    BY BundleFacts DEF IInv, Setters, SetterInv, ApartInv, SettersApart
  <1> QED
    BY <1>1, Inductive, PTL

\* There is at most one WebhookActor, and the Client owns it unless it is told to close.
THEOREM OnlyOneActor == Spec => []OneActor
  <1>1. ASSUME IInv PROVE OneActor
    <2>1. /\ \A g, h \in actors : g = h
          /\ actors \ dying \subseteq {wh.id}
          /\ wh.id # 0 => wh.url # NoUrl /\ wh.id = wh.generation
      BY <1>1, BundleFacts DEF IInv, Setters, SetterInv, SuccessionInv, ActorInv
    <2>2. Cardinality(actors) <= 1
      <3>1. CASE actors = {}
        BY <3>1, FS_EmptySet
      <3>2. CASE actors # {}
        <4>1. PICK g : g \in actors
          BY <3>2
        <4>2. actors = {g}
          BY <2>1, <4>1
        <4>3. Cardinality(actors) = 1
          BY <4>2, FS_Singleton
        <4> QED
          BY <4>3
      <3> QED
        BY <3>1, <3>2
    <2> QED
      BY <2>1, <2>2 DEF OneActor
  <1> QED
    BY <1>1, Inductive, PTL

\* While no setWebhook is in progress, webhook_db_ holds the webhook that the Client serves,
\* with its settings and the mark of its certificate.
THEOREM DatabaseIsRight == Spec => []DatabaseFollows
  <1>1. IInv => DatabaseFollows
    BY BundleFacts DEF IInv, Setters, SetterInv, SavedInv, DatabaseFollows
  <1> QED
    BY <1>1, Inductive, PTL
-----------------------------------------------------------------------------
(* Something is under way for every query that waits.                      *)

\* The old webhook is gone and the Client is about to know.
EndsSoon(b, M) == "unlink" \in b.jobs \/ \E m \in M : m[1] = "closed"

\* A certificate is copied for the query that waits for it; a webhook that is to be replaced
\* or is not there yet has not reported anything, under a generation that exists.
FreshInv(b, C) ==
  /\ b.wh.active_query # NoQuery => "copy" \in b.jobs /\ b.wh.generation \notin C
  /\ b.wh.set_query # NoQuery /\ ~b.wh.verify => b.wh.generation \notin C
  /\ \A g \in C : g \in Nat /\ g <= b.wh.generation

\* An actor is going to answer the query of webhook_set_query_, or ends first.
BusyInv(b, M, C) ==
  b.wh.set_query # NoQuery =>
    \/ EndsSoon(b, M)
    \/ \E g \in b.actors :
         IF b.wh.verify THEN g = b.wh.generation /\ (g \in C => <<"verified", g>> \in M)
         ELSE g \in b.dying

\* A webhook has an actor until its end is reported.
ServedInv(b, M, td) == td /\ b.wh.url # NoUrl => b.actors # {} \/ EndsSoon(b, M)

ComingInv(b, M, C, td) == FreshInv(b, C) /\ BusyInv(b, M, C) /\ ServedInv(b, M, td)

Coming == ComingInv(Bundle, mail, checked, cl.td)

\* Some of the queries in hand may be answered meanwhile.
LEMMA ComingAlike ==
  ASSUME NEW b, NEW c, NEW M, NEW C, NEW td, ComingInv(b, M, C, td),
         c.wh.url = b.wh.url, c.wh.verify = b.wh.verify, c.wh.generation = b.wh.generation,
         c.wh.set_query \in {b.wh.set_query, NoQuery},
         c.wh.active_query \in {b.wh.active_query, NoQuery},
         c.actors = b.actors, c.dying = b.dying, c.jobs = b.jobs
  PROVE  ComingInv(c, M, C, td)
  BY DEF ComingInv, FreshInv, BusyInv, ServedInv, EndsSoon

LEMMA AnswerComes ==
  ASSUME NEW b \in BundleType, NEW q \in Maybe, NEW a \in Answers, NEW M, NEW C, NEW td,
         ComingInv(b, M, C, td)
  PROVE  ComingInv(Answer(b, q, a), M, C, td)
  BY AnswerIs, ComingAlike

\* Without a webhook nothing is served.
LEMMA NoneComes ==
  ASSUME NEW b, NEW M, NEW C, NEW td, FreshInv(b, C), b.wh.url = NoUrl, b.wh.set_query = NoQuery
  PROVE  ComingInv(b, M, C, td)
  BY DEF ComingInv, BusyInv, ServedInv

LEMMA FinishComes ==
  ASSUME NEW b \in BundleType, NEW q \in AnyQuery, NEW M, NEW C, NEW cert \in BOOLEAN,
         args[q].url \in Url, args[q].settings \in AnySettings,
         FreshInv(b, C), b.wh.generation \notin C,
         b.wh.url = NoUrl, b.wh.set_query = NoQuery, b.wh.active_query = NoQuery
  PROVE  ComingInv(FinishSetWebhook([b EXCEPT !.wh.cert = cert], q), M, C, cl.td)
  <1> DEFINE d == [b EXCEPT !.wh.cert = cert]
             w == [d.wh EXCEPT !.url       = args[q].url,
                               !.settings  = args[q].settings,
                               !.id        = d.wh.generation,
                               !.verify    = TRUE,
                               !.set_query = q]
             c == [d EXCEPT !.wh.url       = args[q].url,
                            !.wh.settings  = args[q].settings,
                            !.wh.id        = d.wh.generation,
                            !.wh.verify    = TRUE,
                            !.wh.set_query = q,
                            !.actors       = @ \cup {d.wh.generation}]
  <1>1. b.wh \in Members /\ b.wh.generation \in Nat
    BY DEF BundleType, Members
  <1>2. /\ d \in BundleType /\ d.wh = [b.wh EXCEPT !.cert = cert]
        /\ d.actors = b.actors /\ d.dying = b.dying /\ d.jobs = b.jobs
    BY <1>1 DEF BundleType, Members
  <1>3. /\ d.wh.url = NoUrl /\ d.wh.set_query = NoQuery /\ d.wh.active_query = NoQuery
        /\ d.wh.generation = b.wh.generation /\ d.wh \in Members
    BY <1>1, <1>2 DEF Members
  <1>4. FinishSetWebhook(d, q) = IF ClosingNow THEN Answer(d, q, "closing") ELSE c
    BY DEF FinishSetWebhook
  <1> HIDE DEF d
  <1>5. CASE ClosingNow
    <2>1. ComingInv(d, M, C, cl.td)
      BY <1>2, <1>3, NoneComes DEF FreshInv
    <2>2. ComingInv(Answer(d, q, "closing"), M, C, cl.td)
      BY <1>2, <2>1, AnswerComes DEF Maybe, Answers
    <2> QED
      BY <1>4, <1>5, <2>2 DEF d
  <1>6. CASE ~ClosingNow
    <2>1. c = [d EXCEPT !.wh = w, !.actors = d.actors \cup {d.wh.generation}]
      BY <1>2 DEF BundleType
    <2>2. /\ w.url = args[q].url /\ w.generation = b.wh.generation /\ w.verify = TRUE
          /\ w.set_query = q /\ w.active_query = NoQuery
      BY <1>2, <1>3 DEF Members
    <2> HIDE DEF c, w
    <2>3. c.wh = w /\ c.actors = b.actors \cup {b.wh.generation} /\ c.jobs = b.jobs
      BY <1>2, <1>3, <2>1 DEF BundleType
    <2>4. ComingInv(c, M, C, cl.td)
      BY <2>2, <2>3 DEF ComingInv, FreshInv, BusyInv, ServedInv
    <2> QED
      BY <1>4, <1>6, <2>4 DEF d
  <1> QED
    BY <1>5, <1>6

\* The query is refused, or its certificate is being copied, or its actor begins.
LEMMA DoSetWebhookComes ==
  ASSUME args \in [AnyQuery -> Request],
         NEW b \in BundleType, NEW q \in AnyQuery, NEW M, NEW C,
         FreshInv(b, C), b.wh.generation \notin C, b.wh.url = NoUrl, b.wh.set_query = NoQuery
  PROVE  ComingInv(DoSetWebhook(b, q), M, C, cl.td)
  <1> DEFINE r == args[q]
  <1>1. b.wh \in Members /\ r \in Request
    BY DEF BundleType
  <1>2. ComingInv(b, M, C, cl.td)
    BY NoneComes
  <1>3. \A a \in Answers : ComingInv(Answer(b, q, a), M, C, cl.td)
    BY <1>2, AnswerComes DEF Maybe
  <1>4. CASE ClosingNow \/ r.url = NoUrl \/ ~r.valid \/ b.wh.active_query # NoQuery
    BY <1>3, <1>4 DEF DoSetWebhook, Answers
  <1>5. CASE ~(ClosingNow \/ r.url = NoUrl \/ ~r.valid \/ b.wh.active_query # NoQuery)
    <2>1. r.url \in Url /\ r.settings \in AnySettings /\ r.cert \in {"none", "new", "previous"}
      BY <1>1, <1>5 DEF Request, AnySettings
    <2>2. CASE r.cert = "new"
      <3> DEFINE w == [b.wh EXCEPT !.active_query = q]
                 c == CopyCertificate(b, q)
      <3>1. c.wh = w /\ c.actors = b.actors /\ c.jobs = b.jobs \cup {"copy"}
        BY <1>1 DEF CopyCertificate, BundleType
      <3>2. w.url = NoUrl /\ w.generation = b.wh.generation /\ w.set_query = NoQuery
        BY <1>1 DEF Members
      <3> HIDE DEF c, w
      <3>3. ComingInv(c, M, C, cl.td)
        BY <3>1, <3>2, NoneComes DEF FreshInv
      <3> QED
        BY <1>5, <2>2, <3>3 DEF DoSetWebhook, c
    <2>3. CASE r.cert # "new"
      <3> DEFINE cert == IF r.internal THEN r.cert = "previous" ELSE b.wh.cert
      <3>1. cert \in BOOLEAN
        BY <1>1 DEF Members
      <3>2. (IF r.internal THEN [b EXCEPT !.wh.cert = (r.cert = "previous")] ELSE b)
              = [b EXCEPT !.wh.cert = cert]
        BY <1>1 DEF BundleType, Members
      <3>3. DoSetWebhook(b, q) = FinishSetWebhook([b EXCEPT !.wh.cert = cert], q)
        BY <1>5, <2>3, <3>2 DEF DoSetWebhook
      <3> HIDE DEF cert
      <3> QED
        BY <1>5, <2>1, <3>1, <3>3, FinishComes
    <2> QED
      BY <2>2, <2>3
  <1> QED
    BY <1>4, <1>5

\* The query that waited for the old webhook goes on, with a generation nobody reported.
LEMMA OnWebhookClosedComes ==
  ASSUME args \in [AnyQuery -> Request], NEW b, NEW W, NEW M, NEW C,
         SetterInv(b, W, M), NoneLeft(b, M), FreshInv(b, C)
  PROVE  ComingInv(OnWebhookClosed(b), M, C, cl.td)
  <1> DEFINE q == b.wh.set_query
             c == ForgetWebhook(b)
  <1>1. /\ c \in BundleType /\ c.wh.url = NoUrl /\ (q # NoQuery => q \in AnyQuery)
    BY ForgetKeepsInv DEF SetterInv
  <1>2. b \in BundleType /\ b.wh \in Members
    BY DEF SetterInv, BundleType
  <1>3. /\ c.wh.set_query = NoQuery /\ c.wh.generation = b.wh.generation
        /\ c.wh.active_query = b.wh.active_query /\ c.jobs = b.jobs
    BY <1>2 DEF ForgetWebhook, BundleType, Members
  <1> HIDE DEF c
  <1>4. FreshInv(c, C) /\ ComingInv(c, M, C, cl.td)
    BY <1>1, <1>3, NoneComes DEF FreshInv
  <1>5. CASE q = NoQuery
    BY <1>4, <1>5 DEF OnWebhookClosed, c
  <1>6. CASE q # NoQuery /\ b.wh.verify
    <2>1. ComingInv(Answer(c, q, "bad"), M, C, cl.td)
      BY <1>1, <1>4, <1>6, AnswerComes DEF Maybe, Answers
    <2> QED
      BY <1>6, <2>1 DEF OnWebhookClosed, c
  <1>7. CASE q # NoQuery /\ ~b.wh.verify
    <2>1. c.wh.generation \notin C
      BY <1>3, <1>7 DEF FreshInv
    <2>2. ComingInv(DoSetWebhook(c, q), M, C, cl.td)
      BY <1>1, <1>3, <1>4, <1>7, <2>1, DoSetWebhookComes
    <2> QED
      BY <1>7, <2>2 DEF OnWebhookClosed, c
  <1> QED
    BY <1>5, <1>6, <1>7

\* The one that waited is answered; the new one waits for the old webhook to close, or for
\* what comes next.
LEMMA ProcessSetWebhookComes ==
  ASSUME args \in [AnyQuery -> Request], cl.td,
         NEW b0, NEW W, NEW M \in Mails, NEW C, NEW q \in AnyQuery, NEW changed \in BOOLEAN,
         SetterInv(b0, W, M), ComingInv(b0, M, C, cl.td)
  PROVE  ComingInv(ProcessSetWebhook(b0, q, changed), M, C, cl.td)
  <1> DEFINE r == args[q]
             e == Answer(b0, b0.wh.set_query, "conflict")
             b == [e EXCEPT !.wh.set_query = NoQuery]
             c == IF r.url = NoUrl THEN b ELSE AbortLongPoll(b)
             d == [c EXCEPT !.wh.generation = @ + 1]
             f == ReplaceWebhook(d, q)
  <1>1. /\ b0 \in BundleType /\ b0.wh \in Members /\ b0.wh.set_query \in Maybe
        /\ b0.wh.generation \in Nat \ {0} /\ "conflict" \in Answers
    BY DEF SetterInv, BundleType, Members, Answers
  <1>2. CASE b0.wh.set_query = NoQuery /\ b0.wh.active_query # NoQuery
    <2>1. ProcessSetWebhook(b0, q, changed) = Answer(b0, q, "retry")
      BY <1>2 DEF ProcessSetWebhook
    <2> QED
      BY <1>1, <2>1, AnswerComes DEF Maybe, Answers
  <1>3. CASE ~(b0.wh.set_query = NoQuery /\ b0.wh.active_query # NoQuery)
             /\ b0.wh.set_query = NoQuery /\ NotModified(b0, r)
    <2> DEFINE s == IF changed THEN SaveWebhook(b0) ELSE b0
    <2>1. ProcessSetWebhook(b0, q, changed) = Answer(s, q, "ok")
      BY <1>3 DEF ProcessSetWebhook
    <2>2. s \in BundleType /\ ComingInv(s, M, C, cl.td)
      <3>1. SaveWebhook(b0) \in BundleType
        BY SaveKeepsInv DEF SetterInv
      <3>2. /\ SaveWebhook(b0).wh = b0.wh /\ SaveWebhook(b0).actors = b0.actors
            /\ SaveWebhook(b0).dying = b0.dying /\ SaveWebhook(b0).jobs = b0.jobs
        BY <1>1 DEF SaveWebhook, BundleType
      <3> QED
        BY <1>1, <3>1, <3>2, ComingAlike
    <2> HIDE DEF s
    <2> QED
      BY <2>1, <2>2, AnswerComes DEF Maybe, Answers
  <1>4. CASE ~(b0.wh.set_query = NoQuery /\ b0.wh.active_query # NoQuery)
             /\ ~(b0.wh.set_query = NoQuery /\ NotModified(b0, r))
    <2>1. ProcessSetWebhook(b0, q, changed) = IF d.wh.url # NoUrl THEN f ELSE DoSetWebhook(d, q)
      BY <1>4 DEF ProcessSetWebhook
    <2>2. b0.wh.active_query = NoQuery
      BY <1>4 DEF SetterInv, ApartInv
    <2>3. /\ e \in BundleType /\ e.wh = b0.wh
          /\ e.actors = b0.actors /\ e.jobs = b0.jobs /\ e.dying = b0.dying
      BY <1>1, AnswerIs
    <2> HIDE DEF e
    <2>4. /\ b \in BundleType /\ b.wh = [b0.wh EXCEPT !.set_query = NoQuery]
          /\ b.actors = b0.actors /\ b.jobs = b0.jobs /\ b.dying = b0.dying
      BY <2>3 DEF BundleType, Members, Maybe
    <2>5. b.wh.long_poll \in Maybe /\ b.wh \in Members
      BY <2>4 DEF BundleType, Members
    <2> HIDE DEF b
    <2>6. /\ c \in BundleType
          /\ c.wh \in {b.wh, [b.wh EXCEPT !.long_poll = NoQuery]}
          /\ c.actors = b.actors /\ c.jobs = b.jobs /\ c.dying = b.dying
      <3> DEFINE a == Answer(b, b.wh.long_poll, "conflict")
      <3>1. /\ a \in BundleType /\ a.wh = b.wh
            /\ a.actors = b.actors /\ a.jobs = b.jobs /\ a.dying = b.dying
        BY <1>1, <2>4, <2>5, AnswerIs
      <3> HIDE DEF a
      <3> DEFINE l == [a EXCEPT !.wh.long_poll = NoQuery]
      <3>2. /\ l \in BundleType /\ l.wh = [b.wh EXCEPT !.long_poll = NoQuery]
            /\ l.actors = b.actors /\ l.jobs = b.jobs /\ l.dying = b.dying
        BY <3>1 DEF BundleType, Members, Maybe
      <3>3. AbortLongPoll(b) = l
        BY DEF AbortLongPoll, a
      <3> HIDE DEF l
      <3> QED
        BY <2>4, <3>2, <3>3
    <2>7. /\ c.wh \in Members /\ c.wh.generation = b0.wh.generation /\ c.wh.generation \in Nat
          /\ c.wh.url = b0.wh.url /\ c.wh.id = b0.wh.id
          /\ c.wh.set_query = NoQuery /\ c.wh.active_query = NoQuery
      <3>1. /\ b.wh.generation = b0.wh.generation /\ b.wh.url = b0.wh.url /\ b.wh.id = b0.wh.id
            /\ b.wh.set_query = NoQuery /\ b.wh.active_query = NoQuery
        BY <1>1, <2>2, <2>4 DEF Members
      <3>2. CASE c.wh = b.wh
        BY <1>1, <2>5, <3>1, <3>2
      <3>3. CASE c.wh = [b.wh EXCEPT !.long_poll = NoQuery]
        BY <1>1, <2>5, <3>1, <3>3 DEF Members, Maybe
      <3> QED
        BY <2>6, <3>2, <3>3
    <2> HIDE DEF c
    <2>8. /\ d \in BundleType /\ d.wh = [c.wh EXCEPT !.generation = @ + 1]
          /\ d.actors = b0.actors /\ d.jobs = b0.jobs /\ d.dying = b0.dying
      <3>1. [c.wh EXCEPT !.generation = @ + 1] \in Members
        BY <2>7 DEF Members
      <3>2. d = [c EXCEPT !.wh = [c.wh EXCEPT !.generation = @ + 1]]
        BY <2>6 DEF BundleType
      <3> QED
        BY <2>4, <2>6, <3>1, <3>2 DEF BundleType
    <2>9. /\ d.wh.url = b0.wh.url /\ d.wh.id = b0.wh.id /\ d.wh.set_query = NoQuery
          /\ d.wh.active_query = NoQuery /\ d.wh.generation = b0.wh.generation + 1
      BY <2>7, <2>8 DEF Members
    <2> HIDE DEF d
    <2>10. FreshInv(d, C) /\ d.wh.generation \notin C
      BY <1>1, <2>9 DEF ComingInv, FreshInv
    <2>11. CASE d.wh.url = NoUrl
      <3>1. ComingInv(DoSetWebhook(d, q), M, C, cl.td)
        BY <2>8, <2>9, <2>10, <2>11, DoSetWebhookComes
      <3> QED
        BY <2>1, <2>11, <3>1
    <2>12. CASE d.wh.url # NoUrl
      <3>1. /\ f.wh = [d.wh EXCEPT !.id = 0, !.verify = FALSE, !.set_query = q]
            /\ f.dying = d.dying \cup ({d.wh.id} \cap d.actors)
            /\ f.actors = d.actors /\ f.jobs = d.jobs
        BY <2>8 DEF ReplaceWebhook, BundleType, Members
      <3>2. /\ f.wh.verify = FALSE /\ f.wh.active_query = NoQuery
            /\ f.wh.generation = d.wh.generation
        BY <2>8, <2>9, <3>1 DEF BundleType, Members
      <3> HIDE DEF f
      <3>3. FreshInv(f, C)
        BY <2>10, <3>2 DEF FreshInv
      <3>4. b0.actors # {} \/ EndsSoon(b0, M)
        BY <2>9, <2>12 DEF ComingInv, ServedInv
      <3>5. b0.actors \subseteq f.dying
        BY <2>8, <2>9, <3>1 DEF SetterInv, ActorInv
      <3>6. BusyInv(f, M, C) /\ ServedInv(f, M, cl.td)
        BY <2>8, <3>1, <3>2, <3>4, <3>5 DEF BusyInv, ServedInv, EndsSoon
      <3> QED
        BY <2>1, <2>12, <3>3, <3>6 DEF ComingInv
    <2> QED
      BY <2>11, <2>12
  <1> QED
    BY <1>2, <1>3, <1>4

\* A long poll may wait now.
LEMMA ProcessGetUpdatesComes ==
  ASSUME NEW b \in BundleType, NEW q \in AnyQuery, NEW found \in BOOLEAN, NEW M, NEW C, NEW td,
         ComingInv(b, M, C, td)
  PROVE  ComingInv(ProcessGetUpdates(b, q, found), M, C, td)
  <1>1. \A a \in Answers : ComingInv(Answer(b, q, a), M, C, td)
    BY AnswerComes DEF Maybe
  <1> DEFINE a == Answer(b, b.wh.long_poll, "conflict")
             l == [a EXCEPT !.wh.long_poll = NoQuery]
             c == [l EXCEPT !.wh.long_poll = q]
  <1>2. /\ a \in BundleType /\ a.wh = b.wh
        /\ a.actors = b.actors /\ a.jobs = b.jobs /\ a.dying = b.dying
    <2>1. b.wh.long_poll \in Maybe /\ "conflict" \in Answers
      BY DEF BundleType, Members, Answers
    <2> QED
      BY <2>1, AnswerIs
  <1> HIDE DEF a
  <1>3. /\ c.wh = [b.wh EXCEPT !.long_poll = q]
        /\ c.actors = b.actors /\ c.jobs = b.jobs /\ c.dying = b.dying
    BY <1>2 DEF BundleType, Members
  <1>4. /\ c.wh.url = b.wh.url /\ c.wh.verify = b.wh.verify /\ c.wh.generation = b.wh.generation
        /\ c.wh.set_query = b.wh.set_query /\ c.wh.active_query = b.wh.active_query
    <2> HIDE DEF c
    <2>1. b.wh \in Members
      BY DEF BundleType
    <2> QED
      BY <1>3, <2>1 DEF Members
  <1>5. AbortLongPoll(b) = l
    BY DEF AbortLongPoll, a
  <1> HIDE DEF l
  <1>6. ProcessGetUpdates(b, q, found) \in {Answer(b, q, "conflict"), Answer(b, q, "ok"), c}
    BY <1>5 DEF ProcessGetUpdates, DoGetUpdates
  <1> HIDE DEF c
  <1>7. ComingInv(c, M, C, td)
    BY <1>3, <1>4, ComingAlike
  <1> QED
    BY <1>1, <1>6, <1>7 DEF Answers
-----------------------------------------------------------------------------

\* What a bundle has becomes true of the members.
LEMMA ComingBecome ==
  ASSUME NEW b, Become(b), ComingInv(b, mail', checked', cl'.td)
  PROVE  Coming'
  BY DEF Become, Coming, Bundle, ComingInv, FreshInv, BusyInv, ServedInv, EndsSoon

\* A Client without a webhook, new or gone
LEMMA ComingReset ==
  ASSUME wh' = NoWebhook, checked' = {}
  PROVE  Coming'
  BY DEF Coming, ComingInv, FreshInv, BusyInv, ServedInv, EndsSoon, NoWebhook, Bundle

LEMMA ComingLife ==
  ASSUME Coming, UNCHANGED <<wh, actors, dying, jobs, mail, checked>>, cl'.td => cl.td \/ wh.url = NoUrl
  PROVE  Coming'
  BY DEF Coming, ComingInv, FreshInv, BusyInv, ServedInv, EndsSoon, Bundle

LEMMA OnCmdComes ==
  ASSUME IInv, Coming, NEW q \in AnyQuery, NEW throttled \in BOOLEAN, NEW changed \in BOOLEAN,
         NEW found \in BOOLEAN, OnCmd(q, throttled, changed, found)
  PROVE  Coming'
  <1>1. /\ cl.up /\ mail' = mail /\ checked' = checked /\ mail \in Mails
        /\ args \in [AnyQuery -> Request] /\ cl'.td = cl.td
        /\ Bundle \in BundleType /\ SetterInv(Bundle, Queued \cup cl.td_queries, mail)
    BY BundleFacts DEF OnCmd, Ready, Rest, IInv, TypeInv, Setters
  <1>2. ComingInv(Bundle, mail, checked, cl.td)
    BY DEF Coming
  <1>3. \A a \in Answers : ComingInv(Answer(Bundle, q, a), mail, checked, cl.td)
    BY <1>1, <1>2, AnswerComes DEF Maybe
  <1>4. CASE \E a \in Answers : Become(Answer(Bundle, q, a))
    BY <1>1, <1>3, <1>4, ComingBecome
  <1>5. CASE Become(Bundle)
    BY <1>1, <1>2, <1>5, ComingBecome
  <1>6. CASE ~ClosingNow /\ Become(ProcessSetWebhook(Bundle, q, changed))
    <2>1. cl.td
      BY <1>1, <1>6 DEF IInv, LifeInv
    <2>2. ComingInv(ProcessSetWebhook(Bundle, q, changed), mail, checked, cl.td)
      BY <1>1, <1>2, <2>1, ProcessSetWebhookComes
    <2> QED
      BY <1>1, <1>6, <2>2, ComingBecome
  <1>7. CASE Become(ProcessGetUpdates(Bundle, q, found))
    <2>1. ComingInv(ProcessGetUpdates(Bundle, q, found), mail, checked, cl.td)
      BY <1>1, <1>2, ProcessGetUpdatesComes
    <2> QED
      BY <1>1, <1>7, <2>1, ComingBecome
  <1>8. "retry" \in Answers /\ "closing" \in Answers
    BY DEF Answers
  <1> QED
    BY <1>4, <1>5, <1>6, <1>7, <1>8 DEF OnCmd

\* A report of this webhook answers its query; that of an older one is of no use to anybody.
LEMMA VerifiedComes ==
  ASSUME IInv, Coming, NEW g, NEW ip_changed \in BOOLEAN, WebhookVerified(g, ip_changed)
  PROVE  Coming'
  <1> DEFINE e == Answer(Bundle, wh.set_query, "ok")
             b == [e EXCEPT !.wh.set_query = NoQuery]
  <1>1. /\ mail' = mail \ {<<"verified", g>>} /\ checked' = checked /\ cl' = cl
        /\ Bundle \in BundleType /\ Bundle.wh = wh /\ wh \in Members
        /\ wh.set_query \in Maybe /\ "ok" \in Answers
    BY BundleFacts DEF WebhookVerified, Rest, IInv, Members, Answers
  <1>2. ComingInv(Bundle, mail, checked, cl.td)
    BY DEF Coming
  <1>3. \A m \in mail : m[1] = "closed" => m \in mail'
    BY <1>1
  <1>4. CASE g # wh.generation
    <2>1. ComingInv(Bundle, mail', checked, cl.td)
      BY <1>1, <1>2, <1>3, <1>4 DEF ComingInv, BusyInv, ServedInv, EndsSoon
    <2>2. Become(Bundle)
      BY <1>4 DEF WebhookVerified
    <2> QED
      BY <1>1, <2>1, <2>2, ComingBecome
  <1>5. CASE g = wh.generation
    <2>1. Become(b) \/ Become(SaveWebhook(b))
      BY <1>5 DEF WebhookVerified
    <2>2. /\ e \in BundleType /\ e.wh = wh
          /\ e.actors = Bundle.actors /\ e.jobs = Bundle.jobs /\ e.dying = Bundle.dying
      BY <1>1, AnswerIs
    <2> HIDE DEF e
    <2>3. /\ b \in BundleType /\ b.wh = [wh EXCEPT !.set_query = NoQuery]
          /\ b.actors = Bundle.actors /\ b.jobs = Bundle.jobs /\ b.dying = Bundle.dying
      BY <2>2 DEF BundleType, Members, Maybe
    <2>4. /\ b.wh.url = wh.url /\ b.wh.verify = wh.verify /\ b.wh.generation = wh.generation
          /\ b.wh.set_query = NoQuery /\ b.wh.active_query = wh.active_query
      BY <1>1, <2>3 DEF Members
    <2> HIDE DEF b
    <2>5. ComingInv(b, mail', checked, cl.td)
      BY <1>1, <1>2, <1>3, <2>3, <2>4 DEF ComingInv, FreshInv, BusyInv, ServedInv, EndsSoon
    <2>6. /\ SaveWebhook(b).wh = b.wh /\ SaveWebhook(b).actors = b.actors
          /\ SaveWebhook(b).dying = b.dying /\ SaveWebhook(b).jobs = b.jobs
      BY <2>3 DEF SaveWebhook, BundleType
    <2>7. ComingInv(SaveWebhook(b), mail', checked, cl.td)
      BY <2>5, <2>6, ComingAlike
    <2> QED
      BY <1>1, <2>1, <2>5, <2>7, ComingBecome
  <1> QED
    BY <1>4, <1>5

LEMMA ClosedComes ==
  ASSUME IInv, Coming, NEW g \in Nat, WebhookClosed(g)
  PROVE  Coming'
  <1> DEFINE W == Queued \cup cl.td_queries
             c == [Bundle EXCEPT !.jobs = @ \cup {"unlink"}]
  <1>1. /\ UNCHANGED <<cl, args, checked>> /\ <<"closed", g>> \in mail
        /\ mail' = mail \ {<<"closed", g>>} /\ mail' \subseteq mail
        /\ Become(IF wh.cert THEN c ELSE OnWebhookClosed(Bundle))
    BY DEF WebhookClosed, Rest
  <1>2. /\ SetterInv(Bundle, W, mail) /\ args \in [AnyQuery -> Request]
        /\ Bundle \in BundleType /\ FreshInv(Bundle, checked)
    BY BundleFacts DEF IInv, Setters, TypeInv, Coming, ComingInv
  <1>3. SetterInv(Bundle, W, mail') /\ NoneLeft(Bundle, mail')
    <2>1. SetterInv(Bundle, W, mail')
      BY <1>1, <1>2, FewerMailsKeepInv
    <2> QED
      BY <1>1, <1>2, <2>1 DEF SetterInv, SuccessionInv, NoneLeft
  <1>4. CASE wh.cert
    <2>1. c.wh = Bundle.wh /\ c.jobs = Bundle.jobs \cup {"unlink"}
      BY <1>2 DEF BundleType
    <2> HIDE DEF c
    <2>2. ComingInv(c, mail', checked, cl.td)
      BY <1>2, <2>1 DEF ComingInv, FreshInv, BusyInv, ServedInv, EndsSoon
    <2> QED
      BY <1>1, <1>4, <2>2, ComingBecome
  <1>5. CASE ~wh.cert
    <2>1. ComingInv(OnWebhookClosed(Bundle), mail', checked, cl.td)
      BY <1>2, <1>3, OnWebhookClosedComes
    <2> QED
      BY <1>1, <1>5, <2>1, ComingBecome
  <1> QED
    BY <1>4, <1>5

LEMMA UnlinkedComes ==
  ASSUME IInv, Coming, CertificateUnlinked
  PROVE  Coming'
  <1> DEFINE W == Queued \cup cl.td_queries
             b == [Bundle EXCEPT !.jobs = @ \ {"unlink"}]
  <1>1. /\ UNCHANGED <<cl, args, mail, checked>> /\ "unlink" \in jobs
        /\ Become(OnWebhookClosed(b))
    BY DEF CertificateUnlinked, Rest
  <1>2. /\ SetterInv(Bundle, W, mail) /\ args \in [AnyQuery -> Request]
        /\ FreshInv(Bundle, checked)
    BY DEF IInv, Setters, TypeInv, Coming, ComingInv
  <1>3. /\ SetterInv(b, W, mail) /\ b.wh = Bundle.wh /\ b.actors = Bundle.actors
        /\ b.jobs = Bundle.jobs \ {"unlink"}
    BY <1>2, FewerJobsKeepInv
  <1>4. NoneLeft(b, mail)
    BY <1>1, <1>2, <1>3, BundleFacts DEF IInv, SetterInv, SuccessionInv, NoneLeft
  <1> HIDE DEF b
  <1>5. FreshInv(b, checked)
    BY <1>2, <1>3 DEF FreshInv
  <1>6. ComingInv(OnWebhookClosed(b), mail, checked, cl.td)
    BY <1>2, <1>3, <1>4, <1>5, OnWebhookClosedComes
  <1> QED
    BY <1>1, <1>6, ComingBecome

\* The query of the certificate gets its actor.
LEMMA CopiedComes ==
  ASSUME IInv, Coming, NEW ok \in BOOLEAN, OnWebhookCertificateCopied(ok)
  PROVE  Coming'
  <1> DEFINE q == wh.active_query
             b == [Bundle EXCEPT !.jobs = @ \ {"copy"}, !.wh.active_query = NoQuery]
             c == [b EXCEPT !.wh.cert = TRUE]
  <1>1. CASE q = NoQuery
    BY <1>1, ComingReset DEF OnWebhookCertificateCopied, Restart
  <1>2. CASE q # NoQuery
    <2>1. /\ UNCHANGED <<cl, args, mail, checked>>
          /\ Become(IF ok THEN FinishSetWebhook(c, q) ELSE Answer(b, q, "bad"))
      BY <1>2 DEF OnWebhookCertificateCopied, Rest
    <2>2. /\ Bundle \in BundleType /\ Bundle.wh = wh /\ wh \in Members
          /\ SetterInv(Bundle, Queued \cup cl.td_queries, mail)
          /\ args \in [AnyQuery -> Request] /\ "bad" \in Answers
      BY BundleFacts DEF IInv, Setters, TypeInv, Answers
    <2>3. /\ q \in AnyQuery /\ wh.url = NoUrl /\ wh.set_query = NoQuery
          /\ args[q].url \in Url /\ args[q].settings \in AnySettings
      <3>1. q \in AnyQuery /\ args[q].url # NoUrl /\ args[q] \in Request
        BY <1>2, <2>2 DEF SetterInv, QueryInv, Members, Maybe
      <3> QED
        BY <1>2, <2>2, <3>1 DEF SetterInv, ApartInv, Request, AnySettings
    <2>4. FreshInv(Bundle, checked) /\ wh.generation \notin checked
      BY <1>2, <2>2 DEF Coming, ComingInv, FreshInv
    <2>5. /\ b \in BundleType /\ b.wh = [wh EXCEPT !.active_query = NoQuery]
      <3>1. [wh EXCEPT !.active_query = NoQuery] \in Members
        BY <2>2 DEF Members, Maybe
      <3>2. b = [Bundle EXCEPT !.jobs = Bundle.jobs \ {"copy"},
                               !.wh = [wh EXCEPT !.active_query = NoQuery]]
        BY <2>2 DEF BundleType
      <3> QED
        BY <2>2, <3>1, <3>2 DEF BundleType
    <2> HIDE DEF b
    <2>6. /\ b.wh.url = NoUrl /\ b.wh.set_query = NoQuery /\ b.wh.active_query = NoQuery
          /\ b.wh.generation = wh.generation
      BY <2>2, <2>3, <2>5 DEF Members
    <2>7. FreshInv(b, checked) /\ b.wh.generation \notin checked
      BY <2>2, <2>4, <2>6 DEF FreshInv
    <2>8. CASE ok
      <3>1. ComingInv(FinishSetWebhook(c, q), mail, checked, cl.td)
        BY <2>3, <2>5, <2>6, <2>7, FinishComes
      <3> QED
        BY <2>1, <2>8, <3>1, ComingBecome
    <2>9. CASE ~ok
      <3>1. ComingInv(b, mail, checked, cl.td)
        BY <2>6, <2>7, NoneComes
      <3>2. ComingInv(Answer(b, q, "bad"), mail, checked, cl.td)
        BY <2>2, <2>3, <2>5, <3>1, AnswerComes DEF Maybe
      <3> QED
        BY <2>1, <2>9, <3>2, ComingBecome
    <2> QED
      BY <2>8, <2>9
  <1> QED
    BY <1>1, <1>2

LEMMA WakeupComes ==
  ASSUME IInv, Coming, LongPollWakeup
  PROVE  Coming'
  <1> DEFINE e == Answer(Bundle, wh.long_poll, "ok")
             c == [e EXCEPT !.wh.long_poll = NoQuery]
  <1>1. /\ UNCHANGED <<cl, mail, checked>> /\ Become(c)
        /\ Bundle \in BundleType /\ Bundle.wh = wh /\ wh \in Members
        /\ wh.long_poll \in Maybe /\ "ok" \in Answers
    BY BundleFacts DEF LongPollWakeup, Rest, IInv, Members, Answers
  <1>2. /\ e \in BundleType /\ e.wh = wh
        /\ e.actors = Bundle.actors /\ e.jobs = Bundle.jobs /\ e.dying = Bundle.dying
    BY <1>1, AnswerIs
  <1> HIDE DEF e
  <1>3. /\ c.wh = [wh EXCEPT !.long_poll = NoQuery]
        /\ c.actors = Bundle.actors /\ c.jobs = Bundle.jobs /\ c.dying = Bundle.dying
    BY <1>2 DEF BundleType
  <1>4. /\ c.wh.url = wh.url /\ c.wh.verify = wh.verify /\ c.wh.generation = wh.generation
        /\ c.wh.set_query = wh.set_query /\ c.wh.active_query = wh.active_query
    BY <1>1, <1>3 DEF Members
  <1> HIDE DEF c
  <1>5. ComingInv(c, mail, checked, cl.td)
    BY <1>1, <1>3, <1>4, ComingAlike DEF Coming
  <1> QED
    BY <1>1, <1>5, ComingBecome

\* on_closed answers whom it holds; then nothing needs to come.
LEMMA OnClosedComes ==
  ASSUME IInv, Coming, OnClosed
  PROVE  Coming'
  <1> DEFINE e == EndWebhook(Bundle)
             f == [e EXCEPT !.db = NoEntry, !.jobs = @ \cup {"remove"}]
  <1>1. /\ Bundle \in BundleType /\ Bundle.wh = wh
        /\ SetterInv(Bundle, Queued \cup cl.td_queries, mail)
    BY BundleFacts DEF IInv, Setters
  <1>2. e \in BundleType /\ InHand(e.wh) = {}
    BY <1>1, EndKeepsInv DEF EndedInv
  <1>3. e.wh.set_query = NoQuery /\ e.wh.active_query = NoQuery
    BY <1>2 DEF InHand
  <1>4. e.wh.generation = wh.generation
    BY <1>1, EndKeepsInv
  <1> HIDE DEF e
  <1>5. \A g \in checked : g \in Nat /\ g <= wh.generation
    BY <1>1 DEF Coming, ComingInv, FreshInv
  <1>6. ComingInv(e, mail, checked, FALSE)
    BY <1>3, <1>4, <1>5 DEF ComingInv, FreshInv, BusyInv, ServedInv
  <1>7. CASE cl.logging_out
    <2>1. f.wh = e.wh
      BY <1>2 DEF BundleType
    <2>2. Become(f) /\ UNCHANGED <<mail, checked>> /\ cl'.td = FALSE
      BY <1>7 DEF OnClosed, e, IInv, TypeInv
    <2> HIDE DEF f
    <2>3. ComingInv(f, mail, checked, FALSE)
      BY <1>3, <1>4, <1>5, <2>1 DEF ComingInv, FreshInv, BusyInv, ServedInv
    <2> QED
      BY <2>2, <2>3, ComingBecome
  <1>8. CASE ~cl.logging_out /\ cl.need_close
    BY <1>8, ComingReset DEF OnClosed
  <1>9. CASE ~cl.logging_out /\ ~cl.need_close
    <2>1. Become(e) /\ UNCHANGED <<mail, checked>> /\ cl'.td = FALSE
      BY <1>9 DEF OnClosed, e, IInv, TypeInv
    <2> QED
      BY <1>6, <2>1, ComingBecome
  <1> QED
    BY <1>7, <1>8, <1>9

LEMMA FinishClosingComes ==
  ASSUME IInv, Coming, FinishClosing
  PROVE  Coming'
  <1>1. CASE cl.need_close
    BY <1>1, ComingReset DEF FinishClosing, StopClient
  <1>2. CASE ~cl.need_close
    <2>1. /\ jobs' = jobs \ {"remove"} /\ cl'.td = cl.td
          /\ UNCHANGED <<wh, actors, dying, mail, checked>>
      BY <1>2 DEF FinishClosing, Rest, IInv, TypeInv
    <2> QED
      BY <2>1 DEF Coming, ComingInv, FreshInv, BusyInv, ServedInv, EndsSoon, Bundle
  <1> QED
    BY <1>1, <1>2

\* An actor that reported is heard before it is asked for anything else.
LEMMA ActorVerifiedComes ==
  ASSUME IInv, Coming, NEW g \in actors, ActorVerified(g)
  PROVE  Coming'
  <1>1. /\ UNCHANGED <<cl, wh, actors, dying, jobs>>
        /\ mail' = mail \cup {<<"verified", g>>} /\ checked' = checked \cup {g}
    BY DEF ActorVerified
  <1>2. /\ Bundle.wh = wh /\ Bundle.actors = actors /\ Bundle.jobs = jobs /\ Bundle.dying = dying
        /\ Bundle \in BundleType
    BY BundleFacts DEF IInv
  <1>3. /\ g \in Nat /\ g <= wh.generation /\ wh.url # NoUrl
        /\ (wh.set_query # NoQuery /\ ~wh.verify => g < wh.generation)
        /\ wh.active_query = NoQuery /\ wh.generation \in Nat
    BY <1>2 DEF IInv, Setters, SetterInv, ActorInv, SuccessionInv, ApartInv, BundleType, Members
  <1>4. Bundle' = Bundle
    BY <1>1, <1>2 DEF Bundle, ActorVerified
  <1>5. FreshInv(Bundle, checked')
    BY <1>1, <1>2, <1>3 DEF Coming, ComingInv, FreshInv
  <1>6. BusyInv(Bundle, mail', checked')
    BY <1>1, <1>2, <1>3 DEF Coming, ComingInv, BusyInv, EndsSoon
  <1>7. ServedInv(Bundle, mail', cl.td)
    BY <1>1, <1>2 DEF Coming, ComingInv, ServedInv, EndsSoon
  <1> QED
    BY <1>1, <1>4, <1>5, <1>6, <1>7 DEF Coming, ComingInv

LEMMA ActorClosedComes ==
  ASSUME IInv, Coming, NEW g \in actors, ActorClosed(g)
  PROVE  Coming'
  <1> DEFINE b == [Bundle EXCEPT !.actors = actors \ {g}, !.dying = dying \ {g}]
  <1>1. /\ UNCHANGED <<cl, checked>> /\ mail' = mail \cup {<<"closed", g>>}
        /\ Become(b)
    BY DEF ActorClosed, Become, Bundle
  <1>2. b.wh = Bundle.wh /\ b.jobs = Bundle.jobs
    BY DEF Bundle
  <1> HIDE DEF b
  <1>3. EndsSoon(b, mail')
    <2>1. <<"closed", g>>[1] = "closed" /\ <<"closed", g>> \in mail'
      BY <1>1
    <2> QED
      BY <2>1 DEF EndsSoon
  <1>4. ComingInv(b, mail', checked', cl'.td)
    BY <1>1, <1>2, <1>3 DEF Coming, ComingInv, FreshInv, BusyInv, ServedInv
  <1> QED
    BY <1>1, <1>4, ComingBecome

LEMMA NextComes ==
  ASSUME IInv, Coming, [Next]_vars
  PROVE  Coming'
  <1>1. ASSUME NEW q \in Query, NEW r \in Requests, Receive(q, r) PROVE Coming'
    <2>1. UNCHANGED <<wh, actors, dying, jobs, mail, checked>> /\ (cl.up => cl' = cl)
      BY <1>1 DEF Receive
    <2>2. ~cl.up => wh.url = NoUrl
      BY DEF IInv, LifeInv, NoWebhook
    <2> QED
      BY <2>1, <2>2, ComingLife
  <1>2. CASE Restart
    BY <1>2, ComingReset DEF Restart
  <1>3. ASSUME NEW q \in AnyQuery, NEW throttled \in BOOLEAN, NEW changed \in BOOLEAN,
               NEW found \in BOOLEAN, OnCmd(q, throttled, changed, found)
        PROVE  Coming'
    BY <1>3, OnCmdComes
  <1>4. ASSUME NEW g, NEW ip_changed \in BOOLEAN, WebhookVerified(g, ip_changed) PROVE Coming'
    BY <1>4, VerifiedComes
  <1>5. ASSUME NEW g, WebhookClosed(g) PROVE Coming'
    <2>1. g \in Nat
      BY <1>5 DEF WebhookClosed, IInv, TypeInv, Mails
    <2> QED
      BY <1>5, <2>1, ClosedComes
  <1>6. CASE CertificateUnlinked
    BY <1>6, UnlinkedComes
  <1>7. ASSUME NEW ok \in BOOLEAN, OnWebhookCertificateCopied(ok) PROVE Coming'
    BY <1>7, CopiedComes
  <1>8. CASE LongPollWakeup
    BY <1>8, WakeupComes
  <1>9. CASE AuthorizationReady \/ LoggingOut \/ Closing \/ InitFailed \/ ShutDown
    <2>1. UNCHANGED <<wh, actors, dying, jobs, mail, checked>> /\ cl'.td = cl.td
      BY <1>9 DEF AuthorizationReady, LoggingOut, Closing, InitFailed, ShutDown, Close, Rest,
                  IInv, TypeInv
    <2> QED
      BY <2>1, ComingLife
  <1>10. ASSUME NEW q \in Query, NEW a \in {"ok", "bad"}, TdAnswers(q, a) PROVE Coming'
    <2>1. UNCHANGED <<wh, actors, dying, jobs, mail, checked>> /\ cl'.td = cl.td
      BY <1>10 DEF TdAnswers, Rest, IInv, TypeInv
    <2> QED
      BY <2>1, ComingLife
  <1>11. CASE OnClosed
    BY <1>11, OnClosedComes
  <1>12. CASE FinishClosing
    BY <1>12, FinishClosingComes
  <1>13. CASE TimeoutExpired
    BY <1>13, ComingReset DEF TimeoutExpired, StopClient
  <1>14. ASSUME NEW g \in actors, ActorVerified(g) \/ ActorClosed(g) PROVE Coming'
    BY <1>14, ActorVerifiedComes, ActorClosedComes
  <1>15. CASE UNCHANGED vars
    BY <1>15, ComingLife DEF vars
  <1> QED
    BY <1>1, <1>2, <1>3, <1>4, <1>5, <1>6, <1>7, <1>8, <1>9, <1>10, <1>11, <1>12, <1>13, <1>14,
       <1>15 DEF Next

LEMMA AlwaysComing == Spec => []Coming
  <1>1. Init => Coming
    BY DEF Init, Coming, ComingInv, FreshInv, BusyInv, ServedInv, NoWebhook, Bundle
  <1>2. IInv /\ Coming /\ [Next]_vars => Coming'
    BY NextComes
  <1> QED
    BY <1>1, <1>2, Inductive, PTL DEF Spec

\* A query waits as long as exactly one place holds it, so it is answered at most once and
\* never forgotten; and a setWebhook never waits for something that is not going to happen:
\* copies of certificates, reports of actors and their ends are under way as long as anybody
\* needs them.
THEOREM EveryQueryIsHeld == Spec => []QueriesHeld
  <1>1. ASSUME IInv, Coming PROVE QueriesHeld
    <2>1. /\ Setters
          /\ \A i, j \in DOMAIN queue : queue[i] = queue[j] => i = j
      BY <1>1 DEF IInv, QueueInv
    <2>2. ASSUME NEW q \in AnyQuery
          PROVE  /\ answer[q] = "waiting" <=>
                      \/ \E i \in DOMAIN queue : queue[i] = q
                      \/ q \in {wh.set_query, wh.active_query, wh.long_poll} \cup cl.td_queries
                 /\ \A i, j \in DOMAIN queue : queue[i] = q /\ queue[j] = q => i = j
      <3>1. answer[q] = "waiting" <=> q \in Queued \cup cl.td_queries \cup InHand(wh)
        BY <2>1, BundleFacts
      <3>2. q \in Queued <=> \E i \in DOMAIN queue : queue[i] = q
        BY DEF Queued
      <3> QED
        BY <2>1, <3>1, <3>2, Apart DEF InHand
    <2>3. AnswerComing
      <3>1. /\ Bundle.wh = wh /\ Bundle.actors = actors /\ Bundle.dying = dying
            /\ Bundle.jobs = jobs
        BY DEF Bundle
      <3> QED
        BY <1>1, <3>1 DEF Coming, ComingInv, FreshInv, BusyInv, EndsSoon, AnswerComing
    <2> QED
      BY <2>2, <2>3 DEF QueriesHeld
  <1> QED
    BY <1>1, Inductive, AlwaysComing, PTL

-----------------------------------------------------------------------------
(* Which steps answer a setWebhook query with "ok".                        *)

\* The query is not one that sets a webhook.
SetsNothing(q) == args[q].kind # "setwebhook" \/ args[q].url = NoUrl

\* From one bundle to another, only queries of that kind become "ok".
Quiet(f, g) == \A q \in AnyQuery : f[q] # "ok" /\ g[q] = "ok" => SetsNothing(q)

IsBundle(b) ==
  /\ b = [wh |-> b.wh, db |-> b.db, answer |-> b.answer, actors |-> b.actors,
          dying |-> b.dying, jobs |-> b.jobs]
  /\ b.answer \in [AnyQuery -> Answers]

QuietStep(b, c) == IsBundle(c) /\ Quiet(b.answer, c.answer)

LEMMA QuietSteps ==
  ASSUME NEW b, NEW c, NEW d, QuietStep(b, c), QuietStep(c, d)
  PROVE  QuietStep(b, d)
  BY DEF QuietStep, Quiet

LEMMA AnswerQuiet ==
  ASSUME NEW b, IsBundle(b), NEW q, NEW a \in Answers,
         a = "ok" /\ q # NoQuery => SetsNothing(q)
  PROVE  QuietStep(b, Answer(b, q, a))
  <1>1. CASE q = NoQuery
    BY <1>1 DEF Answer, QuietStep, Quiet
  <1>2. CASE q # NoQuery
    <2> DEFINE f == [b.answer EXCEPT ![q] = a]
               c == [b EXCEPT !.answer = f]
    <2>1. Answer(b, q, a) = c
      BY <1>2 DEF Answer, IsBundle
    <2>2. f \in [AnyQuery -> Answers] /\ Quiet(b.answer, f)
      BY <1>2 DEF IsBundle, Quiet
    <2> HIDE DEF f
    <2>3. IsBundle(c) /\ c.answer = f
      BY <2>2 DEF IsBundle
    <2> QED
      BY <2>1, <2>2, <2>3 DEF QuietStep
  <1> QED
    BY <1>1, <1>2

\* A change of the other members
LEMMA OthersQuiet ==
  ASSUME NEW b, IsBundle(b), NEW w, NEW entry, NEW A, NEW D, NEW J, NEW c,
         c = [wh |-> w, db |-> entry, answer |-> b.answer, actors |-> A, dying |-> D, jobs |-> J]
  PROVE  QuietStep(b, c)
  BY DEF IsBundle, QuietStep, Quiet

LEMMA MemberQuiet ==
  ASSUME NEW b, IsBundle(b), NEW w
  PROVE  QuietStep(b, [b EXCEPT !.wh = w])
  BY OthersQuiet DEF IsBundle

LEMMA DoSetWebhookQuiet ==
  ASSUME NEW b, IsBundle(b), NEW q
  PROVE  QuietStep(b, DoSetWebhook(b, q))
  <1> DEFINE r == args[q]
  <1>1. \A a \in Answers \ {"ok"} : QuietStep(b, Answer(b, q, a))
    BY AnswerQuiet
  <1>2. CASE ClosingNow \/ (r.url # NoUrl /\ (~r.valid \/ b.wh.active_query # NoQuery))
    BY <1>1, <1>2 DEF DoSetWebhook, Answers
  <1>3. CASE ~ClosingNow /\ r.url = NoUrl
    BY <1>3, AnswerQuiet DEF DoSetWebhook, Answers, SetsNothing
  <1>4. CASE ~ClosingNow /\ r.url # NoUrl /\ r.valid /\ b.wh.active_query = NoQuery
    <2>1. CASE r.cert = "new"
      <3>1. DoSetWebhook(b, q) = CopyCertificate(b, q)
        BY <1>4, <2>1 DEF DoSetWebhook
      <3> QED
        BY <3>1, OthersQuiet DEF CopyCertificate, IsBundle
    <2>2. CASE r.cert # "new"
      <3> DEFINE c == IF r.internal THEN [b EXCEPT !.wh.cert = (r.cert = "previous")] ELSE b
      <3>1. DoSetWebhook(b, q) = FinishSetWebhook(c, q)
        BY <1>4, <2>2 DEF DoSetWebhook
      <3>2. QuietStep(b, c)
        BY OthersQuiet DEF IsBundle
      <3> HIDE DEF c
      <3>3. QuietStep(c, FinishSetWebhook(c, q))
        BY <1>4, <3>2, OthersQuiet DEF FinishSetWebhook, QuietStep, IsBundle
      <3> QED
        BY <3>1, <3>2, <3>3, QuietSteps
    <2> QED
      BY <2>1, <2>2
  <1> QED
    BY <1>2, <1>3, <1>4

LEMMA OnWebhookClosedQuiet ==
  ASSUME NEW b, IsBundle(b), b.wh.verify \in BOOLEAN
  PROVE  QuietStep(b, OnWebhookClosed(b))
  <1> DEFINE q == b.wh.set_query
             c == ForgetWebhook(b)
  <1>1. QuietStep(b, c)
    <2> DEFINE c1 == [b EXCEPT !.wh.id = 0]
               c2 == [c1 EXCEPT !.wh.url = NoUrl]
               c3 == [c2 EXCEPT !.wh.cert = FALSE]
               c4 == [c3 EXCEPT !.wh.settings = NoSettings]
               c5 == [c4 EXCEPT !.wh.set_query = NoQuery]
               c6 == [c5 EXCEPT !.db = NoEntry]
    <2>1. c = c6
      BY DEF ForgetWebhook
    <2> HIDE DEF c, c6, c5, c4, c3, c2, c1
    <2>2. QuietStep(b, c1)
      BY OthersQuiet DEF IsBundle, c1
    <2>3. QuietStep(c1, c2)
      BY <2>2, OthersQuiet DEF QuietStep, IsBundle, c2
    <2>4. QuietStep(c2, c3)
      BY <2>3, MemberQuiet DEF QuietStep, c3
    <2>5. QuietStep(c3, c4)
      BY <2>4, OthersQuiet DEF QuietStep, IsBundle, c4
    <2>6. QuietStep(c4, c5)
      BY <2>5, OthersQuiet DEF QuietStep, IsBundle, c5
    <2>7. QuietStep(c5, c6)
      BY <2>6, OthersQuiet DEF QuietStep, IsBundle, c6
    <2> QED
      BY <2>1, <2>2, <2>3, <2>4, <2>5, <2>6, <2>7, QuietSteps
  <1> HIDE DEF c
  <1>2. IsBundle(c) /\ "bad" \in Answers
    BY <1>1 DEF QuietStep, Answers
  <1>3. CASE q = NoQuery
    BY <1>1, <1>3 DEF OnWebhookClosed, c
  <1>4. CASE q # NoQuery /\ b.wh.verify
    <2>1. OnWebhookClosed(b) = Answer(c, q, "bad")
      BY <1>4 DEF OnWebhookClosed, c
    <2>2. QuietStep(c, Answer(c, q, "bad"))
      BY <1>2, AnswerQuiet
    <2> QED
      BY <1>1, <2>1, <2>2, QuietSteps
  <1>5. CASE q # NoQuery /\ ~b.wh.verify
    <2>1. OnWebhookClosed(b) = DoSetWebhook(c, q)
      BY <1>5 DEF OnWebhookClosed, c
    <2>2. QuietStep(c, DoSetWebhook(c, q))
      BY <1>2, DoSetWebhookQuiet
    <2> QED
      BY <1>1, <2>1, <2>2, QuietSteps
  <1> QED
    BY <1>3, <1>4, <1>5

LEMMA AbortQuiet ==
  ASSUME NEW b, IsBundle(b)
  PROVE  QuietStep(b, AbortLongPoll(b))
  <1> DEFINE c == Answer(b, b.wh.long_poll, "conflict")
  <1>1. QuietStep(b, c)
    BY AnswerQuiet DEF Answers
  <1> HIDE DEF c
  <1>2. QuietStep(c, [c EXCEPT !.wh.long_poll = NoQuery])
    BY <1>1, OthersQuiet DEF QuietStep, IsBundle
  <1> QED
    BY <1>1, <1>2, QuietSteps DEF AbortLongPoll, c

LEMMA ProcessSetWebhookQuiet ==
  ASSUME NEW b0, IsBundle(b0), NEW q, NEW changed,
         ~(b0.wh.set_query = NoQuery /\ NotModified(b0, args[q]))
  PROVE  QuietStep(b0, ProcessSetWebhook(b0, q, changed))
  <1> DEFINE r == args[q]
             e == Answer(b0, b0.wh.set_query, "conflict")
             b == [e EXCEPT !.wh.set_query = NoQuery]
             c == IF r.url = NoUrl THEN b ELSE AbortLongPoll(b)
             d == [c EXCEPT !.wh.generation = @ + 1]
             f == IF d.wh.url # NoUrl THEN ReplaceWebhook(d, q) ELSE DoSetWebhook(d, q)
  <1>1. CASE b0.wh.set_query = NoQuery /\ b0.wh.active_query # NoQuery
    BY <1>1, AnswerQuiet DEF ProcessSetWebhook, Answers
  <1>2. CASE ~(b0.wh.set_query = NoQuery /\ b0.wh.active_query # NoQuery)
    <2>1. ProcessSetWebhook(b0, q, changed) = f
      BY <1>2 DEF ProcessSetWebhook
    <2>2. QuietStep(b0, e)
      BY AnswerQuiet DEF Answers
    <2> HIDE DEF e
    <2>3. QuietStep(e, b)
      BY <2>2, OthersQuiet DEF QuietStep, IsBundle
    <2> HIDE DEF b
    <2>4. QuietStep(b, c)
      BY <2>3, AbortQuiet DEF QuietStep, Quiet
    <2> HIDE DEF c
    <2>5. QuietStep(c, d)
      BY <2>4, OthersQuiet DEF QuietStep, IsBundle
    <2> HIDE DEF d
    <2>6. QuietStep(d, ReplaceWebhook(d, q))
      <3> DEFINE x1 == [d EXCEPT !.dying = @ \cup ({d.wh.id} \cap d.actors)]
                 x2 == [x1 EXCEPT !.wh.id = 0]
                 x3 == [x2 EXCEPT !.wh.verify = FALSE]
                 x4 == [x3 EXCEPT !.wh.set_query = q]
      <3>1. ReplaceWebhook(d, q) = x4
        BY DEF ReplaceWebhook
      <3> HIDE DEF x4, x3, x2, x1
      <3>2. QuietStep(d, x1)
        <4> DEFINE D == d.dying \cup ({d.wh.id} \cap d.actors)
        <4>1. x1 = [d EXCEPT !.dying = D]
          BY DEF x1
        <4> HIDE DEF D
        <4> QED
          BY <2>5, <4>1, OthersQuiet DEF QuietStep, IsBundle
      <3>3. QuietStep(x1, x2)
        BY <3>2, OthersQuiet DEF QuietStep, IsBundle, x2
      <3>4. QuietStep(x2, x3)
        BY <3>3, MemberQuiet DEF QuietStep, x3
      <3>5. QuietStep(x3, x4)
        BY <3>4, OthersQuiet DEF QuietStep, IsBundle, x4
      <3> QED
        BY <3>1, <3>2, <3>3, <3>4, <3>5, QuietSteps
    <2>7. QuietStep(d, DoSetWebhook(d, q))
      BY <2>5, DoSetWebhookQuiet DEF QuietStep
    <2>8. QuietStep(d, f)
      BY <2>6, <2>7
    <2> HIDE DEF f
    <2> QED
      BY <2>1, <2>2, <2>3, <2>4, <2>5, <2>8, QuietSteps
  <1> QED
    BY <1>1, <1>2

LEMMA ProcessGetUpdatesQuiet ==
  ASSUME NEW b, IsBundle(b), NEW q, NEW found, args[q].kind = "getupdates"
  PROVE  QuietStep(b, ProcessGetUpdates(b, q, found))
  <1> DEFINE c == AbortLongPoll(b)
             d == [c EXCEPT !.wh.long_poll = q]
  <1>1. \A a \in Answers : QuietStep(b, Answer(b, q, a))
    BY AnswerQuiet DEF SetsNothing
  <1>2. QuietStep(b, c)
    BY AbortQuiet
  <1> HIDE DEF c
  <1>3. QuietStep(c, d)
    BY <1>2, OthersQuiet DEF QuietStep, IsBundle
  <1>4. QuietStep(b, d)
    BY <1>2, <1>3, QuietSteps
  <1> QED
    BY <1>1, <1>4 DEF ProcessGetUpdates, DoGetUpdates, Answers, c

LEMMA EndQuiet ==
  ASSUME NEW b, IsBundle(b), b.wh.long_poll # NoQuery => args[b.wh.long_poll].kind = "getupdates"
  PROVE  QuietStep(b, EndWebhook(b))
  <1> DEFINE c1 == Answer(b, b.wh.set_query, "closing")
             c == Answer(c1, b.wh.active_query, "closing")
             d == Answer(c, b.wh.long_poll, "ok")
  <1>1. QuietStep(b, c1)
    BY AnswerQuiet DEF Answers
  <1> HIDE DEF c1
  <1>2. QuietStep(c1, c)
    BY <1>1, AnswerQuiet DEF Answers, QuietStep
  <1> HIDE DEF c
  <1>3. QuietStep(c, d)
    BY <1>2, AnswerQuiet DEF Answers, QuietStep, SetsNothing
  <1>4. EndWebhook(b) =
          LET hung_up == IF b.wh.url = NoUrl THEN {} ELSE {b.wh.id}
          IN  [d EXCEPT !.wh.set_query = NoQuery, !.wh.active_query = NoQuery,
                        !.wh.long_poll = NoQuery,
                        !.wh.id = IF b.wh.url = NoUrl THEN @ ELSE 0,
                        !.actors = @ \ hung_up, !.dying = @ \ hung_up]
    BY DEF EndWebhook, d, c, c1
  <1> HIDE DEF d
  <1>5. QuietStep(d, EndWebhook(b))
    BY <1>3, <1>4, OthersQuiet DEF QuietStep, IsBundle
  <1> QED
    BY <1>1, <1>2, <1>3, <1>5, QuietSteps

\* The body of OkIsDurable
OkStep ==
  \A q \in Query :
    answer[q] # "ok" /\ answer'[q] = "ok"
      /\ args[q].kind = "setwebhook" /\ args[q].url # NoUrl
    => /\ wh'.url = args[q].url /\ wh'.settings = args[q].settings
       /\ db' # NoEntry /\ db'.url = args[q].url /\ db'.settings = args[q].settings

LEMMA QuietIsDurable ==
  ASSUME Quiet(answer, answer')
  PROVE  OkStep
  BY DEF Quiet, SetsNothing, OkStep, AnyQuery

LEMMA BundleIsBundle ==
  ASSUME IInv
  PROVE  IsBundle(Bundle) /\ Bundle.answer = answer /\ Bundle.wh = wh /\ wh \in Members
  BY BundleFacts DEF IInv, IsBundle, Bundle

LEMMA QuietBecome ==
  ASSUME IInv, NEW c, Become(c), QuietStep(Bundle, c)
  PROVE  OkStep
  BY QuietIsDurable, BundleIsBundle DEF Become, QuietStep

\* Queries that a Client drops when it stops are not answered "ok".
LEMMA DroppedQuiet ==
  ASSUME NEW f, NEW g, Quiet(f, g)
  PROVE  Quiet(f, [q \in AnyQuery |-> IF g[q] = "waiting" THEN "retry" ELSE g[q]])
  BY DEF Quiet

LEMMA StopClientIsDurable ==
  ASSUME StopClient
  PROVE  OkStep
  <1>1. Quiet(answer, answer)
    BY DEF Quiet
  <1> QED
    BY <1>1, DroppedQuiet, QuietIsDurable DEF StopClient, Dropped

LEMMA ArrivalIsDurable ==
  ASSUME IInv, Restart \/ \E q \in Query, r \in Requests : Receive(q, r)
  PROVE  OkStep
  <1>1. CASE Restart
    <2>1. Dropped \in [AnyQuery -> Answers] /\ RestoreQuery \notin Query
      BY BundleFacts, DroppedFacts, RequestsAssumption DEF Dropped, IInv
    <2>2. \A q \in Query : answer'[q] = Dropped[q]
      BY <1>1, <2>1 DEF Restart, AnyQuery
    <2>3. \A q \in Query : Dropped[q] = "ok" => answer[q] = "ok"
      BY DEF Dropped, AnyQuery
    <2> QED
      BY <2>2, <2>3 DEF OkStep
  <1>2. ASSUME NEW q \in Query, NEW r \in Requests, Receive(q, r)
        PROVE  OkStep
    <2>1. answer \in [AnyQuery -> Answers]
      BY BundleFacts DEF IInv
    <2>2. \A p \in Query : answer'[p] = "ok" => answer[p] = "ok"
      BY <1>2, <2>1, RequestsAssumption DEF Receive, AnyQuery
    <2> QED
      BY <2>2 DEF OkStep
  <1> QED
    BY <1>1, <1>2

\* A webhook that is not modified is the one that the Client serves and webhook_db_ holds.
LEMMA NotModifiedIsDurable ==
  ASSUME IInv, NEW q \in AnyQuery, NEW changed \in BOOLEAN, ~ClosingNow, cl.up,
         wh.set_query = NoQuery, wh.active_query = NoQuery, NotModified(Bundle, args[q]),
         Become(ProcessSetWebhook(Bundle, q, changed))
  PROVE  OkStep
  <1> DEFINE b == IF changed THEN SaveWebhook(Bundle) ELSE Bundle
             W == Queued \cup cl.td_queries
  <1>1. /\ SetterInv(Bundle, W, mail) /\ cl.td
        /\ Bundle \in BundleType /\ Bundle.wh = wh /\ Bundle.answer = answer
    BY BundleFacts DEF IInv, LifeInv, Setters
  <1>2. ProcessSetWebhook(Bundle, q, changed) = Answer(b, q, "ok")
    BY <1>1 DEF ProcessSetWebhook
  <1>3. SetterInv(b, W, mail)
    BY <1>1, SaveKeepsInv
  <1>4. b \in BundleType /\ b.wh = wh /\ b.answer = answer
    <2>1. SaveWebhook(Bundle).wh = wh /\ SaveWebhook(Bundle).answer = answer
      BY <1>1 DEF SaveWebhook, BundleType
    <2> QED
      BY <1>1, <1>3, <2>1 DEF SetterInv
  <1> HIDE DEF b
  <1>5. wh.url # NoUrl =>
          b.db = [url |-> wh.url, cert |-> wh.cert, settings |-> wh.settings]
    BY <1>1, <1>3, <1>4 DEF SetterInv, SavedInv
  <1>6. /\ wh' = wh /\ db' = b.db
        /\ \A p \in AnyQuery : answer'[p] = IF p = q THEN "ok" ELSE answer[p]
    <2>1. "ok" \in Answers /\ q \in Maybe
      BY DEF Answers, Maybe
    <2>2. Answer(b, q, "ok").wh = wh /\ Answer(b, q, "ok").db = b.db
          /\ \A p \in AnyQuery : Answer(b, q, "ok").answer[p] = IF p = q THEN "ok" ELSE answer[p]
      BY <1>4, <2>1, AnswerIs
    <2>3. Become(Answer(b, q, "ok"))
      BY <1>2
    <2> QED
      BY <2>2, <2>3 DEF Become
  <1>7. wh.url = args[q].url /\ wh.settings = args[q].settings
    BY <1>1 DEF NotModified
  <1>8. b.db \in Entry => b.db # NoEntry
    BY Apart
  <1>9. wh.url # NoUrl => b.db \in Entry
    <2>1. wh \in Members
      BY <1>1 DEF BundleType
    <2> QED
      BY <1>5, <2>1 DEF Members, Entry, AnyUrl, AnySettings
  <1> QED
    BY <1>5, <1>6, <1>7, <1>8, <1>9 DEF OkStep, AnyQuery

LEMMA OnCmdIsDurable ==
  ASSUME IInv, NEW q \in AnyQuery, NEW throttled \in BOOLEAN, NEW changed \in BOOLEAN,
         NEW found \in BOOLEAN, OnCmd(q, throttled, changed, found)
  PROVE  OkStep
  <1> DEFINE r == args[q]
  <1>1. IsBundle(Bundle) /\ Bundle.wh = wh
    BY BundleIsBundle
  <1>2. ASSUME NEW a \in Answers \ {"ok"}, Become(Answer(Bundle, q, a))
        PROVE  OkStep
    BY <1>1, <1>2, AnswerQuiet, QuietBecome
  <1>3. CASE Become(Bundle)
    BY <1>1, <1>3, QuietBecome DEF QuietStep, Quiet
  <1>4. CASE Become(IF throttled THEN Answer(Bundle, q, "retry") ELSE Bundle)
    BY <1>2, <1>3, <1>4 DEF Answers
  <1>5. CASE Become(Answer(Bundle, q, "closing"))
    BY <1>2, <1>5 DEF Answers
  <1>6. CASE /\ ~ClosingNow
             /\ Become(IF throttled THEN Answer(Bundle, q, "retry")
                       ELSE ProcessSetWebhook(Bundle, q, changed))
    <2>1. CASE throttled
      BY <1>2, <1>6, <2>1 DEF Answers
    <2>2. CASE ~throttled /\ ~(wh.set_query = NoQuery /\ NotModified(Bundle, r))
      BY <1>1, <1>6, <2>2, ProcessSetWebhookQuiet, QuietBecome
    <2>3. CASE ~throttled /\ wh.set_query = NoQuery /\ wh.active_query # NoQuery
      <3>1. ProcessSetWebhook(Bundle, q, changed) = Answer(Bundle, q, "retry")
        BY <1>1, <2>3 DEF ProcessSetWebhook
      <3> QED
        BY <1>2, <1>6, <2>3, <3>1 DEF Answers
    <2>4. CASE /\ ~throttled /\ wh.set_query = NoQuery /\ wh.active_query = NoQuery
               /\ NotModified(Bundle, r)
      <3>1. cl.up
        BY DEF OnCmd, Ready
      <3> QED
        BY <1>6, <2>4, <3>1, NotModifiedIsDurable
    <2> QED
      BY <2>1, <2>2, <2>3, <2>4
  <1>7. CASE r.kind = "getupdates" /\ Become(ProcessGetUpdates(Bundle, q, found))
    BY <1>1, <1>7, ProcessGetUpdatesQuiet, QuietBecome
  <1> QED
    BY <1>4, <1>5, <1>6, <1>7 DEF OnCmd

\* The actor of the current generation only reports to a query that asked for its webhook.
LEMMA VerifiedIsDurable ==
  ASSUME IInv, NEW g, NEW ip_changed \in BOOLEAN, WebhookVerified(g, ip_changed)
  PROVE  OkStep
  <1> DEFINE e == Answer(Bundle, wh.set_query, "ok")
             c == [e EXCEPT !.wh.set_query = NoQuery]
             entry == [url |-> c.wh.url, cert |-> c.wh.cert, settings |-> c.wh.settings]
  <1>1. /\ Bundle \in BundleType /\ Bundle.wh = wh /\ Bundle.answer = answer
        /\ IsBundle(Bundle) /\ wh \in Members /\ wh.set_query \in Maybe /\ "ok" \in Answers
    BY BundleFacts, BundleIsBundle DEF IInv, Members, Answers
  <1>2. CASE g # wh.generation
    BY <1>1, <1>2, QuietBecome DEF WebhookVerified, QuietStep, Quiet
  <1>3. CASE g = wh.generation
    <2>1. /\ e \in BundleType /\ e.wh = wh
          /\ \A p \in AnyQuery : e.answer[p] = IF p = wh.set_query THEN "ok" ELSE answer[p]
      BY <1>1, AnswerIs
    <2> HIDE DEF e
    <2>2. c \in BundleType /\ c.wh = [wh EXCEPT !.set_query = NoQuery] /\ c.answer = e.answer
      BY <1>1, <2>1 DEF BundleType, Members, Maybe
    <2>3. c.wh.url = wh.url /\ c.wh.settings = wh.settings
      BY <1>1, <2>2 DEF Members
    <2> HIDE DEF c
    <2>4. CASE wh.set_query # NoQuery
      <3>1. Become(SaveWebhook(c))
        BY <1>3, <2>4 DEF WebhookVerified, c, e
      <3>2. entry \in Entry
        BY <2>2 DEF BundleType, Members, Entry, AnyUrl, AnySettings
      <3>3. wh' = c.wh /\ answer' = c.answer /\ db' = entry
        BY <2>2, <3>1, <3>2 DEF SaveWebhook, Become, BundleType
      <3>4. wh.url = args[wh.set_query].url /\ wh.settings = args[wh.set_query].settings
        <4>1. ActorInv(Bundle, mail) /\ QueryInv(wh)
          BY <1>1 DEF IInv, Setters, SetterInv
        <4>2. g \in {m[2] : m \in mail}
          <5>1. <<"verified", g>> \in mail
            BY DEF WebhookVerified
          <5> QED
            BY <5>1
        <4>3. g \in Nat
          BY <1>1, <1>3 DEF Members
        <4>4. wh.verify
          BY <1>1, <1>3, <2>4, <4>1, <4>2, <4>3 DEF ActorInv
        <4> QED
          BY <2>4, <4>1, <4>4 DEF QueryInv
      <3> QED
        BY <2>1, <2>2, <2>3, <3>2, <3>3, <3>4, Apart DEF OkStep, AnyQuery
    <2>5. CASE wh.set_query = NoQuery
      <3>1. answer' = c.answer
        <4>1. Become(IF ip_changed THEN SaveWebhook(c) ELSE c)
          BY <1>3, <2>5 DEF WebhookVerified, c, e
        <4>2. SaveWebhook(c).answer = c.answer
          BY <2>2 DEF SaveWebhook, BundleType
        <4> QED
          BY <4>1, <4>2 DEF Become
      <3>2. \A p \in AnyQuery : answer'[p] = answer[p]
        BY <2>1, <2>2, <2>5, <3>1, Apart
      <3> QED
        BY <3>2 DEF OkStep, AnyQuery
    <2> QED
      BY <2>4, <2>5
  <1> QED
    BY <1>2, <1>3

LEMMA CopiedIsDurable ==
  ASSUME IInv, NEW ok \in BOOLEAN, OnWebhookCertificateCopied(ok)
  PROVE  OkStep
  <1> DEFINE q == wh.active_query
             f == [Bundle EXCEPT !.jobs = @ \ {"copy"}]
             b == [f EXCEPT !.wh.active_query = NoQuery]
             c == [b EXCEPT !.wh.cert = TRUE]
  <1>1. CASE q = NoQuery
    BY <1>1, ArrivalIsDurable DEF OnWebhookCertificateCopied
  <1>2. CASE q # NoQuery
    <2>1. Become(IF ok THEN FinishSetWebhook(c, q) ELSE Answer(b, q, "bad"))
      BY <1>2 DEF OnWebhookCertificateCopied
    <2>2. QuietStep(Bundle, f)
      <3> DEFINE J == Bundle.jobs \ {"copy"}
      <3>1. f = [Bundle EXCEPT !.jobs = J]
        OBVIOUS
      <3> HIDE DEF J
      <3> QED
        BY <3>1, BundleIsBundle, OthersQuiet DEF IsBundle
    <2> HIDE DEF f
    <2>3. QuietStep(f, b)
      BY <2>2, MemberQuiet DEF QuietStep
    <2> HIDE DEF b
    <2>4. QuietStep(b, c)
      BY <2>3, MemberQuiet DEF QuietStep
    <2> HIDE DEF c
    <2>5. QuietStep(c, FinishSetWebhook(c, q))
      <3>1. CASE ClosingNow
        BY <2>4, <3>1, AnswerQuiet DEF FinishSetWebhook, QuietStep, Answers
      <3>2. CASE ~ClosingNow
        <4> DEFINE x1 == [c EXCEPT !.wh.url = args[q].url]
                   x2 == [x1 EXCEPT !.wh.settings = args[q].settings]
                   x3 == [x2 EXCEPT !.wh.id = c.wh.generation]
                   x4 == [x3 EXCEPT !.wh.verify = TRUE]
                   x5 == [x4 EXCEPT !.wh.set_query = q]
                   x6 == [x5 EXCEPT !.actors = @ \cup {c.wh.generation}]
        <4>1. FinishSetWebhook(c, q) = x6
          BY <3>2 DEF FinishSetWebhook
        <4> HIDE DEF x6, x5, x4, x3, x2, x1
        <4>2. QuietStep(c, x1)
          BY <2>4, MemberQuiet DEF QuietStep, x1
        <4>3. QuietStep(x1, x2)
          BY <4>2, MemberQuiet DEF QuietStep, x2
        <4>4. QuietStep(x2, x3)
          BY <4>3, MemberQuiet DEF QuietStep, x3
        <4>5. QuietStep(x3, x4)
          BY <4>4, MemberQuiet DEF QuietStep, x4
        <4>6. QuietStep(x4, x5)
          BY <4>5, MemberQuiet DEF QuietStep, x5
        <4>7. QuietStep(x5, x6)
          BY <4>6, OthersQuiet DEF QuietStep, IsBundle, x6
        <4> QED
          BY <4>1, <4>2, <4>3, <4>4, <4>5, <4>6, <4>7, QuietSteps
      <3> QED
        BY <3>1, <3>2
    <2>6. QuietStep(b, Answer(b, q, "bad"))
      BY <2>3, AnswerQuiet DEF QuietStep, Answers
    <2>7. QuietStep(Bundle, FinishSetWebhook(c, q)) /\ QuietStep(Bundle, Answer(b, q, "bad"))
      BY <2>2, <2>3, <2>4, <2>5, <2>6, QuietSteps
    <2> QED
      BY <2>1, <2>7, QuietBecome
  <1> QED
    BY <1>1, <1>2

\* The Client hears that its old webhook is gone.
LEMMA ClosedIsDurable ==
  ASSUME IInv, CertificateUnlinked \/ \E g : WebhookClosed(g)
  PROVE  OkStep
  <1>1. ASSUME NEW b, QuietStep(Bundle, b), b.wh = wh, Become(OnWebhookClosed(b))
        PROVE  OkStep
    <2>1. b.wh.verify \in BOOLEAN
      BY <1>1, BundleIsBundle DEF Members
    <2>2. QuietStep(b, OnWebhookClosed(b))
      BY <1>1, <2>1, OnWebhookClosedQuiet DEF QuietStep
    <2> QED
      BY <1>1, <2>2, QuietSteps, QuietBecome
  <1>2. ASSUME NEW J
        PROVE  LET b == [Bundle EXCEPT !.jobs = J] IN QuietStep(Bundle, b) /\ b.wh = wh
    BY BundleIsBundle, OthersQuiet DEF IsBundle
  <1>3. QuietStep(Bundle, Bundle) /\ Bundle.wh = wh
    BY BundleIsBundle DEF QuietStep, Quiet
  <1>4. CASE CertificateUnlinked
    <2> DEFINE J == Bundle.jobs \ {"unlink"}
               b == [Bundle EXCEPT !.jobs = J]
    <2>1. Become(OnWebhookClosed(b))
      BY <1>4 DEF CertificateUnlinked
    <2>2. QuietStep(Bundle, b) /\ b.wh = wh
      BY <1>2
    <2> QED
      BY <1>1, <2>1, <2>2
  <1>5. ASSUME NEW g, WebhookClosed(g) PROVE OkStep
    <2> DEFINE J == Bundle.jobs \cup {"unlink"}
               b == [Bundle EXCEPT !.jobs = J]
    <2>1. Become(IF wh.cert THEN b ELSE OnWebhookClosed(Bundle))
      BY <1>5 DEF WebhookClosed
    <2>2. QuietStep(Bundle, b)
      BY <1>2
    <2> HIDE DEF b
    <2> QED
      BY <1>1, <1>3, <2>1, <2>2, QuietBecome
  <1> QED
    BY <1>4, <1>5

LEMMA OnClosedIsDurable ==
  ASSUME IInv, OnClosed
  PROVE  OkStep
  <1> DEFINE e == EndWebhook(Bundle)
  <1>1. QuietStep(Bundle, e)
    <2>1. QueryInv(Bundle.wh)
      BY DEF IInv, Setters, SetterInv
    <2> QED
      BY <2>1, BundleIsBundle, EndQuiet DEF QueryInv
  <1> HIDE DEF e
  <1>2. CASE cl.logging_out
    <2> DEFINE J == e.jobs \cup {"remove"}
               f == [e EXCEPT !.db = NoEntry, !.jobs = J]
    <2>1. Become(f)
      BY <1>2 DEF OnClosed, e
    <2> HIDE DEF J
    <2>2. QuietStep(e, f)
      <3> DEFINE x == [e EXCEPT !.db = NoEntry]
      <3>1. f = [x EXCEPT !.jobs = J]
        OBVIOUS
      <3>2. QuietStep(e, x)
        BY <1>1, OthersQuiet DEF QuietStep, IsBundle
      <3> HIDE DEF x, f
      <3>3. QuietStep(x, f)
        BY <3>1, <3>2, OthersQuiet DEF QuietStep, IsBundle
      <3> QED
        BY <3>2, <3>3, QuietSteps
    <2> HIDE DEF f
    <2> QED
      BY <1>1, <2>1, <2>2, QuietSteps, QuietBecome
  <1>3. CASE ~cl.logging_out /\ cl.need_close
    <2>1. answer' = [q \in AnyQuery |-> IF e.answer[q] = "waiting" THEN "retry" ELSE e.answer[q]]
      BY <1>3 DEF OnClosed, e
    <2>2. Quiet(answer, e.answer)
      BY <1>1, BundleIsBundle DEF QuietStep
    <2> QED
      BY <2>1, <2>2, DroppedQuiet, QuietIsDurable
  <1>4. CASE ~cl.logging_out /\ ~cl.need_close
    <2>1. Become(e)
      BY <1>4 DEF OnClosed, e
    <2> QED
      BY <1>1, <2>1, QuietBecome
  <1> QED
    BY <1>2, <1>3, <1>4

LEMMA OtherAnswersAreDurable ==
  ASSUME IInv, \/ LongPollWakeup
               \/ \E q \in Query, a \in {"ok", "bad"} : TdAnswers(q, a)
  PROVE  OkStep
  <1>1. answer \in [AnyQuery -> Answers] /\ QueryInv(wh) /\ Bundle.wh = wh
    BY BundleFacts DEF IInv, Setters, SetterInv
  <1>2. CASE LongPollWakeup
    <2> DEFINE c == Answer(Bundle, wh.long_poll, "ok")
    <2>1. QuietStep(Bundle, c)
      BY <1>1, BundleIsBundle, AnswerQuiet DEF QueryInv, SetsNothing, Answers
    <2>2. Become([c EXCEPT !.wh.long_poll = NoQuery])
      BY <1>2 DEF LongPollWakeup
    <2> HIDE DEF c
    <2>3. QuietStep(c, [c EXCEPT !.wh.long_poll = NoQuery])
      BY <2>1, MemberQuiet DEF QuietStep
    <2> QED
      BY <2>1, <2>2, <2>3, QuietSteps, QuietBecome
  <1>3. ASSUME NEW q \in Query, NEW a \in {"ok", "bad"}, TdAnswers(q, a) PROVE OkStep
    <2>1. args[q].kind \in {"close", "logout"}
      BY <1>3 DEF TdAnswers, IInv, QueueInv
    <2>2. \A p \in Query : answer'[p] = IF p = q THEN a ELSE answer[p]
      BY <1>1, <1>3 DEF TdAnswers, AnyQuery
    <2> QED
      BY <2>1, <2>2 DEF OkStep
  <1> QED
    BY <1>2, <1>3

\* Every other step answers nothing.
LEMMA SilentIsDurable ==
  ASSUME UNCHANGED answer
  PROVE  OkStep
  BY DEF OkStep

\* "Webhook was set" is answered for the webhook that the Client serves and webhook_db_ holds
\* from that step on, with the URL and the settings that the query asked for.
THEOREM SetIsDurable == Spec => OkIsDurable
  <1>1. ASSUME IInv, [Next]_vars PROVE OkStep
    <2>1. ASSUME NEW q \in AnyQuery, NEW throttled \in BOOLEAN, NEW changed \in BOOLEAN,
                 NEW found \in BOOLEAN, OnCmd(q, throttled, changed, found)
          PROVE  OkStep
      BY <1>1, <2>1, OnCmdIsDurable
    <2>2. ASSUME NEW g, NEW ip_changed \in BOOLEAN, WebhookVerified(g, ip_changed) PROVE OkStep
      BY <1>1, <2>2, VerifiedIsDurable
    <2>3. ASSUME NEW ok \in BOOLEAN, OnWebhookCertificateCopied(ok) PROVE OkStep
      BY <1>1, <2>3, CopiedIsDurable
    <2>4. CASE Restart \/ \E q \in Query, r \in Requests : Receive(q, r)
      BY <1>1, <2>4, ArrivalIsDurable
    <2>5. CASE CertificateUnlinked \/ \E g \in {m[2] : m \in mail} : WebhookClosed(g)
      BY <1>1, <2>5, ClosedIsDurable
    <2>6. CASE OnClosed
      BY <1>1, <2>6, OnClosedIsDurable
    <2>7. CASE LongPollWakeup \/ \E q \in Query, a \in {"ok", "bad"} : TdAnswers(q, a)
      BY <1>1, <2>7, OtherAnswersAreDurable
    <2>8. CASE TimeoutExpired \/ (FinishClosing /\ cl.need_close)
      BY <2>8, StopClientIsDurable DEF TimeoutExpired, FinishClosing
    <2>9. CASE FinishClosing /\ ~cl.need_close
      BY <2>9, SilentIsDurable DEF FinishClosing
    <2>10. CASE AuthorizationReady \/ LoggingOut \/ Closing \/ InitFailed \/ ShutDown
      BY <2>10, SilentIsDurable DEF AuthorizationReady, LoggingOut, Closing, InitFailed, ShutDown
    <2>11. ASSUME NEW g \in actors, ActorVerified(g) \/ ActorClosed(g) PROVE OkStep
      BY <2>11, SilentIsDurable DEF ActorVerified, ActorClosed
    <2>12. CASE UNCHANGED vars
      BY <2>12, SilentIsDurable DEF vars
    <2> QED
      BY <1>1, <2>1, <2>2, <2>3, <2>4, <2>5, <2>6, <2>7, <2>8, <2>9, <2>10, <2>11, <2>12 DEF Next
  <1> QED
    BY <1>1, Inductive, PTL DEF Spec, OkIsDurable, OkStep
=============================================================================
