------------------------- MODULE SendMessageProofs -------------------------
(***************************************************************************)
(* What holds of SendMessage for any queries and chats, batches of any     *)
(* size and any flood limit.                                               *)
(*                                                                         *)
(* The invariant speaks of one query at a time (QueryInv), and of the      *)
(* counter of each chat (CountInv).  A step concerns one query; the        *)
(* messages of a chat that are outstanding change by those of that query.  *)
(***************************************************************************)
EXTENDS SendMessage, FiniteSetTheorems, TLAPS

Stages == {"new", "checking", "checking_messages", "requested", "pending", "answered"}
Answers == {"none", "ok", "error", "flood", "closing", "retry"}
Outcomes == {"unsent", "sent", "failed", "group_failed"}
Error == [kind : {"none", "message", "group"}, pos : Int]
Pending == [total : Nat, awaited : Nat, sent : Seq(Nat), error : Error]

TypeInv ==
  /\ args \in [Query -> Requests]
  /\ stage \in [Query -> Stages]
  /\ count \in [Chat -> Nat]
  /\ unsent \subseteq Query \X Nat
  /\ pending \in [Query -> Pending]
  /\ answer \in [Query -> Answers]
  /\ outcome = [q \in Query |-> outcome[q]]

\* TDLib is sending messages of the query.
Live(q) == stage[q] = "pending" /\ args[q].kind # "story"

\* The messages of the query with one outcome
Having(q, what) == {i \in 1..pending[q].total : outcome[q][i] = what}

StageInv(q) ==
  /\ stage[q] = "checking_messages" => args[q].kind = "forward"
  /\ q \in stories <=> stage[q] = "pending" /\ args[q].kind = "story"
  /\ stage[q] # "answered" => answer[q] = "none"
  /\ ~Live(q) /\ stage[q] # "answered" => pending[q] = NewPending

\* What is unsent is what pending_send_message_queries_ still waits for.
UnsentInv(q) ==
  /\ UnsentOf(q) = IF Live(q) THEN {q} \X Having(q, "unsent") ELSE {}
  /\ Live(q) => /\ UnsentOf(q) # {}
                /\ pending[q].awaited = Cardinality(UnsentOf(q))
                /\ ~Multisend(q) => pending[q].total = 1
  /\ IsFiniteSet(UnsentOf(q))

\* What the query collects is what became of its messages.
ResultInv(q) ==
  LET p == pending[q]
  IN  /\ outcome[q] \in [1..p.total -> Outcomes]
      /\ {p.sent[k] : k \in 1..Len(p.sent)} = Having(q, "sent")
      /\ Len(p.sent) = Cardinality(Having(q, "sent"))
      /\ p.error.kind = "none" => p.error = NoError
      /\ p.error.kind = "none" <=> Having(q, "failed") = {} /\ Having(q, "group_failed") = {}
      /\ p.error.kind = "message" <=> Having(q, "failed") # {}
      /\ p.total > 0 /\ answer[q] = "ok" => p.error.kind = "none" /\ Having(q, "unsent") = {}
      /\ p.total > 0 /\ answer[q] = "error" => p.error.kind # "none" /\ Having(q, "unsent") = {}

QueryInv(q) == StageInv(q) /\ UnsentInv(q) /\ ResultInv(q)

CountInv(c) ==
  /\ IsFiniteSet(Outstanding(c))
  /\ count[c] = Cardinality(Outstanding(c))
  /\ \E r \in Requests : count[c] < MaxConcurrent + r.n

IInv ==
  /\ TypeInv
  /\ \A q \in Query : QueryInv(q)
  /\ \A c \in Chat : CountInv(c)
-----------------------------------------------------------------------------
(* The messages of one query.                                              *)

LEMMA RequestFacts ==
  ASSUME TypeInv, NEW q \in Query
  PROVE  /\ args[q] \in Request /\ args[q] \in Requests
         /\ args[q].n \in Nat \ {0} /\ args[q].chat \in Chat
         /\ args[q].kind \in {"one", "album", "forward", "story"}
         /\ args[q].kind \in {"one", "story"} => args[q].n = 1
  BY SendMessageAssumption DEF TypeInv, Request

\* A query keeps its part of the invariant when nothing of it changes.
LEMMA OthersKeepInv ==
  ASSUME NEW q \in Query, QueryInv(q),
         args'[q] = args[q], stage'[q] = stage[q], pending'[q] = pending[q],
         answer'[q] = answer[q], outcome'[q] = outcome[q],
         UnsentOf(q)' = UnsentOf(q), q \in stories' <=> q \in stories
  PROVE  QueryInv(q)'
  <1>1. (Live(q) <=> Live(q)') /\ (Multisend(q) <=> Multisend(q)')
    BY DEF Live, Multisend
  <1>2. \A what \in Outcomes : Having(q, what)' = Having(q, what)
    BY DEF Having
  <1>3. StageInv(q)'
    BY <1>1 DEF QueryInv, StageInv
  <1>4. UnsentInv(q)'
    BY <1>1, <1>2 DEF QueryInv, UnsentInv, Outcomes
  <1>5. ResultInv(q)'
    BY <1>2 DEF QueryInv, ResultInv, Outcomes
  <1> QED
    BY <1>3, <1>4, <1>5 DEF QueryInv

\* The messages that count for the query
Part(q) == IF stage[q] = "requested" THEN {q} \X (1..args[q].n) ELSE UnsentOf(q)

Counts(q, c) == args[q].chat = c /\ args[q].kind # "story"

LEMMA OutstandingIs ==
  ASSUME NEW c
  PROVE  Outstanding(c) = UNION {Part(q) : q \in {q \in Query : Counts(q, c)}}
  BY DEF Outstanding, Part, Counts

\* What is outstanding in a chat changes by the messages of one query.
LEMMA OnePartChanges ==
  ASSUME TypeInv, NEW p \in Query, args' = args,
         \A q \in Query \ {p} : Part(q)' = Part(q),
         \A m \in Part(p) \cup Part(p)' : m[1] = p,
         NEW c
  PROVE  Outstanding(c)' = IF Counts(p, c) THEN (Outstanding(c) \ Part(p)) \cup Part(p)'
                           ELSE Outstanding(c)
  <1>1. \A q \in Query : \A m \in Part(q) : m[1] = q
    BY DEF Part, UnsentOf
  <1>2. \A q \in Query : Counts(q, c)' <=> Counts(q, c)
    BY DEF Counts
  <1>3. Outstanding(c) = UNION {Part(q) : q \in {q \in Query : Counts(q, c)}}
    BY OutstandingIs
  <1>4. Outstanding(c)' = UNION {Part(q)' : q \in {q \in Query : Counts(q, c)'}}
    BY DEF Outstanding, Part, Counts
  <1>5. CASE ~Counts(p, c)
    BY <1>2, <1>3, <1>4, <1>5
  <1>6. CASE Counts(p, c)
    <2>1. Outstanding(c)' \subseteq (Outstanding(c) \ Part(p)) \cup Part(p)'
      BY <1>1, <1>2, <1>3, <1>4, <1>6
    <2>2. (Outstanding(c) \ Part(p)) \cup Part(p)' \subseteq Outstanding(c)'
      BY <1>1, <1>2, <1>3, <1>4, <1>6
    <2> QED
      BY <1>6, <2>1, <2>2
  <1> QED
    BY <1>5, <1>6

\* Everything that a step of query p leaves alone
Frame(p) ==
  /\ args' = args
  /\ \A q \in Query \ {p} :
       /\ stage'[q] = stage[q] /\ pending'[q] = pending[q] /\ answer'[q] = answer[q]
       /\ outcome'[q] = outcome[q] /\ UnsentOf(q)' = UnsentOf(q)
       /\ q \in stories' <=> q \in stories

LEMMA FrameParts ==
  ASSUME TypeInv, NEW p \in Query, Frame(p), NEW c
  PROVE  Outstanding(c)' = IF Counts(p, c) THEN (Outstanding(c) \ Part(p)) \cup Part(p)'
                           ELSE Outstanding(c)
  <1>1. args' = args /\ \A q \in Query \ {p} : Part(q)' = Part(q)
    BY DEF Frame, Part
  <1>2. \A m \in Part(p) \cup Part(p)' : m[1] = p
    BY DEF Part, UnsentOf
  <1> QED
    BY <1>1, <1>2, OnePartChanges

LEMMA SameCounts ==
  ASSUME IInv, NEW p \in Query, Frame(p), count' = count,
         Part(p)' = Part(p) \/ args[p].kind = "story"
  PROVE  \A c \in Chat : CountInv(c)'
  <1> SUFFICES ASSUME NEW c \in Chat PROVE CountInv(c)'
    OBVIOUS
  <1>1. Outstanding(c)' = IF Counts(p, c) THEN (Outstanding(c) \ Part(p)) \cup Part(p)'
                          ELSE Outstanding(c)
    BY FrameParts DEF IInv
  <1>2. Counts(p, c) => Part(p) \subseteq Outstanding(c)
    BY OutstandingIs
  <1>3. Outstanding(c)' = Outstanding(c)
    BY <1>1, <1>2 DEF Counts
  <1> QED
    BY <1>3 DEF IInv, CountInv

\* The messages of a request are asked for.
LEMMA MoreCounts ==
  ASSUME IInv, NEW p \in Query, Frame(p), args[p].kind # "story",
         Part(p) = {}, Part(p)' = {p} \X (1..args[p].n),
         count[args[p].chat] < MaxConcurrent,
         count' = [count EXCEPT ![args[p].chat] = @ + args[p].n]
  PROVE  \A c \in Chat : CountInv(c)'
  <1> SUFFICES ASSUME NEW c \in Chat PROVE CountInv(c)'
    OBVIOUS
  <1> DEFINE n == args[p].n
             S == {p} \X (1..n)
             O == Outstanding(c)
  <1>1. Outstanding(c)' = IF Counts(p, c) THEN (O \ Part(p)) \cup Part(p)' ELSE O
    BY FrameParts DEF IInv
  <1>2. /\ args[p] \in Requests /\ n \in Nat /\ count \in [Chat -> Nat] /\ args[p].chat \in Chat
        /\ IsFiniteSet(O) /\ count[c] = Cardinality(O)
    BY RequestFacts DEF IInv, TypeInv, CountInv
  <1>3. CASE c # args[p].chat
    <2>1. Outstanding(c)' = O /\ count'[c] = count[c]
      BY <1>1, <1>2, <1>3 DEF Counts
    <2> QED
      BY <2>1 DEF IInv, CountInv
  <1>4. CASE c = args[p].chat
    <2>1. Outstanding(c)' = O \cup S /\ count'[c] = count[c] + n
      BY <1>1, <1>2, <1>4 DEF Counts
    <2>2. O \cap S = {}
      <3>1. \A m \in O : \E q \in Query : m \in Part(q) /\ m[1] = q
        BY OutstandingIs DEF Part, UnsentOf
      <3> QED
        BY <3>1
    <2>3. IsFiniteSet(S) /\ Cardinality(S) = n
      <3>1. IsFiniteSet({p}) /\ Cardinality({p}) = 1
        BY FS_Singleton
      <3>2. IsFiniteSet(1..n) /\ Cardinality(1..n) = n
        <4>1. n >= 1 /\ n \in Int /\ 1 \in Int
          BY RequestFacts DEF IInv
        <4>2. IsFiniteSet(1..n) /\ Cardinality(1..n) = IF 1 > n THEN 0 ELSE n - 1 + 1
          BY <4>1, FS_Interval
        <4> QED
          BY <4>1, <4>2
      <3>3. IsFiniteSet(S) /\ Cardinality(S) = Cardinality({p}) * Cardinality(1..n)
        BY <3>1, <3>2, FS_Product
      <3> QED
        BY <1>2, <3>1, <3>2, <3>3
    <2>4. IsFiniteSet(O \cup S) /\ Cardinality(O \cup S) = count[c] + n
      <3>1. /\ IsFiniteSet(O \cup S)
            /\ Cardinality(O \cup S) = Cardinality(O) + Cardinality(S) - Cardinality(O \cap S)
        BY <1>2, <2>3, FS_Union
      <3>2. Cardinality(O \cap S) = 0
        BY <2>2, FS_EmptySet
      <3> QED
        BY <1>2, <2>3, <3>1, <3>2
    <2>5. count'[c] < MaxConcurrent + n
      BY <1>2, <1>4, <2>1, SendMessageAssumption
    <2> QED
      BY <1>2, <2>1, <2>4, <2>5 DEF CountInv
  <1> QED
    BY <1>3, <1>4

\* Messages leave: they were sent, have failed, or were never made.
LEMMA FewerCounts ==
  ASSUME IInv, NEW p \in Query, Frame(p), args[p].kind # "story",
         NEW S, IsFiniteSet(S), S \subseteq Part(p), Part(p)' = Part(p) \ S,
         count' = [count EXCEPT ![args[p].chat] = @ - Cardinality(S)]
  PROVE  count' \in [Chat -> Nat] /\ \A c \in Chat : CountInv(c)'
  <1>1. Cardinality(S) \in Nat
    BY FS_CardinalityType
  <1>2. args[p].chat \in Chat /\ count \in [Chat -> Nat]
    BY RequestFacts DEF IInv, TypeInv
  <1>3. ASSUME NEW c \in Chat
        PROVE  CountInv(c)' /\ count'[c] \in Nat
    <2> DEFINE O == Outstanding(c)
    <2>1. Outstanding(c)' = IF Counts(p, c) THEN (O \ Part(p)) \cup Part(p)' ELSE O
      BY FrameParts DEF IInv
    <2>2. IsFiniteSet(O) /\ count[c] = Cardinality(O) /\ count[c] \in Nat
      BY <1>2 DEF IInv, CountInv
    <2>3. CASE c # args[p].chat
      <3>1. Outstanding(c)' = O /\ count'[c] = count[c]
        BY <1>2, <2>1, <2>3 DEF Counts
      <3> QED
        BY <1>2, <3>1 DEF IInv, CountInv
    <2>4. CASE c = args[p].chat
      <3>1. S \subseteq O /\ Part(p) \subseteq O
        BY <2>4, OutstandingIs DEF Counts
      <3>2. Outstanding(c)' = O \ S /\ count'[c] = count[c] - Cardinality(S)
        BY <1>2, <2>1, <2>4, <3>1 DEF Counts
      <3>3. IsFiniteSet(O \ S) /\ Cardinality(O \ S) = Cardinality(O) - Cardinality(O \cap S)
        BY <2>2, FS_Difference
      <3>4. O \cap S = S /\ Cardinality(S) <= Cardinality(O)
        BY <2>2, <3>1, FS_Subset
      <3>5. count'[c] = Cardinality(O \ S) /\ count'[c] \in Nat
        <4>1. Cardinality(O \ S) = Cardinality(O) - Cardinality(S)
          BY <3>3, <3>4
        <4> QED
          BY <1>1, <2>2, <3>2, <3>4, <4>1
      <3>6. \E r \in Requests : count'[c] < MaxConcurrent + r.n
        <4>1. PICK r \in Requests : count[c] < MaxConcurrent + r.n
          BY DEF IInv, CountInv
        <4>2. r.n \in Nat
          BY SendMessageAssumption DEF Request
        <4>3. count'[c] < MaxConcurrent + r.n
          BY <1>1, <2>2, <3>2, <4>1, <4>2, SendMessageAssumption
        <4> QED
          BY <4>3
      <3> QED
        BY <3>2, <3>3, <3>5, <3>6 DEF CountInv
    <2> QED
      BY <2>3, <2>4
  <1> QED
    BY <1>2, <1>3

\* The other queries keep their part of the invariant.
LEMMA FrameKeepsInv ==
  ASSUME IInv, NEW p \in Query, Frame(p), QueryInv(p)', TypeInv', \A c \in Chat : CountInv(c)'
  PROVE  IInv'
  <1>1. ASSUME NEW q \in Query \ {p} PROVE QueryInv(q)'
    BY OthersKeepInv DEF IInv, Frame
  <1> QED
    BY <1>1 DEF IInv
-----------------------------------------------------------------------------
(* The steps of one query.                                                 *)

LEMMA BatchSize ==
  ASSUME NEW p, NEW j \in Nat, NEW k \in Nat, j <= k + 1
  PROVE  IsFiniteSet({p} \X (j..k)) /\ Cardinality({p} \X (j..k)) = k + 1 - j
  <1> DEFINE I == j..k
  <1>1. IsFiniteSet({p}) /\ Cardinality({p}) = 1
    BY FS_Singleton
  <1>2. IsFiniteSet(I) /\ Cardinality(I) = k + 1 - j
    <2>1. j \in Int /\ k \in Int
      OBVIOUS
    <2>2. IsFiniteSet(I) /\ Cardinality(I) = IF j > k THEN 0 ELSE k - j + 1
      BY <2>1, FS_Interval
    <2> QED
      BY <2>2
  <1>3. IsFiniteSet({p} \X I) /\ Cardinality({p} \X I) = Cardinality({p}) * Cardinality(I)
    BY <1>1, <1>2, FS_Product
  <1>4. Cardinality({p} \X I) = 1 * (k + 1 - j)
    BY <1>1, <1>2, <1>3
  <1> QED
    BY <1>3, <1>4

\* A query that awaits no messages stays so.
LEMMA QuietStep ==
  ASSUME IInv, NEW p \in Query, stage[p] # "answered", ~Live(p),
         args' = args, unsent' = unsent, pending' = pending, outcome' = outcome,
         stage' \in [Query -> Stages], answer' \in [Query -> Answers],
         \A q \in Query \ {p} : /\ stage'[q] = stage[q] /\ answer'[q] = answer[q]
                                /\ q \in stories' <=> q \in stories,
         p \in stories' <=> stage'[p] = "pending" /\ args[p].kind = "story",
         stage'[p] = "checking_messages" => args[p].kind = "forward",
         stage'[p] = "pending" => args[p].kind = "story",
         stage'[p] # "answered" => answer'[p] = "none"
  PROVE  /\ Frame(p) /\ QueryInv(p)'
         /\ UnsentOf(p) = {} /\ UnsentOf(p)' = {}
         /\ count' \in [Chat -> Nat] => TypeInv'
  <1>1. UnsentOf(p) = {} /\ pending[p] = NewPending /\ ~Live(p)'
    BY DEF IInv, QueryInv, UnsentInv, StageInv, Live
  <1>2. \A q \in Query : UnsentOf(q)' = UnsentOf(q)
    BY DEF UnsentOf
  <1>3. Frame(p)
    BY <1>2 DEF Frame
  <1>4. StageInv(p)'
    BY <1>1 DEF StageInv
  <1>5. UnsentInv(p)'
    BY <1>1, <1>2 DEF IInv, QueryInv, UnsentInv
  <1>6. \A what \in Outcomes : Having(p, what)' = Having(p, what)
    BY DEF Having
  <1>7. ResultInv(p)'
    <2>1. pending'[p] = pending[p] /\ outcome'[p] = outcome[p] /\ pending[p].total = 0
      BY <1>1 DEF NewPending
    <2> QED
      BY <1>6, <2>1 DEF IInv, QueryInv, ResultInv, Outcomes
  <1>8. count' \in [Chat -> Nat] => TypeInv'
    BY DEF IInv, TypeInv
  <1> QED
    BY <1>1, <1>2, <1>3, <1>4, <1>5, <1>7, <1>8 DEF QueryInv

\* ... and the counters need not change.
LEMMA QuietStepKeepsInv ==
  ASSUME IInv, NEW p \in Query, stage[p] # "answered", ~Live(p),
         args' = args, unsent' = unsent, pending' = pending, outcome' = outcome, count' = count,
         stage' \in [Query -> Stages], answer' \in [Query -> Answers],
         \A q \in Query \ {p} : /\ stage'[q] = stage[q] /\ answer'[q] = answer[q]
                                /\ q \in stories' <=> q \in stories,
         p \in stories' <=> stage'[p] = "pending" /\ args[p].kind = "story",
         stage'[p] = "checking_messages" => args[p].kind = "forward",
         stage'[p] = "pending" => args[p].kind = "story",
         stage'[p] # "answered" => answer'[p] = "none",
         args[p].kind = "story" \/ (stage[p] # "requested" /\ stage'[p] # "requested")
  PROVE  IInv'
  <1>1. /\ Frame(p) /\ QueryInv(p)' /\ UnsentOf(p) = {} /\ UnsentOf(p)' = {}
        /\ count' \in [Chat -> Nat] => TypeInv'
    BY QuietStep
  <1>2. count' \in [Chat -> Nat]
    BY DEF IInv, TypeInv
  <1>3. args[p].kind = "story" \/ Part(p)' = Part(p)
    BY <1>1 DEF Part
  <1>4. \A c \in Chat : CountInv(c)'
    BY <1>1, <1>3, SameCounts
  <1> QED
    BY <1>1, <1>2, <1>4, FrameKeepsInv

LEMMA ReceiveKeepsInv ==
  ASSUME IInv, NEW p \in Query, NEW fast \in BOOLEAN, Receive(p, fast)
  PROVE  IInv'
  <1>1. stage[p] = "new" /\ ~Live(p) /\ answer[p] = "none" /\ p \notin stories
    BY DEF Receive, Live, IInv, QueryInv, StageInv
  <1>2. /\ stage' \in [Query -> Stages] /\ answer' \in [Query -> Answers]
        /\ \A q \in Query \ {p} : stage'[q] = stage[q] /\ answer'[q] = answer[q]
        /\ stage'[p] \in {"checking", "answered"}
        /\ stage'[p] # "answered" => answer'[p] = "none"
    BY <1>1 DEF Receive, AnswerQuery, IInv, TypeInv, Stages, Answers
  <1> QED
    BY <1>1, <1>2, QuietStepKeepsInv DEF Receive

LEMMA CheckFailsKeepsInv ==
  ASSUME IInv, NEW p \in Query, CheckFails(p)
  PROVE  IInv'
  <1>1. /\ stage[p] \in {"checking", "checking_messages"} /\ ~Live(p)
        /\ answer[p] = "none" /\ p \notin stories
    BY DEF CheckFails, Live, IInv, QueryInv, StageInv
  <1>2. /\ stage' \in [Query -> Stages] /\ answer' \in [Query -> Answers]
        /\ \A q \in Query \ {p} : stage'[q] = stage[q] /\ answer'[q] = answer[q]
        /\ stage'[p] = "answered"
    BY <1>1 DEF CheckFails, AnswerQuery, IInv, TypeInv, Stages, Answers
  <1> QED
    BY <1>1, <1>2, QuietStepKeepsInv DEF CheckFails

\* The flood limit lets a request through, or not.
LEMMA SendRequestKeepsInv ==
  ASSUME IInv, NEW p \in Query, stage[p] \in {"checking", "checking_messages"},
         args[p].kind # "story", SendRequest(p),
         UNCHANGED <<args, unsent, stories, pending, outcome, closed>>
  PROVE  IInv'
  <1>1. ~Live(p) /\ answer[p] = "none" /\ p \notin stories
    BY DEF Live, IInv, QueryInv, StageInv
  <1>2. /\ stage' \in [Query -> Stages] /\ answer' \in [Query -> Answers]
        /\ \A q \in Query \ {p} : stage'[q] = stage[q] /\ answer'[q] = answer[q]
        /\ stage'[p] = IF Flooded(p) THEN "answered" ELSE "requested"
        /\ stage'[p] # "answered" => answer'[p] = "none"
    BY <1>1 DEF SendRequest, AnswerQuery, IInv, TypeInv, Stages, Answers
  <1>3. CASE Flooded(p)
    BY <1>1, <1>2, <1>3, QuietStepKeepsInv DEF SendRequest
  <1>4. CASE ~Flooded(p)
    <2>1. /\ Frame(p) /\ QueryInv(p)' /\ UnsentOf(p) = {} /\ UnsentOf(p)' = {}
          /\ count' \in [Chat -> Nat] => TypeInv'
      BY <1>1, <1>2, QuietStep
    <2>2. Part(p) = {} /\ Part(p)' = {p} \X (1..args[p].n)
      BY <1>2, <1>4, <2>1 DEF Part
    <2>3. /\ count \in [Chat -> Nat] /\ args[p].chat \in Chat /\ args[p].n \in Nat
      BY RequestFacts DEF IInv, TypeInv
    <2>4. count' = [count EXCEPT ![args[p].chat] = @ + args[p].n]
      BY <1>4 DEF SendRequest
    <2>5. count[args[p].chat] < MaxConcurrent
      BY <1>4, <2>3, SendMessageAssumption DEF Flooded
    <2>6. \A c \in Chat : CountInv(c)'
      BY <2>1, <2>2, <2>4, <2>5, MoreCounts
    <2>7. count' \in [Chat -> Nat]
      BY <2>3, <2>4
    <2> QED
      BY <2>1, <2>6, <2>7, FrameKeepsInv
  <1> QED
    BY <1>3, <1>4

LEMMA ReplyCheckedKeepsInv ==
  ASSUME IInv, NEW p \in Query, ReplyChecked(p)
  PROVE  IInv'
  <1>1. /\ stage[p] = "checking" /\ ~Live(p) /\ answer[p] = "none" /\ p \notin stories
    BY DEF ReplyChecked, Live, IInv, QueryInv, StageInv
  <1>2. args[p].kind \in {"one", "album", "forward", "story"}
    BY RequestFacts DEF IInv
  <1>3. CASE args[p].kind \in {"one", "album"}
    <2>1. SendRequest(p)
      BY <1>3 DEF ReplyChecked
    <2> QED
      BY <1>1, <1>3, <2>1, SendRequestKeepsInv DEF ReplyChecked
  <1>4. CASE args[p].kind \in {"forward", "story"}
    <2>1. /\ stage' \in [Query -> Stages] /\ answer' \in [Query -> Answers]
          /\ \A q \in Query \ {p} : stage'[q] = stage[q] /\ answer'[q] = answer[q]
          /\ stage'[p] \in IF args[p].kind = "story" THEN {"requested"} ELSE {"answered", "checking_messages"}
          /\ stage'[p] # "answered" => answer'[p] = "none"
          /\ count' = count
      BY <1>1, <1>4 DEF ReplyChecked, AnswerQuery, IInv, TypeInv, Stages, Answers
    <2> QED
      BY <1>1, <1>4, <2>1, QuietStepKeepsInv DEF ReplyChecked
  <1> QED
    BY <1>2, <1>3, <1>4

LEMMA MessagesCheckedKeepsInv ==
  ASSUME IInv, NEW p \in Query, MessagesChecked(p)
  PROVE  IInv'
  <1>1. stage[p] = "checking_messages" /\ args[p].kind = "forward"
    BY DEF MessagesChecked, IInv, QueryInv, StageInv
  <1> QED
    BY <1>1, SendRequestKeepsInv DEF MessagesChecked

\* A request comes to nothing.
LEMMA NothingSentKeepsInv ==
  ASSUME IInv, NEW p \in Query, stage[p] = "requested", args[p].kind # "story",
         DecreaseCount(args[p].chat, args[p].n), AnswerQuery(p, "error"),
         UNCHANGED <<args, unsent, stories, pending, outcome>>
  PROVE  IInv'
  <1> DEFINE S == {p} \X (1..args[p].n)
  <1>1. ~Live(p) /\ p \notin stories
    BY DEF Live, IInv, QueryInv, StageInv
  <1>2. /\ stage' \in [Query -> Stages] /\ answer' \in [Query -> Answers]
        /\ \A q \in Query \ {p} : stage'[q] = stage[q] /\ answer'[q] = answer[q]
        /\ stage'[p] = "answered"
    BY DEF AnswerQuery, IInv, TypeInv, Stages, Answers
  <1>3. /\ Frame(p) /\ QueryInv(p)' /\ UnsentOf(p) = {} /\ UnsentOf(p)' = {}
        /\ count' \in [Chat -> Nat] => TypeInv'
    BY <1>1, <1>2, QuietStep
  <1>4. IsFiniteSet(S) /\ Cardinality(S) = args[p].n
    <2>1. args[p].n \in Nat
      BY RequestFacts DEF IInv
    <2>2. 1 \in Nat /\ 1 <= args[p].n + 1
      BY <2>1
    <2>3. IsFiniteSet(S) /\ Cardinality(S) = args[p].n + 1 - 1
      BY <2>1, <2>2, BatchSize
    <2> QED
      BY <2>1, <2>3
  <1>5. Part(p) = S /\ Part(p)' = {}
    BY <1>2, <1>3 DEF Part
  <1>6. count' = [count EXCEPT ![args[p].chat] = @ - Cardinality(S)]
    BY <1>4 DEF DecreaseCount
  <1>7. S \subseteq Part(p) /\ Part(p)' = Part(p) \ S
    BY <1>5
  <1> HIDE DEF S
  <1>8. count' \in [Chat -> Nat] /\ \A c \in Chat : CountInv(c)'
    BY <1>3, <1>4, <1>6, <1>7, FewerCounts
  <1> QED
    BY <1>3, <1>8, FrameKeepsInv

LEMMA RequestFailsKeepsInv ==
  ASSUME IInv, NEW p \in Query, RequestFails(p)
  PROVE  IInv'
  <1>1. CASE args[p].kind = "story"
    <2>1. stage[p] = "requested" /\ ~Live(p) /\ p \notin stories
      BY DEF RequestFails, Live, IInv, QueryInv, StageInv
    <2>2. /\ stage' \in [Query -> Stages] /\ answer' \in [Query -> Answers]
          /\ \A q \in Query \ {p} : stage'[q] = stage[q] /\ answer'[q] = answer[q]
          /\ stage'[p] = "answered" /\ count' = count
      BY <1>1 DEF RequestFails, AnswerQuery, IInv, TypeInv, Stages, Answers
    <2> QED
      BY <1>1, <2>1, <2>2, QuietStepKeepsInv DEF RequestFails
  <1>2. CASE args[p].kind # "story"
    BY <1>2, NothingSentKeepsInv DEF RequestFails
  <1> QED
    BY <1>1, <1>2

LEMMA StoryCreatedKeepsInv ==
  ASSUME IInv, NEW p \in Query, StoryCreated(p)
  PROVE  IInv'
  <1>1. stage[p] = "requested" /\ args[p].kind = "story" /\ ~Live(p) /\ answer[p] = "none"
    BY DEF StoryCreated, Live, IInv, QueryInv, StageInv
  <1>2. /\ stage' \in [Query -> Stages] /\ answer' \in [Query -> Answers]
        /\ \A q \in Query \ {p} : /\ stage'[q] = stage[q] /\ answer'[q] = answer[q]
                                  /\ q \in stories' <=> q \in stories
        /\ stage'[p] = "pending" /\ answer'[p] = "none" /\ p \in stories'
    BY <1>1 DEF StoryCreated, IInv, TypeInv, Stages
  <1> QED
    BY <1>1, <1>2, QuietStepKeepsInv DEF StoryCreated

LEMMA OnStorySentKeepsInv ==
  ASSUME IInv, NEW p \in Query, NEW ok \in BOOLEAN, OnStorySent(p, ok)
  PROVE  IInv'
  <1>1. stage[p] = "pending" /\ args[p].kind = "story" /\ ~Live(p)
    BY DEF OnStorySent, Live, IInv, QueryInv, StageInv
  <1>2. /\ stage' \in [Query -> Stages] /\ answer' \in [Query -> Answers]
        /\ \A q \in Query \ {p} : /\ stage'[q] = stage[q] /\ answer'[q] = answer[q]
                                  /\ q \in stories' <=> q \in stories
        /\ stage'[p] = "answered" /\ p \notin stories'
    BY <1>1 DEF OnStorySent, AnswerQuery, IInv, TypeInv, Stages, Answers
  <1> QED
    BY <1>1, <1>2, QuietStepKeepsInv DEF OnStorySent

\* TDLib makes k messages: they are unsent, and the others no longer count.
LEMMA RequestSucceedsKeepsInv ==
  ASSUME IInv, NEW p \in Query, NEW k \in 0..args[p].n, RequestSucceeds(p, k)
  PROVE  IInv'
  <1>1. CASE k = 0
    <2>1. args[p].n \in Nat
      BY RequestFacts DEF IInv
    <2>2. DecreaseCount(args[p].chat, args[p].n)
      <3>1. args[p].n - k = args[p].n
        BY <1>1, <2>1
      <3>2. DecreaseCount(args[p].chat, args[p].n - k)
        BY DEF RequestSucceeds
      <3> QED
        BY <3>1, <3>2
    <2> QED
      BY <1>1, <2>2, NothingSentKeepsInv DEF RequestSucceeds
  <1>2. CASE k # 0
    <2> DEFINE n == args[p].n
               S == {p} \X ((k + 1)..n)
    <2>1. /\ n \in Nat /\ k \in Nat /\ k > 0 /\ k <= n /\ args[p].kind # "story"
          /\ args[p].kind \in {"one", "album", "forward"}
          /\ args[p].kind = "one" => k = 1
      BY <1>2, RequestFacts DEF IInv, RequestSucceeds
    <2>2. /\ stage[p] = "requested" /\ ~Live(p) /\ answer[p] = "none" /\ p \notin stories
          /\ pending[p] = NewPending /\ UnsentOf(p) = {}
      BY DEF RequestSucceeds, Live, IInv, QueryInv, StageInv, UnsentInv
    <2>3. /\ stage' = [stage EXCEPT ![p] = "pending"] /\ stage'[p] = "pending"
          /\ stage' \in [Query -> Stages]
          /\ answer' = answer /\ args' = args /\ stories' = stories
      BY <1>2 DEF RequestSucceeds, IInv, TypeInv, Stages
    <2>4. /\ pending' = [pending EXCEPT ![p] = pending'[p]] /\ pending'[p] \in Pending
          /\ pending'[p].total = k /\ pending'[p].awaited = k
          /\ pending'[p].sent = <<>> /\ pending'[p].error = NoError
      <3>1. pending' = [pending EXCEPT ![p].awaited = k, ![p].total = k]
        BY <1>2 DEF RequestSucceeds
      <3>2. DOMAIN pending = Query
        BY DEF IInv, TypeInv
      <3> DEFINE y == [NewPending EXCEPT !.awaited = k]
                 x == [y EXCEPT !.total = k]
      <3>3. pending' = [pending EXCEPT ![p] = x]
        BY <2>2, <3>1, <3>2
      <3>4. x = [total |-> k, awaited |-> k, sent |-> <<>>, error |-> NoError]
        <4>1. y = [total |-> 0, awaited |-> k, sent |-> <<>>, error |-> NoError]
          BY DEF NewPending
        <4> HIDE DEF y
        <4> QED
          BY <4>1
      <3>5. NoError \in Error /\ <<>> \in Seq(Nat)
        BY DEF NoError, Error
      <3>6. x \in Pending
        BY <2>1, <3>4, <3>5 DEF Pending
      <3>7. pending'[p] = x
        BY <3>2, <3>3
      <3> HIDE DEF x
      <3>8. pending' = [pending EXCEPT ![p] = pending'[p]] /\ pending'[p] \in Pending
        BY <3>3, <3>6, <3>7
      <3> QED
        BY <3>4, <3>7, <3>8
    <2>5. outcome' = [outcome EXCEPT ![p] = [i \in 1..k |-> "unsent"]]
      BY <1>2 DEF RequestSucceeds
    <2>6. outcome'[p] = [i \in 1..k |-> "unsent"]
      BY <2>5 DEF IInv, TypeInv
    <2>7. unsent' = unsent \cup {<<p, i>> : i \in 1..k}
      BY <1>2 DEF RequestSucceeds
    <2>8. /\ UnsentOf(p)' = {p} \X (1..k)
          /\ \A q \in Query \ {p} : UnsentOf(q)' = UnsentOf(q)
      <3>1. {m \in unsent : m[1] = p} = {}
        BY <2>2 DEF UnsentOf
      <3>2. {p} \X (1..k) = {<<p, i>> : i \in 1..k}
        OBVIOUS
      <3>3. UnsentOf(p)' = {m \in {<<p, i>> : i \in 1..k} : m[1] = p}
        BY <2>7, <3>1 DEF UnsentOf
      <3> QED
        BY <2>7, <3>2, <3>3 DEF UnsentOf
    <2>9. count' \in [Chat -> Nat] => TypeInv'
      <3>1. unsent' \subseteq Query \X Nat
        BY <2>1, <2>7 DEF IInv, TypeInv
      <3>2. pending' \in [Query -> Pending]
        BY <2>4 DEF IInv, TypeInv
      <3>3. outcome' = [q \in Query |-> outcome'[q]]
        BY <2>5 DEF IInv, TypeInv
      <3> QED
        BY <2>3, <3>1, <3>2, <3>3 DEF IInv, TypeInv
    <2>10. Live(p)' /\ (Multisend(p)' <=> Multisend(p))
      BY <2>1, <2>3 DEF Live, Multisend
    <2>11. \A what \in Outcomes : Having(p, what)' = IF what = "unsent" THEN 1..k ELSE {}
      BY <2>4, <2>6 DEF Having
    <2>12. IsFiniteSet({p} \X (1..k)) /\ Cardinality({p} \X (1..k)) = k /\ {p} \X (1..k) # {}
      <3>1. 1 \in Nat /\ 1 <= k + 1
        BY <2>1
      <3>2. IsFiniteSet({p} \X (1..k)) /\ Cardinality({p} \X (1..k)) = k + 1 - 1
        BY <2>1, <3>1, BatchSize
      <3>3. <<p, 1>> \in {p} \X (1..k)
        BY <2>1
      <3> QED
        BY <2>1, <3>2, <3>3
    <2>13. QueryInv(p)'
      <3>1. StageInv(p)'
        BY <2>1, <2>2, <2>3, <2>10 DEF StageInv
      <3>2. UnsentInv(p)'
        <4>1. "unsent" \in Outcomes
          BY DEF Outcomes
        <4>2. UnsentOf(p)' = {p} \X Having(p, "unsent")'
          BY <2>8, <2>11, <4>1
        <4>3. ~Multisend(p)' => k = 1
          BY <2>1, <2>10 DEF Multisend
        <4> QED
          BY <2>4, <2>8, <2>10, <2>12, <4>2, <4>3 DEF UnsentInv
      <3>3. ResultInv(p)'
        <4>1. outcome'[p] \in [1..pending'[p].total -> Outcomes]
          BY <2>4, <2>6 DEF Outcomes
        <4>2. /\ Having(p, "sent")' = {} /\ Having(p, "failed")' = {}
              /\ Having(p, "group_failed")' = {}
          BY <2>11 DEF Outcomes
        <4>3. Len(pending'[p].sent) = 0 /\ Cardinality({}) = 0
          BY <2>4, FS_EmptySet
        <4>4. {pending'[p].sent[j] : j \in 1..Len(pending'[p].sent)} = {}
          BY <4>3
        <4>5. pending'[p].error = NoError /\ NoError.kind = "none"
          BY <2>4 DEF NoError
        <4>6. answer'[p] = "none"
          BY <2>2, <2>3
        <4> QED
          BY <4>1, <4>2, <4>3, <4>4, <4>5, <4>6 DEF ResultInv
      <3> QED
        BY <3>1, <3>2, <3>3 DEF QueryInv
    <2>14. Frame(p)
      <3>1. \A q \in Query \ {p} : /\ stage'[q] = stage[q] /\ pending'[q] = pending[q]
                                   /\ outcome'[q] = outcome[q]
        BY <2>3, <2>4, <2>5 DEF IInv, TypeInv
      <3> QED
        BY <2>3, <2>8, <3>1 DEF Frame
    <2>15. IsFiniteSet(S) /\ Cardinality(S) = n - k
      <3>1. k + 1 \in Nat /\ k + 1 <= n + 1
        BY <2>1
      <3>2. IsFiniteSet(S) /\ Cardinality(S) = n + 1 - (k + 1)
        BY <2>1, <3>1, BatchSize
      <3> QED
        BY <2>1, <3>2
    <2>16. Part(p) = {p} \X (1..n) /\ Part(p)' = {p} \X (1..k)
      BY <2>2, <2>3, <2>8 DEF Part
    <2>17. S \subseteq Part(p) /\ Part(p)' = Part(p) \ S
      <3>1. (1..k) = (1..n) \ ((k + 1)..n) /\ (k + 1)..n \subseteq 1..n
        BY <2>1
      <3> QED
        BY <2>16, <3>1
    <2>18. count' = [count EXCEPT ![args[p].chat] = @ - Cardinality(S)]
      BY <2>15 DEF RequestSucceeds, DecreaseCount
    <2> HIDE DEF S
    <2>19. count' \in [Chat -> Nat] /\ \A c \in Chat : CountInv(c)'
      BY <2>1, <2>14, <2>15, <2>17, <2>18, FewerCounts
    <2> QED
      BY <2>9, <2>13, <2>14, <2>19, FrameKeepsInv
  <1> QED
    BY <1>1, <1>2
-----------------------------------------------------------------------------
(* What became of a message.                                               *)

\* One unsent message of the query becomes w; new is the query after that.
LEMMA SettledKeepsInv ==
  ASSUME IInv, NEW p \in Query, NEW i, <<p, i>> \in unsent,
         NEW w \in {"sent", "failed", "group_failed"}, NEW new \in Pending,
         new.total = pending[p].total, new.awaited = pending[p].awaited - 1,
         w = "sent" => new.sent = Append(pending[p].sent, i) /\ new.error = pending[p].error,
         w # "sent" => new.sent = pending[p].sent,
         w # "sent" => new.error.kind = IF pending[p].error.kind = "message" \/ w = "failed"
                                        THEN "message" ELSE "group",
         Extract(<<p, i>>), Settled(p, new),
         outcome' = [outcome EXCEPT ![p][i] = w],
         args' = args, stories' = stories
  PROVE  IInv'
  <1> DEFINE m == <<p, i>>
             n == pending[p].total
             last == new.awaited = 0
  <1>1. /\ Live(p) /\ stage[p] = "pending" /\ args[p].kind # "story" /\ p \notin stories
        /\ UnsentOf(p) = {p} \X Having(p, "unsent") /\ IsFiniteSet(UnsentOf(p))
        /\ pending[p].awaited = Cardinality(UnsentOf(p))
        /\ ~Multisend(p) => n = 1
        /\ answer[p] = "none" /\ m \in UnsentOf(p)
    <2>1. m \in UnsentOf(p)
      BY DEF UnsentOf
    <2>2. Live(p)
      BY <2>1 DEF IInv, QueryInv, UnsentInv
    <2> QED
      BY <2>1, <2>2 DEF IInv, QueryInv, UnsentInv, StageInv, Live
  <1>2. i \in Having(p, "unsent") /\ i \in 1..n /\ outcome[p][i] = "unsent"
    BY <1>1 DEF Having
  <1>3. /\ stage' = [stage EXCEPT ![p] = stage'[p]] /\ answer' = [answer EXCEPT ![p] = answer'[p]]
        /\ stage'[p] = IF last THEN "answered" ELSE "pending"
        /\ answer'[p] = IF last THEN IF new.error = NoError THEN "ok" ELSE "error" ELSE "none"
        /\ pending' = [pending EXCEPT ![p] = new] /\ pending'[p] = new
    <2>1. DOMAIN stage = Query /\ DOMAIN answer = Query /\ DOMAIN pending = Query
      BY DEF IInv, TypeInv
    <2>2. /\ stage' = [stage EXCEPT ![p] = IF last THEN "answered" ELSE "pending"]
          /\ answer' = [answer EXCEPT ![p] =
               IF last THEN IF new.error = NoError THEN "ok" ELSE "error" ELSE "none"]
          /\ pending' = [pending EXCEPT ![p] = new]
      <3>1. CASE last
        BY <3>1 DEF Settled, AnswerQuery
      <3>2. CASE ~last
        <4>1. stage' = stage /\ answer' = answer /\ pending' = [pending EXCEPT ![p] = new]
          BY <3>2 DEF Settled
        <4> QED
          BY <1>1, <2>1, <3>2, <4>1 DEF IInv, TypeInv
      <3> QED
        BY <3>1, <3>2
    <2> QED
      BY <2>1, <2>2
  <1>4. UnsentOf(p)' = UnsentOf(p) \ {m} /\ \A q \in Query \ {p} : UnsentOf(q)' = UnsentOf(q)
    BY DEF Extract, UnsentOf
  <1>5. /\ IsFiniteSet(UnsentOf(p)') /\ new.awaited = Cardinality(UnsentOf(p)')
        /\ UnsentOf(p)' = {} <=> last
    <2>1. /\ IsFiniteSet(UnsentOf(p) \ {m})
          /\ Cardinality(UnsentOf(p) \ {m}) = Cardinality(UnsentOf(p)) - 1
      BY <1>1, FS_RemoveElement
    <2> QED
      BY <1>1, <1>4, <2>1, FS_EmptySet
  <1>6. outcome'[p] = [outcome[p] EXCEPT ![i] = w] /\ \A q \in Query \ {p} : outcome'[q] = outcome[q]
    BY DEF IInv, TypeInv
  <1>7. outcome[p] \in [1..n -> Outcomes] /\ pending[p] \in Pending /\ n \in Nat
    BY DEF IInv, QueryInv, ResultInv, TypeInv, Pending
  <1>8. \A j \in 1..n : outcome'[p][j] = IF j = i THEN w ELSE outcome[p][j]
    BY <1>2, <1>6, <1>7
  <1>9. \A v \in Outcomes : Having(p, v)' = IF v = w THEN Having(p, v) \cup {i} ELSE Having(p, v) \ {i}
    BY <1>2, <1>3, <1>8 DEF Having
  <1>10. \A v \in {"sent", "failed", "group_failed"} : i \notin Having(p, v)
    BY <1>2 DEF Having
  <1>11. Frame(p)
    <2>1. \A q \in Query \ {p} : /\ stage'[q] = stage[q] /\ pending'[q] = pending[q]
                                 /\ answer'[q] = answer[q]
      BY <1>3 DEF IInv, TypeInv
    <2> QED
      BY <1>4, <1>6, <2>1 DEF Frame
  <1>12. /\ count' \in [Chat -> Nat] /\ \A c \in Chat : CountInv(c)'
    <2>1. Part(p) = UnsentOf(p) /\ Part(p)' = UnsentOf(p)'
      BY <1>1, <1>3 DEF Part
    <2>2. IsFiniteSet({m}) /\ Cardinality({m}) = 1
      BY FS_Singleton
    <2>3. {m} \subseteq Part(p) /\ Part(p)' = Part(p) \ {m}
      BY <1>1, <1>4, <2>1
    <2>4. count' = [count EXCEPT ![args[p].chat] = @ - Cardinality({m})]
      BY <2>2 DEF Extract, DecreaseCount
    <2> DEFINE S == {m}
    <2> HIDE DEF S
    <2> QED
      BY <1>1, <1>11, <2>2, <2>3, <2>4, FewerCounts
  <1>13. TypeInv'
    <2>1. unsent' \subseteq Query \X Nat
      BY DEF Extract, IInv, TypeInv
    <2>2. pending' \in [Query -> Pending]
      BY <1>3 DEF IInv, TypeInv
    <2>3. outcome' = [q \in Query |-> outcome'[q]]
      BY DEF IInv, TypeInv
    <2>4. stage' \in [Query -> Stages]
      <3>1. stage'[p] \in Stages
        BY <1>3 DEF Stages
      <3> QED
        BY <1>3, <3>1 DEF IInv, TypeInv
    <2>5. answer' \in [Query -> Answers]
      <3>1. answer'[p] \in Answers
        BY <1>3 DEF Answers
      <3> QED
        BY <1>3, <3>1 DEF IInv, TypeInv
    <2> QED
      BY <1>12, <2>1, <2>2, <2>3, <2>4, <2>5 DEF IInv, TypeInv
  <1>14. Live(p)' <=> ~last
    BY <1>1, <1>3 DEF Live
  <1>15. StageInv(p)'
    BY <1>1, <1>3, <1>14 DEF StageInv
  <1>16. UnsentInv(p)'
    <2>1. Having(p, "unsent")' = Having(p, "unsent") \ {i}
      BY <1>9 DEF Outcomes
    <2>2. UnsentOf(p)' = {p} \X Having(p, "unsent")'
      BY <1>1, <1>4, <2>1
    <2>3. Multisend(p)' <=> Multisend(p)
      BY DEF Multisend
    <2> QED
      BY <1>1, <1>3, <1>5, <1>14, <2>2, <2>3 DEF UnsentInv
  <1>17. ResultInv(p)'
    <2> DEFINE e == pending[p].error
    <2>1. outcome'[p] \in [1..new.total -> Outcomes]
      BY <1>6, <1>7 DEF Outcomes
    <2>2. /\ {new.sent[k] : k \in 1..Len(new.sent)} = Having(p, "sent")'
          /\ Len(new.sent) = Cardinality(Having(p, "sent")')
      <3>1. /\ {pending[p].sent[k] : k \in 1..Len(pending[p].sent)} = Having(p, "sent")
            /\ Len(pending[p].sent) = Cardinality(Having(p, "sent"))
            /\ pending[p].sent \in Seq(Nat)
        BY <1>7 DEF IInv, QueryInv, ResultInv, Pending
      <3>2. CASE w = "sent"
        <4>1. Having(p, "sent")' = Having(p, "sent") \cup {i}
          BY <1>9, <3>2 DEF Outcomes
        <4>2. IsFiniteSet(Having(p, "sent"))
          <5>1. IsFiniteSet(1..n)
            <6>1. 1 \in Int /\ n \in Int
              BY <1>7
            <6> QED
              BY <6>1, FS_Interval
          <5>2. Having(p, "sent") \subseteq 1..n
            BY DEF Having
          <5> QED
            BY <5>1, <5>2, FS_Subset
        <4>3. Cardinality(Having(p, "sent") \cup {i}) = Cardinality(Having(p, "sent")) + 1
          BY <1>10, <4>2, FS_AddElement
        <4>4. new.sent = Append(pending[p].sent, i)
          BY <3>2
        <4>5. Len(new.sent) = Len(pending[p].sent) + 1
          BY <1>2, <3>1, <4>4
        <4>6. /\ \A k \in 1..Len(pending[p].sent) : new.sent[k] = pending[p].sent[k]
              /\ new.sent[Len(new.sent)] = i /\ Len(pending[p].sent) \in Nat
          BY <1>2, <3>1, <4>4
        <4>7. {new.sent[k] : k \in 1..Len(new.sent)}
                = {pending[p].sent[k] : k \in 1..Len(pending[p].sent)} \cup {i}
          <5> DEFINE L == Len(pending[p].sent)
          <5>1. 1..Len(new.sent) = (1..L) \cup {L + 1}
            BY <4>5, <4>6
          <5>2. new.sent[L + 1] = i
            BY <4>5, <4>6
          <5>3. {new.sent[k] : k \in 1..Len(new.sent)} = {new.sent[k] : k \in 1..L} \cup {new.sent[L + 1]}
            BY <5>1
          <5>4. {new.sent[k] : k \in 1..L} = {pending[p].sent[k] : k \in 1..L}
            BY <4>6
          <5> QED
            BY <5>2, <5>3, <5>4
        <4> QED
          BY <3>1, <4>1, <4>3, <4>5, <4>7
      <3>3. CASE w # "sent"
        <4>1. Having(p, "sent")' = Having(p, "sent")
          BY <1>9, <1>10, <3>3 DEF Outcomes
        <4> QED
          BY <3>1, <3>3, <4>1
      <3> QED
        BY <3>2, <3>3
    <2>3. /\ e.kind = "none" => e = NoError
          /\ e.kind = "none" <=> Having(p, "failed") = {} /\ Having(p, "group_failed") = {}
          /\ e.kind = "message" <=> Having(p, "failed") # {}
      BY DEF IInv, QueryInv, ResultInv
    <2>4. /\ Having(p, "failed")' = IF w = "failed" THEN Having(p, "failed") \cup {i} ELSE Having(p, "failed")
          /\ Having(p, "group_failed")' = IF w = "group_failed" THEN Having(p, "group_failed") \cup {i}
                                          ELSE Having(p, "group_failed")
      BY <1>9, <1>10 DEF Outcomes
    <2>5. /\ new.error.kind = "none" => new.error = NoError
          /\ new.error.kind = "none" <=> Having(p, "failed")' = {} /\ Having(p, "group_failed")' = {}
          /\ new.error.kind = "message" <=> Having(p, "failed")' # {}
      BY <2>3, <2>4
    <2>6. last => Having(p, "unsent")' = {}
      <3>1. Having(p, "unsent")' = Having(p, "unsent") \ {i}
        BY <1>9 DEF Outcomes
      <3>2. \A j \in Having(p, "unsent") \ {i} : <<p, j>> \in UnsentOf(p) \ {m}
        BY <1>1
      <3>3. last => UnsentOf(p) \ {m} = {}
        BY <1>4, <1>5
      <3>4. last => Having(p, "unsent") \ {i} = {}
        BY <3>2, <3>3
      <3> QED
        BY <3>1, <3>4
    <2>7. new.error.kind # "none" <=> new.error # NoError
      BY <2>5 DEF NoError
    <2>8. /\ answer'[p] = "ok" => new.error.kind = "none" /\ Having(p, "unsent")' = {}
          /\ answer'[p] = "error" => new.error.kind # "none" /\ Having(p, "unsent")' = {}
      BY <1>3, <2>6, <2>7
    <2> QED
      BY <1>3, <2>1, <2>2, <2>5, <2>8 DEF ResultInv
  <1> QED
    BY <1>11, <1>12, <1>13, <1>15, <1>16, <1>17, FrameKeepsInv DEF QueryInv

LEMMA AwaitedIsPositive ==
  ASSUME IInv, NEW p \in Query, NEW i, <<p, i>> \in unsent
  PROVE  pending[p].awaited > 0
  <1>1. <<p, i>> \in UnsentOf(p)
    BY DEF UnsentOf
  <1>2. /\ IsFiniteSet(UnsentOf(p)) /\ pending[p].awaited = Cardinality(UnsentOf(p))
    BY <1>1 DEF IInv, QueryInv, UnsentInv
  <1>3. Cardinality(UnsentOf(p)) \in Nat /\ Cardinality(UnsentOf(p)) # 0
    BY <1>1, <1>2, FS_CardinalityType, FS_EmptySet
  <1> QED
    BY <1>2, <1>3

LEMMA OneLess ==
  ASSUME NEW was \in Pending, was.awaited > 0
  PROVE  LET x == [was EXCEPT !.awaited = @ - 1]
         IN  /\ x \in Pending /\ x.total = was.total /\ x.awaited = was.awaited - 1
             /\ x.sent = was.sent /\ x.error = was.error
  BY DEF Pending

LEMMA OnMessageSendSucceededKeepsInv ==
  ASSUME IInv, NEW p \in Query, NEW i \in 1..args[p].n, OnMessageSendSucceeded(p, i)
  PROVE  IInv'
  <1> DEFINE new == Succeeded(p, i)
             x == [pending[p] EXCEPT !.awaited = @ - 1]
  <1>1. <<p, i>> \in unsent /\ Extract(<<p, i>>) /\ Settled(p, new)
        /\ outcome' = [outcome EXCEPT ![p][i] = "sent"] /\ args' = args /\ stories' = stories
    BY DEF OnMessageSendSucceeded
  <1>2. pending[p] \in Pending /\ pending[p].awaited > 0
    BY <1>1, AwaitedIsPositive DEF IInv, TypeInv
  <1>3. i \in Nat
    BY RequestFacts DEF IInv
  <1>4. /\ new \in Pending /\ new.total = pending[p].total
        /\ new.awaited = pending[p].awaited - 1
        /\ new.sent = Append(pending[p].sent, i) /\ new.error = pending[p].error
    <2>1. /\ x \in Pending /\ x.total = pending[p].total /\ x.awaited = pending[p].awaited - 1
          /\ x.sent = pending[p].sent /\ x.error = pending[p].error
      BY <1>2, OneLess
    <2>2. new = [x EXCEPT !.sent = Append(pending[p].sent, i)]
      BY <1>2 DEF Succeeded, Pending
    <2>3. Append(pending[p].sent, i) \in Seq(Nat)
      BY <1>2, <1>3 DEF Pending
    <2> HIDE DEF x, new
    <2> QED
      BY <2>1, <2>2, <2>3 DEF Pending
  <1> HIDE DEF new
  <1> QED
    BY <1>1, <1>4, SettledKeepsInv

LEMMA OnMessageSendFailedKeepsInv ==
  ASSUME IInv, NEW p \in Query, NEW i \in 1..args[p].n,
         NEW how \in {"group", "special", "plain"}, OnMessageSendFailed(p, i, how)
  PROVE  IInv'
  <1> DEFINE new == Failed(p, how)
             w == IF how = "group" THEN "group_failed" ELSE "failed"
             was == pending[p]
             x == [was EXCEPT !.awaited = @ - 1]
             e == IF was.error.kind = "message" THEN was.error
                  ELSE IF how = "group" THEN [kind |-> "group", pos |-> 0]
                  ELSE [kind |-> "message",
                        pos |-> IF Multisend(p) /\ how = "plain"
                                THEN was.total - was.awaited + 1 ELSE 0]
  <1>1. <<p, i>> \in unsent /\ Extract(<<p, i>>) /\ Settled(p, new)
        /\ outcome' = [outcome EXCEPT ![p][i] = w] /\ args' = args /\ stories' = stories
    BY DEF OnMessageSendFailed
  <1>2. was \in Pending /\ was.awaited > 0
    BY <1>1, AwaitedIsPositive DEF IInv, TypeInv
  <1>3. /\ new \in Pending /\ new.total = was.total
        /\ new.awaited = was.awaited - 1 /\ new.sent = was.sent
        /\ new.error = e
    <2>1. /\ x \in Pending /\ x.total = was.total /\ x.awaited = was.awaited - 1
          /\ x.sent = was.sent /\ x.error = was.error
      <3> HIDE DEF w, e, new
      <3> QED
        BY <1>2, OneLess
    <2>2. new = [x EXCEPT !.error = e]
      BY <1>2 DEF Failed, Pending
    <2>3. e \in Error
      <3>1. was.error \in Error /\ was.total - was.awaited + 1 \in Int
        BY <1>2 DEF Pending
      <3> QED
        BY <3>1 DEF Error
    <2> HIDE DEF x, new, e
    <2> QED
      BY <2>1, <2>2, <2>3 DEF Pending
  <1>4. e.kind = IF was.error.kind = "message" \/ w = "failed" THEN "message" ELSE "group"
    OBVIOUS
  <1>5. w \in {"sent", "failed", "group_failed"} /\ w # "sent"
    OBVIOUS
  <1> HIDE DEF new, w, e
  <1> QED
    BY <1>1, <1>3, <1>4, <1>5, SettledKeepsInv
-----------------------------------------------------------------------------
(* The end of the Client.                                                  *)

\* A query that leaves without the invariant having much to say of it: it is
\* answered, and nothing of it is unsent.
LEMMA DroppedKeepsInv ==
  ASSUME IInv, NEW q \in Query, NEW a \in {"closing", "retry"},
         args' = args, pending' = pending, outcome' = outcome,
         stage'[q] = "answered", answer'[q] = a, q \notin stories', UnsentOf(q)' = {}
  PROVE  QueryInv(q)'
  <1>1. ~Live(q)'
    BY DEF Live
  <1>2. \A what \in Outcomes : Having(q, what)' = Having(q, what)
    BY DEF Having
  <1>3. StageInv(q)'
    BY <1>1 DEF StageInv
  <1>4. UnsentInv(q)'
    BY <1>1, FS_EmptySet DEF UnsentInv
  <1>5. ResultInv(q)'
    BY <1>2 DEF IInv, QueryInv, ResultInv, Outcomes
  <1> QED
    BY <1>3, <1>4, <1>5 DEF QueryInv

LEMMA OnClosedKeepsInv ==
  ASSUME IInv, OnClosed
  PROVE  IInv'
  <1>1. /\ args' = args /\ stories' = stories /\ pending' = pending /\ outcome' = outcome
        /\ unsent' = {} /\ count' = [c \in Chat |-> 0]
    BY DEF OnClosed
  <1>2. \A q \in Query : stage[q] \in {"new", "pending", "answered"}
    BY DEF OnClosed, IInv, TypeInv, Stages
  <1>3. \A q \in Query :
          /\ stage'[q] = IF stage[q] = "pending" /\ q \notin stories THEN "answered" ELSE stage[q]
          /\ answer'[q] = IF stage[q] = "pending" /\ q \notin stories THEN "closing" ELSE answer[q]
    BY DEF OnClosed
  <1>4. \A q : UnsentOf(q)' = {}
    BY <1>1 DEF UnsentOf
  <1>5. TypeInv'
    <2>1. stage' \in [Query -> Stages] /\ answer' \in [Query -> Answers]
      BY DEF OnClosed, IInv, TypeInv, Stages, Answers
    <2> QED
      BY <1>1, <2>1 DEF IInv, TypeInv
  <1>6. ASSUME NEW q \in Query
        PROVE  QueryInv(q)'
    <2>1. CASE Live(q)
      <3>1. q \notin stories
        BY <2>1 DEF Live, IInv, QueryInv, StageInv
      <3>2. stage'[q] = "answered" /\ answer'[q] = "closing"
        BY <1>3, <2>1, <3>1 DEF Live
      <3> QED
        BY <1>1, <1>4, <3>1, <3>2, DroppedKeepsInv
    <2>2. CASE ~Live(q)
      <3>1. UnsentOf(q) = {} /\ ~(stage[q] = "pending" /\ q \notin stories)
        BY <2>2 DEF Live, IInv, QueryInv, UnsentInv, StageInv
      <3>2. stage'[q] = stage[q] /\ answer'[q] = answer[q]
        BY <1>3, <3>1
      <3> QED
        BY <1>1, <1>4, <3>1, <3>2, OthersKeepInv DEF IInv
    <2> QED
      BY <2>1, <2>2
  <1>7. ASSUME NEW c \in Chat
        PROVE  CountInv(c)'
    <2>1. \A q \in Query : stage'[q] # "requested"
      BY <1>2, <1>3
    <2>2. Outstanding(c)' = UNION {Part(q)' : q \in {q \in Query : Counts(q, c)'}}
      BY DEF Outstanding, Part, Counts
    <2>3. \A q \in Query : Part(q)' = {}
      BY <1>4, <2>1 DEF Part
    <2>4. Outstanding(c)' = {} /\ count'[c] = 0
      BY <1>1, <2>2, <2>3
    <2>5. \E r \in Requests : count'[c] < MaxConcurrent + r.n
      BY <2>4, SendMessageAssumption DEF Request
    <2> QED
      BY <2>4, <2>5, FS_EmptySet DEF CountInv
  <1> QED
    BY <1>5, <1>6, <1>7 DEF IInv

LEMMA DestroyedKeepsInv ==
  ASSUME IInv, Destroyed
  PROVE  IInv'
  <1>1. /\ args' = args /\ stories' = {} /\ pending' = pending /\ outcome' = outcome
        /\ unsent' = unsent /\ count' = count
    BY DEF Destroyed
  <1>2. \A q \in Query :
          /\ stage'[q] = IF q \in stories THEN "answered" ELSE stage[q]
          /\ answer'[q] = IF q \in stories THEN "retry" ELSE answer[q]
    BY DEF Destroyed
  <1>3. \A q : UnsentOf(q)' = UnsentOf(q)
    BY <1>1 DEF UnsentOf
  <1>4. \A q \in Query : q \in stories => args[q].kind = "story" /\ UnsentOf(q) = {}
    BY DEF Live, IInv, QueryInv, StageInv, UnsentInv
  <1>5. TypeInv'
    <2>1. stage' \in [Query -> Stages] /\ answer' \in [Query -> Answers]
      BY DEF Destroyed, IInv, TypeInv, Stages, Answers
    <2> QED
      BY <1>1, <2>1 DEF IInv, TypeInv
  <1>6. ASSUME NEW q \in Query
        PROVE  QueryInv(q)'
    <2>1. CASE q \in stories
      BY <1>1, <1>2, <1>3, <1>4, <2>1, DroppedKeepsInv
    <2>2. CASE q \notin stories
      BY <1>1, <1>2, <1>3, <2>2, OthersKeepInv DEF IInv
    <2> QED
      BY <2>1, <2>2
  <1>7. ASSUME NEW c \in Chat
        PROVE  CountInv(c)'
    <2>1. Outstanding(c)' = UNION {Part(q)' : q \in {q \in Query : Counts(q, c)'}}
      BY DEF Outstanding, Part, Counts
    <2>2. \A q \in Query : Counts(q, c)' <=> Counts(q, c)
      BY <1>1 DEF Counts
    <2>3. \A q \in Query : Counts(q, c) => Part(q)' = Part(q)
      BY <1>1, <1>2, <1>3, <1>4 DEF Part, Counts
    <2>4. Outstanding(c)' = Outstanding(c)
      BY <2>1, <2>2, <2>3, OutstandingIs
    <2> QED
      BY <1>1, <2>4 DEF IInv, CountInv
  <1> QED
    BY <1>5, <1>6, <1>7 DEF IInv
-----------------------------------------------------------------------------
(* The invariant and what follows from it.                                 *)

LEMMA InitInv == Init => IInv
  <1> SUFFICES ASSUME Init PROVE IInv
    OBVIOUS
  <1>1. NewPending \in Pending
    <2>1. <<>> \in Seq(Nat) /\ NoError \in Error
      BY DEF NoError, Error
    <2> QED
      BY <2>1 DEF NewPending, Pending
  <1>2. TypeInv
    BY <1>1 DEF Init, TypeInv, Stages, Answers
  <1>3. ASSUME NEW q \in Query
        PROVE  QueryInv(q)
    <2>1. pending[q] = NewPending /\ outcome[q] = <<>> /\ stage[q] = "new" /\ answer[q] = "none"
      BY DEF Init
    <2>2. \A what : Having(q, what) = {}
      BY <2>1 DEF Having, NewPending
    <2>3. UnsentOf(q) = {}
      BY DEF UnsentOf, Init
    <2>4. StageInv(q)
      BY <2>1 DEF StageInv, Init
    <2>5. UnsentInv(q)
      BY <2>1, <2>3, FS_EmptySet DEF UnsentInv, Live
    <2>6. ResultInv(q)
      <3>1. /\ pending[q].total = 0 /\ pending[q].sent = <<>> /\ pending[q].error = NoError
            /\ NoError.kind = "none"
        BY <2>1 DEF NewPending, NoError
      <3>2. <<>> \in [1..0 -> Outcomes]
        OBVIOUS
      <3>3. {pending[q].sent[k] : k \in 1..Len(pending[q].sent)} = {} /\ Len(pending[q].sent) = 0
        BY <3>1
      <3> QED
        BY <2>1, <2>2, <3>1, <3>2, <3>3, FS_EmptySet DEF ResultInv
    <2> QED
      BY <2>4, <2>5, <2>6 DEF QueryInv
  <1>4. ASSUME NEW c \in Chat
        PROVE  CountInv(c)
    <2>1. \A q \in Query : Part(q) = {}
      BY DEF Part, UnsentOf, Init
    <2>2. Outstanding(c) = {} /\ count[c] = 0
      BY <2>1, OutstandingIs DEF Init
    <2>3. \E r \in Requests : count[c] < MaxConcurrent + r.n
      BY <2>2, SendMessageAssumption DEF Request
    <2> QED
      BY <2>2, <2>3, FS_EmptySet DEF CountInv
  <1> QED
    BY <1>2, <1>3, <1>4 DEF IInv

LEMMA StutterKeepsInv ==
  ASSUME IInv, UNCHANGED vars
  PROVE  IInv'
  <1>1. \A q : UnsentOf(q)' = UnsentOf(q)
    BY DEF vars, UnsentOf
  <1>2. \A q \in Query : QueryInv(q)'
    BY <1>1, OthersKeepInv DEF vars, IInv
  <1>3. \A c \in Chat : Outstanding(c)' = Outstanding(c)
    BY <1>1 DEF vars, Outstanding
  <1>4. \A c \in Chat : CountInv(c)'
    BY <1>3 DEF vars, IInv, CountInv
  <1> QED
    BY <1>2, <1>4 DEF vars, IInv, TypeInv

LEMMA NextKeepsInv == IInv /\ [Next]_vars => IInv'
  <1> SUFFICES ASSUME IInv, [Next]_vars PROVE IInv'
    OBVIOUS
  <1>1. CASE \E q \in Query : \E fast \in BOOLEAN : Receive(q, fast)
    BY <1>1, ReceiveKeepsInv
  <1>2. CASE \E q \in Query : CheckFails(q)
    BY <1>2, CheckFailsKeepsInv
  <1>3. CASE \E q \in Query : ReplyChecked(q)
    BY <1>3, ReplyCheckedKeepsInv
  <1>4. CASE \E q \in Query : MessagesChecked(q)
    BY <1>4, MessagesCheckedKeepsInv
  <1>5. CASE \E q \in Query : RequestFails(q)
    BY <1>5, RequestFailsKeepsInv
  <1>6. CASE \E q \in Query : \E k \in 0..args[q].n : RequestSucceeds(q, k)
    BY <1>6, RequestSucceedsKeepsInv
  <1>7. CASE \E q \in Query : StoryCreated(q)
    BY <1>7, StoryCreatedKeepsInv
  <1>8. CASE \E q \in Query : \E ok \in BOOLEAN : OnStorySent(q, ok)
    BY <1>8, OnStorySentKeepsInv
  <1>9. CASE \E q \in Query : \E i \in 1..args[q].n : OnMessageSendSucceeded(q, i)
    BY <1>9, OnMessageSendSucceededKeepsInv
  <1>10. CASE \E q \in Query : \E i \in 1..args[q].n :
                \E how \in {"group", "special", "plain"} : OnMessageSendFailed(q, i, how)
    BY <1>10, OnMessageSendFailedKeepsInv
  <1>11. CASE OnClosed
    BY <1>11, OnClosedKeepsInv
  <1>12. CASE Destroyed
    BY <1>12, DestroyedKeepsInv
  <1>13. CASE UNCHANGED vars
    BY <1>13, StutterKeepsInv
  <1> QED
    BY <1>1, <1>2, <1>3, <1>4, <1>5, <1>6, <1>7, <1>8, <1>9, <1>10, <1>11, <1>12, <1>13 DEF Next

\* The invariant holds in every state.
THEOREM Inductive == Spec => []IInv
  BY InitInv, NextKeepsInv, PTL DEF Spec

\* yet_unsent_message_count_ of a chat stands for exactly the messages that
\* were asked for and those TDLib is sending, and exceeds the flood limit by
\* less than one batch, for any number of queries and any batches.
THEOREM CountsStayExact == Spec => []CountsExact
  <1>1. IInv => CountsExact
    BY DEF IInv, CountInv, CountsExact
  <1> QED
    BY <1>1, Inductive, PTL

\* A query awaits exactly its messages in yet_unsent_messages_, so that none
\* of the CHECKs of the two handlers can fail, and the last message answers.
THEOREM AwaitedStaysExact == Spec => []AwaitedExact
  <1>1. IInv => AwaitedExact
    <2> SUFFICES ASSUME IInv, NEW q \in Query
                 PROVE  IF stage[q] = "pending" /\ q \notin stories
                        THEN /\ pending[q].awaited = Cardinality(UnsentOf(q))
                             /\ UnsentOf(q) # {}
                             /\ ~Multisend(q) => pending[q].awaited = 1
                        ELSE UnsentOf(q) = {}
      BY DEF AwaitedExact
    <2>1. Live(q) <=> stage[q] = "pending" /\ q \notin stories
      BY DEF Live, IInv, QueryInv, StageInv
    <2>2. CASE ~Live(q)
      BY <2>1, <2>2 DEF IInv, QueryInv, UnsentInv
    <2>3. CASE Live(q)
      <3>1. /\ pending[q].awaited = Cardinality(UnsentOf(q)) /\ UnsentOf(q) # {}
            /\ UnsentOf(q) = {q} \X Having(q, "unsent")
        BY <2>3 DEF IInv, QueryInv, UnsentInv
      <3>2. ASSUME ~Multisend(q)
            PROVE  pending[q].awaited = 1
        <4>1. pending[q].total = 1
          BY <2>3, <3>2 DEF IInv, QueryInv, UnsentInv
        <4>2. Having(q, "unsent") \subseteq {1}
          BY <4>1 DEF Having
        <4>3. UnsentOf(q) = {<<q, 1>>}
          BY <3>1, <4>2
        <4> QED
          BY <3>1, <4>3, FS_Singleton
      <3> QED
        BY <2>1, <2>3, <3>1, <3>2
    <2> QED
      BY <2>2, <2>3
  <1> QED
    BY <1>1, Inductive, PTL

\* "ok" is said of batches that were sent completely and lists every message
\* once; an error is said of batches that failed at least in part, and names
\* a message's own reason if any message had one.
THEOREM AnswersAreTrue == Spec => []AnswerIsTrue
  <1>1. IInv => AnswerIsTrue
    <2> SUFFICES ASSUME IInv, NEW q \in Query, pending[q].total > 0
                 PROVE  LET n == pending[q].total
                            sent == {i \in 1..n : outcome[q][i] = "sent"}
                        IN  /\ answer[q] = "ok" =>
                                 /\ sent = 1..n /\ Len(pending[q].sent) = n
                                 /\ {pending[q].sent[k] : k \in 1..Len(pending[q].sent)} = sent
                            /\ answer[q] = "error" =>
                                 /\ sent # 1..n /\ \A i \in 1..n : outcome[q][i] # "unsent"
                                 /\ pending[q].error.kind = "message"
                                      <=> \E i \in 1..n : outcome[q][i] = "failed"
      BY DEF AnswerIsTrue
    <2> DEFINE p == pending[q]
               n == p.total
    <2>1. /\ outcome[q] \in [1..n -> Outcomes]
          /\ {p.sent[k] : k \in 1..Len(p.sent)} = Having(q, "sent")
          /\ Len(p.sent) = Cardinality(Having(q, "sent"))
          /\ p.error.kind = "none" <=> Having(q, "failed") = {} /\ Having(q, "group_failed") = {}
          /\ p.error.kind = "message" <=> Having(q, "failed") # {}
          /\ answer[q] = "ok" => p.error.kind = "none" /\ Having(q, "unsent") = {}
          /\ answer[q] = "error" => p.error.kind # "none" /\ Having(q, "unsent") = {}
      BY DEF IInv, QueryInv, ResultInv
    <2>2. n \in Nat
      BY DEF IInv, TypeInv, Pending
    <2>3. \A i \in 1..n : \E what \in Outcomes : i \in Having(q, what)
      BY <2>1 DEF Having
    <2>4. ASSUME answer[q] = "ok"
          PROVE  /\ Having(q, "sent") = 1..n /\ Len(p.sent) = n
      <3>1. Having(q, "sent") = 1..n
        BY <2>1, <2>3, <2>4 DEF Having, Outcomes
      <3>2. 1 \in Int /\ n \in Int
        BY <2>2
      <3>3. Cardinality(1..n) = IF 1 > n THEN 0 ELSE n - 1 + 1
        BY <3>2, FS_Interval
      <3>4. Cardinality(1..n) = n
        BY <2>2, <3>3
      <3> QED
        BY <2>1, <3>1, <3>4
    <2>5. ASSUME answer[q] = "error"
          PROVE  /\ Having(q, "sent") # 1..n /\ \A i \in 1..n : outcome[q][i] # "unsent"
                 /\ p.error.kind = "message" <=> \E i \in 1..n : outcome[q][i] = "failed"
      <3>1. Having(q, "failed") # {} \/ Having(q, "group_failed") # {}
        BY <2>1, <2>5
      <3>2. Having(q, "sent") # 1..n
        BY <3>1 DEF Having
      <3> QED
        BY <2>1, <2>5, <3>2 DEF Having
    <2>6. Having(q, "sent") = {i \in 1..n : outcome[q][i] = "sent"}
      BY DEF Having
    <2> QED
      BY <2>1, <2>4, <2>5, <2>6
  <1> QED
    BY <1>1, Inductive, PTL
=============================================================================
