------------------------- MODULE WebhookLoopProofs -------------------------
(***************************************************************************)
(* What loop() guarantees however the handlers call it, for every number   *)
(* of updates, every way they are spread over queues, and every connection *)
(* limit.                                                                  *)
(*                                                                         *)
(* The limits: WithinLimits is inductive once the types are known; what    *)
(* takes the work is to count what a load may bring and what               *)
(* create_new_connections may open.                                        *)
(*                                                                         *)
(* The wakeups: the actor that loop() leaves behind does not sleep on its  *)
(* work.  loop() is taken apart into what each of its methods leaves: an   *)
(* address, a lookup or a timer; a context; a connection, a socket or a    *)
(* timer; and, with connections and nothing in flight, a timer.            *)
(*                                                                         *)
(* The reports: every method leaves flags that say what the Client was     *)
(* told (Truthful), so every handler is a step of ActorReports.            *)
(***************************************************************************)
EXTENDS WebhookActorProofs

\* The limits, as a predicate of the values that the methods pass on
Limited(d, s) ==
  /\ d \in DeliveryState /\ s \in LifeState
  /\ Cardinality(QueuesOf(d.loaded)) <= MaxLoaded
  /\ HaveConnections(d, s) <= MaxConnections

\* t has the sockets of s.
Keeps(s, t) ==
  /\ t \in LifeState
  /\ t.pending_sockets = s.pending_sockets
  /\ t.ready_sockets = s.ready_sockets

-----------------------------------------------------------------------------
(* Numbers and sets.                                                       *)

LEMMA Larger ==
  ASSUME NEW a \in Int, NEW b \in Int
  PROVE  Max({a, b}) \in {a, b} /\ a <= Max({a, b}) /\ b <= Max({a, b})
<1> DEFINE m == IF a <= b THEN b ELSE a
<1>1. m \in {a, b} /\ \A y \in {a, b} : m >= y
  OBVIOUS
<1> QED
  BY <1>1 DEF Max

LEMMA Smaller ==
  ASSUME NEW a \in Int, NEW b \in Int
  PROVE  Min({a, b}) \in {a, b} /\ Min({a, b}) <= a /\ Min({a, b}) <= b
<1> DEFINE m == IF a <= b THEN a ELSE b
<1>1. m \in {a, b} /\ \A y \in {a, b} : m <= y
  OBVIOUS
<1> QED
  BY <1>1 DEF Min

LEMMA Counts ==
  ASSUME NEW d \in DeliveryState
  PROVE  /\ IsFiniteSet(d.connections) /\ Cardinality(d.connections) \in Nat
         /\ IsFiniteSet(QueuesOf(d.loaded)) /\ Cardinality(QueuesOf(d.loaded)) \in Nat
<1>1. d.connections \in SUBSET Conn /\ d.loaded \in SUBSET Event
  BY DEF DeliveryState
<1>2. IsFiniteSet(d.connections)
  BY <1>1, FS_Subset, ConstantsAssumption
<1> QED
  BY <1>1, <1>2, FS_CardinalityType, QueuesAreFinite

\* tqueue->get returns no more than it may.
LEMMA BatchIsBounded ==
  ASSUME NEW tq \in SUBSET Event, NEW offset \in Nat, NEW limit \in Nat
  PROVE  Cardinality(Stored(tq, offset, limit)) <= limit
<1> DEFINE batch == Stored(tq, offset, limit)
           available == {e \in tq \ expired : offset <= e}
<1>1. batch \in SUBSET Event /\ available \in SUBSET Event /\ batch \subseteq available
  BY DEF Stored
<1>2. CASE batch = {}
  BY <1>2, FS_EmptySet
<1>3. CASE batch # {}
  <2> DEFINE m == Max(batch)
             before == {f \in available : f < m}
  <2>1. m \in batch /\ \A e \in batch : e <= m
    BY <1>1, <1>3, MaxOfEvents
  <2>2. Cardinality(before) < limit
    BY <2>1 DEF Stored
  <2>3. batch \ {m} \subseteq before
    <3>1. \A e \in Event : e \in Int
      BY DEF Event
    <3> HIDE DEF batch, available, m
    <3> QED
      BY <1>1, <2>1, <3>1
  <2>4. IsFiniteSet(before) /\ IsFiniteSet(batch)
    <3>1. before \in SUBSET Event
      BY <1>1
    <3> QED
      BY <1>1, <3>1, FiniteEvents
  <2>5. Cardinality(batch \ {m}) = Cardinality(batch) - 1
    BY <2>1, <2>4, FS_RemoveElement
  <2>6. Cardinality(batch \ {m}) <= Cardinality(before)
    BY <2>3, <2>4, FS_Subset
  <2>7. Cardinality(batch) \in Nat /\ Cardinality(before) \in Nat
    BY <2>4, FS_CardinalityType
  <2> HIDE DEF batch, before, m
  <2>8. Cardinality(batch) <= limit
    BY <2>2, <2>5, <2>6, <2>7
  <2> QED
    BY <2>8 DEF batch
<1> QED
  BY <1>2, <1>3

-----------------------------------------------------------------------------
(* Loading.                                                                *)

\* A load fills the room there is for queues and no more.
LEMMA LoadIsLimited ==
  ASSUME NEW d, NEW tq \in SUBSET Event, NEW s, Limited(d, s), LoadUpdates(d, tq) \in DeliveryState
  PROVE  Limited(LoadUpdates(d, tq), s)
<1> DEFINE limit == LoadLimit(d)
           batch == Stored(tq, d.tqueue_offset, limit)
           fresh == batch \ d.loaded
           n == LoadUpdates(d, tq)
           queues == Cardinality(QueuesOf(d.loaded))
<1>1. d \in DeliveryState /\ d.loaded \in SUBSET Event /\ d.tqueue_offset \in Nat
  BY MaxEventType DEF Limited, DeliveryState
<1>2. n.connections = d.connections
  BY <1>1 DEF LoadUpdates, DeliveryState
<1>3. HaveConnections(n, s) = HaveConnections(d, s)
  BY <1>2 DEF HaveConnections
<1>4. CASE ~CanLoad(d)
  BY <1>4 DEF LoadUpdates
<1>5. CASE CanLoad(d)
  <2>1. n.loaded = d.loaded \cup fresh
    BY <1>1, <1>5 DEF LoadUpdates, DeliveryState
  <2>2. queues \in Nat /\ queues < MaxLoaded /\ MaxLoaded \in Nat /\ EventBuffer \in Nat
    BY <1>1, <1>5, Counts, ConstantsAssumption DEF CanLoad, MaxLoaded
  <2>3. limit \in Nat /\ queues + limit <= MaxLoaded
    BY <2>2 DEF LoadLimit
  <2> HIDE DEF limit
  <2>4. batch \in SUBSET Event /\ fresh \in SUBSET Event /\ fresh \subseteq batch
    BY DEF Stored
  <2>5. Cardinality(batch) <= limit
    BY <1>1, <2>3, BatchIsBounded
  <2> HIDE DEF batch
  <2>6. IsFiniteSet(batch) /\ Cardinality(batch) \in Nat
    BY <2>4, FiniteEvents, FS_CardinalityType
  <2>7. Cardinality(fresh) \in Nat /\ Cardinality(fresh) <= Cardinality(batch)
    BY <2>4, <2>6, FS_Subset, FS_CardinalityType
  <2> HIDE DEF fresh
  <2>8. /\ IsFiniteSet(QueuesOf(fresh)) /\ Cardinality(QueuesOf(fresh)) \in Nat
        /\ Cardinality(QueuesOf(fresh)) <= Cardinality(fresh)
    BY <2>4, QueuesAreFinite
  <2>9. QueuesOf(n.loaded) = QueuesOf(d.loaded) \cup QueuesOf(fresh)
    BY <2>1, QueuesOfUnion
  <2>10. IsFiniteSet(QueuesOf(d.loaded))
    BY <1>1, Counts
  <2>11. Cardinality(QueuesOf(n.loaded))
           = queues + Cardinality(QueuesOf(fresh)) - Cardinality(QueuesOf(d.loaded) \cap QueuesOf(fresh))
    BY <2>8, <2>9, <2>10, FS_Union
  <2>12. Cardinality(QueuesOf(d.loaded) \cap QueuesOf(fresh)) \in Nat
    BY <2>10, FS_Intersection, FS_CardinalityType
  <2> HIDE DEF queues
  <2>13. Cardinality(QueuesOf(n.loaded)) <= MaxLoaded
    BY <2>2, <2>3, <2>5, <2>6, <2>7, <2>8, <2>11, <2>12
  <2> QED
    BY <1>3, <2>13 DEF Limited
<1> QED
  BY <1>4, <1>5

-----------------------------------------------------------------------------
(* Methods on the lifecycle state keep the sockets.                        *)

LEMMA OnErrorKeeps ==
  ASSUME NEW s \in LifeState
  PROVE  Keeps(s, OnError(s))
<1>1. OnError(s) \in LifeState
  BY OnErrorType
<1> QED
  BY <1>1 DEF OnError, Tell, Keeps, LifeState

LEMMA CheckKeeps ==
  ASSUME NEW s \in LifeState
  PROVE  Keeps(s, Check(s))
<1>1. Check(s) \in LifeState
  BY CheckType
<1> QED
  BY <1>1 DEF Check, OnWebhookVerified, Tell, Keeps, LifeState

LEMMA RelaxKeeps ==
  ASSUME NEW s \in LifeState
  PROVE  Keeps(s, RelaxWakeup(s))
<1>1. RelaxWakeup(s) \in LifeState
  BY RelaxWakeupType
<1> QED
  BY <1>1 DEF RelaxWakeup, Keeps, LifeState

LEMMA FailedKeeps ==
  ASSUME NEW s \in LifeState
  PROVE  Keeps(s, Failed(s))
<1>1. Keeps(s, OnError(s))
  BY OnErrorKeeps
<1>2. Keeps(OnError(s), RelaxWakeup(OnError(s)))
  BY <1>1, RelaxKeeps DEF Keeps
<1> QED
  BY <1>1, <1>2 DEF Failed, Keeps

LEMMA ResolveKeeps ==
  ASSUME NEW s \in LifeState
  PROVE  Keeps(s, ResolveIpAddress(s))
<1> DEFINE t == [s EXCEPT !.resolving = TRUE, !.resolve_due = FALSE]
<1>1. Keeps(s, s) /\ Keeps(s, RelaxWakeup(s)) /\ Keeps(s, t)
  <2>1. t \in LifeState
    BY DEF LifeState
  <2>2. t.pending_sockets = s.pending_sockets /\ t.ready_sockets = s.ready_sockets
    BY DEF LifeState
  <2> QED
    BY <2>1, <2>2, RelaxKeeps DEF Keeps
<1>2. s.fix_ip \in BOOLEAN /\ s.resolving \in BOOLEAN /\ s.resolve_due \in BOOLEAN
  BY DEF LifeState
<1>3. ResolveIpAddress(s) \in {s, RelaxWakeup(s), t}
  BY <1>2 DEF ResolveIpAddress
<1> HIDE DEF t
<1> QED
  BY <1>1, <1>3

\* Whoever keeps the sockets and has no more queues and connections stays within the limits.
LEMMA SmallerIsLimited ==
  ASSUME NEW d, NEW s, Limited(d, s), NEW e \in DeliveryState, NEW t, Keeps(s, t),
         e.loaded \subseteq d.loaded, e.connections \subseteq d.connections
  PROVE  Limited(e, t)
<1>1. d \in DeliveryState /\ d.loaded \in SUBSET Event
  BY DEF Limited, DeliveryState
<1>2. QueuesOf(e.loaded) \subseteq QueuesOf(d.loaded)
  BY DEF QueuesOf
<1>3. /\ Cardinality(QueuesOf(e.loaded)) <= Cardinality(QueuesOf(d.loaded))
      /\ Cardinality(e.connections) <= Cardinality(d.connections)
  BY <1>1, <1>2, Counts, FS_Subset
<1>4. /\ Cardinality(QueuesOf(e.loaded)) \in Nat /\ Cardinality(QueuesOf(d.loaded)) \in Nat
      /\ Cardinality(e.connections) \in Nat /\ Cardinality(d.connections) \in Nat
  BY <1>1, Counts
<1>5. /\ s.pending_sockets \in Nat /\ s.ready_sockets \in Nat /\ MaxLoaded \in Nat /\ MaxConnections \in Nat
      /\ t.pending_sockets = s.pending_sockets /\ t.ready_sockets = s.ready_sockets /\ t \in LifeState
  BY ConstantsAssumption DEF Limited, Keeps, LifeState, MaxLoaded
<1> QED
  BY <1>3, <1>4, <1>5 DEF Limited, HaveConnections

-----------------------------------------------------------------------------
(* create_new_connections.                                                 *)

LEMMA NeedIsLimited ==
  ASSUME NEW d \in DeliveryState, NEW s \in LifeState
  PROVE  NeedConnections(d, s) \in Int /\ NeedConnections(d, s) <= MaxConnections
<1> DEFINE queues == Cardinality(QueuesOf(d.loaded))
           capped == IF s.was_checked THEN Min({queues, MaxConnections}) ELSE 1
<1>1. queues \in Int /\ MaxConnections \in Int /\ 1 <= MaxConnections
  BY Counts, ConstantsAssumption
<1>2. capped \in Int /\ capped <= MaxConnections
  <2> HIDE DEF queues
  <2>1. Min({queues, MaxConnections}) \in Int /\ Min({queues, MaxConnections}) <= MaxConnections
    BY <1>1, Smaller
  <2> QED
    BY <1>1, <2>1
<1>3. NeedConnections(d, s) = IF s.active THEN Max({capped, 1}) ELSE Min({capped, 1})
  BY DEF NeedConnections
<1> HIDE DEF capped
<1>4. Max({capped, 1}) \in {capped, 1} /\ Min({capped, 1}) \in {capped, 1}
  BY <1>2, Larger, Smaller
<1> QED
  BY <1>1, <1>2, <1>3, <1>4

\* What is open after n connections were opened
LEMMA OpenedIsLimited ==
  ASSUME NEW d, NEW s, NEW t, Limited(d, s), NEW n \in Nat,
         t \in LifeState,
         Cardinality(d.connections) + n + t.pending_sockets + t.ready_sockets <= MaxConnections,
         NEW o \in Opened(d, t, n)
  PROVE  /\ Limited(o.dv, o.st)
         /\ Limited(o.dv, RelaxWakeup(o.st))
         /\ Limited(o.dv, Failed(o.st))
<1>1. d \in DeliveryState
  BY DEF Limited
<1>2. PICK new \in kSubset(n, Conn \ d.connections) :
        o = [dv |-> OpenConnections(d, new), st |-> IF n = 0 THEN t ELSE Check(t)]
  BY DEF Opened
<1>3. new \in SUBSET (Conn \ d.connections) /\ Cardinality(new) = n
  BY <1>2 DEF kSubset
<1>4. o.dv = OpenConnections(d, new) /\ Keeps(t, o.st)
  <2>1. Keeps(t, t) /\ Keeps(t, Check(t))
    BY CheckKeeps DEF Keeps
  <2> QED
    BY <1>2, <2>1
<1>5. /\ o.dv \in DeliveryState
      /\ o.dv.connections = d.connections \cup new
      /\ o.dv.loaded = d.loaded
  BY <1>1, <1>3, <1>4 DEF OpenConnections, DeliveryState
<1>6. Cardinality(o.dv.connections) = Cardinality(d.connections) + n
  <2>1. IsFiniteSet(new) /\ IsFiniteSet(d.connections)
    BY <1>1, <1>3, Counts, FS_Subset, ConstantsAssumption
  <2>2. d.connections \cap new = {}
    BY <1>3
  <2>3. Cardinality(d.connections) \in Nat
    BY <1>1, Counts
  <2> QED
    BY <1>3, <1>5, <2>1, <2>2, <2>3, FS_Union, FS_EmptySet
<1>7. Limited(o.dv, o.st)
  BY <1>4, <1>5, <1>6 DEF Limited, HaveConnections, Keeps
<1>8. Keeps(o.st, RelaxWakeup(o.st)) /\ Keeps(o.st, Failed(o.st))
  BY <1>4, RelaxKeeps, FailedKeeps DEF Keeps
<1> QED
  BY <1>5, <1>7, <1>8, SmallerIsLimited

LEMMA DirectIsLimited ==
  ASSUME NEW d, NEW s, Limited(d, s), NEW lucky \in BOOLEAN,
         NEW o \in DirectConnections(d, s, lucky)
  PROVE  Limited(o.dv, o.st)
<1> DEFINE need == NeedConnections(d, s)
           have == HaveConnections(d, s)
           room == Max({need - have, 0})
<1>1. /\ need \in Int /\ need <= MaxConnections
      /\ have \in Int /\ have <= MaxConnections
      /\ MaxConnections \in Int
  BY NeedIsLimited, Counts, ConstantsAssumption DEF Limited, HaveConnections, LifeState
<1>2. room \in Nat /\ have + room <= MaxConnections
  <2> HIDE DEF need, have
  <2>1. room \in {need - have, 0} /\ 0 <= room
    BY <1>1, Larger
  <2> HIDE DEF room
  <2> QED
    BY <1>1, <2>1
<1>3. PICK n \in 0..room : \E p \in Opened(d, s, n) :
        \/ o = p
        \/ o = [p EXCEPT !.st = RelaxWakeup(@)]
        \/ o = [p EXCEPT !.st = Failed(@)]
  <2>1. room \in 0..room
    BY <1>2
  <2>2. \A n \in 0..(room - 1) : n \in 0..room
    BY <1>2
  <2> DEFINE fewer == UNION {Opened(d, s, n) : n \in 0..(room - 1)}
  <2>3. \/ o \in Opened(d, s, room)
        \/ \E p \in fewer : o = [p EXCEPT !.st = RelaxWakeup(@)] \/ o = [p EXCEPT !.st = Failed(@)]
    BY DEF DirectConnections
  <2>4. \A p \in fewer : \E n \in 0..(room - 1) : p \in Opened(d, s, n)
    OBVIOUS
  <2> HIDE DEF room, fewer
  <2> QED
    BY <2>1, <2>2, <2>3, <2>4
<1>4. Cardinality(d.connections) + n + s.pending_sockets + s.ready_sockets <= MaxConnections
  <2>1. n \in Nat /\ n <= room
    BY <1>2, <1>3
  <2>2. /\ have = Cardinality(d.connections) + s.pending_sockets + s.ready_sockets
        /\ Cardinality(d.connections) \in Nat /\ s.pending_sockets \in Nat /\ s.ready_sockets \in Nat
    BY Counts DEF HaveConnections, Limited, LifeState
  <2> HIDE DEF room, have
  <2> QED
    BY <1>1, <1>2, <2>1, <2>2
<1> PICK p \in Opened(d, s, n) :
        \/ o = p
        \/ o = [p EXCEPT !.st = RelaxWakeup(@)]
        \/ o = [p EXCEPT !.st = Failed(@)]
  BY <1>3
<1>5. /\ Limited(p.dv, p.st) /\ Limited(p.dv, RelaxWakeup(p.st)) /\ Limited(p.dv, Failed(p.st))
  <2>1. n \in Nat
    BY <1>2, <1>3
  <2> HIDE DEF room, need, have
  <2> QED
    BY <1>4, <2>1, OpenedIsLimited DEF Limited
<1>6. o.dv = p.dv /\ o.st \in {p.st, RelaxWakeup(p.st), Failed(p.st)}
  BY DEF Opened
<1> QED
  BY <1>5, <1>6

\* Sockets that are ready become connections; none is left.
LEMMA UseReadyIsLimited ==
  ASSUME NEW d, NEW s, Limited(d, s), NEW lucky \in BOOLEAN,
         NEW o \in UseReadySockets(d, s, lucky)
  PROVE  Limited(o.dv, o.st)
<1> DEFINE need == NeedConnections(d, s)
           count == Cardinality(d.connections)
           room == need - count - s.pending_sockets
           n == Min({s.ready_sockets, Max({room, 0})})
           s1 == [s EXCEPT !.ready_sockets = 0]
<1>1. /\ need \in Int /\ count \in Nat /\ s.pending_sockets \in Nat /\ s.ready_sockets \in Nat
      /\ count + s.pending_sockets + s.ready_sockets <= MaxConnections /\ MaxConnections \in Nat
  BY NeedIsLimited, Counts, ConstantsAssumption DEF Limited, HaveConnections, LifeState
<1>2. n \in Nat /\ n <= s.ready_sockets
  <2> HIDE DEF need, count
  <2>1. room \in Int
    BY <1>1
  <2> HIDE DEF room
  <2>2. Max({room, 0}) \in Nat
    BY <2>1, Larger
  <2> DEFINE free == Max({room, 0})
  <2>3. \A a, b \in Nat : Min({a, b}) \in {a, b} /\ Min({a, b}) <= a
    <3> SUFFICES ASSUME NEW a \in Nat, NEW b \in Nat
                 PROVE  Min({a, b}) \in {a, b} /\ Min({a, b}) <= a
      OBVIOUS
    <3>1. a \in Int /\ b \in Int
      OBVIOUS
    <3> QED
      BY ONLY <3>1, Smaller
  <2>4. Min({s.ready_sockets, free}) \in {s.ready_sockets, free} /\ Min({s.ready_sockets, free}) <= s.ready_sockets
    <3> HIDE DEF free
    <3> QED
      BY <1>1, <2>2, <2>3 DEF free
  <2> QED
    BY <1>1, <2>2, <2>4
<1>3. s1 \in LifeState /\ s1.pending_sockets = s.pending_sockets /\ s1.ready_sockets = 0
  BY DEF Limited, LifeState
<1>4. PICK k \in 0..n : \E p \in Opened(d, s1, k) : o = p \/ o = [p EXCEPT !.st = Failed(@)]
  <2>1. n \in 0..n
    BY <1>2
  <2>2. \A k \in 0..(n - 1) : k \in 0..n
    BY <1>2
  <2> DEFINE fewer == UNION {Opened(d, s1, k) : k \in 0..(n - 1)}
  <2>3. o \in Opened(d, s1, n) \/ \E p \in fewer : o = [p EXCEPT !.st = Failed(@)]
    BY DEF UseReadySockets
  <2>4. \A p \in fewer : \E k \in 0..(n - 1) : p \in Opened(d, s1, k)
    OBVIOUS
  <2> HIDE DEF n, fewer, s1
  <2> QED
    BY <2>1, <2>2, <2>3, <2>4
<1>5. count + k + s1.pending_sockets + s1.ready_sockets <= MaxConnections
  <2>1. k \in Nat /\ k <= n
    BY <1>2, <1>4
  <2> HIDE DEF n, s1, count
  <2> QED
    BY <1>1, <1>2, <1>3, <2>1
<1> PICK p \in Opened(d, s1, k) : o = p \/ o = [p EXCEPT !.st = Failed(@)]
  BY <1>4
<1>6. Limited(p.dv, p.st) /\ Limited(p.dv, Failed(p.st))
  <2>1. k \in Nat
    BY <1>2, <1>4
  <2> HIDE DEF n, s1
  <2> QED
    BY <1>3, <1>4, <1>5, <2>1, OpenedIsLimited
<1>7. o.dv = p.dv /\ o.st \in {p.st, Failed(p.st)}
  BY DEF Opened
<1> QED
  BY <1>6, <1>7

LEMMA ProxyIsLimited ==
  ASSUME NEW d, NEW s, Limited(d, s), NEW lucky \in BOOLEAN,
         NEW o \in ProxyConnections(d, s, lucky)
  PROVE  Limited(o.dv, o.st)
<1> DEFINE checked == Check(s)
           started == [checked EXCEPT !.pending_sockets = @ + 1]
<1>1. d \in DeliveryState /\ s \in LifeState
  BY DEF Limited
<1>2. Keeps(s, checked) /\ Keeps(s, Failed(s)) /\ Keeps(s, RelaxWakeup(s))
  BY <1>1, CheckKeeps, FailedKeeps, RelaxKeeps
<1>3. Limited(d, Failed(s)) /\ Limited(d, RelaxWakeup(s))
  BY <1>1, <1>2, SmallerIsLimited
<1>4. CASE o \in UseReadySockets(d, s, lucky) \/ o \in UseReadySockets(d, RelaxWakeup(s), lucky)
  BY <1>3, <1>4, UseReadyIsLimited
<1>5. CASE o = [dv |-> d, st |-> Failed(s)]
  BY <1>3, <1>5
<1>6. CASE o = [dv |-> d, st |-> RelaxWakeup(started)] /\ ~(NeedConnections(d, s) <= HaveConnections(d, s))
  <2> HIDE DEF checked
  <2>1. /\ checked \in LifeState
        /\ checked.pending_sockets = s.pending_sockets /\ checked.ready_sockets = s.ready_sockets
    BY <1>2 DEF Keeps
  <2>2. /\ started \in LifeState
        /\ started.pending_sockets = s.pending_sockets + 1 /\ started.ready_sockets = s.ready_sockets
    BY <2>1 DEF LifeState
  <2> HIDE DEF started
  <2>3. Keeps(started, RelaxWakeup(started))
    BY <2>2, RelaxKeeps
  <2>4. Cardinality(d.connections) \in Nat /\ s.pending_sockets \in Nat /\ s.ready_sockets \in Nat
    BY <1>1, Counts DEF LifeState
  <2>5. HaveConnections(d, started) <= MaxConnections
    <3>1. NeedConnections(d, s) \in Int /\ NeedConnections(d, s) <= MaxConnections /\ MaxConnections \in Int
      BY <1>1, NeedIsLimited, ConstantsAssumption
    <3> QED
      BY <1>6, <2>2, <2>4, <3>1 DEF HaveConnections
  <2>6. Limited(d, started)
    BY <2>2, <2>5 DEF Limited
  <2>7. Limited(d, RelaxWakeup(started))
    BY <1>1, <2>3, <2>6, SmallerIsLimited
  <2> QED
    BY <1>6, <2>7
<1>7. \/ o \in UseReadySockets(d, s, lucky) \/ o \in UseReadySockets(d, RelaxWakeup(s), lucky)
      \/ o = [dv |-> d, st |-> Failed(s)]
      \/ o = [dv |-> d, st |-> RelaxWakeup(started)] /\ ~(NeedConnections(d, s) <= HaveConnections(d, s))
  BY DEF ProxyConnections
<1> QED
  BY <1>4, <1>5, <1>6, <1>7

LEMMA CreatedIsLimited ==
  ASSUME NEW d, NEW s, Limited(d, s), NEW lucky \in BOOLEAN,
         NEW o \in CreateNewConnections(d, s, lucky)
  PROVE  Limited(o.dv, o.st)
<1>1. CASE o = [dv |-> d, st |-> s]
  BY <1>1
<1>2. CASE o \in ProxyConnections(d, s, lucky)
  BY <1>2, ProxyIsLimited
<1>3. CASE o \in DirectConnections(d, s, lucky)
  BY <1>3, DirectIsLimited
<1> QED
  BY <1>1, <1>2, <1>3 DEF CreateNewConnections

-----------------------------------------------------------------------------
(* loop.                                                                   *)

LEMMA StopIsLimited ==
  ASSUME NEW s \in LifeState, Stop(s)
  PROVE  WithinLimits'
<1>1. dv'.loaded = {} /\ dv'.connections = {} /\ st'.pending_sockets = 0 /\ st'.ready_sockets = 0
  BY DEF Stop, EmptyDelivery, NoActor
<1>2. QueuesOf({}) = {} /\ Cardinality({}) = 0
  BY FS_EmptySet DEF QueuesOf
<1>3. MaxLoaded \in Nat /\ MaxConnections \in Nat
  BY ConstantsAssumption DEF MaxLoaded
<1> QED
  BY <1>1, <1>2, <1>3 DEF WithinLimits, HaveConnections

LEMMA SendIsLimited ==
  ASSUME NEW d, NEW s, Limited(d, s), SendUpdates(d, s)
  PROVE  WithinLimits'
<1>1. d \in DeliveryState /\ s \in LifeState
  BY DEF Limited
<1>2. dv'.loaded = d.loaded /\ dv'.connections = d.connections
  BY <1>1 DEF SendUpdates, Send, FailToSend, DeliveryState
<1>3. st' = s \/ st' = RelaxWakeup(s)
  BY DEF SendUpdates
<1>4. st'.pending_sockets = s.pending_sockets /\ st'.ready_sockets = s.ready_sockets
  BY <1>1, <1>3, RelaxKeeps DEF Keeps
<1> QED
  BY <1>2, <1>4 DEF Limited, WithinLimits, HaveConnections

LEMMA LoopIsLimited ==
  ASSUME NEW d, NEW tq \in SUBSET Event, NEW s, NEW lucky \in BOOLEAN, Limited(d, s),
         LoadUpdates(d, tq) \in DeliveryState, Loop(d, s, tq, lucky)
  PROVE  WithinLimits'
<1> DEFINE loaded == LoadUpdates(d, tq)
<1>1. s \in LifeState /\ d \in DeliveryState
  BY DEF Limited
<1>2. CASE s.stop_flag
  BY <1>1, <1>2, StopIsLimited DEF Loop
<1>3. CASE ~s.stop_flag
  <2>1. PICK active \in {FALSE, s.active} :
          \E o \in CreateNewConnections(loaded, ResolveIpAddress([s EXCEPT !.active = active]), lucky) :
            IF o.st.stop_flag THEN Stop(o.st) ELSE SendUpdates(o.dv, o.st)
    BY <1>3 DEF Loop
  <2> DEFINE s0 == [s EXCEPT !.active = active]
             s1 == ResolveIpAddress(s0)
  <2>2. Keeps(s, s0)
    <3>1. active \in BOOLEAN
      BY <1>1, <2>1 DEF LifeState
    <3> QED
      BY <1>1, <3>1 DEF Keeps, LifeState
  <2> HIDE DEF s0
  <2>3. Keeps(s0, s1)
    BY <2>2, ResolveKeeps DEF Keeps
  <2>4. Keeps(s, s1)
    BY <2>2, <2>3 DEF Keeps
  <2>5. Limited(loaded, s)
    BY LoadIsLimited
  <2>6. PICK o \in CreateNewConnections(loaded, s1, lucky) :
          IF o.st.stop_flag THEN Stop(o.st) ELSE SendUpdates(o.dv, o.st)
    BY <2>1 DEF s0
  <2> HIDE DEF s1, loaded
  <2>7. Limited(loaded, s1)
    BY <2>4, <2>5, SmallerIsLimited DEF Limited
  <2>8. Limited(o.dv, o.st)
    BY <2>6, <2>7, CreatedIsLimited
  <2> QED
    BY <2>6, <2>8, StopIsLimited, SendIsLimited DEF Limited
<1> QED
  BY <1>2, <1>3

-----------------------------------------------------------------------------
(* The handlers.                                                           *)

\* What the handlers pass to loop(): no more queues and connections, the same sockets.
LEMMA HandlerIsLimited ==
  ASSUME IInv, WithinLimits, NEW d, NEW tq \in SUBSET tqueue, NEW s, NEW lucky \in BOOLEAN,
         DeliveryInv(d, tq, tail), Keeps(st, s),
         d.loaded \subseteq dv.loaded, d.connections \subseteq dv.connections,
         Loop(d, s, tq, lucky)
  PROVE  WithinLimits'
<1>1. tail \in 0..MaxEvent /\ tq \in SUBSET Event
  BY DEF IInv, TypeOK
<1>2. LoadUpdates(d, tq) \in DeliveryState
  BY <1>1, LoadKeepsInv DEF DeliveryInv
<1>3. Limited(dv, st)
  BY DEF IInv, TypeOK, WithinLimits, Limited
<1>4. Limited(d, s)
  BY <1>3, SmallerIsLimited DEF DeliveryInv
<1> QED
  BY <1>1, <1>2, <1>4, LoopIsLimited

LEMMA IInvTypes == IInv => dv \in DeliveryState /\ st \in LifeState /\ DeliveryInv(dv, tqueue, tail)
  BY DEF IInv, TypeOK

LEMMA UpdateIsLimited == IInv /\ WithinLimits /\ Update => WithinLimits'
<1> SUFFICES ASSUME IInv, WithinLimits, Update PROVE WithinLimits'
  OBVIOUS
<1> DEFINE d == [dv EXCEPT !.tqueue_empty = FALSE]
<1>1. Loop(d, st, tqueue, FALSE)
  BY DEF Update
<1>2. DeliveryInv(d, tqueue, tail) /\ d.loaded = dv.loaded /\ d.connections = dv.connections
  <2>1. /\ d \in DeliveryState
        /\ d.waiting = dv.waiting /\ d.connections = dv.connections
        /\ d.ready = dv.ready /\ d.event = dv.event /\ d.loaded = dv.loaded
        /\ d.tqueue_offset = dv.tqueue_offset /\ d.header_fits = dv.header_fits
    BY IInvTypes DEF DeliveryState
  <2> HIDE DEF d
  <2> QED
    BY <2>1, IInvTypes, SameKeepsInv
<1>3. Keeps(st, st)
  BY IInvTypes DEF Keeps
<1> HIDE DEF d
<1> QED
  BY <1>1, <1>2, <1>3, HandlerIsLimited

LEMMA TimeoutIsLimited == IInv /\ WithinLimits /\ Timeout => WithinLimits'
<1> SUFFICES ASSUME IInv, WithinLimits, Timeout PROVE WithinLimits'
  OBVIOUS
<1>1. PICK woken \in SUBSET dv.delayed, due \in BOOLEAN : TimeoutWith(woken, due, FALSE)
  BY DEF Timeout
<1> DEFINE d == [dv EXCEPT !.delayed = @ \ woken]
           s == [st EXCEPT !.timer = FALSE, !.resolve_due = @ \/ due]
<1>2. Loop(d, s, tqueue, FALSE)
  BY <1>1 DEF TimeoutWith
<1>3. DeliveryInv(d, tqueue, tail) /\ d.loaded = dv.loaded /\ d.connections = dv.connections
  <2>1. /\ d \in DeliveryState
        /\ d.waiting = dv.waiting /\ d.connections = dv.connections
        /\ d.ready = dv.ready /\ d.event = dv.event /\ d.loaded = dv.loaded
        /\ d.tqueue_offset = dv.tqueue_offset /\ d.header_fits = dv.header_fits
    BY IInvTypes DEF DeliveryState
  <2> HIDE DEF d
  <2> QED
    BY <2>1, IInvTypes, SameKeepsInv
<1>4. Keeps(st, s)
  <2> DEFINE now == st.resolve_due \/ due
  <2>1. now \in BOOLEAN
    OBVIOUS
  <2> HIDE DEF now
  <2>2. Keeps(st, [st EXCEPT !.timer = FALSE, !.resolve_due = now])
    BY <2>1, IInvTypes DEF Keeps, LifeState
  <2> QED
    BY <2>2 DEF now
<1> HIDE DEF d, s
<1> QED
  BY <1>2, <1>3, <1>4, HandlerIsLimited

LEMMA SslContextIsLimited ==
  \A ok \in BOOLEAN : IInv /\ WithinLimits /\ OnSslContextCreated(ok) => WithinLimits'
<1> SUFFICES ASSUME NEW ok \in BOOLEAN, IInv, WithinLimits, OnSslContextCreated(ok) PROVE WithinLimits'
  OBVIOUS
<1> DEFINE good == [st EXCEPT !.ssl_ctx = "ready"]
           bad == [st EXCEPT !.ssl_ctx = "failed"]
<1>1. Loop(dv, good, tqueue, FALSE) \/ Loop(dv, OnError(bad), tqueue, FALSE)
  BY DEF OnSslContextCreated
<1>2. Keeps(st, good) /\ Keeps(st, bad)
  BY IInvTypes DEF Keeps, LifeState
<1> HIDE DEF good, bad
<1>3. Keeps(st, OnError(bad))
  BY <1>2, OnErrorKeeps DEF Keeps
<1> QED
  BY <1>1, <1>2, <1>3, IInvTypes, HandlerIsLimited

LEMMA ResolvedIsLimited ==
  \A result \in {"error", "same", "new"} :
    IInv /\ WithinLimits /\ OnResolvedIpAddress(result) => WithinLimits'
<1> SUFFICES ASSUME NEW result \in {"error", "same", "new"}, IInv, WithinLimits,
                    OnResolvedIpAddress(result)
             PROVE  WithinLimits'
  OBVIOUS
<1> DEFINE s == [st EXCEPT !.resolving = FALSE]
           s1 == [s EXCEPT !.ip = TRUE]
           s2 == IF s1.was_checked THEN OnWebhookVerified(s1) ELSE s1
           d == [dv EXCEPT !.old_ip = dv.connections]
<1>1. \/ Loop(dv, OnError(s), tqueue, FALSE)
      \/ Loop(dv, s, tqueue, FALSE)
      \/ Loop(d, s2, tqueue, FALSE)
  BY DEF OnResolvedIpAddress
<1>2. Keeps(st, s) /\ Keeps(st, s1)
  BY IInvTypes DEF Keeps, LifeState
<1> HIDE DEF s, s1
<1>3. Keeps(st, OnError(s))
  BY <1>2, OnErrorKeeps DEF Keeps
<1>4. Keeps(st, s2)
  <2>1. OnWebhookVerified(s1) \in LifeState
    BY <1>2, TellType DEF OnWebhookVerified, Keeps, Messages
  <2>2. Keeps(s1, OnWebhookVerified(s1))
    BY <1>2, <2>1 DEF OnWebhookVerified, Tell, Keeps, LifeState
  <2> QED
    BY <1>2, <2>2 DEF Keeps
<1>5. DeliveryInv(d, tqueue, tail) /\ d.loaded = dv.loaded /\ d.connections = dv.connections
  <2>1. /\ d \in DeliveryState
        /\ d.waiting = dv.waiting /\ d.connections = dv.connections
        /\ d.ready = dv.ready /\ d.event = dv.event /\ d.loaded = dv.loaded
        /\ d.tqueue_offset = dv.tqueue_offset /\ d.header_fits = dv.header_fits
    BY IInvTypes DEF DeliveryState
  <2> HIDE DEF d
  <2> QED
    BY <2>1, IInvTypes, SameKeepsInv
<1> HIDE DEF s2, d
<1>6. ASSUME Loop(dv, OnError(s), tqueue, FALSE) PROVE WithinLimits'
  BY <1>3, <1>6, IInvTypes, HandlerIsLimited
<1>7. ASSUME Loop(dv, s, tqueue, FALSE) PROVE WithinLimits'
  BY <1>2, <1>7, IInvTypes, HandlerIsLimited
<1>8. ASSUME Loop(d, s2, tqueue, FALSE) PROVE WithinLimits'
  BY <1>4, <1>5, <1>8, HandlerIsLimited
<1> QED
  BY <1>1, <1>6, <1>7, <1>8

\* A socket that is ready is counted as it was before.
LEMMA SocketIsLimited ==
  \A ok \in BOOLEAN : IInv /\ WithinLimits /\ OnSocketReadyAsync(ok) => WithinLimits'
<1> SUFFICES ASSUME NEW ok \in BOOLEAN, IInv, WithinLimits, OnSocketReadyAsync(ok) PROVE WithinLimits'
  OBVIOUS
<1> DEFINE s == [st EXCEPT !.pending_sockets = @ - 1]
           s1 == [s EXCEPT !.ready_sockets = @ + 1]
<1>1. (Loop(dv, s1, tqueue, FALSE) \/ Loop(dv, OnError(s), tqueue, FALSE)) /\ st.pending_sockets > 0
  BY DEF OnSocketReadyAsync
<1>2. /\ dv \in DeliveryState /\ st \in LifeState /\ tail \in 0..MaxEvent /\ tqueue \in SUBSET Event
      /\ DeliveryInv(dv, tqueue, tail)
  BY DEF IInv, TypeOK
<1>3. /\ s \in LifeState /\ s.pending_sockets = st.pending_sockets - 1 /\ s.ready_sockets = st.ready_sockets
      /\ st.pending_sockets \in Nat /\ st.ready_sockets \in Nat
  BY <1>1, <1>2 DEF LifeState
<1> HIDE DEF s
<1>4. s1 \in LifeState /\ s1.pending_sockets = s.pending_sockets /\ s1.ready_sockets = s.ready_sockets + 1
  BY <1>3 DEF LifeState
<1> HIDE DEF s1
<1>5. Limited(dv, s) /\ Limited(dv, s1)
  <2>1. Cardinality(dv.connections) \in Nat /\ MaxConnections \in Nat
    BY <1>2, Counts, ConstantsAssumption
  <2> QED
    BY <1>2, <1>3, <1>4, <2>1 DEF WithinLimits, Limited, HaveConnections
<1>6. Limited(dv, OnError(s))
  BY <1>2, <1>3, <1>5, OnErrorKeeps, SmallerIsLimited
<1>7. LoadUpdates(dv, tqueue) \in DeliveryState
  BY <1>2, LoadKeepsInv DEF DeliveryInv
<1> QED
  BY <1>1, <1>2, <1>5, <1>6, <1>7, LoopIsLimited

\* The answer to an update frees its connection or closes it, and may free its queue.
LEMMA ReleaseShrinks ==
  ASSUME NEW e \in Event, NEW c, NEW close \in BOOLEAN, NEW retry_after \in BOOLEAN,
         dv \in DeliveryState,
         NEW d, d \in {dv, DropEvent(dv, e), DelayEvent(dv, e, retry_after)}
  PROVE  /\ ReleaseConnection(d, c, close).loaded \subseteq dv.loaded
         /\ ReleaseConnection(d, c, close).connections \subseteq dv.connections
<1>1. /\ d.loaded \subseteq dv.loaded /\ d.connections = dv.connections
      /\ d = [x \in DOMAIN dv |-> d[x]] /\ DOMAIN d = DOMAIN dv
  BY DEF DropEvent, DelayEvent, DeliveryState
<1>2. {"loaded", "connections"} \subseteq DOMAIN d
  BY <1>1 DEF DeliveryState
<1>3. CASE close
  BY <1>1, <1>2, <1>3 DEF ReleaseConnection
<1>4. CASE ~close
  BY <1>1, <1>2, <1>4 DEF ReleaseConnection
<1> QED
  BY <1>3, <1>4

LEMMA ResponseIsLimited ==
  \A c \in Conn, ok, keep_alive, retry_after, no_time \in BOOLEAN :
    IInv /\ WithinLimits /\ HandleResponse(c, ok, keep_alive, retry_after, no_time) => WithinLimits'
<1> SUFFICES ASSUME NEW c \in Conn, NEW ok \in BOOLEAN, NEW keep_alive \in BOOLEAN,
                    NEW retry_after \in BOOLEAN, NEW no_time \in BOOLEAN, IInv, WithinLimits,
                    HandleResponse(c, ok, keep_alive, retry_after, no_time)
             PROVE  WithinLimits'
  OBVIOUS
<1> DEFINE e == dv.event[c]
           close == ~keep_alive \/ c \in dv.old_ip
           drop == \/ e \in expired
                   \/ no_time /\ ~RetriesAtOnce(dv, e, retry_after)
           d == IF ok \/ drop THEN DropEvent(dv, e) ELSE DelayEvent(dv, e, retry_after)
           tq == IF ok \/ drop THEN tqueue \ {e} ELSE tqueue
           s == [st EXCEPT !.timer = @ \/ close]
           good == [s EXCEPT !.active = TRUE, !.gone = FALSE]
           okst == IF ok THEN good ELSE s
           notgone == [s EXCEPT !.gone = FALSE]
           isgone == [s EXCEPT !.gone = TRUE]
           ending == [s EXCEPT !.close_message = TRUE]
           kept == ReleaseConnection(d, c, close)
           closed == ReleaseConnection(d, c, TRUE)
<1>1. c \in dv.connections /\ e # NoEvent
  BY DEF HandleResponse
<1>2. \/ Loop(kept, okst, tq, FALSE)
      \/ Loop(kept, notgone, tq, FALSE)
      \/ Loop(kept, isgone, tq, FALSE)
      \/ dv' = closed /\ st' = ending
  BY DEF HandleResponse
<1>3. e \in Event /\ dv \in DeliveryState
  BY <1>1, IInvTypes DEF DeliveryState
<1>4. close \in BOOLEAN /\ TRUE \in BOOLEAN /\ tq \in SUBSET tqueue
  OBVIOUS
<1>5. DeliveryInv(kept, tq, tail) /\ DeliveryInv(closed, tq, tail)
  <2> HIDE DEF close, drop
  <2>1. CASE ok \/ drop
    BY <2>1, <1>1, <1>4, IInvTypes, DropKeepsInv
  <2>2. CASE ~(ok \/ drop)
    BY <2>2, <1>1, <1>4, IInvTypes, DelayKeepsInv
  <2> QED
    BY <2>1, <2>2
<1>6. /\ kept.loaded \subseteq dv.loaded /\ kept.connections \subseteq dv.connections
      /\ closed.loaded \subseteq dv.loaded /\ closed.connections \subseteq dv.connections
  <2>1. d \in {dv, DropEvent(dv, e), DelayEvent(dv, e, retry_after)}
    OBVIOUS
  <2> HIDE DEF d, e, close
  <2> QED
    BY <1>3, <1>4, <2>1, ReleaseShrinks
<1>7. Keeps(st, s)
  <2> DEFINE now == st.timer \/ close
  <2>1. now \in BOOLEAN
    OBVIOUS
  <2> HIDE DEF now
  <2>2. Keeps(st, [st EXCEPT !.timer = now])
    BY <2>1, IInvTypes DEF Keeps, LifeState
  <2> QED
    BY <2>2 DEF now
<1> HIDE DEF s, kept, closed, tq, drop, d, close, e
<1>8. Keeps(s, good) /\ Keeps(s, notgone) /\ Keeps(s, isgone) /\ Keeps(s, ending)
  BY <1>7 DEF Keeps, LifeState
<1>9. Keeps(st, okst) /\ Keeps(st, notgone) /\ Keeps(st, isgone) /\ Keeps(st, ending)
  BY <1>7, <1>8 DEF Keeps
<1> HIDE DEF okst, notgone, isgone, ending
<1>10. ASSUME NEW t, Keeps(st, t), Loop(kept, t, tq, FALSE)
       PROVE  WithinLimits'
  BY <1>4, <1>5, <1>6, <1>10, HandlerIsLimited
<1>11. ASSUME dv' = closed, st' = ending
       PROVE  WithinLimits'
  <2>1. Limited(dv, st)
    BY IInvTypes DEF Limited, WithinLimits
  <2>2. closed \in DeliveryState
    BY <1>5 DEF DeliveryInv
  <2>3. Limited(closed, ending)
    BY <1>6, <1>9, <2>1, <2>2, SmallerIsLimited
  <2> QED
    BY <1>11, <2>3 DEF Limited, WithinLimits, HaveConnections
<1> QED
  BY <1>2, <1>9, <1>10, <1>11

LEMMA HangupIsLimited ==
  \A c \in Conn, no_time \in BOOLEAN : IInv /\ WithinLimits /\ HangupShared(c, no_time) => WithinLimits'
<1> SUFFICES ASSUME NEW c \in Conn, NEW no_time \in BOOLEAN, IInv, WithinLimits,
                    HangupShared(c, no_time)
             PROVE  WithinLimits'
  OBVIOUS
<1> DEFINE e == dv.event[c]
           drop == \/ e \in expired
                   \/ no_time /\ ~RetriesAtOnce(dv, e, FALSE)
           d == IF e = NoEvent THEN dv
                ELSE IF drop THEN DropEvent(dv, e) ELSE DelayEvent(dv, e, FALSE)
           gone == e # NoEvent /\ drop
           tq == IF gone THEN tqueue \ {e} ELSE tqueue
           closed == ReleaseConnection(d, c, TRUE)
<1>1. c \in dv.connections /\ Loop(closed, RelaxWakeup(st), tq, FALSE)
  BY DEF HangupShared
<1>2. tq \in SUBSET tqueue
  OBVIOUS
<1>3. DeliveryInv(closed, tq, tail)
  <2> HIDE DEF drop
  <2>1. CASE e = NoEvent
    BY <2>1, <1>1, IInvTypes, IdleKeepsInv
  <2>2. CASE e # NoEvent /\ drop
    BY <2>2, <1>1, IInvTypes, DropKeepsInv
  <2>3. CASE e # NoEvent /\ ~drop
    BY <2>3, <1>1, IInvTypes, DelayKeepsInv
  <2> QED
    BY <2>1, <2>2, <2>3
<1>4. closed.loaded \subseteq dv.loaded /\ closed.connections \subseteq dv.connections
  <2>1. CASE e = NoEvent
    BY <2>1, IInvTypes DEF ReleaseConnection, DeliveryState
  <2>2. CASE e # NoEvent
    <3>1. e \in Event /\ dv \in DeliveryState
      BY <1>1, <2>2, IInvTypes DEF DeliveryState
    <3>2. d \in {dv, DropEvent(dv, e), DelayEvent(dv, e, FALSE)}
      OBVIOUS
    <3>3. TRUE \in BOOLEAN /\ FALSE \in BOOLEAN
      OBVIOUS
    <3> HIDE DEF d, e
    <3> QED
      BY <3>1, <3>2, <3>3, ReleaseShrinks
  <2> QED
    BY <2>1, <2>2
<1>5. Keeps(st, RelaxWakeup(st))
  BY IInvTypes, RelaxKeeps
<1> HIDE DEF closed, tq
<1> QED
  BY <1>1, <1>2, <1>3, <1>4, <1>5, HandlerIsLimited

\* An actor starts without connections and with the sockets it has: none are opened yet.
LEMMA StartUpIsLimited ==
  \A url_ok, ip_ok, https \in BOOLEAN : IInv /\ WithinLimits /\ StartUp(url_ok, ip_ok, https) => WithinLimits'
<1> SUFFICES ASSUME NEW url_ok \in BOOLEAN, NEW ip_ok \in BOOLEAN, NEW https \in BOOLEAN,
                    IInv, WithinLimits, StartUp(url_ok, ip_ok, https)
             PROVE  WithinLimits'
  OBVIOUS
<1>1. PICK due \in BOOLEAN :
        LET s0 == [st EXCEPT !.life = "running", !.resolve_due = ~st.fix_ip /\ (~st.from_db \/ due)]
            s1 == IF url_ok THEN s0 ELSE OnError(s0)
            s2 == IF s1.from_db /\ ~s1.stop_flag THEN Check(s1) ELSE s1
            s3 == IF ~https THEN [s2 EXCEPT !.ssl_ctx = "ready"]
                  ELSE IF ~s2.stop_flag THEN [s2 EXCEPT !.ssl_ctx = "creating"]
                       ELSE s2
        IN  st' = IF s1.fix_ip /\ ~s1.stop_flag /\ ~ip_ok THEN OnError(s1)
                  ELSE RelaxWakeup(s3)
  BY DEF StartUp
<1> DEFINE due_now == ~st.fix_ip /\ (~st.from_db \/ due)
           s0 == [st EXCEPT !.life = "running", !.resolve_due = due_now]
           s1 == IF url_ok THEN s0 ELSE OnError(s0)
           s2 == IF s1.from_db /\ ~s1.stop_flag THEN Check(s1) ELSE s1
           s3 == IF ~https THEN [s2 EXCEPT !.ssl_ctx = "ready"]
                 ELSE IF ~s2.stop_flag THEN [s2 EXCEPT !.ssl_ctx = "creating"]
                      ELSE s2
<1>2. st' = OnError(s1) \/ st' = RelaxWakeup(s3)
  BY <1>1
<1>3. Keeps(st, s0)
  <2>1. due_now \in BOOLEAN
    OBVIOUS
  <2> HIDE DEF due_now
  <2> QED
    BY <2>1, IInvTypes DEF Keeps, LifeState
<1> HIDE DEF s0
<1>4. Keeps(st, s1)
  BY <1>3, OnErrorKeeps DEF Keeps
<1> HIDE DEF s1
<1>5. Keeps(st, s2)
  BY <1>4, CheckKeeps DEF Keeps
<1> HIDE DEF s2
<1>6. Keeps(st, s3)
  BY <1>5 DEF Keeps, LifeState
<1> HIDE DEF s3
<1>7. Keeps(st, st')
  BY <1>2, <1>4, <1>6, OnErrorKeeps, RelaxKeeps DEF Keeps
<1>8. dv' = dv
  BY DEF StartUp
<1> QED
  BY <1>7, <1>8 DEF Keeps, WithinLimits, HaveConnections

LEMMA CreateIsLimited == \A w \in Webhooks : IInv /\ WithinLimits /\ Create(w) => WithinLimits'
<1> SUFFICES ASSUME NEW w \in Webhooks, IInv, WithinLimits, Create(w) PROVE WithinLimits'
  OBVIOUS
<1>1. dv'.loaded = {} /\ dv'.connections = {}
  BY DEF Create, EmptyDelivery
<1>2. st'.pending_sockets = st.pending_sockets /\ st'.ready_sockets = st.ready_sockets
  BY IInvTypes DEF Create, LifeState
<1>3. QueuesOf({}) = {} /\ Cardinality({}) = 0
  BY FS_EmptySet DEF QueuesOf
<1>4. MaxLoaded \in Nat /\ MaxConnections \in Nat /\ Cardinality(dv.connections) \in Nat
      /\ st.pending_sockets \in Nat /\ st.ready_sockets \in Nat
  BY Counts, IInvTypes, ConstantsAssumption DEF MaxLoaded, LifeState
<1> QED
  BY <1>1, <1>2, <1>3, <1>4 DEF WithinLimits, HaveConnections

LEMMA EndIsLimited == IInv /\ (Close \/ Hangup) => WithinLimits'
<1> SUFFICES ASSUME IInv, Close \/ Hangup PROVE WithinLimits'
  OBVIOUS
<1> DEFINE dropped == [st EXCEPT !.told = @ \cup {"dropped"}]
<1>1. Tell(st, "closed") \in LifeState /\ dropped \in LifeState
  <2>1. dropped \in LifeState
    BY IInvTypes DEF LifeState, Messages
  <2> QED
    BY <2>1, IInvTypes, TellType DEF Messages
<1>2. Stop(Tell(st, "closed")) \/ Stop(dropped)
  BY DEF Close, Hangup
<1> HIDE DEF dropped
<1> QED
  BY <1>1, <1>2, StopIsLimited

-----------------------------------------------------------------------------
(* The theorem.                                                            *)

LEMMA NextIsLimited == IInv /\ WithinLimits /\ [Next]_vars => WithinLimits'
<1> SUFFICES ASSUME IInv, WithinLimits, [Next]_vars PROVE WithinLimits'
  OBVIOUS
<1>1. ASSUME dv' = dv, st' = st PROVE WithinLimits'
  BY <1>1 DEF WithinLimits, HaveConnections
<1>2. CASE AddUpdate \/ RunGc \/ (\E e \in Event : Expire(e)) \/ UNCHANGED vars
  BY <1>1, <1>2 DEF AddUpdate, RunGc, Expire, vars
<1>3. CASE \E w \in Webhooks : Create(w)
  BY <1>3, CreateIsLimited
<1>4. CASE \E url_ok, ip_ok, https \in BOOLEAN : StartUp(url_ok, ip_ok, https)
  BY <1>4, StartUpIsLimited
<1>5. CASE Update
  BY <1>5, UpdateIsLimited
<1>6. CASE Timeout
  BY <1>6, TimeoutIsLimited
<1>7. CASE \E c \in Conn, ok, keep_alive, retry_after, no_time \in BOOLEAN :
             HandleResponse(c, ok, keep_alive, retry_after, no_time)
  BY <1>7, ResponseIsLimited
<1>8. CASE \E c \in Conn, no_time \in BOOLEAN : HangupShared(c, no_time)
  BY <1>8, HangupIsLimited
<1>9. CASE \E result \in {"error", "same", "new"} : OnResolvedIpAddress(result)
  BY <1>9, ResolvedIsLimited
<1>10. CASE \E ok \in BOOLEAN : OnSslContextCreated(ok)
  BY <1>10, SslContextIsLimited
<1>11. CASE \E ok \in BOOLEAN : OnSocketReadyAsync(ok)
  BY <1>11, SocketIsLimited
<1>12. CASE Close \/ Hangup
  BY <1>12, EndIsLimited
<1> QED
  BY <1>2, <1>3, <1>4, <1>5, <1>6, <1>7, <1>8, <1>9, <1>10, <1>11, <1>12 DEF Next

\* Whatever is loaded, retried, resolved or opened in whichever order, the actor never holds
\* more than max_loaded_updates_ queues, so the CHECK of load_updates cannot fail, and never
\* has more than max_connections_ connections and sockets (WebhookActor.cpp:364, 261).
THEOREM LimitsHold == Spec => []WithinLimits
<1>1. Init => WithinLimits
  <2>1. QueuesOf({}) = {} /\ Cardinality({}) = 0
    BY FS_EmptySet DEF QueuesOf
  <2>2. MaxLoaded \in Nat /\ MaxConnections \in Nat
    BY ConstantsAssumption DEF MaxLoaded
  <2> QED
    BY <2>1, <2>2 DEF Init, EmptyDelivery, NoActor, WithinLimits, HaveConnections
<1> QED
  BY <1>1, NextIsLimited, Inductive, PTL DEF Spec

-----------------------------------------------------------------------------
(* What an actor waits for.                                                *)

\* Whoever believes the TQueue to be empty has read all of it.
ReadInv(d, tq) == d.tqueue_empty => \A e \in tq \ expired : e < d.tqueue_offset

\* What an actor that is not going to stop has or waits for
Ready(s) ==
  /\ s.ssl_ctx = "none" => s.stop_flag
  /\ s.fix_ip => s.ip \/ s.stop_flag
  /\ ~s.proxy => s.pending_sockets = 0 /\ s.ready_sockets = 0

Wakes(s) == s.timer \/ s.resolving \/ s.ssl_ctx = "creating" \/ s.pending_sockets > 0

Idle(d) == d.header_fits /\ d.loaded # {} /\ InFlight(d) = {}

\* s became t on the way through loop.
Follows(s, t) ==
  /\ t \in LifeState
  /\ t.life = s.life /\ t.ssl_ctx = s.ssl_ctx /\ t.fix_ip = s.fix_ip /\ t.ip = s.ip /\ t.proxy = s.proxy
  /\ s.stop_flag => t.stop_flag
  /\ Wakes(s) => Wakes(t)
  /\ ~s.proxy => t.pending_sockets = s.pending_sockets /\ t.ready_sockets \in {0, s.ready_sockets}

LEMMA LeastEvent ==
  ASSUME NEW T, T \subseteq Event, T # {}
  PROVE  \E m \in T : \A n \in T : m <= n
<1>1. T \subseteq Nat
  BY DEF Event
<1>2. PICK m \in T : \A n \in T : ~ (<<n, m>> \in OpToRel(<, Nat))
  BY <1>1, NatLessThanWellFounded, WFMin
<1>3. \A n \in T : ~ (n < m)
  BY <1>1, <1>2 DEF OpToRel
<1> QED
  BY <1>1, <1>3

\* An empty batch leaves nothing unread.
LEMMA LoadReads ==
  ASSUME NEW d, NEW tq \in SUBSET Event, d \in DeliveryState, ReadInv(d, tq)
  PROVE  ReadInv(LoadUpdates(d, tq), QueueAfterLoad(d, tq))
<1> DEFINE limit == LoadLimit(d)
           batch == Stored(tq, d.tqueue_offset, limit)
           available == {e \in tq \ expired : d.tqueue_offset <= e}
           n == LoadUpdates(d, tq)
<1>1. CASE ~CanLoad(d)
  BY <1>1 DEF LoadUpdates, QueueAfterLoad
<1>2. CASE CanLoad(d)
  <2>1. QueueAfterLoad(d, tq) \subseteq tq
    BY <1>2 DEF QueueAfterLoad, AfterGet
  <2>2. n.tqueue_empty = (batch = {}) /\ (batch = {} => n.tqueue_offset = d.tqueue_offset)
    BY <1>2 DEF LoadUpdates, DeliveryState
  <2>3. limit \in Int /\ 0 < limit
    <3>1. Cardinality(QueuesOf(d.loaded)) \in Nat /\ Cardinality(QueuesOf(d.loaded)) < MaxLoaded
      BY <1>2, Counts DEF CanLoad
    <3> QED
      BY <3>1, ConstantsAssumption DEF LoadLimit, MaxLoaded
  <2>4. d.tqueue_offset \in Nat /\ available \in SUBSET Event
    BY ConstantsAssumption DEF DeliveryState
  <2>5. ASSUME batch = {}, available # {} PROVE FALSE
    <3>1. PICK m \in available : \A e \in available : m <= e
      BY <2>4, <2>5, LeastEvent
    <3>2. {f \in available : f < m} = {}
      <4>1. \A f \in available : f \in Int /\ m \in Int /\ m <= f
        BY <2>4, <3>1 DEF Event
      <4> QED
        BY <4>1
    <3>3. Cardinality({f \in available : f < m}) < limit
      BY <2>3, <3>2, FS_EmptySet
    <3>4. m \in batch
      BY <3>3 DEF Stored
    <3> QED
      BY <2>5, <3>4
  <2>6. batch = {} => \A e \in tq \ expired : e < d.tqueue_offset
    <3>1. SUFFICES ASSUME batch = {}, NEW e \in tq \ expired PROVE e < d.tqueue_offset
      OBVIOUS
    <3>2. e \in Int /\ e \notin available
      BY <2>5, <3>1 DEF Event
    <3> QED
      BY <2>4, <3>2
  <2> HIDE DEF n, batch
  <2>7. ReadInv(n, QueueAfterLoad(d, tq))
    BY <2>1, <2>2, <2>6 DEF ReadInv
  <2> QED
    BY <2>7 DEF n
<1> QED
  BY <1>1, <1>2

LEMMA OnErrorFollows ==
  ASSUME NEW s \in LifeState
  PROVE  Follows(s, OnError(s)) /\ Follows(s, RelaxWakeup(s)) /\ Follows(s, Check(s))
<1>1. OnError(s) \in LifeState /\ RelaxWakeup(s) \in LifeState /\ Check(s) \in LifeState
  BY OnErrorType, RelaxWakeupType, CheckType
<1>2. Follows(s, OnError(s))
  BY <1>1 DEF OnError, Tell, Follows, Wakes, LifeState
<1>3. Follows(s, RelaxWakeup(s))
  BY <1>1 DEF RelaxWakeup, Follows, Wakes, LifeState
<1>4. Follows(s, Check(s))
  BY <1>1 DEF Check, OnWebhookVerified, Tell, Follows, Wakes, LifeState
<1> QED
  BY <1>2, <1>3, <1>4

LEMMA FollowsOn ==
  ASSUME NEW s \in LifeState, NEW t, NEW u, Follows(s, t), Follows(t, u)
  PROVE  Follows(s, u)
  BY DEF Follows

LEMMA FollowsSame ==
  ASSUME NEW s \in LifeState
  PROVE  Follows(s, s)
  BY DEF Follows

LEMMA FailedFollows ==
  ASSUME NEW s \in LifeState
  PROVE  Follows(s, Failed(s)) /\ Failed(s).timer
<1>1. Follows(s, OnError(s)) /\ OnError(s) \in LifeState
  BY OnErrorFollows, OnErrorType
<1>2. Follows(OnError(s), Failed(s))
  BY <1>1, OnErrorFollows DEF Failed
<1>3. Failed(s).timer
  BY <1>1 DEF Failed, RelaxWakeup, LifeState
<1> QED
  BY <1>1, <1>2, <1>3, FollowsOn

\* With updates loaded, the actor wants a connection.
LEMMA NeedsOne ==
  ASSUME NEW d \in DeliveryState, NEW s \in LifeState, d.loaded # {}
  PROVE  NeedConnections(d, s) \in Int /\ 1 <= NeedConnections(d, s)
<1> DEFINE queues == Cardinality(QueuesOf(d.loaded))
           capped == IF s.was_checked THEN Min({queues, MaxConnections}) ELSE 1
<1>1. queues \in Int /\ 1 <= queues /\ MaxConnections \in Int /\ 1 <= MaxConnections
  <2>1. QueuesOf(d.loaded) # {}
    BY DEF QueuesOf
  <2>2. Cardinality(QueuesOf(d.loaded)) \in Nat /\ Cardinality(QueuesOf(d.loaded)) # 0
    BY <2>1, Counts, FS_EmptySet
  <2> QED
    BY <2>2, ConstantsAssumption
<1>2. capped \in Int /\ 1 <= capped
  <2> HIDE DEF queues
  <2>1. Min({queues, MaxConnections}) \in {queues, MaxConnections}
    BY <1>1, Smaller
  <2> QED
    BY <1>1, <2>1
<1>3. NeedConnections(d, s) = IF s.active THEN Max({capped, 1}) ELSE Min({capped, 1})
  BY DEF NeedConnections
<1> HIDE DEF capped
<1>4. Max({capped, 1}) \in {capped, 1} /\ Min({capped, 1}) \in {capped, 1}
  <2>1. capped \in Int /\ 1 \in Int
    BY <1>2
  <2> QED
    BY ONLY <2>1, Larger, Smaller
<1> QED
  BY <1>2, <1>3, <1>4

\* What opening n connections makes of d and s
LEMMA OpenedHas ==
  ASSUME NEW d \in DeliveryState, NEW s \in LifeState, NEW n, NEW o \in Opened(d, s, n)
  PROVE  /\ o.dv.loaded = d.loaded /\ o.dv.header_fits = d.header_fits
         /\ o.dv.tqueue_empty = d.tqueue_empty /\ o.dv.tqueue_offset = d.tqueue_offset
         /\ Follows(s, o.st)
         /\ o.dv.connections = {} => n = 0 /\ d.connections = {}
<1>1. PICK new \in kSubset(n, Conn \ d.connections) :
        o = [dv |-> OpenConnections(d, new), st |-> IF n = 0 THEN s ELSE Check(s)]
  BY DEF Opened
<1>2. Cardinality(new) = n /\ new \in SUBSET Conn
  BY <1>1 DEF kSubset
<1>3. /\ o.dv.loaded = d.loaded /\ o.dv.header_fits = d.header_fits
      /\ o.dv.tqueue_empty = d.tqueue_empty /\ o.dv.tqueue_offset = d.tqueue_offset
      /\ o.dv.connections = d.connections \cup new
  BY <1>1, <1>2 DEF OpenConnections, DeliveryState
<1>4. Follows(s, o.st)
  BY <1>1, OnErrorFollows, FollowsSame
<1>5. o.dv.connections = {} => n = 0 /\ d.connections = {}
  BY <1>2, <1>3, FS_EmptySet
<1> QED
  BY <1>3, <1>4, <1>5

\* o is what create_new_connections may leave of d and s.
Served(o, d, s) ==
  /\ o.dv.loaded = d.loaded /\ o.dv.header_fits = d.header_fits
  /\ o.dv.tqueue_empty = d.tqueue_empty /\ o.dv.tqueue_offset = d.tqueue_offset
  /\ Follows(s, o.st)
  /\ d.loaded # {} /\ Ready(s) /\ s.ip /\ s.ssl_ctx = "ready" => Wakes(o.st) \/ o.dv.connections # {}

LEMMA DirectServes ==
  ASSUME NEW d \in DeliveryState, NEW s \in LifeState, ~s.proxy, NEW lucky \in BOOLEAN,
         NEW o \in DirectConnections(d, s, lucky)
  PROVE  Served(o, d, s)
<1> DEFINE need == NeedConnections(d, s)
           have == HaveConnections(d, s)
           room == Max({need - have, 0})
<1>1. \/ o \in Opened(d, s, room)
      \/ \E n : \E p \in Opened(d, s, n) :
           o = [p EXCEPT !.st = RelaxWakeup(@)] \/ o = [p EXCEPT !.st = Failed(@)]
  BY DEF DirectConnections
<1>2. CASE o \in Opened(d, s, room)
  <2>1. SUFFICES ASSUME d.loaded # {}, Ready(s), o.dv.connections = {} PROVE FALSE
    <3> HIDE DEF room
    <3> QED
      BY <1>2, OpenedHas DEF Served
  <2>2. need \in Int /\ 1 <= need
    BY <2>1, NeedsOne
  <2> HIDE DEF need
  <2>3. room = 0 /\ d.connections = {}
    <3> HIDE DEF room
    <3> QED
      BY <1>2, <2>1, OpenedHas
  <2>4. have = 0
    BY <2>1, <2>3, FS_EmptySet DEF HaveConnections, Ready
  <2> HIDE DEF have
  <2>5. PICK r \in Int : r = need - have /\ 1 <= r
    BY <2>2, <2>4
  <2>6. room = Max({r, 0})
    BY <2>5
  <2> HIDE DEF room
  <2>7. r <= Max({r, 0})
    BY ONLY r \in Int, 0 \in Int, Larger
  <2> QED
    BY <2>3, <2>5, <2>6, <2>7
<1>3. CASE \E n : \E p \in Opened(d, s, n) :
             o = [p EXCEPT !.st = RelaxWakeup(@)] \/ o = [p EXCEPT !.st = Failed(@)]
  <2>1. PICK n : \E p \in Opened(d, s, n) :
          o = [p EXCEPT !.st = RelaxWakeup(@)] \/ o = [p EXCEPT !.st = Failed(@)]
    BY <1>3
  <2>2. PICK p \in Opened(d, s, n) :
          o = [p EXCEPT !.st = RelaxWakeup(@)] \/ o = [p EXCEPT !.st = Failed(@)]
    BY <2>1
  <2>3. o.dv = p.dv /\ o.st \in {RelaxWakeup(p.st), Failed(p.st)}
    BY <2>2 DEF Opened
  <2>4. Follows(s, p.st) /\ p.st \in LifeState
    BY OpenedHas DEF Follows
  <2>5. RelaxWakeup(p.st).timer /\ Failed(p.st).timer
    BY <2>4, FailedFollows DEF RelaxWakeup, LifeState
  <2>6. Follows(s, o.st)
    BY <2>3, <2>4, OnErrorFollows, FailedFollows, FollowsOn
  <2> QED
    BY <2>3, <2>5, <2>6, OpenedHas DEF Served, Wakes
<1> QED
  BY <1>1, <1>2, <1>3

\* Either enough sockets are ready, or the caller knows that the actor will be woken.
LEMMA UseReadyServes ==
  ASSUME NEW d \in DeliveryState, NEW s \in LifeState, s.proxy, NEW lucky \in BOOLEAN,
         NEW o \in UseReadySockets(d, s, lucky),
         s.timer \/ NeedConnections(d, s) <= HaveConnections(d, s)
  PROVE  Served(o, d, s)
<1> DEFINE need == NeedConnections(d, s)
           room == need - Cardinality(d.connections) - s.pending_sockets
           n == Min({s.ready_sockets, Max({room, 0})})
           s1 == [s EXCEPT !.ready_sockets = 0]
<1>1. s1 \in LifeState /\ Follows(s, s1)
  <2>1. s1 \in LifeState
    BY DEF LifeState
  <2> QED
    BY <2>1 DEF Follows, Wakes, LifeState
<1>2. \/ o \in Opened(d, s1, n)
      \/ \E k : \E p \in Opened(d, s1, k) : o = [p EXCEPT !.st = Failed(@)]
  BY DEF UseReadySockets
<1>s. s1.pending_sockets = s.pending_sockets
  BY DEF LifeState
<1> HIDE DEF s1
<1>3. CASE o \in Opened(d, s1, n)
  <2> HIDE DEF n
  <2>1. /\ o.dv.loaded = d.loaded /\ o.dv.header_fits = d.header_fits
        /\ o.dv.tqueue_empty = d.tqueue_empty /\ o.dv.tqueue_offset = d.tqueue_offset
        /\ Follows(s1, o.st)
        /\ o.dv.connections = {} => n = 0 /\ d.connections = {}
    BY <1>1, <1>3, OpenedHas
  <2>2. Follows(s, o.st)
    BY <1>1, <2>1, FollowsOn
  <2>3. ASSUME d.loaded # {}, ~Wakes(o.st), o.dv.connections = {} PROVE FALSE
    <3>1. ~s.timer /\ s.pending_sockets = 0
      <4>1. ~Wakes(s)
        BY <2>2, <2>3 DEF Follows
      <4> QED
        BY <4>1 DEF Wakes, LifeState
    <3>2. need \in Int /\ 1 <= need
      BY <2>3, NeedsOne
    <3>3. Cardinality(d.connections) = 0 /\ n = 0
      BY <2>1, <2>3, FS_EmptySet
    <3>4. s.ready_sockets \in Nat /\ need <= s.ready_sockets
      BY <3>1, <3>3 DEF HaveConnections, LifeState
    <3>5. PICK sockets \in Int : sockets = s.ready_sockets
      BY <3>4
    <3>6. PICK wanted \in Int : wanted = need
      BY <3>2
    <3> HIDE DEF need
    <3>7. room = wanted
      BY <3>1, <3>3, <3>6
    <3>8. Max({wanted, 0}) \in {wanted, 0} /\ wanted <= Max({wanted, 0})
      BY ONLY wanted \in Int, 0 \in Int, Larger
    <3>9. Max({wanted, 0}) = wanted
      BY <3>2, <3>6, <3>8
    <3>10. n = Min({sockets, wanted})
      BY <3>5, <3>7, <3>9 DEF n
    <3>11. Min({sockets, wanted}) \in {sockets, wanted}
      BY ONLY sockets \in Int, wanted \in Int, Smaller
    <3> QED
      BY <3>2, <3>3, <3>4, <3>5, <3>6, <3>10, <3>11
  <2> QED
    BY <2>1, <2>2, <2>3 DEF Served
<1>4. CASE \E k : \E p \in Opened(d, s1, k) : o = [p EXCEPT !.st = Failed(@)]
  <2>1. PICK k : \E p \in Opened(d, s1, k) : o = [p EXCEPT !.st = Failed(@)]
    BY <1>4
  <2>2. PICK p \in Opened(d, s1, k) : o = [p EXCEPT !.st = Failed(@)]
    BY <2>1
  <2>3. o.dv = p.dv /\ o.st = Failed(p.st)
    BY <2>2 DEF Opened
  <2>4. Follows(s1, p.st) /\ p.st \in LifeState
    BY <1>1, OpenedHas DEF Follows
  <2>5. Follows(s, o.st) /\ o.st.timer
    BY <1>1, <2>3, <2>4, FailedFollows, FollowsOn
  <2> QED
    BY <1>1, <2>3, <2>5, OpenedHas DEF Served, Wakes
<1> QED
  BY <1>2, <1>3, <1>4

LEMMA ProxyServes ==
  ASSUME NEW d \in DeliveryState, NEW s \in LifeState, s.proxy, NEW lucky \in BOOLEAN,
         NEW o \in ProxyConnections(d, s, lucky)
  PROVE  Served(o, d, s)
<1> DEFINE checked == Check(s)
           started == [checked EXCEPT !.pending_sockets = @ + 1]
           relaxed == RelaxWakeup(s)
<1>1. CASE o \in UseReadySockets(d, s, lucky) /\ NeedConnections(d, s) <= HaveConnections(d, s)
  BY <1>1, UseReadyServes
<1>2. CASE o \in UseReadySockets(d, relaxed, lucky)
  <2>1. Follows(s, relaxed) /\ relaxed.timer /\ relaxed \in LifeState /\ relaxed.proxy
    BY OnErrorFollows, RelaxWakeupType DEF RelaxWakeup, LifeState
  <2> HIDE DEF relaxed
  <2>2. Served(o, d, relaxed)
    BY <1>2, <2>1, UseReadyServes
  <2>3. Follows(s, o.st) /\ Wakes(o.st)
    BY <2>1, <2>2, FollowsOn DEF Served, Follows, Wakes
  <2> QED
    BY <2>2, <2>3 DEF Served
<1>3. CASE o = [dv |-> d, st |-> Failed(s)]
  <2>1. o.dv = d /\ o.st = Failed(s)
    BY <1>3
  <2> QED
    BY <2>1, FailedFollows DEF Served, Wakes
<1>4. CASE o = [dv |-> d, st |-> RelaxWakeup(started)]
  <2>1. Follows(s, checked) /\ checked \in LifeState
    BY OnErrorFollows, CheckType
  <2> HIDE DEF checked
  <2>2. started \in LifeState /\ Follows(s, started)
    <3>1. started \in LifeState
      BY <2>1 DEF LifeState
    <3>2. /\ started.life = checked.life /\ started.ssl_ctx = checked.ssl_ctx
          /\ started.fix_ip = checked.fix_ip /\ started.ip = checked.ip /\ started.proxy = checked.proxy
          /\ started.stop_flag = checked.stop_flag
          /\ started.timer = checked.timer /\ started.resolving = checked.resolving
          /\ started.pending_sockets = checked.pending_sockets + 1 /\ checked.pending_sockets \in Nat
      BY <2>1 DEF LifeState
    <3> HIDE DEF started
    <3> QED
      BY <2>1, <3>1, <3>2 DEF Follows, Wakes
  <2> HIDE DEF started
  <2>3. Follows(s, RelaxWakeup(started)) /\ RelaxWakeup(started).timer
    BY <2>2, OnErrorFollows, FollowsOn DEF RelaxWakeup, LifeState
  <2>4. o.dv = d /\ o.st = RelaxWakeup(started)
    BY <1>4
  <2> QED
    BY <2>3, <2>4 DEF Served, Wakes
<1>5. \/ o \in UseReadySockets(d, s, lucky) /\ NeedConnections(d, s) <= HaveConnections(d, s)
      \/ o \in UseReadySockets(d, relaxed, lucky)
      \/ o = [dv |-> d, st |-> Failed(s)]
      \/ o = [dv |-> d, st |-> RelaxWakeup(started)]
  BY DEF ProxyConnections
<1> QED
  BY <1>1, <1>2, <1>3, <1>4, <1>5

LEMMA CreatedServes ==
  ASSUME NEW d \in DeliveryState, NEW s \in LifeState, NEW lucky \in BOOLEAN,
         NEW o \in CreateNewConnections(d, s, lucky)
  PROVE  Served(o, d, s)
<1>1. CASE ~s.ip \/ s.ssl_ctx # "ready"
  <2>1. o.dv = d /\ o.st = s
    BY <1>1 DEF CreateNewConnections
  <2> QED
    BY <1>1, <2>1, FollowsSame DEF Served
<1>2. CASE s.ip /\ s.ssl_ctx = "ready" /\ s.proxy
  BY <1>2, ProxyServes DEF CreateNewConnections
<1>3. CASE s.ip /\ s.ssl_ctx = "ready" /\ ~s.proxy
  BY <1>3, DirectServes DEF CreateNewConnections
<1> QED
  BY <1>1, <1>2, <1>3 DEF LifeState

\* An actor without an address looks it up, or will when the time has come.
LEMMA ResolveWakes ==
  ASSUME NEW s \in LifeState
  PROVE  /\ Follows(s, ResolveIpAddress(s))
         /\ ~s.fix_ip => Wakes(ResolveIpAddress(s))
<1> DEFINE t == [s EXCEPT !.resolving = TRUE, !.resolve_due = FALSE]
<1>1. s.fix_ip \in BOOLEAN /\ s.resolving \in BOOLEAN /\ s.resolve_due \in BOOLEAN
  BY DEF LifeState
<1>2. \/ ResolveIpAddress(s) = s /\ (s.fix_ip \/ s.resolving)
      \/ ResolveIpAddress(s) = t
      \/ ResolveIpAddress(s) = RelaxWakeup(s)
  BY <1>1 DEF ResolveIpAddress
<1>3. Follows(s, t) /\ Wakes(t)
  <2>1. t \in LifeState
    BY DEF LifeState
  <2> QED
    BY <2>1 DEF Follows, Wakes, LifeState
<1> HIDE DEF t
<1>4. Follows(s, RelaxWakeup(s)) /\ Wakes(RelaxWakeup(s))
  BY OnErrorFollows DEF RelaxWakeup, Wakes, LifeState
<1> QED
  BY <1>2, <1>3, <1>4, FollowsSame DEF Wakes

\* An actor that is ready stays so.
LEMMA StaysReady ==
  ASSUME NEW s \in LifeState, NEW t, Ready(s), Follows(s, t)
  PROVE  Ready(t)
  BY DEF Ready, Follows

\* With connections and nothing in flight, the queues of the loaded updates wait, and
\* send_updates sets the timer for them.
LEMMA SendWakes ==
  ASSUME NEW d, NEW s \in LifeState, NEW tq, NEW last, SendUpdates(d, s), d \in DeliveryState,
         DeliveryInv(dv', tq, last), Idle(dv'), d.connections # {}
  PROVE  st'.timer
<1>1. dv' \in DeliveryState /\ ReadyInv(dv') /\ PlacedInv(dv')
  BY DEF DeliveryInv
<1>2. dv'.header_fits = d.header_fits /\ dv'.connections = d.connections
  BY DEF SendUpdates, Send, FailToSend, DeliveryState
<1>3. dv'.ready # {}
  <2>1. PICK c : c \in dv'.connections
    BY <1>2
  <2>2. dv'.event[c] = NoEvent
    BY <2>1 DEF Idle, InFlight
  <2> QED
    BY <1>1, <2>1, <2>2 DEF ReadyInv
<1>4. dv'.waiting # {}
  <2>1. QueuesOf(InFlight(dv')) = {} /\ QueuesOf(dv'.loaded) # {}
    BY DEF Idle, QueuesOf
  <2> QED
    BY <1>1, <2>1 DEF PlacedInv, Idle
<1>5. st' = RelaxWakeup(s)
  BY <1>2, <1>3, <1>4 DEF SendUpdates, Idle
<1> QED
  BY <1>5 DEF RelaxWakeup, LifeState

\* What loop leaves of an actor that it does not stop
Woken ==
  /\ Ready(st') /\ ~st'.stop_flag
  /\ Idle(dv') /\ st'.ssl_ctx # "failed" => Wakes(st')

LEMMA LoopWakes ==
  ASSUME tail \in 0..MaxEvent, NEW d, NEW tq, DeliveryInv(d, tq, tail), tq \in SUBSET Event,
         NEW s \in LifeState, NEW lucky \in BOOLEAN, Ready(s), s.life = "running",
         Loop(d, s, tq, lucky)
  PROVE  \/ Stop(s) \/ \E t \in LifeState : Stop(t)
         \/ /\ st'.life = "running" /\ Woken
            /\ ReadInv(d, tq) => ReadInv(dv', tqueue')
<1>1. CASE s.stop_flag
  BY <1>1 DEF Loop
<1>2. CASE ~s.stop_flag
  <2> DEFINE loaded == LoadUpdates(d, tq)
  <2>1. tqueue' = QueueAfterLoad(d, tq) /\ DeliveryInv(dv', tqueue', tail)
    BY <1>2, LoopKeepsInv DEF Loop
  <2>2. loaded \in DeliveryState
    BY LoadKeepsInv DEF DeliveryInv
  <2>3. ReadInv(d, tq) => ReadInv(loaded, tqueue')
    BY <2>1, LoadReads DEF DeliveryInv
  <2>4. PICK active \in {FALSE, s.active} :
          LET s1 == ResolveIpAddress([s EXCEPT !.active = active])
          IN  \E o \in CreateNewConnections(loaded, s1, lucky) :
                IF o.st.stop_flag THEN Stop(o.st) ELSE SendUpdates(o.dv, o.st)
    BY <1>2 DEF Loop
  <2> DEFINE s0 == [s EXCEPT !.active = active]
             s1 == ResolveIpAddress(s0)
  <2>5. s0 \in LifeState /\ Follows(s, s0)
    <3>1. s0 \in LifeState
      BY <2>4 DEF LifeState
    <3> QED
      BY <3>1 DEF Follows, Wakes, LifeState
  <2> HIDE DEF loaded, s0
  <2>6. s1 \in LifeState /\ Follows(s, s1) /\ (~s0.fix_ip => Wakes(s1))
    BY <2>5, ResolveWakes, FollowsOn DEF Follows
  <2>7. PICK o \in CreateNewConnections(loaded, s1, lucky) :
          IF o.st.stop_flag THEN Stop(o.st) ELSE SendUpdates(o.dv, o.st)
    BY <2>4 DEF s0
  <2> HIDE DEF s1
  <2>8. Served(o, loaded, s1) /\ Follows(s, o.st) /\ o.st \in LifeState
    BY <2>2, <2>6, <2>7, CreatedServes, FollowsOn DEF Served, Follows
  <2>9. o.dv \in DeliveryState
    BY <2>2, <2>6, <2>7, LoadKeepsInv, CreateNewConnectionsFine DEF Fine, DeliveryInv, loaded
  <2>10. CASE o.st.stop_flag
    BY <2>7, <2>8, <2>10
  <2>11. CASE ~o.st.stop_flag
    <3>1. SendUpdates(o.dv, o.st)
      BY <2>7, <2>11
    <3>2. /\ dv'.loaded = o.dv.loaded /\ dv'.header_fits = o.dv.header_fits
          /\ dv'.tqueue_empty = o.dv.tqueue_empty /\ dv'.tqueue_offset = o.dv.tqueue_offset
      BY <2>9, <3>1 DEF SendUpdates, Send, FailToSend, DeliveryState
    <3>3. st' \in {o.st, RelaxWakeup(o.st)}
      BY <3>1 DEF SendUpdates
    <3>4. Follows(o.st, st') /\ Follows(s, st')
      BY <2>8, <3>3, OnErrorFollows, FollowsSame, FollowsOn
    <3>5. ~st'.stop_flag /\ Ready(st')
      BY <2>8, <2>11, <3>3, <3>4, StaysReady DEF RelaxWakeup, LifeState
    <3>6. ReadInv(d, tq) => ReadInv(dv', tqueue')
      BY <2>3, <2>8, <3>2 DEF Served, ReadInv
    <3>7. ASSUME Idle(dv'), st'.ssl_ctx # "failed", ~Wakes(st') PROVE FALSE
      <4>1. ~Wakes(o.st) /\ ~Wakes(s1)
        BY <2>8, <3>4, <3>7 DEF Follows, Served
      <4>2. Ready(s1) /\ ~s1.stop_flag
        BY <2>6, <2>8, <2>11, StaysReady DEF Follows, Served
      <4>3. s1.ip
        BY <2>5, <2>6, <4>1, <4>2 DEF Ready, Follows
      <4>4. s1.ssl_ctx = "ready"
        <5>1. s1.ssl_ctx = st'.ssl_ctx
          BY <2>8, <3>4 DEF Follows, Served
        <5>2. s1.ssl_ctx \in {"none", "creating", "ready", "failed"}
          BY <2>6 DEF LifeState
        <5> QED
          BY <3>7, <4>1, <4>2, <5>1, <5>2 DEF Ready, Wakes
      <4>5. loaded.loaded # {}
        BY <2>8, <3>2, <3>7 DEF Idle, Served
      <4>6. o.dv.connections # {}
        BY <2>8, <4>1, <4>2, <4>3, <4>4, <4>5 DEF Served
      <4>7. st'.timer
        BY <2>1, <2>8, <2>9, <3>1, <3>7, <4>6, SendWakes
      <4> QED
        BY <3>7, <4>7 DEF Wakes
    <3>8. st'.life = "running"
      BY <3>4 DEF Follows
    <3> QED
      BY <3>5, <3>6, <3>7, <3>8 DEF Woken
  <2> QED
    BY <2>10, <2>11
<1> QED
  BY <1>1, <1>2

-----------------------------------------------------------------------------
(* The invariant.                                                          *)

\* An actor that does not run has nothing yet; one that runs is ready, and is woken when it
\* is idle or going to close; and one that was not told of an update has read all of them.
WakeInv ==
  /\ ~Running => /\ dv.loaded = {} /\ ~st.was_checked /\ ~st.stop_flag /\ st.ssl_ctx = "none"
                 /\ st.pending_sockets = 0 /\ st.ready_sockets = 0
  /\ Running => Ready(st)
  /\ Running /\ Idle(dv) /\ st.ssl_ctx # "failed" => Wakes(st) \/ st.close_message
  /\ st.life # "dead" /\ ~update_message => ReadInv(dv, tqueue)

LEMMA StopWakes ==
  ASSUME NEW s \in LifeState, Stop(s)
  PROVE  WakeInv'
<1>1. /\ dv'.loaded = {} /\ ~st'.was_checked /\ ~st'.stop_flag /\ st'.ssl_ctx = "none"
      /\ st'.pending_sockets = 0 /\ st'.ready_sockets = 0 /\ st'.life = "dead"
  BY DEF Stop, EmptyDelivery, NoActor
<1> QED
  BY <1>1 DEF WakeInv, Running

\* What the handlers pass to loop
LEMMA HandlerWakes ==
  ASSUME IInv, NEW d, NEW tq \in SUBSET tqueue, DeliveryInv(d, tq, tail),
         NEW s \in LifeState, NEW lucky \in BOOLEAN, Ready(s), s.life = "running",
         Loop(d, s, tq, lucky), expired' = expired, update_message' \/ ReadInv(d, tq)
  PROVE  WakeInv'
<1>1. tail \in 0..MaxEvent /\ tq \in SUBSET Event
  BY DEF IInv, TypeOK
<1>2. CASE Stop(s) \/ \E t \in LifeState : Stop(t)
  BY <1>2, StopWakes
<1>3. CASE /\ st'.life = "running" /\ Woken
           /\ ReadInv(d, tq) => ReadInv(dv', tqueue')
  <2>1. update_message' \/ ReadInv(dv, tqueue)'
    BY <1>3 DEF ReadInv
  <2> QED
    BY <1>3, <2>1 DEF WakeInv, Woken, Running
<1> QED
  BY <1>1, <1>2, <1>3, LoopWakes

LEMMA FewerRead ==
  ASSUME NEW d, NEW tq, NEW e, NEW uq \in SUBSET tq, ReadInv(d, tq),
         e.tqueue_empty = d.tqueue_empty, e.tqueue_offset = d.tqueue_offset
  PROVE  ReadInv(e, uq)
  BY DEF ReadInv

LEMMA AddUpdateWakes == IInv /\ WakeInv /\ AddUpdate => WakeInv'
<1> SUFFICES ASSUME IInv, WakeInv, AddUpdate PROVE WakeInv'
  OBVIOUS
<1>1. dv' = dv /\ st' = st /\ update_message' = (st.life # "dead")
  BY DEF AddUpdate
<1> QED
  BY <1>1 DEF WakeInv, Running

\* Updates that expire or are removed are not missed.
LEMMA QueueShrinks ==
  ASSUME WakeInv, dv' = dv, st' = st, update_message' = update_message,
         tqueue' \ expired' \subseteq tqueue \ expired
  PROVE  WakeInv'
<1>1. ReadInv(dv, tqueue) => ReadInv(dv, tqueue)'
  BY DEF ReadInv
<1> QED
  BY <1>1 DEF WakeInv, Running

LEMMA CreateWakes == \A w \in Webhooks : IInv /\ WakeInv /\ Create(w) => WakeInv'
<1> SUFFICES ASSUME NEW w \in Webhooks, IInv, WakeInv, Create(w) PROVE WakeInv'
  OBVIOUS
<1>1. st.life = "dead" /\ ~Running
  BY DEF Create, Running
<1>2. /\ st'.life = "created" /\ st'.was_checked = st.was_checked /\ st'.stop_flag = st.stop_flag
      /\ st'.ssl_ctx = st.ssl_ctx /\ st'.pending_sockets = st.pending_sockets
      /\ st'.ready_sockets = st.ready_sockets
  BY IInvTypes DEF Create, LifeState
<1>3. dv'.loaded = {} /\ ~dv'.tqueue_empty
  BY DEF Create, EmptyDelivery
<1> QED
  BY <1>1, <1>2, <1>3 DEF WakeInv, Running, ReadInv

\* A failure stops an actor whose webhook was never checked.
LEMMA FailureStops ==
  ASSUME NEW s \in LifeState, ~s.was_checked
  PROVE  OnError(s).stop_flag
<1>1. Tell(s, "closed") \in LifeState
  BY TellType DEF Messages
<1> QED
  BY <1>1 DEF OnError, LifeState

\* The actor either waits for its SSL context, or has one, or is going to stop.
LEMMA StartUpWakes ==
  \A url_ok, ip_ok, https \in BOOLEAN : IInv /\ WakeInv /\ StartUp(url_ok, ip_ok, https) => WakeInv'
<1> SUFFICES ASSUME NEW url_ok \in BOOLEAN, NEW ip_ok \in BOOLEAN, NEW https \in BOOLEAN,
                    IInv, WakeInv, StartUp(url_ok, ip_ok, https)
             PROVE  WakeInv'
  OBVIOUS
<1>1. PICK due \in BOOLEAN :
        LET s0 == [st EXCEPT !.life = "running", !.resolve_due = ~st.fix_ip /\ (~st.from_db \/ due)]
            s1 == IF url_ok THEN s0 ELSE OnError(s0)
            s2 == IF s1.from_db /\ ~s1.stop_flag THEN Check(s1) ELSE s1
            s3 == IF ~https THEN [s2 EXCEPT !.ssl_ctx = "ready"]
                  ELSE IF ~s2.stop_flag THEN [s2 EXCEPT !.ssl_ctx = "creating"]
                       ELSE s2
        IN  st' = IF s1.fix_ip /\ ~s1.stop_flag /\ ~ip_ok THEN OnError(s1)
                  ELSE RelaxWakeup(s3)
  BY DEF StartUp
<1> DEFINE due_now == ~st.fix_ip /\ (~st.from_db \/ due)
           s0 == [st EXCEPT !.life = "running", !.resolve_due = due_now]
           s1 == IF url_ok THEN s0 ELSE OnError(s0)
           s2 == IF s1.from_db /\ ~s1.stop_flag THEN Check(s1) ELSE s1
           s3 == IF ~https THEN [s2 EXCEPT !.ssl_ctx = "ready"]
                 ELSE IF ~s2.stop_flag THEN [s2 EXCEPT !.ssl_ctx = "creating"]
                      ELSE s2
<1>2. \/ st' = OnError(s1) /\ ~s1.stop_flag
      \/ st' = RelaxWakeup(s3) /\ (s1.fix_ip /\ ~s1.stop_flag => ip_ok)
  BY <1>1
<1>3. st.life = "created" /\ (ip_ok => st.ip) /\ dv' = dv /\ update_message' = update_message
      /\ tqueue' = tqueue /\ expired' = expired
  BY DEF StartUp, History
<1>4. /\ s0 \in LifeState /\ s0.life = "running" /\ s0.ip = st.ip /\ s0.ssl_ctx = "none"
      /\ ~s0.was_checked /\ ~s0.stop_flag /\ s0.pending_sockets = 0 /\ s0.ready_sockets = 0
  <2>1. due_now \in BOOLEAN /\ st \in LifeState
    BY IInvTypes
  <2> HIDE DEF due_now
  <2>2. s0 \in LifeState
    BY <2>1 DEF LifeState
  <2> QED
    BY <1>3, <2>1, <2>2 DEF WakeInv, Running, LifeState
<1> HIDE DEF s0
<1>5. s1 \in LifeState /\ Follows(s0, s1) /\ (s1.stop_flag \/ ~s1.was_checked)
  <2>1. Follows(s0, s0) /\ Follows(s0, OnError(s0)) /\ OnError(s0) \in LifeState
    BY <1>4, OnErrorFollows, OnErrorType, FollowsSame
  <2>2. OnError(s0).stop_flag
    BY <1>4, FailureStops
  <2>3. s1 = s0 \/ s1 = OnError(s0)
    OBVIOUS
  <2> HIDE DEF s1
  <2> QED
    BY <1>4, <2>1, <2>2, <2>3
<1> HIDE DEF s1
<1>6. s2 \in LifeState /\ Follows(s1, s2) /\ s2.stop_flag = s1.stop_flag
  <2>1. Follows(s1, s1) /\ Follows(s1, Check(s1)) /\ Check(s1) \in LifeState
    BY <1>5, OnErrorFollows, CheckType, FollowsSame
  <2>2. Check(s1).stop_flag = s1.stop_flag
    BY <1>5 DEF Check, OnWebhookVerified, Tell, LifeState
  <2>3. s2 = s1 \/ s2 = Check(s1)
    OBVIOUS
  <2> HIDE DEF s2
  <2> QED
    BY <1>5, <2>1, <2>2, <2>3
<1> HIDE DEF s2
<1>7. Follows(s0, s2)
  BY <1>4, <1>5, <1>6, FollowsOn
<1>8. CASE st' = OnError(s1) /\ ~s1.stop_flag
  <2>1. Follows(s0, OnError(s1))
    BY <1>4, <1>5, OnErrorFollows, FollowsOn
  <2>2. OnError(s1).stop_flag
    BY <1>5, <1>8, FailureStops
  <2> QED
    BY <1>3, <1>4, <1>8, <2>1, <2>2 DEF WakeInv, Running, Ready, Follows, Idle, ReadInv
<1>9. CASE st' = RelaxWakeup(s3) /\ (s1.fix_ip /\ ~s1.stop_flag => ip_ok)
  <2>1. /\ s3 \in LifeState /\ s3.life = s2.life /\ s3.fix_ip = s2.fix_ip /\ s3.ip = s2.ip
        /\ s3.proxy = s2.proxy /\ s3.stop_flag = s2.stop_flag
        /\ s3.pending_sockets = s2.pending_sockets /\ s3.ready_sockets = s2.ready_sockets
        /\ s3.ssl_ctx = "none" => s3.stop_flag \/ s3.ssl_ctx # s2.ssl_ctx
    BY <1>6 DEF LifeState
  <2>2. s3.ssl_ctx = "none" => s3.stop_flag
    BY <1>6 DEF LifeState
  <2> HIDE DEF s3
  <2>3. Follows(s3, RelaxWakeup(s3)) /\ RelaxWakeup(s3).timer
    BY <2>1, OnErrorFollows DEF RelaxWakeup, LifeState
  <2>4. Ready(s3)
    BY <1>3, <1>4, <1>6, <1>7, <1>9, <2>1, <2>2 DEF Ready, Follows
  <2>5. Ready(RelaxWakeup(s3))
    BY <2>1, <2>3, <2>4, StaysReady
  <2> QED
    BY <1>3, <1>4, <1>7, <1>9, <2>1, <2>3, <2>5 DEF WakeInv, Running, Wakes, Follows, ReadInv
<1> QED
  BY <1>2, <1>8, <1>9

LEMMA UpdateWakes == IInv /\ WakeInv /\ Update => WakeInv'
<1> SUFFICES ASSUME IInv, WakeInv, Update PROVE WakeInv'
  OBVIOUS
<1> DEFINE d == [dv EXCEPT !.tqueue_empty = FALSE]
<1>1. Loop(d, st, tqueue, FALSE) /\ Running /\ expired' = expired
  BY DEF Update, History
<1>2. DeliveryInv(d, tqueue, tail) /\ ~d.tqueue_empty
  <2>1. /\ d \in DeliveryState
        /\ d.waiting = dv.waiting /\ d.connections = dv.connections
        /\ d.ready = dv.ready /\ d.event = dv.event /\ d.loaded = dv.loaded
        /\ d.tqueue_offset = dv.tqueue_offset /\ d.header_fits = dv.header_fits
        /\ ~d.tqueue_empty
    BY IInvTypes DEF DeliveryState
  <2> HIDE DEF d
  <2> QED
    BY <2>1, IInvTypes, SameKeepsInv
<1> HIDE DEF d
<1>3. ReadInv(d, tqueue) /\ st \in LifeState /\ Ready(st) /\ st.life = "running"
  BY <1>1, <1>2, IInvTypes DEF ReadInv, WakeInv, Running
<1> QED
  BY <1>1, <1>2, <1>3, HandlerWakes

\* t is s with another timer, answer or time to look the address up.
Tunes(s, t) ==
  /\ t \in LifeState
  /\ t.life = s.life /\ t.ssl_ctx = s.ssl_ctx /\ t.fix_ip = s.fix_ip /\ t.ip = s.ip /\ t.proxy = s.proxy
  /\ t.stop_flag = s.stop_flag
  /\ t.pending_sockets = s.pending_sockets /\ t.ready_sockets = s.ready_sockets

LEMMA TunedHandlerWakes ==
  ASSUME IInv, WakeInv, Running, NEW d, NEW tq \in SUBSET tqueue, DeliveryInv(d, tq, tail),
         NEW s, Tunes(st, s), NEW lucky \in BOOLEAN, Loop(d, s, tq, lucky), expired' = expired,
         update_message' = update_message,
         d.tqueue_empty = dv.tqueue_empty, d.tqueue_offset = dv.tqueue_offset
  PROVE  WakeInv'
<1>1. s \in LifeState /\ s.life = "running" /\ Ready(s)
  BY DEF WakeInv, Tunes, Ready, Running
<1>2. update_message' \/ ReadInv(d, tq)
  <2>1. update_message \/ ReadInv(dv, tqueue)
    BY DEF WakeInv, Running
  <2> QED
    BY <2>1, FewerRead
<1> QED
  BY <1>1, <1>2, HandlerWakes

LEMMA TimeoutWakes == IInv /\ WakeInv /\ Timeout => WakeInv'
<1> SUFFICES ASSUME IInv, WakeInv, Timeout PROVE WakeInv'
  OBVIOUS
<1>1. PICK woken \in SUBSET dv.delayed, due \in BOOLEAN : TimeoutWith(woken, due, FALSE)
  BY DEF Timeout
<1> DEFINE d == [dv EXCEPT !.delayed = @ \ woken]
           s == [st EXCEPT !.timer = FALSE, !.resolve_due = @ \/ due]
<1>2. Loop(d, s, tqueue, FALSE) /\ Running /\ expired' = expired /\ update_message' = update_message
  BY <1>1 DEF TimeoutWith, History
<1>3. /\ DeliveryInv(d, tqueue, tail)
      /\ d.tqueue_empty = dv.tqueue_empty /\ d.tqueue_offset = dv.tqueue_offset
  <2>1. /\ d \in DeliveryState
        /\ d.waiting = dv.waiting /\ d.connections = dv.connections
        /\ d.ready = dv.ready /\ d.event = dv.event /\ d.loaded = dv.loaded
        /\ d.tqueue_offset = dv.tqueue_offset /\ d.header_fits = dv.header_fits
        /\ d.tqueue_empty = dv.tqueue_empty
    BY IInvTypes DEF DeliveryState
  <2> HIDE DEF d
  <2> QED
    BY <2>1, IInvTypes, SameKeepsInv
<1>4. Tunes(st, s)
  <2> DEFINE now == st.resolve_due \/ due
  <2>1. now \in BOOLEAN
    OBVIOUS
  <2> HIDE DEF now
  <2>2. Tunes(st, [st EXCEPT !.timer = FALSE, !.resolve_due = now])
    BY <2>1, IInvTypes DEF Tunes, LifeState
  <2> QED
    BY <2>2 DEF now
<1> HIDE DEF d, s
<1> QED
  BY <1>2, <1>3, <1>4, TunedHandlerWakes

\* What the handlers that leave the updates alone pass to loop
LEMMA QuietHandlerWakes ==
  ASSUME IInv, WakeInv, Running, NEW s \in LifeState, s.life = "running", Ready(s),
         Loop(dv, s, tqueue, FALSE), expired' = expired, update_message' = update_message
  PROVE  WakeInv'
<1>1. update_message' \/ ReadInv(dv, tqueue)
  BY DEF WakeInv, Running
<1> QED
  BY <1>1, IInvTypes, HandlerWakes

LEMMA SslContextWakes ==
  \A ok \in BOOLEAN : IInv /\ WakeInv /\ OnSslContextCreated(ok) => WakeInv'
<1> SUFFICES ASSUME NEW ok \in BOOLEAN, IInv, WakeInv, OnSslContextCreated(ok) PROVE WakeInv'
  OBVIOUS
<1> DEFINE good == [st EXCEPT !.ssl_ctx = "ready"]
           bad == [st EXCEPT !.ssl_ctx = "failed"]
<1>1. /\ Loop(dv, good, tqueue, FALSE) \/ Loop(dv, OnError(bad), tqueue, FALSE)
      /\ Running /\ expired' = expired /\ update_message' = update_message
  BY DEF OnSslContextCreated, History
<1>2. /\ good \in LifeState /\ good.life = "running" /\ Ready(good)
      /\ bad \in LifeState /\ bad.life = "running" /\ Ready(bad)
  BY <1>1, IInvTypes DEF LifeState, Ready, WakeInv, Running
<1> HIDE DEF good, bad
<1>3. OnError(bad) \in LifeState /\ OnError(bad).life = "running" /\ Ready(OnError(bad))
  BY <1>2, OnErrorFollows, StaysReady DEF Follows
<1> QED
  BY <1>1, <1>2, <1>3, QuietHandlerWakes

LEMMA SocketWakes ==
  \A ok \in BOOLEAN : IInv /\ WakeInv /\ OnSocketReadyAsync(ok) => WakeInv'
<1> SUFFICES ASSUME NEW ok \in BOOLEAN, IInv, WakeInv, OnSocketReadyAsync(ok) PROVE WakeInv'
  OBVIOUS
<1> DEFINE s == [st EXCEPT !.pending_sockets = @ - 1]
           s1 == [s EXCEPT !.ready_sockets = @ + 1]
<1>1. /\ Loop(dv, s1, tqueue, FALSE) \/ Loop(dv, OnError(s), tqueue, FALSE)
      /\ Running /\ expired' = expired /\ update_message' = update_message
      /\ st.pending_sockets > 0
  BY DEF OnSocketReadyAsync, History
<1>2. st \in LifeState /\ Ready(st) /\ st.life = "running" /\ st.pending_sockets \in Nat
  BY <1>1, IInvTypes DEF WakeInv, Running, LifeState
<1>3. st.proxy
  BY <1>1, <1>2 DEF Ready
<1>4. s \in LifeState /\ s.life = "running" /\ Ready(s) /\ s.proxy
  BY <1>1, <1>2, <1>3 DEF LifeState, Ready
<1> HIDE DEF s
<1>5. s1 \in LifeState /\ s1.life = "running" /\ Ready(s1)
  BY <1>4 DEF LifeState, Ready
<1> HIDE DEF s1
<1>6. OnError(s) \in LifeState /\ OnError(s).life = "running" /\ Ready(OnError(s))
  BY <1>4, OnErrorFollows, StaysReady DEF Follows
<1> QED
  BY <1>1, <1>5, <1>6, QuietHandlerWakes

LEMMA ResolvedWakes ==
  \A result \in {"error", "same", "new"} :
    IInv /\ WakeInv /\ OnResolvedIpAddress(result) => WakeInv'
<1> SUFFICES ASSUME NEW result \in {"error", "same", "new"}, IInv, WakeInv,
                    OnResolvedIpAddress(result)
             PROVE  WakeInv'
  OBVIOUS
<1> DEFINE s == [st EXCEPT !.resolving = FALSE]
           s1 == [s EXCEPT !.ip = TRUE]
           s2 == IF s1.was_checked THEN OnWebhookVerified(s1) ELSE s1
           d == [dv EXCEPT !.old_ip = dv.connections]
<1>1. /\ \/ Loop(dv, OnError(s), tqueue, FALSE)
         \/ Loop(dv, s, tqueue, FALSE)
         \/ Loop(d, s2, tqueue, FALSE)
      /\ Running /\ expired' = expired /\ update_message' = update_message
  BY DEF OnResolvedIpAddress, History
<1>2. /\ s \in LifeState /\ s.life = "running" /\ Ready(s)
      /\ s1 \in LifeState /\ s1.life = "running" /\ Ready(s1)
  BY <1>1, IInvTypes DEF LifeState, Ready, WakeInv, Running
<1> HIDE DEF s, s1
<1>3. OnError(s) \in LifeState /\ OnError(s).life = "running" /\ Ready(OnError(s))
  BY <1>2, OnErrorFollows, StaysReady DEF Follows
<1>4. s2 \in LifeState /\ s2.life = "running" /\ Ready(s2)
  <2>1. OnWebhookVerified(s1) \in LifeState
    BY <1>2, TellType DEF OnWebhookVerified, Messages
  <2>2. OnWebhookVerified(s1).life = "running" /\ Ready(OnWebhookVerified(s1))
    BY <1>2, <2>1 DEF OnWebhookVerified, Tell, Ready, LifeState
  <2>3. s2 = s1 \/ s2 = OnWebhookVerified(s1)
    OBVIOUS
  <2> HIDE DEF s2
  <2> QED
    BY <1>2, <2>1, <2>2, <2>3
<1>5. /\ DeliveryInv(d, tqueue, tail)
      /\ d.tqueue_empty = dv.tqueue_empty /\ d.tqueue_offset = dv.tqueue_offset
  <2>1. /\ d \in DeliveryState
        /\ d.waiting = dv.waiting /\ d.connections = dv.connections
        /\ d.ready = dv.ready /\ d.event = dv.event /\ d.loaded = dv.loaded
        /\ d.tqueue_offset = dv.tqueue_offset /\ d.header_fits = dv.header_fits
        /\ d.tqueue_empty = dv.tqueue_empty
    BY IInvTypes DEF DeliveryState
  <2> HIDE DEF d
  <2> QED
    BY <2>1, IInvTypes, SameKeepsInv
<1>6. update_message' \/ ReadInv(d, tqueue)
  <2>1. update_message \/ ReadInv(dv, tqueue)
    BY <1>1 DEF WakeInv, Running
  <2> HIDE DEF d
  <2> QED
    BY <1>1, <1>5, <2>1, FewerRead
<1> HIDE DEF s2, d
<1> QED
  BY <1>1, <1>2, <1>3, <1>4, <1>5, <1>6, QuietHandlerWakes, HandlerWakes

\* The answer to an update changes nothing of what was read.
SameRead(d, n) == n.tqueue_empty = d.tqueue_empty /\ n.tqueue_offset = d.tqueue_offset

LEMMA ReleaseReads ==
  ASSUME NEW e \in Event, NEW c, NEW close \in BOOLEAN, NEW retry_after \in BOOLEAN,
         dv \in DeliveryState,
         NEW d, d \in {dv, DropEvent(dv, e), DelayEvent(dv, e, retry_after)}
  PROVE  SameRead(dv, ReleaseConnection(d, c, close))
<1>1. /\ d.tqueue_empty = dv.tqueue_empty /\ d.tqueue_offset = dv.tqueue_offset
      /\ d = [x \in DOMAIN dv |-> d[x]] /\ DOMAIN d = DOMAIN dv
  BY DEF DropEvent, DelayEvent, DeliveryState
<1>2. {"tqueue_empty", "tqueue_offset"} \subseteq DOMAIN d
  BY <1>1 DEF DeliveryState
<1>3. CASE close
  BY <1>1, <1>2, <1>3 DEF ReleaseConnection, SameRead
<1>4. CASE ~close
  BY <1>1, <1>2, <1>4 DEF ReleaseConnection, SameRead
<1> QED
  BY <1>3, <1>4

LEMMA ResponseWakes ==
  \A c \in Conn, ok, keep_alive, retry_after, no_time \in BOOLEAN :
    IInv /\ WakeInv /\ HandleResponse(c, ok, keep_alive, retry_after, no_time) => WakeInv'
<1> SUFFICES ASSUME NEW c \in Conn, NEW ok \in BOOLEAN, NEW keep_alive \in BOOLEAN,
                    NEW retry_after \in BOOLEAN, NEW no_time \in BOOLEAN, IInv, WakeInv,
                    HandleResponse(c, ok, keep_alive, retry_after, no_time)
             PROVE  WakeInv'
  OBVIOUS
<1> DEFINE e == dv.event[c]
           close == ~keep_alive \/ c \in dv.old_ip
           drop == \/ e \in expired
                   \/ no_time /\ ~RetriesAtOnce(dv, e, retry_after)
           d == IF ok \/ drop THEN DropEvent(dv, e) ELSE DelayEvent(dv, e, retry_after)
           tq == IF ok \/ drop THEN tqueue \ {e} ELSE tqueue
           s == [st EXCEPT !.timer = @ \/ close]
           good == [s EXCEPT !.active = TRUE, !.gone = FALSE]
           okst == IF ok THEN good ELSE s
           notgone == [s EXCEPT !.gone = FALSE]
           isgone == [s EXCEPT !.gone = TRUE]
           ending == [s EXCEPT !.close_message = TRUE]
           kept == ReleaseConnection(d, c, close)
           closed == ReleaseConnection(d, c, TRUE)
<1>1. /\ Running /\ c \in dv.connections /\ e # NoEvent
      /\ expired' = expired /\ update_message' = update_message
  BY DEF HandleResponse
<1>2. \/ Loop(kept, okst, tq, FALSE)
      \/ Loop(kept, notgone, tq, FALSE)
      \/ Loop(kept, isgone, tq, FALSE)
      \/ dv' = closed /\ st' = ending /\ tqueue' = tq
  BY DEF HandleResponse
<1>3. e \in Event /\ dv \in DeliveryState
  BY <1>1, IInvTypes DEF DeliveryState
<1>4. close \in BOOLEAN /\ TRUE \in BOOLEAN /\ tq \in SUBSET tqueue
  OBVIOUS
<1>5. DeliveryInv(kept, tq, tail)
  <2> HIDE DEF close, drop
  <2>1. CASE ok \/ drop
    BY <2>1, <1>1, <1>4, IInvTypes, DropKeepsInv
  <2>2. CASE ~(ok \/ drop)
    BY <2>2, <1>1, <1>4, IInvTypes, DelayKeepsInv
  <2> QED
    BY <2>1, <2>2
<1>6. /\ kept.tqueue_empty = dv.tqueue_empty /\ kept.tqueue_offset = dv.tqueue_offset
      /\ closed.tqueue_empty = dv.tqueue_empty /\ closed.tqueue_offset = dv.tqueue_offset
  <2>1. d \in {dv, DropEvent(dv, e), DelayEvent(dv, e, retry_after)}
    OBVIOUS
  <2> HIDE DEF d, e, close
  <2>2. SameRead(dv, kept) /\ SameRead(dv, closed)
    BY <1>3, <1>4, <2>1, ReleaseReads
  <2> HIDE DEF kept, closed
  <2> QED
    BY <2>2 DEF SameRead
<1>7. Tunes(st, s)
  <2> DEFINE now == st.timer \/ close
  <2>1. now \in BOOLEAN
    OBVIOUS
  <2> HIDE DEF now
  <2>2. Tunes(st, [st EXCEPT !.timer = now])
    BY <2>1, IInvTypes DEF Tunes, LifeState
  <2> QED
    BY <2>2 DEF now
<1> HIDE DEF s, kept, closed, tq, drop, d, close, e
<1>8. Tunes(s, good) /\ Tunes(s, notgone) /\ Tunes(s, isgone) /\ Tunes(s, ending) /\ ending.close_message
  BY <1>7 DEF Tunes, LifeState
<1>9. Tunes(st, okst) /\ Tunes(st, notgone) /\ Tunes(st, isgone) /\ Tunes(st, ending)
  BY <1>7, <1>8 DEF Tunes
<1> HIDE DEF okst, notgone, isgone, ending
<1>10. ASSUME NEW t, Tunes(st, t), Loop(kept, t, tq, FALSE)
       PROVE  WakeInv'
  BY <1>1, <1>4, <1>5, <1>6, <1>10, TunedHandlerWakes
<1>11. ASSUME dv' = closed, st' = ending, tqueue' = tq
       PROVE  WakeInv'
  <2>1. Ready(st') /\ st'.life = "running" /\ st'.close_message
    BY <1>1, <1>8, <1>9, <1>11 DEF WakeInv, Tunes, Ready, Running
  <2>2. ReadInv(dv, tqueue) => ReadInv(dv', tqueue')
    BY <1>4, <1>6, <1>11, FewerRead
  <2>3. ReadInv(dv', tqueue') => ReadInv(dv, tqueue)'
    BY <1>1 DEF ReadInv
  <2> QED
    BY <1>1, <2>1, <2>2, <2>3 DEF WakeInv, Running
<1> QED
  BY <1>2, <1>9, <1>10, <1>11

LEMMA HangupWakes ==
  \A c \in Conn, no_time \in BOOLEAN : IInv /\ WakeInv /\ HangupShared(c, no_time) => WakeInv'
<1> SUFFICES ASSUME NEW c \in Conn, NEW no_time \in BOOLEAN, IInv, WakeInv,
                    HangupShared(c, no_time)
             PROVE  WakeInv'
  OBVIOUS
<1> DEFINE e == dv.event[c]
           drop == \/ e \in expired
                   \/ no_time /\ ~RetriesAtOnce(dv, e, FALSE)
           d == IF e = NoEvent THEN dv
                ELSE IF drop THEN DropEvent(dv, e) ELSE DelayEvent(dv, e, FALSE)
           gone == e # NoEvent /\ drop
           tq == IF gone THEN tqueue \ {e} ELSE tqueue
           closed == ReleaseConnection(d, c, TRUE)
<1>1. /\ Running /\ c \in dv.connections /\ Loop(closed, RelaxWakeup(st), tq, FALSE)
      /\ expired' = expired /\ update_message' = update_message
  BY DEF HangupShared
<1>2. tq \in SUBSET tqueue
  OBVIOUS
<1>3. DeliveryInv(closed, tq, tail)
  <2> HIDE DEF drop
  <2>1. CASE e = NoEvent
    BY <2>1, <1>1, IInvTypes, IdleKeepsInv
  <2>2. CASE e # NoEvent /\ drop
    BY <2>2, <1>1, IInvTypes, DropKeepsInv
  <2>3. CASE e # NoEvent /\ ~drop
    BY <2>3, <1>1, IInvTypes, DelayKeepsInv
  <2> QED
    BY <2>1, <2>2, <2>3
<1>4. closed.tqueue_empty = dv.tqueue_empty /\ closed.tqueue_offset = dv.tqueue_offset
  <2>1. CASE e = NoEvent
    BY <2>1, IInvTypes DEF ReleaseConnection, DeliveryState
  <2>2. CASE e # NoEvent
    <3>1. e \in Event /\ dv \in DeliveryState
      BY <1>1, <2>2, IInvTypes DEF DeliveryState
    <3>2. d \in {dv, DropEvent(dv, e), DelayEvent(dv, e, FALSE)}
      OBVIOUS
    <3>3. TRUE \in BOOLEAN /\ FALSE \in BOOLEAN
      OBVIOUS
    <3> HIDE DEF d, e
    <3>4. SameRead(dv, closed)
      BY <3>1, <3>2, <3>3, ReleaseReads
    <3> HIDE DEF closed
    <3> QED
      BY <3>4 DEF SameRead
  <2> QED
    BY <2>1, <2>2
<1>5. Tunes(st, RelaxWakeup(st))
  BY IInvTypes, RelaxWakeupType DEF RelaxWakeup, Tunes, LifeState
<1> HIDE DEF closed, tq
<1> QED
  BY <1>1, <1>2, <1>3, <1>4, <1>5, TunedHandlerWakes

LEMMA EndWakes == IInv /\ (Close \/ Hangup) => WakeInv'
<1> SUFFICES ASSUME IInv, Close \/ Hangup PROVE WakeInv'
  OBVIOUS
<1> DEFINE dropped == [st EXCEPT !.told = @ \cup {"dropped"}]
<1>1. Tell(st, "closed") \in LifeState /\ dropped \in LifeState
  <2>1. dropped \in LifeState
    BY IInvTypes DEF LifeState, Messages
  <2> QED
    BY <2>1, IInvTypes, TellType DEF Messages
<1>2. Stop(Tell(st, "closed")) \/ Stop(dropped)
  BY DEF Close, Hangup
<1> HIDE DEF dropped
<1> QED
  BY <1>1, <1>2, StopWakes

LEMMA NextWakes == IInv /\ WakeInv /\ [Next]_vars => WakeInv'
<1> SUFFICES ASSUME IInv, WakeInv, [Next]_vars PROVE WakeInv'
  OBVIOUS
<1>1. CASE RunGc \/ (\E e \in Event : Expire(e)) \/ UNCHANGED vars
  BY <1>1, QueueShrinks DEF RunGc, Expire, vars
<1>2. CASE AddUpdate
  BY <1>2, AddUpdateWakes
<1>3. CASE \E w \in Webhooks : Create(w)
  BY <1>3, CreateWakes
<1>4. CASE \E url_ok, ip_ok, https \in BOOLEAN : StartUp(url_ok, ip_ok, https)
  BY <1>4, StartUpWakes
<1>5. CASE Update
  BY <1>5, UpdateWakes
<1>6. CASE Timeout
  BY <1>6, TimeoutWakes
<1>7. CASE \E c \in Conn, ok, keep_alive, retry_after, no_time \in BOOLEAN :
             HandleResponse(c, ok, keep_alive, retry_after, no_time)
  BY <1>7, ResponseWakes
<1>8. CASE \E c \in Conn, no_time \in BOOLEAN : HangupShared(c, no_time)
  BY <1>8, HangupWakes
<1>9. CASE \E result \in {"error", "same", "new"} : OnResolvedIpAddress(result)
  BY <1>9, ResolvedWakes
<1>10. CASE \E ok \in BOOLEAN : OnSslContextCreated(ok)
  BY <1>10, SslContextWakes
<1>11. CASE \E ok \in BOOLEAN : OnSocketReadyAsync(ok)
  BY <1>11, SocketWakes
<1>12. CASE Close \/ Hangup
  BY <1>12, EndWakes
<1> QED
  BY <1>1, <1>2, <1>3, <1>4, <1>5, <1>6, <1>7, <1>8, <1>9, <1>10, <1>11, <1>12 DEF Next

\* An actor never sleeps on its work: whoever believes the TQueue to be empty has read it or
\* is told of more, and whoever has updates loaded and none in flight has a timer or waits
\* for an address, a context, a socket or its own close (WebhookActor.cpp:673, 693).
THEOREM WakeupIsScheduled == Spec => []WakeupScheduled
<1>1. Init => WakeInv
  BY DEF Init, EmptyDelivery, NoActor, WakeInv, Running
<1>2. IInv /\ WakeInv => WakeupScheduled
  BY DEF WakeInv, WakeupScheduled, Running, Wakes, Idle, ReadInv
<1> QED
  BY <1>1, <1>2, NextWakes, Inductive, PTL DEF Spec

-----------------------------------------------------------------------------
(* What the Client is told.                                                *)

\* The flags of the actor say what it told.
Truthful(s) ==
  /\ s.callback <=> ~s.stop_flag
  /\ s.stop_flag <=> "closed" \in s.told
  /\ s.was_checked => "verified" \in s.told

\* s becomes t by telling the Client something, or nothing.
Tells(s, t) ==
  /\ t \in LifeState /\ t.life = s.life
  /\ Truthful(t)
  /\ s.was_checked => t.was_checked
  /\ s.stop_flag => t.stop_flag /\ t.told = s.told
  /\ t.told \in {s.told, s.told \cup {"verified"}, s.told \cup {"closed"},
                 s.told \cup {"verified", "closed"}}

LEMMA TellsOn ==
  ASSUME NEW s \in LifeState, NEW t, NEW u, Tells(s, t), Tells(t, u)
  PROVE  Tells(s, u)
<1>1. s.told \subseteq Messages
  BY DEF LifeState
<1>2. /\ u.told \subseteq s.told \cup {"verified", "closed"}
      /\ s.told \subseteq u.told
  BY DEF Tells
<1>3. u.told \in {s.told, s.told \cup {"verified"}, s.told \cup {"closed"},
                  s.told \cup {"verified", "closed"}}
  <2>1. CASE "verified" \in u.told /\ "closed" \in u.told
    BY <1>2, <2>1
  <2>2. CASE "verified" \in u.told /\ "closed" \notin u.told
    BY <1>2, <2>2
  <2>3. CASE "verified" \notin u.told /\ "closed" \in u.told
    BY <1>2, <2>3
  <2>4. CASE "verified" \notin u.told /\ "closed" \notin u.told
    BY <1>2, <2>4
  <2> QED
    BY <2>1, <2>2, <2>3, <2>4
<1> QED
  BY <1>3 DEF Tells

\* What is about neither the Client nor the checks tells it nothing.
LEMMA TellsNothing ==
  ASSUME NEW s \in LifeState, Truthful(s), NEW t \in LifeState, t.life = s.life,
         t.callback = s.callback, t.stop_flag = s.stop_flag, t.told = s.told,
         t.was_checked = s.was_checked
  PROVE  Tells(s, t)
  BY DEF Tells, Truthful

LEMMA RelaxTells ==
  ASSUME NEW s \in LifeState, Truthful(s)
  PROVE  /\ Tells(s, RelaxWakeup(s)) /\ RelaxWakeup(s).stop_flag = s.stop_flag
         /\ RelaxWakeup(s).was_checked = s.was_checked
<1>1. RelaxWakeup(s) \in LifeState
  BY RelaxWakeupType
<1>2. LET t == RelaxWakeup(s)
      IN  /\ t.life = s.life /\ t.callback = s.callback /\ t.stop_flag = s.stop_flag
          /\ t.told = s.told /\ t.was_checked = s.was_checked
  BY DEF RelaxWakeup, LifeState
<1> QED
  BY <1>1, <1>2, TellsNothing

\* The CHECK of on_error: an actor that may fail can still tell so.
LEMMA OnErrorTells ==
  ASSUME NEW s \in LifeState, Truthful(s)
  PROVE  Tells(s, OnError(s))
<1>1. CASE s.was_checked \/ s.stop_flag
  BY <1>1, TellsNothing DEF OnError
<1>2. CASE ~s.was_checked /\ ~s.stop_flag
  <2> DEFINE t == [s EXCEPT !.told = @ \cup {"closed"}]
             u == [t EXCEPT !.callback = FALSE, !.stop_flag = TRUE]
  <2>1. OnError(s) = u
    BY <1>2 DEF OnError, Tell, Truthful
  <2>2. u \in LifeState
    BY <2>1, OnErrorType
  <2>3. /\ u.life = s.life /\ ~u.callback /\ u.stop_flag /\ u.told = s.told \cup {"closed"}
        /\ u.was_checked = s.was_checked
    BY DEF LifeState
  <2> HIDE DEF u
  <2>4. Truthful(u)
    BY <1>2, <2>3 DEF Truthful
  <2> QED
    BY <1>2, <2>1, <2>2, <2>3, <2>4 DEF Tells
<1> QED
  BY <1>1, <1>2

LEMMA VerifiedTells ==
  ASSUME NEW s \in LifeState, Truthful(s)
  PROVE  Tells(s, OnWebhookVerified(s))
<1>1. CASE ~s.callback
  BY <1>1, TellsNothing DEF OnWebhookVerified, Tell
<1>2. CASE s.callback
  <2> DEFINE t == [s EXCEPT !.told = @ \cup {"verified"}]
  <2>1. OnWebhookVerified(s) = t
    BY <1>2 DEF OnWebhookVerified, Tell
  <2>2. t \in LifeState
    BY DEF LifeState, Messages
  <2>3. /\ t.life = s.life /\ t.callback = s.callback /\ t.stop_flag = s.stop_flag
        /\ t.told = s.told \cup {"verified"} /\ t.was_checked = s.was_checked
    BY DEF LifeState
  <2> HIDE DEF t
  <2>4. Truthful(t)
    BY <2>3 DEF Truthful
  <2> QED
    BY <1>2, <2>1, <2>2, <2>3, <2>4 DEF Tells, Truthful
<1> QED
  BY <1>1, <1>2

LEMMA CheckTells ==
  ASSUME NEW s \in LifeState, Truthful(s), ~s.stop_flag
  PROVE  Tells(s, Check(s)) /\ Check(s).was_checked /\ ~Check(s).stop_flag
<1>1. CASE s.was_checked
  BY <1>1, TellsNothing DEF Check
<1>2. CASE ~s.was_checked
  <2> DEFINE t == [s EXCEPT !.was_checked = TRUE]
             u == [t EXCEPT !.told = @ \cup {"verified"}]
  <2>1. Check(s) = u
    <3>1. t.callback
      BY DEF LifeState, Truthful
    <3> QED
      BY <1>2, <3>1 DEF Check, OnWebhookVerified, Tell
  <2>2. u \in LifeState
    BY <2>1, CheckType
  <2>3. /\ u.life = s.life /\ u.callback = s.callback /\ u.stop_flag = s.stop_flag
        /\ u.told = s.told \cup {"verified"} /\ u.was_checked
    BY DEF LifeState
  <2> HIDE DEF u
  <2>4. Truthful(u)
    BY <2>3 DEF Truthful
  <2> QED
    BY <2>1, <2>2, <2>3, <2>4 DEF Tells
<1> QED
  BY <1>1, <1>2

LEMMA FailedTells ==
  ASSUME NEW s \in LifeState, Truthful(s)
  PROVE  Tells(s, Failed(s))
<1>1. Tells(s, OnError(s)) /\ OnError(s) \in LifeState /\ Truthful(OnError(s))
  BY OnErrorTells DEF Tells
<1> QED
  BY <1>1, RelaxTells, TellsOn DEF Failed

LEMMA ResolveTells ==
  ASSUME NEW s \in LifeState, Truthful(s)
  PROVE  /\ Tells(s, ResolveIpAddress(s)) /\ ResolveIpAddress(s).stop_flag = s.stop_flag
         /\ ResolveIpAddress(s).was_checked = s.was_checked
<1> DEFINE t == [s EXCEPT !.resolving = TRUE, !.resolve_due = FALSE]
<1>1. /\ t \in LifeState /\ t.life = s.life /\ t.callback = s.callback
      /\ t.stop_flag = s.stop_flag /\ t.told = s.told /\ t.was_checked = s.was_checked
  BY DEF LifeState
<1>2. ResolveIpAddress(s) \in {s, t, RelaxWakeup(s)}
  BY DEF ResolveIpAddress, LifeState
<1> HIDE DEF t
<1>3. Tells(s, s) /\ Tells(s, t)
  BY <1>1, TellsNothing
<1> QED
  BY <1>1, <1>2, <1>3, RelaxTells


\* Only a webhook that was verified has connections.
Checked(d, s) == s.was_checked \/ (d \in DeliveryState /\ d.connections = {})

LEMMA OpenedTells ==
  ASSUME NEW d, NEW s \in LifeState, Truthful(s), ~s.stop_flag, Checked(d, s),
         NEW n, NEW o \in Opened(d, s, n)
  PROVE  Tells(s, o.st) /\ ~o.st.stop_flag /\ Checked(o.dv, o.st)
<1>1. PICK new \in kSubset(n, Conn \ d.connections) :
        o = [dv |-> OpenConnections(d, new), st |-> IF n = 0 THEN s ELSE Check(s)]
  BY DEF Opened
<1>2. CASE n # 0
  BY <1>1, <1>2, CheckTells DEF Checked
<1>3. CASE n = 0
  <2>1. o.st = s /\ o.dv = OpenConnections(d, new) /\ Tells(s, s)
    BY <1>1, <1>3, TellsNothing
  <2>2. new = {}
    <3>1. Cardinality(new) = 0 /\ new \in SUBSET Conn
      BY <1>1, <1>3 DEF kSubset
    <3> QED
      BY <3>1, FS_Subset, FS_EmptySet, ConstantsAssumption
  <2>3. d \in DeliveryState /\ d.connections = {} =>
          OpenConnections(d, new) \in DeliveryState /\ OpenConnections(d, new).connections = {}
    BY <2>2 DEF OpenConnections, DeliveryState
  <2> QED
    BY <2>1, <2>3 DEF Checked
<1> QED
  BY <1>2, <1>3

\* o is what create_new_connections may leave.
Told(o, s) == Tells(s, o.st) /\ (o.st.stop_flag \/ Checked(o.dv, o.st))

\* What opening connections leaves, when it ended with a wait or a failure
LEMMA OpenedTold ==
  ASSUME NEW d, NEW s \in LifeState, Truthful(s), ~s.stop_flag, Checked(d, s),
         NEW n, NEW p \in Opened(d, s, n),
         NEW o, o \in {p, [p EXCEPT !.st = RelaxWakeup(@)], [p EXCEPT !.st = Failed(@)]}
  PROVE  Told(o, s)
<1>1. Tells(s, p.st) /\ ~p.st.stop_flag /\ Checked(p.dv, p.st)
  BY OpenedTells
<1>2. p.st \in LifeState /\ Truthful(p.st)
  BY <1>1 DEF Tells
<1>3. /\ Tells(p.st, RelaxWakeup(p.st)) /\ RelaxWakeup(p.st).was_checked = p.st.was_checked
      /\ Tells(p.st, Failed(p.st))
  BY <1>2, RelaxTells, FailedTells
<1>4. p.st.was_checked => Failed(p.st).was_checked
  BY <1>3 DEF Tells
<1>5. o.dv = p.dv /\ o.st \in {p.st, RelaxWakeup(p.st), Failed(p.st)}
  BY DEF Opened
<1>6. Tells(s, RelaxWakeup(p.st)) /\ Tells(s, Failed(p.st))
  BY <1>1, <1>3, TellsOn
<1> QED
  BY <1>1, <1>3, <1>4, <1>5, <1>6 DEF Told, Checked

LEMMA UseReadyTold ==
  ASSUME NEW d, NEW s \in LifeState, Truthful(s), ~s.stop_flag, Checked(d, s),
         NEW lucky \in BOOLEAN, NEW o \in UseReadySockets(d, s, lucky)
  PROVE  Told(o, s)
<1> DEFINE s1 == [s EXCEPT !.ready_sockets = 0]
<1>1. s1 \in LifeState /\ s1.was_checked = s.was_checked /\ s1.stop_flag = s.stop_flag
      /\ s1.life = s.life /\ s1.callback = s.callback /\ s1.told = s.told
  BY DEF LifeState
<1>2. \E n : \E p \in Opened(d, s1, n) : o \in {p, [p EXCEPT !.st = Failed(@)]}
  <2> HIDE DEF s1
  <2> QED
    BY DEF UseReadySockets, s1
<1> HIDE DEF s1
<1>3. Tells(s, s1)
  BY <1>1, TellsNothing
<1>4. Told(o, s1)
  <2>1. Truthful(s1) /\ ~s1.stop_flag /\ Checked(d, s1)
    BY <1>1, <1>3 DEF Tells, Checked
  <2> QED
    BY <1>1, <1>2, <2>1, OpenedTold
<1> QED
  BY <1>3, <1>4, TellsOn DEF Told

LEMMA CreatedTold ==
  ASSUME NEW d, NEW s \in LifeState, Truthful(s), ~s.stop_flag, Checked(d, s),
         NEW lucky \in BOOLEAN, NEW o \in CreateNewConnections(d, s, lucky)
  PROVE  Told(o, s)
<1>1. CASE o = [dv |-> d, st |-> s]
  BY <1>1, TellsNothing DEF Told
<1>2. CASE o \in DirectConnections(d, s, lucky)
  <2>1. \E n : \E p \in Opened(d, s, n) :
          o \in {p, [p EXCEPT !.st = RelaxWakeup(@)], [p EXCEPT !.st = Failed(@)]}
    BY <1>2 DEF DirectConnections
  <2> QED
    BY <2>1, OpenedTold
<1>3. CASE o \in ProxyConnections(d, s, lucky)
  <2> DEFINE started == [Check(s) EXCEPT !.pending_sockets = @ + 1]
  <2>1. Tells(s, Check(s)) /\ Check(s).was_checked /\ Check(s) \in LifeState
    BY CheckTells DEF Tells
  <2>2. Tells(Check(s), started) /\ started.was_checked
    <3> DEFINE t == Check(s)
               u == [t EXCEPT !.pending_sockets = @ + 1]
    <3>1. t \in LifeState /\ Truthful(t)
      BY <2>1 DEF Tells
    <3> HIDE DEF t
    <3>2. /\ u \in LifeState /\ u.life = t.life /\ u.callback = t.callback
          /\ u.stop_flag = t.stop_flag /\ u.told = t.told /\ u.was_checked = t.was_checked
      BY <3>1 DEF LifeState
    <3> HIDE DEF u
    <3>3. Tells(t, u)
      BY <3>1, <3>2, TellsNothing
    <3> QED
      BY <2>1, <3>2, <3>3 DEF t, u
  <2> HIDE DEF started
  <2>3. started \in LifeState /\ Truthful(started) /\ Tells(s, started)
    BY <2>1, <2>2, TellsOn DEF Tells
  <2>4. Tells(s, RelaxWakeup(started)) /\ RelaxWakeup(started).was_checked
    BY <2>2, <2>3, RelaxTells, TellsOn
  <2>5. Tells(s, Failed(s)) /\ (s.was_checked => Failed(s).was_checked)
    BY FailedTells DEF Tells
  <2>6. /\ Tells(s, RelaxWakeup(s)) /\ RelaxWakeup(s).stop_flag = s.stop_flag
        /\ RelaxWakeup(s).was_checked = s.was_checked /\ RelaxWakeup(s) \in LifeState
        /\ Truthful(RelaxWakeup(s))
    BY RelaxTells DEF Tells
  <2>7. \/ o = [dv |-> d, st |-> RelaxWakeup(started)]
        \/ o = [dv |-> d, st |-> Failed(s)]
        \/ o \in UseReadySockets(d, s, lucky)
        \/ o \in UseReadySockets(d, RelaxWakeup(s), lucky)
    BY <1>3 DEF ProxyConnections, started
  <2>8. CASE o = [dv |-> d, st |-> RelaxWakeup(started)] \/ o = [dv |-> d, st |-> Failed(s)]
    BY <2>4, <2>5, <2>8 DEF Told, Checked
  <2>9. CASE o \in UseReadySockets(d, s, lucky)
    BY <2>9, UseReadyTold
  <2>10. CASE o \in UseReadySockets(d, RelaxWakeup(s), lucky)
    <3>1. Told(o, RelaxWakeup(s))
      BY <2>6, <2>10, UseReadyTold DEF Checked
    <3> QED
      BY <2>6, <3>1, TellsOn DEF Told
  <2> QED
    BY <2>7, <2>8, <2>9, <2>10
<1> QED
  BY <1>1, <1>2, <1>3 DEF CreateNewConnections

LEMMA SendTells ==
  ASSUME NEW d, NEW s \in LifeState, Truthful(s), ~s.stop_flag, Checked(d, s), SendUpdates(d, s)
  PROVE  /\ Tells(s, st') /\ ~st'.stop_flag
         /\ st'.was_checked \/ dv'.connections = {}
<1>1. st' \in {s, RelaxWakeup(s)}
  BY DEF SendUpdates
<1>2. Tells(s, s) /\ Tells(s, RelaxWakeup(s))
  BY RelaxTells, TellsNothing
<1>3. Tells(s, st') /\ ~st'.stop_flag /\ st'.was_checked = s.was_checked
  BY <1>1, <1>2, RelaxTells
<1>4. ASSUME d \in DeliveryState PROVE dv'.connections = d.connections
  BY <1>4 DEF SendUpdates, Send, FailToSend, DeliveryState
<1> QED
  BY <1>3, <1>4 DEF Checked

\* loop() ends with an actor that stopped and told that it did, or with one that works on.
LEMMA LoopTells ==
  ASSUME NEW d, NEW tq, NEW last \in 0..MaxEvent, NEW s \in LifeState, NEW lucky \in BOOLEAN,
         Truthful(s),
         s.stop_flag \/ s.was_checked \/ (DeliveryInv(d, tq, last) /\ d.connections = {}),
         Loop(d, s, tq, lucky)
  PROVE  \/ \E t : Tells(s, t) /\ t.stop_flag /\ Stop(t)
         \/ /\ Tells(s, st') /\ ~st'.stop_flag
            /\ st'.was_checked \/ dv'.connections = {}
<1>1. CASE s.stop_flag
  BY <1>1, TellsNothing DEF Loop
<1>2. CASE ~s.stop_flag
  <2> DEFINE loaded == LoadUpdates(d, tq)
  <2>1. Checked(loaded, s)
    <3>1. ASSUME DeliveryInv(d, tq, last), d.connections = {}
          PROVE  loaded \in DeliveryState /\ loaded.connections = {}
      <4>1. d \in DeliveryState /\ loaded \in DeliveryState
        BY <3>1, LoadKeepsInv DEF DeliveryInv
      <4>2. loaded.connections = d.connections
        BY <4>1 DEF LoadUpdates, DeliveryState
      <4> QED
        BY <3>1, <4>1, <4>2
    <3> HIDE DEF loaded
    <3> QED
      BY <1>2, <3>1 DEF Checked
  <2>2. PICK active \in {FALSE, s.active} :
          LET s1 == ResolveIpAddress([s EXCEPT !.active = active])
          IN  \E o \in CreateNewConnections(loaded, s1, lucky) :
                IF o.st.stop_flag THEN Stop(o.st) ELSE SendUpdates(o.dv, o.st)
    BY <1>2 DEF Loop
  <2> DEFINE s0 == [s EXCEPT !.active = active]
             s1 == ResolveIpAddress(s0)
  <2>3. /\ s0 \in LifeState /\ s0.life = s.life /\ s0.callback = s.callback
        /\ s0.stop_flag = s.stop_flag /\ s0.told = s.told /\ s0.was_checked = s.was_checked
    BY <2>2 DEF LifeState
  <2> HIDE DEF loaded, s0
  <2>4. Tells(s, s0) /\ Truthful(s0)
    BY <2>3, TellsNothing DEF Tells
  <2>5. /\ Tells(s0, s1) /\ s1.stop_flag = s.stop_flag /\ s1.was_checked = s.was_checked
    BY <2>3, <2>4, ResolveTells
  <2>6. PICK o \in CreateNewConnections(loaded, s1, lucky) :
          IF o.st.stop_flag THEN Stop(o.st) ELSE SendUpdates(o.dv, o.st)
    BY <2>2 DEF s0
  <2> HIDE DEF s1
  <2>7. s1 \in LifeState /\ Truthful(s1) /\ Tells(s, s1) /\ Checked(loaded, s1)
    BY <2>1, <2>4, <2>5, TellsOn DEF Tells, Checked
  <2>8. Told(o, s1)
    BY <1>2, <2>5, <2>6, <2>7, CreatedTold
  <2>9. Tells(s, o.st) /\ o.st \in LifeState /\ Truthful(o.st)
    BY <2>7, <2>8, TellsOn DEF Told, Tells
  <2>10. CASE o.st.stop_flag
    BY <2>6, <2>9, <2>10
  <2>11. CASE ~o.st.stop_flag
    <3>1. /\ Tells(o.st, st') /\ ~st'.stop_flag
          /\ st'.was_checked \/ dv'.connections = {}
      BY <2>6, <2>8, <2>9, <2>11, SendTells DEF Told
    <3> QED
      BY <2>9, <3>1, TellsOn
  <2> QED
    BY <2>10, <2>11
<1> QED
  BY <1>1, <1>2


-----------------------------------------------------------------------------
(* The invariant of the reports.                                           *)

ReportInv ==
  /\ st.life = "dead" => ~st.callback /\ ~st.stop_flag /\ ~st.was_checked /\ dv.connections = {}
  /\ st.life = "created" => ~st.stop_flag /\ ~st.was_checked /\ st.told = {} /\ dv.connections = {}
  /\ st.life # "dead" => Truthful(st)
  /\ st.stop_flag \/ ~st.was_checked => dv.connections = {}

ReportStep == [Reports!ReportsNext]_(Reports!reportVars) /\ ReportInv'

\* A step of the actor to t, which it may have stopped with
LEMMA ActorReportsStep ==
  ASSUME IInv, ReportInv, st.life # "dead", NEW s, Tells(st, s), NEW t, Tells(s, t),
         \/ t.stop_flag /\ Stop(t)
         \/ /\ st' = t /\ t.life = "running" /\ ~t.stop_flag
            /\ t.was_checked \/ dv'.connections = {}
  PROVE  ReportStep
<1>1. st \in LifeState /\ Tells(st, t) /\ t \in LifeState /\ Truthful(t) /\ Truthful(st)
  BY IInvTypes, TellsOn DEF ReportInv, Tells
<1>2. CASE t.stop_flag /\ Stop(t)
  <2>1. /\ st'.life = "dead" /\ ~st'.callback /\ ~st'.stop_flag /\ ~st'.was_checked
        /\ st'.told = t.told /\ dv'.connections = {}
    BY <1>2 DEF Stop, NoActor, EmptyDelivery
  <2>2. InFlight(dv)' = {}
    BY <2>1 DEF InFlight
  <2>3. ReportInv'
    BY <2>1 DEF ReportInv
  <2>4. CASE st.stop_flag
    <3>1. ~st.callback /\ t.told = st.told
      BY <1>1, <2>4 DEF Truthful, Tells
    <3>2. Reports!Ends
      BY <2>1, <2>2, <3>1 DEF Reports!Ends
    <3> QED
      BY <2>3, <3>2 DEF ReportStep, Reports!ReportsNext
  <2>5. CASE ~st.stop_flag
    <3>1. st.callback /\ "closed" \in t.told
      BY <1>1, <1>2, <2>5 DEF Truthful
    <3>2. t.told \in {st.told \cup {"closed"}, st.told \cup {"verified", "closed"}}
      BY <1>1, <3>1 DEF Tells
    <3>3. Reports!ReportsEnd
      BY <2>1, <2>2, <3>1, <3>2 DEF Reports!ReportsEnd
    <3> QED
      BY <2>3, <3>3 DEF ReportStep, Reports!ReportsNext
  <2> QED
    BY <2>4, <2>5
<1>3. CASE /\ st' = t /\ t.life = "running" /\ ~t.stop_flag
           /\ t.was_checked \/ dv'.connections = {}
  <2>1. ReportInv'
    BY <1>1, <1>3 DEF ReportInv, Truthful
  <2>2. t.callback /\ "closed" \notin t.told /\ ~st.stop_flag /\ st.callback
    BY <1>1, <1>3 DEF Truthful, Tells
  <2>3. t.told \in {st.told, st.told \cup {"verified"}}
    BY <1>1, <2>2 DEF Tells
  <2>4. InFlight(dv)' # {} => "verified" \in st'.told
    <3>1. dv'.connections = {} => InFlight(dv)' = {}
      BY DEF InFlight
    <3> QED
      BY <1>1, <1>3, <3>1 DEF Truthful
  <2>5. Reports!Works
    BY <1>3, <2>2, <2>3, <2>4 DEF Reports!Works
  <2> QED
    BY <2>1, <2>5 DEF ReportStep, Reports!ReportsNext
<1> QED
  BY <1>2, <1>3

\* What the handlers pass to loop
LEMMA HandlerReports ==
  ASSUME IInv, ReportInv, Running, NEW d, NEW tq, NEW s, Tells(st, s),
         s.was_checked \/ (DeliveryInv(d, tq, tail) /\ d.connections = dv.connections),
         Loop(d, s, tq, FALSE)
  PROVE  ReportStep
<1>1. s \in LifeState /\ Truthful(s) /\ s.life = "running" /\ st.life # "dead"
  BY DEF Tells, Running
<1>2. s.stop_flag \/ s.was_checked \/ (DeliveryInv(d, tq, tail) /\ d.connections = {})
  BY DEF ReportInv, Tells
<1>3. tail \in 0..MaxEvent
  BY DEF IInv, TypeOK
<1>4. \/ \E t : Tells(s, t) /\ t.stop_flag /\ Stop(t)
      \/ /\ Tells(s, st') /\ ~st'.stop_flag
         /\ st'.was_checked \/ dv'.connections = {}
  BY <1>1, <1>2, <1>3, LoopTells
<1>5. Tells(s, st') => st'.life = "running"
  BY <1>1 DEF Tells
<1> QED
  BY <1>1, <1>4, <1>5, ActorReportsStep

LEMMA UpdateReports == IInv /\ ReportInv /\ Update => ReportStep
<1> SUFFICES ASSUME IInv, ReportInv, Update PROVE ReportStep
  OBVIOUS
<1> DEFINE d == [dv EXCEPT !.tqueue_empty = FALSE]
<1>1. Loop(d, st, tqueue, FALSE) /\ Running
  BY DEF Update
<1>2. DeliveryInv(d, tqueue, tail) /\ d.connections = dv.connections
  <2>1. /\ d \in DeliveryState
        /\ d.waiting = dv.waiting /\ d.connections = dv.connections
        /\ d.ready = dv.ready /\ d.event = dv.event /\ d.loaded = dv.loaded
        /\ d.tqueue_offset = dv.tqueue_offset /\ d.header_fits = dv.header_fits
    BY IInvTypes DEF DeliveryState
  <2> HIDE DEF d
  <2> QED
    BY <2>1, IInvTypes, SameKeepsInv
<1> HIDE DEF d
<1>3. Tells(st, st)
  BY <1>1, IInvTypes, TellsNothing DEF ReportInv, Running
<1> QED
  BY <1>1, <1>2, <1>3, HandlerReports

LEMMA TimeoutReports == IInv /\ ReportInv /\ Timeout => ReportStep
<1> SUFFICES ASSUME IInv, ReportInv, Timeout PROVE ReportStep
  OBVIOUS
<1>1. PICK woken \in SUBSET dv.delayed, due \in BOOLEAN : TimeoutWith(woken, due, FALSE)
  BY DEF Timeout
<1> DEFINE d == [dv EXCEPT !.delayed = @ \ woken]
           now == st.resolve_due \/ due
           s == [st EXCEPT !.timer = FALSE, !.resolve_due = now]
<1>2. Loop(d, s, tqueue, FALSE) /\ Running
  BY <1>1 DEF TimeoutWith
<1>3. DeliveryInv(d, tqueue, tail) /\ d.connections = dv.connections
  <2>1. /\ d \in DeliveryState
        /\ d.waiting = dv.waiting /\ d.connections = dv.connections
        /\ d.ready = dv.ready /\ d.event = dv.event /\ d.loaded = dv.loaded
        /\ d.tqueue_offset = dv.tqueue_offset /\ d.header_fits = dv.header_fits
    BY IInvTypes DEF DeliveryState
  <2> HIDE DEF d
  <2> QED
    BY <2>1, IInvTypes, SameKeepsInv
<1>4. now \in BOOLEAN
  OBVIOUS
<1> HIDE DEF d, now
<1>5. /\ s \in LifeState /\ s.life = st.life /\ s.callback = st.callback
      /\ s.stop_flag = st.stop_flag /\ s.told = st.told /\ s.was_checked = st.was_checked
  BY <1>4, IInvTypes DEF LifeState
<1> HIDE DEF s
<1>6. Tells(st, s)
  BY <1>2, <1>5, IInvTypes, TellsNothing DEF ReportInv, Running
<1> QED
  BY <1>2, <1>3, <1>6, HandlerReports

LEMMA SslContextReports ==
  \A ok \in BOOLEAN : IInv /\ ReportInv /\ OnSslContextCreated(ok) => ReportStep
<1> SUFFICES ASSUME NEW ok \in BOOLEAN, IInv, ReportInv, OnSslContextCreated(ok) PROVE ReportStep
  OBVIOUS
<1> DEFINE good == [st EXCEPT !.ssl_ctx = "ready"]
           bad == [st EXCEPT !.ssl_ctx = "failed"]
<1>1. Running /\ (Loop(dv, good, tqueue, FALSE) \/ Loop(dv, OnError(bad), tqueue, FALSE))
  BY DEF OnSslContextCreated
<1>2. \A s \in {good, bad} :
        /\ s \in LifeState /\ s.life = st.life /\ s.callback = st.callback
        /\ s.stop_flag = st.stop_flag /\ s.told = st.told /\ s.was_checked = st.was_checked
  BY IInvTypes DEF LifeState
<1> HIDE DEF good, bad
<1>3. st \in LifeState /\ Truthful(st)
  BY <1>1, IInvTypes DEF ReportInv, Running
<1>4. Tells(st, good) /\ Tells(st, bad)
  BY <1>2, <1>3, TellsNothing
<1>5. Tells(st, OnError(bad))
  BY <1>3, <1>4, OnErrorTells, TellsOn DEF Tells
<1> QED
  BY <1>1, <1>4, <1>5, IInvTypes, HandlerReports

LEMMA SocketReports ==
  \A ok \in BOOLEAN : IInv /\ ReportInv /\ OnSocketReadyAsync(ok) => ReportStep
<1> SUFFICES ASSUME NEW ok \in BOOLEAN, IInv, ReportInv, OnSocketReadyAsync(ok) PROVE ReportStep
  OBVIOUS
<1> DEFINE s == [st EXCEPT !.pending_sockets = @ - 1]
           s1 == [s EXCEPT !.ready_sockets = @ + 1]
<1>1. /\ Running /\ st.pending_sockets > 0
      /\ Loop(dv, s1, tqueue, FALSE) \/ Loop(dv, OnError(s), tqueue, FALSE)
  BY DEF OnSocketReadyAsync
<1>2. /\ s \in LifeState /\ s.life = st.life /\ s.callback = st.callback
      /\ s.stop_flag = st.stop_flag /\ s.told = st.told /\ s.was_checked = st.was_checked
  <2>1. st \in LifeState /\ st.pending_sockets - 1 \in Nat
    BY <1>1, IInvTypes DEF LifeState
  <2> QED
    BY <2>1 DEF LifeState
<1> HIDE DEF s
<1>3. /\ s1 \in LifeState /\ s1.life = s.life /\ s1.callback = s.callback
      /\ s1.stop_flag = s.stop_flag /\ s1.told = s.told /\ s1.was_checked = s.was_checked
  BY <1>2 DEF LifeState
<1> HIDE DEF s1
<1>4. st \in LifeState /\ Truthful(st)
  BY <1>1, IInvTypes DEF ReportInv, Running
<1>5. Tells(st, s) /\ Tells(st, s1)
  BY <1>2, <1>3, <1>4, TellsNothing
<1>6. Tells(st, OnError(s))
  BY <1>4, <1>5, OnErrorTells, TellsOn DEF Tells
<1> QED
  BY <1>1, <1>5, <1>6, IInvTypes, HandlerReports

LEMMA ResolvedReports ==
  \A result \in {"error", "same", "new"} :
    IInv /\ ReportInv /\ OnResolvedIpAddress(result) => ReportStep
<1> SUFFICES ASSUME NEW result \in {"error", "same", "new"}, IInv, ReportInv,
                    OnResolvedIpAddress(result)
             PROVE  ReportStep
  OBVIOUS
<1> DEFINE s == [st EXCEPT !.resolving = FALSE]
           s1 == [s EXCEPT !.ip = TRUE]
           s2 == IF s1.was_checked THEN OnWebhookVerified(s1) ELSE s1
           d == [dv EXCEPT !.old_ip = dv.connections]
<1>1. /\ Running
      /\ \/ Loop(dv, OnError(s), tqueue, FALSE)
         \/ Loop(dv, s, tqueue, FALSE)
         \/ Loop(d, s2, tqueue, FALSE)
  BY DEF OnResolvedIpAddress
<1>2. /\ s \in LifeState /\ s.life = st.life /\ s.callback = st.callback
      /\ s.stop_flag = st.stop_flag /\ s.told = st.told /\ s.was_checked = st.was_checked
  BY IInvTypes DEF LifeState
<1> HIDE DEF s
<1>3. /\ s1 \in LifeState /\ s1.life = s.life /\ s1.callback = s.callback
      /\ s1.stop_flag = s.stop_flag /\ s1.told = s.told /\ s1.was_checked = s.was_checked
  BY <1>2 DEF LifeState
<1> HIDE DEF s1
<1>4. st \in LifeState /\ Truthful(st)
  BY <1>1, IInvTypes DEF ReportInv, Running
<1>5. Tells(st, s) /\ Tells(st, s1)
  BY <1>2, <1>3, <1>4, TellsNothing
<1>6. Tells(st, OnError(s)) /\ Tells(st, s2)
  BY <1>4, <1>5, OnErrorTells, VerifiedTells, TellsOn DEF Tells
<1>7. DeliveryInv(d, tqueue, tail) /\ d.connections = dv.connections
  <2>1. /\ d \in DeliveryState
        /\ d.waiting = dv.waiting /\ d.connections = dv.connections
        /\ d.ready = dv.ready /\ d.event = dv.event /\ d.loaded = dv.loaded
        /\ d.tqueue_offset = dv.tqueue_offset /\ d.header_fits = dv.header_fits
    BY IInvTypes DEF DeliveryState
  <2> HIDE DEF d
  <2> QED
    BY <2>1, IInvTypes, SameKeepsInv
<1> HIDE DEF s2, d
<1> QED
  BY <1>1, <1>5, <1>6, <1>7, IInvTypes, HandlerReports

\* Who answers has a connection, so the webhook was verified.
LEMMA ResponseReports ==
  \A c \in Conn, ok, keep_alive, retry_after, no_time \in BOOLEAN :
    IInv /\ ReportInv /\ HandleResponse(c, ok, keep_alive, retry_after, no_time) => ReportStep
<1> SUFFICES ASSUME NEW c \in Conn, NEW ok \in BOOLEAN, NEW keep_alive \in BOOLEAN,
                    NEW retry_after \in BOOLEAN, NEW no_time \in BOOLEAN, IInv, ReportInv,
                    HandleResponse(c, ok, keep_alive, retry_after, no_time)
             PROVE  ReportStep
  OBVIOUS
<1> DEFINE close == ~keep_alive \/ c \in dv.old_ip
           now == st.timer \/ close
           s == [st EXCEPT !.timer = now]
           good == [s EXCEPT !.active = TRUE, !.gone = FALSE]
           okst == IF ok THEN good ELSE s
           notgone == [s EXCEPT !.gone = FALSE]
           isgone == [s EXCEPT !.gone = TRUE]
           ending == [s EXCEPT !.close_message = TRUE]
<1>1. Running /\ c \in dv.connections
  BY DEF HandleResponse
<1>2. \/ \E d, tq : \E t \in {okst, notgone, isgone} : Loop(d, t, tq, FALSE)
      \/ st' = ending
  BY DEF HandleResponse
<1>3. now \in BOOLEAN
  OBVIOUS
<1> HIDE DEF now
<1>4. /\ s \in LifeState /\ s.life = st.life /\ s.callback = st.callback
      /\ s.stop_flag = st.stop_flag /\ s.told = st.told /\ s.was_checked = st.was_checked
  BY <1>3, IInvTypes DEF LifeState
<1> HIDE DEF s
<1> DEFINE Like(t) ==
             /\ t \in LifeState /\ t.life = s.life /\ t.callback = s.callback
             /\ t.stop_flag = s.stop_flag /\ t.told = s.told /\ t.was_checked = s.was_checked
<1>5. \A t \in {okst, notgone, isgone, ending} : Like(t)
  <2>1. Like(s) /\ Like(good)
    BY <1>4 DEF LifeState
  <2>2. Like(notgone)
    BY <1>4 DEF LifeState
  <2>3. Like(isgone)
    BY <1>4 DEF LifeState
  <2>4. Like(ending)
    BY <1>4 DEF LifeState
  <2> HIDE DEF Like, notgone, isgone, ending, good
  <2> QED
    BY <2>1, <2>2, <2>3, <2>4
<1> HIDE DEF okst, notgone, isgone, ending
<1>6. st \in LifeState /\ Truthful(st) /\ st.was_checked /\ ~st.stop_flag
  BY <1>1, IInvTypes DEF ReportInv, Running
<1>7. \A t \in {okst, notgone, isgone, ending} :
        Tells(st, t) /\ t.was_checked /\ ~t.stop_flag /\ t.life = "running"
  BY <1>1, <1>4, <1>5, <1>6, TellsNothing DEF Running
<1>8. CASE \E d, tq : \E t \in {okst, notgone, isgone} : Loop(d, t, tq, FALSE)
  BY <1>1, <1>7, <1>8, HandlerReports
<1>9. CASE st' = ending
  <2>1. Tells(st, st) /\ st.life # "dead"
    BY <1>1, <1>6, TellsNothing DEF Running
  <2> QED
    BY <1>7, <1>9, <2>1, ActorReportsStep
<1> QED
  BY <1>2, <1>8, <1>9

LEMMA HangupReports ==
  \A c \in Conn, no_time \in BOOLEAN : IInv /\ ReportInv /\ HangupShared(c, no_time) => ReportStep
<1> SUFFICES ASSUME NEW c \in Conn, NEW no_time \in BOOLEAN, IInv, ReportInv,
                    HangupShared(c, no_time)
             PROVE  ReportStep
  OBVIOUS
<1>1. Running /\ c \in dv.connections /\ \E d, tq : Loop(d, RelaxWakeup(st), tq, FALSE)
  BY DEF HangupShared
<1>2. st \in LifeState /\ Truthful(st) /\ st.was_checked
  BY <1>1, IInvTypes DEF ReportInv, Running
<1>3. Tells(st, RelaxWakeup(st)) /\ RelaxWakeup(st).was_checked
  BY <1>2, RelaxTells
<1> QED
  BY <1>1, <1>3, HandlerReports


LEMMA StartUpReports ==
  \A url_ok, ip_ok, https \in BOOLEAN : IInv /\ ReportInv /\ StartUp(url_ok, ip_ok, https) => ReportStep
<1> SUFFICES ASSUME NEW url_ok \in BOOLEAN, NEW ip_ok \in BOOLEAN, NEW https \in BOOLEAN,
                    IInv, ReportInv, StartUp(url_ok, ip_ok, https)
             PROVE  ReportStep
  OBVIOUS
<1>1. PICK due \in BOOLEAN :
        LET s0 == [st EXCEPT !.life = "running", !.resolve_due = ~st.fix_ip /\ (~st.from_db \/ due)]
            s1 == IF url_ok THEN s0 ELSE OnError(s0)
            s2 == IF s1.from_db /\ ~s1.stop_flag THEN Check(s1) ELSE s1
            s3 == IF ~https THEN [s2 EXCEPT !.ssl_ctx = "ready"]
                  ELSE IF ~s2.stop_flag THEN [s2 EXCEPT !.ssl_ctx = "creating"]
                       ELSE s2
        IN  st' = IF s1.fix_ip /\ ~s1.stop_flag /\ ~ip_ok THEN OnError(s1)
                  ELSE RelaxWakeup(s3)
  BY DEF StartUp
<1> DEFINE due_now == ~st.fix_ip /\ (~st.from_db \/ due)
           s0 == [st EXCEPT !.life = "running", !.resolve_due = due_now]
           s1 == IF url_ok THEN s0 ELSE OnError(s0)
           s2 == IF s1.from_db /\ ~s1.stop_flag THEN Check(s1) ELSE s1
           s3 == IF ~https THEN [s2 EXCEPT !.ssl_ctx = "ready"]
                 ELSE IF ~s2.stop_flag THEN [s2 EXCEPT !.ssl_ctx = "creating"]
                      ELSE s2
<1>2. st' = OnError(s1) \/ st' = RelaxWakeup(s3)
  BY <1>1
<1>3. /\ st.life = "created" /\ dv' = dv /\ dv.connections = {}
      /\ st \in LifeState /\ Truthful(st) /\ ~st.stop_flag /\ ~st.was_checked /\ st.told = {}
  BY IInvTypes DEF StartUp, ReportInv
<1>4. /\ s0 \in LifeState /\ s0.life = "running" /\ Truthful(s0)
      /\ ~s0.stop_flag /\ s0.told = {}
  <2>1. due_now \in BOOLEAN
    OBVIOUS
  <2> HIDE DEF due_now
  <2>2. /\ s0 \in LifeState /\ s0.life = "running" /\ s0.callback = st.callback
        /\ s0.stop_flag = st.stop_flag /\ s0.told = st.told /\ s0.was_checked = st.was_checked
    BY <1>3, <2>1 DEF LifeState
  <2> HIDE DEF s0
  <2> QED
    BY <1>3, <2>2 DEF Truthful
<1> HIDE DEF s0
<1>5. Tells(s0, s1) /\ s1 \in LifeState /\ Truthful(s1)
  BY <1>4, OnErrorTells, TellsNothing DEF Tells
<1> HIDE DEF s1
<1>6. Tells(s1, s2) /\ s2 \in LifeState /\ Truthful(s2)
  BY <1>5, CheckTells, TellsNothing DEF Tells
<1> HIDE DEF s2
<1>7. Tells(s2, s3) /\ s3 \in LifeState /\ Truthful(s3)
  <2>1. /\ s3 \in LifeState /\ s3.life = s2.life /\ s3.callback = s2.callback
        /\ s3.stop_flag = s2.stop_flag /\ s3.told = s2.told /\ s3.was_checked = s2.was_checked
    BY <1>6 DEF LifeState
  <2> HIDE DEF s3
  <2> QED
    BY <1>6, <2>1, TellsNothing DEF Tells
<1> HIDE DEF s3
<1>8. Tells(s0, st')
  <2>1. Tells(s1, OnError(s1)) /\ Tells(s3, RelaxWakeup(s3))
    BY <1>5, <1>7, OnErrorTells, RelaxTells
  <2>2. Tells(s0, OnError(s1)) /\ Tells(s0, s3)
    BY <1>4, <1>5, <1>6, <1>7, <2>1, TellsOn
  <2>3. Tells(s0, RelaxWakeup(s3))
    BY <1>4, <2>1, <2>2, TellsOn
  <2> QED
    BY <1>2, <2>2, <2>3
<1>9. st'.life = "running" /\ Truthful(st')
  BY <1>4, <1>8 DEF Tells
<1>10. InFlight(dv)' = {}
  BY <1>3 DEF InFlight
<1>11. ReportInv'
  BY <1>3, <1>9 DEF ReportInv, Truthful
<1>12. CASE st'.stop_flag
  <2>1. st'.told \in {st.told \cup {"closed"}, st.told \cup {"verified", "closed"}}
    <3>1. "closed" \in st'.told
      BY <1>9, <1>12 DEF Truthful
    <3> QED
      BY <1>3, <1>4, <1>8, <3>1 DEF Tells
  <2>2. Reports!ReportsEnd
    BY <1>3, <1>9, <1>10, <1>12, <2>1 DEF Reports!ReportsEnd, Truthful
  <2> QED
    BY <1>11, <2>2 DEF ReportStep, Reports!ReportsNext
<1>13. CASE ~st'.stop_flag
  <2>1. st'.told \in {st.told, st.told \cup {"verified"}}
    <3>1. "closed" \notin st'.told
      BY <1>9, <1>13 DEF Truthful
    <3> QED
      BY <1>3, <1>4, <1>8, <3>1 DEF Tells
  <2>2. Reports!Works
    BY <1>3, <1>9, <1>10, <1>13, <2>1 DEF Reports!Works, Truthful
  <2> QED
    BY <1>11, <2>2 DEF ReportStep, Reports!ReportsNext
<1> QED
  BY <1>12, <1>13

LEMMA CreateReports == \A w \in Webhooks : IInv /\ ReportInv /\ Create(w) => ReportStep
<1> SUFFICES ASSUME NEW w \in Webhooks, IInv, ReportInv, Create(w) PROVE ReportStep
  OBVIOUS
<1>1. st.life = "dead" /\ ~st.stop_flag /\ ~st.was_checked
  BY DEF Create, ReportInv
<1>2. /\ st'.life = "created" /\ st'.callback /\ st'.told = {}
      /\ st'.stop_flag = st.stop_flag /\ st'.was_checked = st.was_checked
  BY IInvTypes DEF Create, LifeState
<1>3. dv'.connections = {} /\ InFlight(dv)' = {}
  BY DEF Create, EmptyDelivery, InFlight
<1>4. ReportInv'
  BY <1>1, <1>2, <1>3 DEF ReportInv, Truthful
<1>5. Reports!Started
  BY <1>1, <1>2, <1>3 DEF Reports!Started
<1> QED
  BY <1>4, <1>5 DEF ReportStep, Reports!ReportsNext

LEMMA EndReports == IInv /\ ReportInv /\ (Close \/ Hangup) => ReportStep
<1> SUFFICES ASSUME IInv, ReportInv, Close \/ Hangup PROVE ReportStep
  OBVIOUS
<1>1. st.life # "dead" /\ st \in LifeState /\ Truthful(st)
  BY IInvTypes DEF Close, Hangup, Running, ReportInv
<1>2. \A s : Stop(s) => /\ st'.life = "dead" /\ ~st'.callback /\ ~st'.stop_flag /\ ~st'.was_checked
                        /\ st'.told = s.told /\ dv'.connections = {} /\ InFlight(dv)' = {}
  BY DEF Stop, NoActor, EmptyDelivery, InFlight
<1>3. (\E s : Stop(s)) => ReportInv'
  BY <1>2 DEF ReportInv
<1>4. CASE Close /\ st.callback
  <2>1. Stop([st EXCEPT !.told = @ \cup {"closed"}])
    BY <1>4 DEF Close, Tell
  <2>2. [st EXCEPT !.told = @ \cup {"closed"}].told = st.told \cup {"closed"}
    BY <1>1 DEF LifeState
  <2>3. Reports!ReportsEnd
    BY <1>1, <1>2, <1>4, <2>1, <2>2 DEF Reports!ReportsEnd
  <2> QED
    BY <1>3, <2>1, <2>3 DEF ReportStep, Reports!ReportsNext
<1>5. CASE Close /\ ~st.callback
  <2>1. Stop(st)
    BY <1>5 DEF Close, Tell
  <2>2. Reports!Ends
    BY <1>1, <1>2, <1>5, <2>1 DEF Reports!Ends
  <2> QED
    BY <1>3, <2>1, <2>2 DEF ReportStep, Reports!ReportsNext
<1>6. CASE Hangup
  <2>1. Stop([st EXCEPT !.told = @ \cup {"dropped"}])
    BY <1>6 DEF Hangup
  <2>2. [st EXCEPT !.told = @ \cup {"dropped"}].told = st.told \cup {"dropped"}
    BY <1>1 DEF LifeState
  <2>3. Reports!Ends
    BY <1>1, <1>2, <2>1, <2>2 DEF Reports!Ends
  <2> QED
    BY <1>3, <2>1, <2>3 DEF ReportStep, Reports!ReportsNext
<1> QED
  BY <1>4, <1>5, <1>6

LEMMA NextReports == IInv /\ ReportInv /\ [Next]_vars => ReportStep
<1> SUFFICES ASSUME IInv, ReportInv, [Next]_vars PROVE ReportStep
  OBVIOUS
<1>1. CASE AddUpdate \/ RunGc \/ (\E e \in Event : Expire(e)) \/ UNCHANGED vars
  <2>1. dv' = dv /\ st' = st
    BY <1>1 DEF AddUpdate, RunGc, Expire, vars
  <2>2. InFlight(dv)' = InFlight(dv)
    BY <2>1 DEF InFlight
  <2> QED
    BY <2>1, <2>2 DEF ReportStep, ReportInv, Truthful, Reports!reportVars
<1>2. CASE \E w \in Webhooks : Create(w)
  BY <1>2, CreateReports
<1>3. CASE \E url_ok, ip_ok, https \in BOOLEAN : StartUp(url_ok, ip_ok, https)
  BY <1>3, StartUpReports
<1>4. CASE Update
  BY <1>4, UpdateReports
<1>5. CASE Timeout
  BY <1>5, TimeoutReports
<1>6. CASE \E c \in Conn, ok, keep_alive, retry_after, no_time \in BOOLEAN :
             HandleResponse(c, ok, keep_alive, retry_after, no_time)
  BY <1>6, ResponseReports
<1>7. CASE \E c \in Conn, no_time \in BOOLEAN : HangupShared(c, no_time)
  BY <1>7, HangupReports
<1>8. CASE \E result \in {"error", "same", "new"} : OnResolvedIpAddress(result)
  BY <1>8, ResolvedReports
<1>9. CASE \E ok \in BOOLEAN : OnSslContextCreated(ok)
  BY <1>9, SslContextReports
<1>10. CASE \E ok \in BOOLEAN : OnSocketReadyAsync(ok)
  BY <1>10, SocketReports
<1>11. CASE Close \/ Hangup
  BY <1>11, EndReports
<1> QED
  BY <1>1, <1>2, <1>3, <1>4, <1>5, <1>6, <1>7, <1>8, <1>9, <1>10, <1>11 DEF Next

\* The Client can rely on what the actor tells it (WebhookActor.cpp:757-806): the webhook gets
\* updates only between the reports that it is verified and that it is closed, the CHECK of
\* on_error holds, and no actor ends without a report unless the Client dropped it, for
\* every webhook and however failures, sockets, lookups and answers interleave.
THEOREM ReportsAreTrue == Spec => ImplementsActorReports
<1>1. Init => Reports!NoActorYet /\ ReportInv
  BY DEF Init, EmptyDelivery, NoActor, InFlight, Reports!NoActorYet, ReportInv
<1>2. IInv /\ ReportInv /\ [Next]_vars =>
        [Reports!ReportsNext]_(Reports!reportVars) /\ ReportInv'
  BY NextReports DEF ReportStep
<1> QED
  BY <1>1, <1>2, Inductive, PTL DEF Spec, ImplementsActorReports, Reports!ReportsSpec

=============================================================================
