------------------------- MODULE WebhookActorProofs -------------------------
(***************************************************************************)
(* What holds of WebhookActor for every number of updates, every way they  *)
(* are spread over queues, and every connection limit: the invariant of    *)
(* the delivery state, and the refinement of UpdateDelivery.               *)
(***************************************************************************)
EXTENDS WebhookActor, FiniteSetTheorems, TLAPS

(***************************************************************************)
(* The invariant of the delivery state, as a predicate of the values that  *)
(* the methods pass on: d for dv, tq for tqueue and last for tail.         *)
(***************************************************************************)
ReadyInv(d) ==
  /\ d.ready = {c \in d.connections : d.event[c] = NoEvent}
  /\ \A c \in Conn \ d.connections : d.event[c] = NoEvent

PlacedInv(d) ==
  d.header_fits =>
    /\ d.waiting \cup QueuesOf(InFlight(d)) = QueuesOf(d.loaded)
    /\ d.waiting \cap QueuesOf(InFlight(d)) = {}

\* When headers do not fit, queues may get lost from queues_, but none is in both.
ApartInv(d) == d.waiting \cap QueuesOf(InFlight(d)) = {}

FrontsInv(d) ==
  /\ InFlight(d) \subseteq Fronts(d.loaded)
  /\ \A a, b \in d.connections :
       d.event[a] = d.event[b] /\ a # b => d.event[a] = NoEvent

SkippedInv(d, tq) ==
  \A e \in Event :
    /\ e \in d.loaded => e < d.tqueue_offset
    /\ e \in tq /\ e < d.tqueue_offset => e \in d.loaded

TailInv(d, tq, last) ==
  /\ tq \subseteq 1..last
  /\ d.tqueue_offset <= last + 1

DeliveryInv(d, tq, last) ==
  /\ d \in DeliveryState
  /\ ReadyInv(d)
  /\ PlacedInv(d)
  /\ ApartInv(d)
  /\ FrontsInv(d)
  /\ SkippedInv(d, tq)
  /\ TailInv(d, tq, last)
-----------------------------------------------------------------------------
(* Facts about sets of updates.                                            *)

LEMMA MaxEventType == MaxEvent \in Nat
  BY ConstantsAssumption

LEMMA QueueOfType == \A e \in Event : QueueOf(e) \in Int
  BY ConstantsAssumption DEF QueueOf, Event

LEMMA FiniteEvents ==
  ASSUME NEW E \in SUBSET Event
  PROVE  IsFiniteSet(E)
  <1>1. IsFiniteSet(Event)
    BY ConstantsAssumption, FS_Interval DEF Event
  <1>2. QED
    BY <1>1, FS_Subset

\* A set of updates that is not empty has a largest one.
LEMMA MaxOfEvents ==
  ASSUME NEW E \in SUBSET Event, E # {}
  PROVE  /\ Max(E) \in E
         /\ \A e \in E : e <= Max(E)
  <1> DEFINE T == {MaxEvent - e : e \in E}
  <1>1. T \subseteq Nat /\ T # {}
    <2>1. ASSUME NEW e \in E
          PROVE  MaxEvent - e \in Nat
      BY MaxEventType DEF Event
    <2>2. QED
      BY <2>1
  <1>2. IsWellFoundedOn(OpToRel(<, Nat), Nat)
    BY NatLessThanWellFounded
  <1>3. PICK x \in T : \A y \in T : ~ (<<y, x>> \in OpToRel(<, Nat))
    BY <1>1, <1>2, WFMin
  <1>4. \A y \in T : ~ (y < x)
    BY <1>1, <1>3 DEF OpToRel
  <1>5. PICK m \in E : x = MaxEvent - m
    OBVIOUS
  <1>6. \A e \in E : e <= m
    <2> SUFFICES ASSUME NEW e \in E
                 PROVE  e <= m
      OBVIOUS
    <2>1. MaxEvent - e \in T
      OBVIOUS
    <2>2. ~ (MaxEvent - e < MaxEvent - m)
      BY <2>1, <1>4, <1>5
    <2>3. e \in Int /\ m \in Int /\ MaxEvent \in Int
      BY ConstantsAssumption DEF Event
    <2>4. QED
      BY <2>2, <2>3
  <1>7. QED
    BY <1>6 DEF Max

LEMMA QueuesAreFinite ==
  ASSUME NEW E \in SUBSET Event
  PROVE  /\ IsFiniteSet(QueuesOf(E))
         /\ Cardinality(QueuesOf(E)) \in Nat
         /\ Cardinality(QueuesOf(E)) <= Cardinality(E)
  <1> DEFINE f == [e \in E |-> QueueOf(e)]
  <1>1. f \in Surjection(E, QueuesOf(E))
    BY DEF Surjection, QueuesOf
  <1>2. QED
    BY <1>1, FiniteEvents, FS_Surjection, FS_CardinalityType

LEMMA QueuesOfUnion ==
  ASSUME NEW E, NEW F
  PROVE  QueuesOf(E \cup F) = QueuesOf(E) \cup QueuesOf(F)
  BY DEF QueuesOf

LEMMA InFlightType ==
  ASSUME NEW d \in DeliveryState
  PROVE  InFlight(d) \subseteq Event
  BY DEF InFlight, DeliveryState

\* The batch that load_updates reads, and what tqueue->get leaves behind it.
LEMMA BatchIsPrefix ==
  ASSUME NEW tq \in SUBSET Event, NEW offset \in Nat, NEW limit \in Int,
         NEW m \in Stored(tq, offset, limit),
         NEW e \in AfterGet(tq, offset, limit), offset <= e, e <= m
  PROVE  e \in Stored(tq, offset, limit)
  <1> DEFINE available == {x \in tq \ expired : offset <= x}
             before(y) == {f \in available : f < y}
  <1>1. e \in Event /\ m \in Event /\ Event \subseteq Int
    BY DEF Stored, AfterGet, Event
  <1>2. before(e) \subseteq before(m)
    <2> SUFFICES ASSUME NEW f \in available, f < e
                 PROVE  f < m
      OBVIOUS
    <2>1. f \in Int /\ e \in Int /\ m \in Int
      BY <1>1
    <2>2. QED
      BY <2>1
  <1>3. /\ IsFiniteSet(before(m))
        /\ Cardinality(before(e)) <= Cardinality(before(m))
    <2>1. before(m) \in SUBSET Event
      OBVIOUS
    <2>2. IsFiniteSet(before(m))
      BY <2>1, FiniteEvents
    <2>3. QED
      BY <1>2, <2>2, FS_Subset
  <1>4. Cardinality(before(e)) \in Nat /\ Cardinality(before(m)) \in Nat
    BY <1>2, <1>3, FS_Subset, FS_CardinalityType
  <1>5. Cardinality(before(m)) < limit
    BY DEF Stored
  <1>6. Cardinality(before(e)) < limit /\ ~ (Cardinality(before(e)) > limit)
    BY <1>3, <1>4, <1>5
  <1>7. e \notin expired
    BY <1>6, <1>1 DEF AfterGet
  <1>8. e \in available
    BY <1>7 DEF AfterGet
  <1>9. QED
    BY <1>6, <1>8 DEF Stored

-----------------------------------------------------------------------------
(* Every method keeps the invariant of the delivery state.                 *)

LEMMA LoadKeepsInv ==
  ASSUME NEW d, NEW tq, NEW last \in 0..MaxEvent, DeliveryInv(d, tq, last)
  PROVE  DeliveryInv(LoadUpdates(d, tq), QueueAfterLoad(d, tq), last)
  <1> DEFINE limit == LoadLimit(d)
             offset == d.tqueue_offset
             batch == Stored(tq, offset, limit)
             fresh == batch \ d.loaded
             n     == LoadUpdates(d, tq)
             left  == QueueAfterLoad(d, tq)
  <1> USE DEF DeliveryInv
  <1>1. CASE ~CanLoad(d)
    BY <1>1 DEF LoadUpdates, QueueAfterLoad
  <1>2. CASE CanLoad(d)
    <2>1. n = [d EXCEPT !.tqueue_empty  = (batch = {}),
                        !.loaded        = d.loaded \cup fresh,
                        !.tqueue_offset = IF fresh = {} THEN offset ELSE Max(fresh) + 1,
                        !.waiting = d.waiting \cup (QueuesOf(fresh) \ QueuesOf(d.loaded))]
      BY <1>2 DEF LoadUpdates
    <2>2. left = AfterGet(tq, offset, limit)
      BY <1>2 DEF QueueAfterLoad
    <2>3. tq \in SUBSET Event /\ offset \in Nat /\ d.loaded \subseteq Event
      BY ConstantsAssumption DEF DeliveryState, TailInv, Event
    <2>4. left \subseteq tq /\ batch \subseteq tq /\ fresh \subseteq Event
      BY <2>2, <2>3 DEF AfterGet, Stored
    <2>5. limit \in Int
      BY <2>3, QueuesAreFinite, ConstantsAssumption DEF LoadLimit, MaxLoaded
    <2>6. fresh = batch \ d.loaded /\ \A e \in fresh : offset <= e
      BY DEF Stored
    <2>7. fresh # {} => Max(fresh) \in fresh /\ \A e \in fresh : e <= Max(fresh)
      BY <2>4, MaxOfEvents
    <2>8. /\ n.tqueue_offset = IF fresh = {} THEN offset ELSE Max(fresh) + 1
          /\ n.loaded = d.loaded \cup fresh
          /\ n.waiting = d.waiting \cup (QueuesOf(fresh) \ QueuesOf(d.loaded))
          /\ n.event = d.event
          /\ n.connections = d.connections
          /\ n.ready = d.ready
          /\ n.header_fits = d.header_fits
      BY <2>1 DEF DeliveryState
    <2> HIDE DEF n, left, batch, fresh, limit
    <2>9. n.tqueue_offset \in 0..(MaxEvent + 1) /\ offset <= n.tqueue_offset
      <3>1. CASE fresh = {}
        BY <3>1, <2>8 DEF DeliveryState
      <3>2. CASE fresh # {}
        <4>1. Max(fresh) \in Event /\ offset <= Max(fresh)
          BY <3>2, <2>4, <2>6, <2>7
        <4>2. n.tqueue_offset = Max(fresh) + 1
          BY <3>2, <2>8
        <4>3. QED
          BY <4>1, <4>2, <2>3, ConstantsAssumption DEF Event
      <3>3. QED
        BY <3>1, <3>2
    <2>10. n \in DeliveryState
      <3>1. QueuesOf(fresh) \subseteq Int
        BY <2>4, QueueOfType DEF QueuesOf
      <3>2. /\ n.loaded \in SUBSET Event
            /\ n.waiting \in SUBSET Int
        BY <2>3, <2>4, <2>8, <3>1 DEF DeliveryState
      <3>3. QED
        BY <2>1, <2>8, <2>9, <3>2 DEF DeliveryState
    <2>11. InFlight(n) = InFlight(d)
      BY <2>8 DEF InFlight
    <2>12. ReadyInv(n)
      BY <2>8 DEF ReadyInv
    <2>13. PlacedInv(n) /\ ApartInv(n)
      <3>1. QueuesOf(InFlight(d)) \subseteq QueuesOf(d.loaded)
        BY DEF FrontsInv, Fronts, QueuesOf
      <3>2. QueuesOf(n.loaded) = QueuesOf(d.loaded) \cup QueuesOf(fresh)
        BY <2>8, QueuesOfUnion
      <3>3. QED
        BY <2>8, <2>11, <3>1, <3>2 DEF PlacedInv, ApartInv
    <2>14. FrontsInv(n)
      <3>1. \A e \in d.loaded, f \in fresh : e <= f
        BY <2>3, <2>4, <2>6 DEF SkippedInv, Event
      <3>2. Fronts(d.loaded) \subseteq Fronts(n.loaded)
        BY <2>8, <3>1 DEF Fronts
      <3>3. QED
        BY <2>8, <2>11, <3>2 DEF FrontsInv
    <2>15. SkippedInv(n, left)
      <3> SUFFICES ASSUME NEW e \in Event
                   PROVE  /\ e \in n.loaded => e < n.tqueue_offset
                          /\ e \in left /\ e < n.tqueue_offset => e \in n.loaded
        BY DEF SkippedInv
      <3>1. ASSUME e \in n.loaded PROVE e < n.tqueue_offset
        <4>1. CASE e \in d.loaded
          <5>1. e < offset
            BY <4>1 DEF SkippedInv
          <5>2. e \in Int /\ n.tqueue_offset \in Int
            BY <2>9 DEF Event
          <5>3. QED
            BY <5>1, <5>2, <2>3, <2>9
        <4>2. CASE e \in fresh
          <5>1. Max(fresh) \in Event /\ e <= Max(fresh) /\ n.tqueue_offset = Max(fresh) + 1
            BY <4>2, <2>4, <2>7, <2>8
          <5>2. QED
            BY <5>1 DEF Event
        <4>3. QED
          BY <3>1, <4>1, <4>2, <2>8
      <3>2. ASSUME e \in left, e < n.tqueue_offset PROVE e \in n.loaded
        <4>1. CASE e < offset
          BY <3>2, <4>1, <2>4, <2>8 DEF SkippedInv
        <4>2. CASE ~(e < offset)
          <5>1. fresh # {}
            BY <3>2, <4>2, <2>8
          <5>2. Max(fresh) \in batch /\ offset <= e /\ e <= Max(fresh)
            <6>1. Max(fresh) \in fresh /\ n.tqueue_offset = Max(fresh) + 1
              BY <5>1, <2>7, <2>8
            <6>2. Max(fresh) \in Int /\ e \in Int
              <7>1. Max(fresh) \in Event
                BY <6>1, <2>4
              <7>2. Event \subseteq Int
                BY DEF Event
              <7>3. QED
                BY <7>1, <7>2
            <6>3. QED
              BY <6>1, <6>2, <4>2, <3>2, <2>3, <2>6
          <5>3. e \in batch
            BY <5>2, <2>2, <2>3, <2>5, <3>2, BatchIsPrefix DEF batch
          <5>4. QED
            BY <5>3, <2>6, <2>8
        <4>3. QED
          BY <4>1, <4>2
      <3>3. QED
        BY <3>1, <3>2
    <2>16. TailInv(n, left, last)
      <3>1. left \subseteq 1..last
        BY <2>4 DEF TailInv
      <3>2. CASE fresh = {}
        BY <3>1, <3>2, <2>8 DEF TailInv
      <3>3. CASE fresh # {}
        <4>1. Max(fresh) \in 1..last
          BY <3>3, <2>4, <2>6, <2>7 DEF TailInv
        <4>2. n.tqueue_offset = Max(fresh) + 1
          BY <3>3, <2>8
        <4>3. QED
          BY <3>1, <4>1, <4>2 DEF TailInv
      <3>4. QED
        BY <3>2, <3>3
    <2>17. QED
      BY <2>10, <2>12, <2>13, <2>14, <2>15, <2>16 DEF n, left
  <1>3. QED
    BY <1>1, <1>2

\* New connections send nothing yet.
LEMMA OpenKeepsInv ==
  ASSUME NEW d, NEW tq, NEW last, DeliveryInv(d, tq, last),
         NEW new \in SUBSET (Conn \ d.connections)
  PROVE  DeliveryInv(OpenConnections(d, new), tq, last)
  <1> DEFINE n == OpenConnections(d, new)
  <1> USE DEF DeliveryInv
  <1>1. /\ n \in DeliveryState
        /\ n.connections = d.connections \cup new
        /\ n.ready = d.ready \cup new
        /\ n.event = d.event
        /\ n.loaded = d.loaded
        /\ n.waiting = d.waiting
        /\ n.tqueue_offset = d.tqueue_offset
        /\ n.header_fits = d.header_fits
    BY DEF OpenConnections, DeliveryState
  <1>2. \A c \in new : d.event[c] = NoEvent
    BY DEF ReadyInv
  <1> HIDE DEF n
  <1>3. InFlight(n) = InFlight(d)
    BY <1>1, <1>2 DEF InFlight
  <1>4. ReadyInv(n)
    BY <1>1, <1>2 DEF ReadyInv
  <1>5. PlacedInv(n) /\ ApartInv(n)
    BY <1>1, <1>3 DEF PlacedInv, ApartInv
  <1>6. FrontsInv(n)
    BY <1>1, <1>2, <1>3 DEF FrontsInv
  <1>7. SkippedInv(n, tq) /\ TailInv(n, tq, last)
    BY <1>1 DEF SkippedInv, TailInv
  <1>8. QED
    BY <1>1, <1>4, <1>5, <1>6, <1>7 DEF n

\* Two fronts of one queue are the same update.
LEMMA FrontsDiffer ==
  ASSUME NEW E \in SUBSET Event, NEW e \in Fronts(E), NEW f \in Fronts(E),
         QueueOf(e) = QueueOf(f)
  PROVE  e = f
  <1>1. e \in E /\ f \in E /\ e <= f /\ f <= e
    BY DEF Fronts
  <1>2. e \in Int /\ f \in Int
    BY <1>1 DEF Event
  <1>3. QED
    BY <1>1, <1>2

LEMMA SendKeepsInv ==
  ASSUME NEW d, NEW tq, NEW last, DeliveryInv(d, tq, last),
         NEW f \in Assignments(d)
  PROVE  DeliveryInv(Send(d, f), tq, last)
  <1> DEFINE n == Send(d, f)
             sent == {f[c] : c \in DOMAIN f}
  <1> USE DEF DeliveryInv
  <1>1. /\ DOMAIN f \subseteq d.ready
        /\ sent \subseteq DueEvents(d)
        /\ \A a, b \in DOMAIN f : f[a] = f[b] => a = b
    BY DEF Assignments, kSubset
  <1>2. /\ sent \subseteq Fronts(d.loaded)
        /\ QueuesOf(sent) \subseteq d.waiting
        /\ \A e \in sent : QueueOf(e) \in d.waiting
    BY <1>1 DEF DueEvents, QueuesOf
  <1>3. d.loaded \subseteq Event /\ sent \subseteq Event /\ NoEvent \notin Event
    BY <1>2 DEF DeliveryState, Fronts, NoEvent, Event
  <1>4. /\ DOMAIN f \subseteq d.connections
        /\ d.connections \subseteq Conn
        /\ \A c \in DOMAIN f : d.event[c] = NoEvent
    BY <1>1 DEF ReadyInv, DeliveryState
  <1>5. /\ n.event = [c \in Conn |-> IF c \in DOMAIN f THEN f[c] ELSE d.event[c]]
        /\ n.ready = d.ready \ DOMAIN f
        /\ n.waiting = d.waiting \ QueuesOf(sent)
        /\ n.connections = d.connections
        /\ n.loaded = d.loaded
        /\ n.tqueue_offset = d.tqueue_offset
        /\ n.header_fits = d.header_fits
    BY DEF Send, DeliveryState, QueuesOf
  <1>6. n \in DeliveryState
    <2>1. \A c \in Conn : n.event[c] \in Event \cup {NoEvent}
      BY <1>3, <1>5 DEF DeliveryState
    <2>2. n.event \in [Conn -> Event \cup {NoEvent}]
      BY <1>5, <2>1
    <2>3. QED
      BY <2>2, <1>5 DEF Send, DeliveryState
  <1>7. \A c \in DOMAIN f : f[c] \in sent /\ n.event[c] = f[c] /\ f[c] # NoEvent
    BY <1>3, <1>4, <1>5
  <1>8. \A c \in Conn \ DOMAIN f : n.event[c] = d.event[c]
    BY <1>5
  <1> HIDE DEF n
  <1>9. InFlight(n) = InFlight(d) \cup sent
    <2>1. InFlight(n) \subseteq InFlight(d) \cup sent
      BY <1>4, <1>5, <1>7, <1>8 DEF InFlight
    <2>2. InFlight(d) \subseteq InFlight(n)
      BY <1>4, <1>5, <1>7, <1>8 DEF InFlight
    <2>3. sent \subseteq InFlight(n)
      BY <1>4, <1>5, <1>7 DEF InFlight
    <2>4. QED
      BY <2>1, <2>2, <2>3
  <1> HIDE DEF sent
  <1>10. QueuesOf(InFlight(n)) = QueuesOf(InFlight(d)) \cup QueuesOf(sent)
    BY <1>9, QueuesOfUnion
  <1>11. ReadyInv(n)
    BY <1>4, <1>5, <1>7, <1>8 DEF ReadyInv
  <1>12. PlacedInv(n) /\ ApartInv(n)
    BY <1>2, <1>5, <1>10 DEF PlacedInv, ApartInv
  <1>13. FrontsInv(n)
    <2>1. InFlight(d) \cap sent = {}
      BY <1>2 DEF ApartInv, QueuesOf
    <2>2. InFlight(n) \subseteq Fronts(n.loaded)
      BY <1>2, <1>5, <1>9 DEF FrontsInv
    <2>3. ASSUME NEW a \in d.connections, NEW b \in d.connections,
                 n.event[a] = n.event[b], a # b, n.event[a] # NoEvent
          PROVE  FALSE
      <3>1. CASE a \in DOMAIN f /\ b \in DOMAIN f
        BY <1>1, <1>7, <2>3, <3>1
      <3>2. CASE a \notin DOMAIN f /\ b \notin DOMAIN f
        BY <1>4, <1>8, <2>3, <3>2 DEF FrontsInv
      <3>3. CASE a \in DOMAIN f /\ b \notin DOMAIN f
        BY <1>4, <1>7, <1>8, <2>1, <2>3, <3>3 DEF InFlight
      <3>4. CASE a \notin DOMAIN f /\ b \in DOMAIN f
        BY <1>4, <1>7, <1>8, <2>1, <2>3, <3>4 DEF InFlight
      <3>5. QED
        BY <3>1, <3>2, <3>3, <3>4
    <2>4. QED
      BY <1>5, <2>2, <2>3 DEF FrontsInv
  <1>14. SkippedInv(n, tq) /\ TailInv(n, tq, last)
    BY <1>5 DEF SkippedInv, TailInv
  <1>15. QED
    BY <1>6, <1>11, <1>12, <1>13, <1>14 DEF n

\* Giving up on a header that is too long only leaves a queue stuck.
LEMMA FailKeepsInv ==
  ASSUME NEW d, NEW tq, NEW last, DeliveryInv(d, tq, last),
         NEW e, ~d.header_fits
  PROVE  DeliveryInv(FailToSend(d, e), tq, last)
  <1> DEFINE n == FailToSend(d, e)
  <1> USE DEF DeliveryInv
  <1>1. /\ n \in DeliveryState
        /\ n.waiting \subseteq d.waiting
        /\ n.connections = d.connections
        /\ n.ready = d.ready
        /\ n.event = d.event
        /\ n.loaded = d.loaded
        /\ n.tqueue_offset = d.tqueue_offset
        /\ n.header_fits = d.header_fits
    BY DEF FailToSend, DeliveryState
  <1> HIDE DEF n
  <1>2. InFlight(n) = InFlight(d)
    BY <1>1 DEF InFlight
  <1>3. ReadyInv(n) /\ FrontsInv(n)
    BY <1>1, <1>2 DEF ReadyInv, FrontsInv
  <1>4. PlacedInv(n) /\ ApartInv(n)
    BY <1>1, <1>2 DEF PlacedInv, ApartInv
  <1>5. SkippedInv(n, tq) /\ TailInv(n, tq, last)
    BY <1>1 DEF SkippedInv, TailInv
  <1>6. QED
    BY <1>1, <1>3, <1>4, <1>5 DEF n

\* The flags, the delays and the ages of connections do not matter.
LEMMA SameKeepsInv ==
  ASSUME NEW d, NEW tq, NEW last, DeliveryInv(d, tq, last),
         NEW n \in DeliveryState,
         n.waiting = d.waiting, n.connections = d.connections,
         n.ready = d.ready, n.event = d.event, n.loaded = d.loaded,
         n.tqueue_offset = d.tqueue_offset, n.header_fits = d.header_fits
  PROVE  DeliveryInv(n, tq, last)
  <1> USE DEF DeliveryInv
  <1>1. InFlight(n) = InFlight(d)
    BY DEF InFlight
  <1>2. ReadyInv(n) /\ FrontsInv(n)
    BY <1>1 DEF ReadyInv, FrontsInv
  <1>3. PlacedInv(n) /\ ApartInv(n)
    BY <1>1 DEF PlacedInv, ApartInv
  <1>4. SkippedInv(n, tq) /\ TailInv(n, tq, last)
    BY DEF SkippedInv, TailInv
  <1>5. QED
    BY <1>2, <1>3, <1>4

\* Updates may leave the TQueue behind the actor's back.
LEMMA SmallerQueueKeepsInv ==
  ASSUME NEW d, NEW tq, NEW last, DeliveryInv(d, tq, last), NEW less \in SUBSET tq
  PROVE  DeliveryInv(d, less, last)
  <1>1. SkippedInv(d, less) /\ TailInv(d, less, last)
    BY DEF DeliveryInv, SkippedInv, TailInv
  <1>2. QED
    BY <1>1 DEF DeliveryInv

LEMMA EmptyInv ==
  ASSUME NEW last \in 0..MaxEvent, NEW tq \in SUBSET (1..last), NEW fits \in BOOLEAN
  PROVE  DeliveryInv(EmptyDelivery(fits), tq, last)
  <1> DEFINE n == EmptyDelivery(fits)
  <1>1. n \in DeliveryState
    BY ConstantsAssumption DEF EmptyDelivery, DeliveryState
  <1>2. InFlight(n) = {}
    BY DEF EmptyDelivery, InFlight
  <1>3. ReadyInv(n)
    BY DEF EmptyDelivery, ReadyInv
  <1>4. PlacedInv(n) /\ ApartInv(n) /\ FrontsInv(n)
    BY <1>2 DEF EmptyDelivery, PlacedInv, ApartInv, FrontsInv, QueuesOf
  <1>5. SkippedInv(n, tq) /\ TailInv(n, tq, last)
    BY DEF EmptyDelivery, SkippedInv, TailInv, Event
  <1>6. QED
    BY <1>1, <1>3, <1>4, <1>5 DEF DeliveryInv
-----------------------------------------------------------------------------
(* The end of a request.  Between drop_event or DelayEvent and the release *)
(* of the connection the invariant is broken, so they are taken together.  *)

LEMMA ReleaseKeepsReady ==
  ASSUME NEW d \in DeliveryState, NEW c \in d.connections, NEW close \in BOOLEAN, NEW n,
         n = ReleaseConnection(d, c, close),
         ReadyInv(d)
  PROVE  ReadyInv(n)
  <1>1. /\ n.event = [d.event EXCEPT ![c] = NoEvent]
        /\ n.connections = IF close THEN d.connections \ {c} ELSE d.connections
        /\ n.ready = IF close THEN d.ready \ {c} ELSE d.ready \cup {c}
    BY DEF ReleaseConnection, DeliveryState
  <1>2. c \in Conn /\ d.connections \subseteq Conn /\ d.event \in [Conn -> Event \cup {NoEvent}]
    BY DEF DeliveryState
  <1>3. n.event[c] = NoEvent /\ \A a \in Conn \ {c} : n.event[a] = d.event[a]
    BY <1>1, <1>2
  <1>4. QED
    BY <1>1, <1>2, <1>3 DEF ReadyInv

\* The update that was sent is not in flight any more, the others still are.
LEMMA ReleaseEndsFlight ==
  ASSUME NEW d \in DeliveryState, NEW c \in d.connections, NEW close \in BOOLEAN, NEW n,
         n = ReleaseConnection(d, c, close),
         \A a, b \in d.connections :
           d.event[a] = d.event[b] /\ a # b => d.event[a] = NoEvent
  PROVE  /\ InFlight(n) = InFlight(d) \ {d.event[c]}
         /\ \A a, b \in n.connections :
              n.event[a] = n.event[b] /\ a # b => n.event[a] = NoEvent
  <1>1. /\ n.event = [d.event EXCEPT ![c] = NoEvent]
        /\ n.connections = IF close THEN d.connections \ {c} ELSE d.connections
    BY DEF ReleaseConnection, DeliveryState
  <1>2. c \in Conn /\ d.connections \subseteq Conn /\ d.event \in [Conn -> Event \cup {NoEvent}]
    BY DEF DeliveryState
  <1>3. n.event[c] = NoEvent /\ \A a \in Conn \ {c} : n.event[a] = d.event[a]
    BY <1>1, <1>2
  <1>4. InFlight(n) = InFlight(d) \ {d.event[c]}
    BY <1>1, <1>2, <1>3 DEF InFlight
  <1>5. \A a, b \in n.connections :
          n.event[a] = n.event[b] /\ a # b => n.event[a] = NoEvent
    BY <1>1, <1>2, <1>3
  <1>6. QED
    BY <1>4, <1>5

\* An idle connection goes away.
LEMMA IdleKeepsInv ==
  ASSUME NEW d, NEW tq, NEW last, DeliveryInv(d, tq, last),
         NEW c \in d.connections, NEW close \in BOOLEAN, NEW n,
         n = ReleaseConnection(d, c, close), d.event[c] = NoEvent
  PROVE  DeliveryInv(n, tq, last)
  <1> USE DEF DeliveryInv
  <1>0. /\ n \in DeliveryState
        /\ n.loaded = d.loaded
        /\ n.waiting = d.waiting
        /\ n.tqueue_offset = d.tqueue_offset
        /\ n.header_fits = d.header_fits
    BY DEF ReleaseConnection, DeliveryState
  <1>1. InFlight(n) = InFlight(d)
    <2>1. NoEvent \notin InFlight(d)
      BY DEF InFlight
    <2>2. InFlight(n) = InFlight(d) \ {NoEvent}
      BY ReleaseEndsFlight DEF FrontsInv
    <2>3. QED
      BY <2>1, <2>2
  <1>2. FrontsInv(n)
    BY <1>0, <1>1, ReleaseEndsFlight DEF FrontsInv
  <1>3. PlacedInv(n) /\ ApartInv(n)
    BY <1>0, <1>1 DEF PlacedInv, ApartInv
  <1>4. SkippedInv(n, tq) /\ TailInv(n, tq, last)
    BY <1>0 DEF SkippedInv, TailInv
  <1>5. QED
    BY <1>0, <1>2, <1>3, <1>4, ReleaseKeepsReady

\* Without one of its fronts a set of updates in flight misses one queue.
LEMMA OneFrontLess ==
  ASSUME NEW d, NEW tq, NEW last, DeliveryInv(d, tq, last),
         NEW e \in InFlight(d)
  PROVE  QueuesOf(InFlight(d) \ {e}) = QueuesOf(InFlight(d)) \ {QueueOf(e)}
  <1>1. d.loaded \in SUBSET Event
    BY DEF DeliveryInv, DeliveryState
  <1>2. \A f \in InFlight(d) : QueueOf(f) = QueueOf(e) => f = e
    BY <1>1, FrontsDiffer DEF DeliveryInv, FrontsInv
  <1>3. QED
    BY <1>2 DEF QueuesOf

\* The update was delivered or given up.
LEMMA DropKeepsInv ==
  ASSUME NEW d, NEW tq, NEW last, DeliveryInv(d, tq, last),
         NEW c \in d.connections, NEW close \in BOOLEAN, d.event[c] # NoEvent,
         NEW n, n = ReleaseConnection(DropEvent(d, d.event[c]), c, close)
  PROVE  DeliveryInv(n, tq \ {d.event[c]}, last)
  <1> DEFINE e == d.event[c]
             m == DropEvent(d, e)
             left == d.loaded \ {e}
  <1> USE DEF DeliveryInv
  <1>1. /\ m.loaded = left
        /\ m.waiting = d.waiting \cup ({QueueOf(e)} \cap QueuesOf(left))
        /\ m.connections = d.connections
        /\ m.ready = d.ready
        /\ m.event = d.event
        /\ m.tqueue_offset = d.tqueue_offset
        /\ m.header_fits = d.header_fits
    BY DEF DropEvent, DeliveryState
  <1>2. e \in InFlight(d) /\ e \in d.loaded /\ e \in Event /\ QueueOf(e) \in Int
    <2>1. e \in InFlight(d) /\ e \in d.loaded
      BY DEF InFlight, FrontsInv, Fronts
    <2>2. QED
      BY <2>1, QueueOfType DEF DeliveryState
  <1>3. m \in DeliveryState
    BY <1>2 DEF DropEvent, DeliveryState
  <1> HIDE DEF m
  <1>4. /\ n \in DeliveryState
        /\ n.loaded = left
        /\ n.waiting = m.waiting
        /\ n.tqueue_offset = d.tqueue_offset
        /\ n.header_fits = d.header_fits
    BY <1>1, <1>3 DEF ReleaseConnection, DeliveryState, m
  <1>5. n = ReleaseConnection(m, c, close)
    BY DEF m
  <1>6. ReadyInv(n)
    BY <1>1, <1>3, <1>5, ReleaseKeepsReady DEF ReadyInv
  <1>7. InFlight(m) = InFlight(d)
    BY <1>1 DEF InFlight
  <1>8. /\ InFlight(n) = InFlight(d) \ {e}
        /\ \A a, b \in n.connections :
             n.event[a] = n.event[b] /\ a # b => n.event[a] = NoEvent
    <2>1. \A a, b \in m.connections :
            m.event[a] = m.event[b] /\ a # b => m.event[a] = NoEvent
      BY <1>1 DEF FrontsInv
    <2>2. c \in m.connections /\ m.event[c] = e
      BY <1>1
    <2>3. QED
      BY <1>3, <1>5, <1>7, <2>1, <2>2, ReleaseEndsFlight
  <1>9. QueuesOf(InFlight(n)) = QueuesOf(InFlight(d)) \ {QueueOf(e)}
    BY <1>2, <1>8, OneFrontLess
  <1>10. FrontsInv(n)
    <2>1. InFlight(n) \subseteq Fronts(left)
      BY <1>8 DEF FrontsInv, Fronts
    <2>2. QED
      BY <1>4, <1>8, <2>1 DEF FrontsInv
  <1>11. PlacedInv(n) /\ ApartInv(n)
    <2>1. QueuesOf(left) \subseteq QueuesOf(d.loaded)
      BY DEF QueuesOf
    <2>2. QueuesOf(d.loaded) \subseteq QueuesOf(left) \cup {QueueOf(e)}
      BY DEF QueuesOf
    <2>3. QueueOf(e) \in QueuesOf(InFlight(d))
      BY <1>2 DEF QueuesOf
    <2>4. ApartInv(n)
      BY <1>1, <1>4, <1>9 DEF ApartInv
    <2>5. ASSUME d.header_fits
          PROVE  n.waiting \cup QueuesOf(InFlight(n)) = QueuesOf(n.loaded)
      <3> HIDE DEF left
      <3>1. d.waiting \cup QueuesOf(InFlight(d)) = QueuesOf(d.loaded)
        BY <2>5 DEF PlacedInv
      <3>2. QueueOf(e) \notin d.waiting
        BY <2>3 DEF ApartInv
      <3>3. d.waiting \subseteq QueuesOf(left)
        BY <3>1, <3>2, <2>2
      <3>4. QueuesOf(InFlight(n)) \subseteq QueuesOf(left)
        BY <3>1, <2>2, <1>9
      <3>5. QueuesOf(left) \subseteq n.waiting \cup QueuesOf(InFlight(n))
        BY <3>1, <2>1, <1>1, <1>4, <1>9
      <3>6. QED
        BY <3>3, <3>4, <3>5, <1>1, <1>4
    <2>6. QED
      BY <1>1, <1>4, <2>4, <2>5 DEF PlacedInv, ApartInv
  <1>12. SkippedInv(n, tq \ {e}) /\ TailInv(n, tq \ {e}, last)
    BY <1>4 DEF SkippedInv, TailInv
  <1>13. QED
    BY <1>4, <1>6, <1>10, <1>11, <1>12

\* The update failed and is kept for a retry.
LEMMA DelayKeepsInv ==
  ASSUME NEW d, NEW tq, NEW last, DeliveryInv(d, tq, last),
         NEW c \in d.connections, NEW close \in BOOLEAN, d.event[c] # NoEvent,
         NEW retry_after \in BOOLEAN,
         NEW n, n = ReleaseConnection(DelayEvent(d, d.event[c], retry_after), c, close)
  PROVE  DeliveryInv(n, tq, last)
  <1> DEFINE e == d.event[c]
             m == DelayEvent(d, e, retry_after)
  <1> USE DEF DeliveryInv
  <1>1. /\ m.loaded = d.loaded
        /\ m.waiting = d.waiting \cup {QueueOf(e)}
        /\ m.connections = d.connections
        /\ m.ready = d.ready
        /\ m.event = d.event
        /\ m.tqueue_offset = d.tqueue_offset
        /\ m.header_fits = d.header_fits
    BY DEF DelayEvent, DeliveryState
  <1>2. e \in InFlight(d) /\ e \in d.loaded /\ e \in Event /\ QueueOf(e) \in Int
    <2>1. e \in InFlight(d) /\ e \in d.loaded
      BY DEF InFlight, FrontsInv, Fronts
    <2>2. QED
      BY <2>1, QueueOfType DEF DeliveryState
  <1>3. m \in DeliveryState
    BY <1>2 DEF DelayEvent, DeliveryState
  <1> HIDE DEF m
  <1>4. /\ n \in DeliveryState
        /\ n.loaded = d.loaded
        /\ n.waiting = d.waiting \cup {QueueOf(e)}
        /\ n.tqueue_offset = d.tqueue_offset
        /\ n.header_fits = d.header_fits
    BY <1>1, <1>3 DEF ReleaseConnection, DeliveryState, m
  <1>5. n = ReleaseConnection(m, c, close)
    BY DEF m
  <1>6. ReadyInv(n)
    BY <1>1, <1>3, <1>5, ReleaseKeepsReady DEF ReadyInv
  <1>7. InFlight(m) = InFlight(d)
    BY <1>1 DEF InFlight
  <1>8. /\ InFlight(n) = InFlight(d) \ {e}
        /\ \A a, b \in n.connections :
             n.event[a] = n.event[b] /\ a # b => n.event[a] = NoEvent
    <2>1. \A a, b \in m.connections :
            m.event[a] = m.event[b] /\ a # b => m.event[a] = NoEvent
      BY <1>1 DEF FrontsInv
    <2>2. c \in m.connections /\ m.event[c] = e
      BY <1>1
    <2>3. QED
      BY <1>3, <1>5, <1>7, <2>1, <2>2, ReleaseEndsFlight
  <1>9. QueuesOf(InFlight(n)) = QueuesOf(InFlight(d)) \ {QueueOf(e)}
    BY <1>2, <1>8, OneFrontLess
  <1>10. FrontsInv(n)
    BY <1>4, <1>8 DEF FrontsInv
  <1>11. PlacedInv(n) /\ ApartInv(n)
    <2>1. QueueOf(e) \in QueuesOf(InFlight(d))
      BY <1>2 DEF QueuesOf
    <2>2. QED
      BY <1>4, <1>9, <2>1 DEF PlacedInv, ApartInv
  <1>12. SkippedInv(n, tq) /\ TailInv(n, tq, last)
    BY <1>4 DEF SkippedInv, TailInv
  <1>13. QED
    BY <1>4, <1>6, <1>10, <1>11, <1>12
-----------------------------------------------------------------------------
(* The methods on the lifecycle state keep its type.                       *)

LEMMA TellType ==
  ASSUME NEW s \in LifeState, NEW m \in Messages
  PROVE  Tell(s, m) \in LifeState
  BY DEF Tell, LifeState

LEMMA OnErrorType ==
  ASSUME NEW s \in LifeState
  PROVE  OnError(s) \in LifeState
  <1>1. Tell(s, "closed") \in LifeState
    BY TellType DEF Messages
  <1> DEFINE t == Tell(s, "closed")
             u == [t EXCEPT !.callback = FALSE, !.stop_flag = TRUE]
  <1>2. OnError(s) = s \/ OnError(s) = u
    BY DEF OnError
  <1> HIDE DEF t
  <1>3. t \in LifeState => u \in LifeState
    BY DEF LifeState
  <1>4. QED
    BY <1>1, <1>2, <1>3 DEF t

LEMMA CheckType ==
  ASSUME NEW s \in LifeState
  PROVE  Check(s) \in LifeState
  <1> DEFINE t == [s EXCEPT !.was_checked = TRUE]
  <1>1. t \in LifeState
    BY DEF LifeState
  <1>2. Tell(t, "verified") \in LifeState
    BY <1>1, TellType DEF Messages
  <1>3. QED
    BY <1>2 DEF Check, OnWebhookVerified

LEMMA RelaxWakeupType ==
  ASSUME NEW s \in LifeState
  PROVE  RelaxWakeup(s) \in LifeState
  BY DEF RelaxWakeup, LifeState

LEMMA FailedType ==
  ASSUME NEW s \in LifeState
  PROVE  Failed(s) \in LifeState
  BY OnErrorType, RelaxWakeupType DEF Failed

LEMMA ResolveIpAddressType ==
  ASSUME NEW s \in LifeState
  PROVE  ResolveIpAddress(s) \in LifeState
  <1>1. [s EXCEPT !.resolving = TRUE, !.resolve_due = FALSE] \in LifeState
    BY DEF LifeState
  <1>2. s.fix_ip \in BOOLEAN /\ s.resolving \in BOOLEAN /\ s.resolve_due \in BOOLEAN
    BY DEF LifeState
  <1>3. QED
    BY <1>1, <1>2, RelaxWakeupType DEF ResolveIpAddress

LEMMA NoActorType ==
  ASSUME NEW s \in LifeState
  PROVE  NoActor \in LifeState /\ [NoActor EXCEPT !.told = s.told] \in LifeState
  <1>1. NoActor \in LifeState
    BY DEF NoActor, LifeState
  <1>2. s.told \in SUBSET Messages
    BY DEF LifeState
  <1>3. QED
    BY <1>1, <1>2 DEF LifeState
-----------------------------------------------------------------------------
(* create_new_connections and loop.                                        *)

Fine(o, tq, last) ==
  DeliveryInv(o.dv, tq, last) /\ o.st \in LifeState

LEMMA OpenedFine ==
  ASSUME NEW d, NEW tq, NEW last, DeliveryInv(d, tq, last),
         NEW s \in LifeState, NEW n, NEW o \in Opened(d, s, n)
  PROVE  /\ Fine(o, tq, last)
         /\ Fine([o EXCEPT !.st = RelaxWakeup(@)], tq, last)
         /\ Fine([o EXCEPT !.st = Failed(@)], tq, last)
  <1>1. PICK new \in SUBSET (Conn \ d.connections) :
          o = [dv |-> OpenConnections(d, new), st |-> IF n = 0 THEN s ELSE Check(s)]
    BY DEF Opened, kSubset
  <1>2. DeliveryInv(o.dv, tq, last)
    BY <1>1, OpenKeepsInv
  <1>3. o.st \in LifeState
    BY <1>1, CheckType
  <1>4. RelaxWakeup(o.st) \in LifeState /\ Failed(o.st) \in LifeState
    BY <1>3, RelaxWakeupType, FailedType
  <1>5. /\ [o EXCEPT !.st = RelaxWakeup(@)] = [dv |-> o.dv, st |-> RelaxWakeup(o.st)]
        /\ [o EXCEPT !.st = Failed(@)] = [dv |-> o.dv, st |-> Failed(o.st)]
    BY <1>1
  <1>6. QED
    BY <1>2, <1>3, <1>4, <1>5 DEF Fine

LEMMA UseReadySocketsFine ==
  ASSUME NEW d, NEW tq, NEW last, DeliveryInv(d, tq, last),
         NEW s \in LifeState, NEW lucky \in BOOLEAN,
         NEW o \in UseReadySockets(d, s, lucky)
  PROVE  Fine(o, tq, last)
  <1> DEFINE s1 == [s EXCEPT !.ready_sockets = 0]
  <1>1. s1 \in LifeState
    BY DEF LifeState
  <1>2. \/ \E n : o \in Opened(d, s1, n)
        \/ \E n : \E p \in Opened(d, s1, n) : o = [p EXCEPT !.st = Failed(@)]
    <2> HIDE DEF s1
    <2> QED
      BY DEF UseReadySockets, s1
  <1> HIDE DEF s1
  <1>3. CASE \E n : o \in Opened(d, s1, n)
    BY <1>1, <1>3, OpenedFine
  <1>4. CASE \E n : \E p \in Opened(d, s1, n) : o = [p EXCEPT !.st = Failed(@)]
    <2>0. PICK n : \E p \in Opened(d, s1, n) : o = [p EXCEPT !.st = Failed(@)]
      BY <1>4
    <2>1. PICK p \in Opened(d, s1, n) : o = [p EXCEPT !.st = Failed(@)]
      BY <2>0
    <2>2. Fine([p EXCEPT !.st = Failed(@)], tq, last)
      BY <1>1, OpenedFine
    <2>3. QED
      BY <2>1, <2>2
  <1>5. QED
    BY <1>2, <1>3, <1>4

LEMMA CreateNewConnectionsFine ==
  ASSUME NEW d, NEW tq, NEW last, DeliveryInv(d, tq, last),
         NEW s \in LifeState, NEW lucky \in BOOLEAN,
         NEW o \in CreateNewConnections(d, s, lucky)
  PROVE  Fine(o, tq, last)
  <1>1. CASE o = [dv |-> d, st |-> s]
    BY <1>1 DEF Fine
  <1>2. CASE o \in DirectConnections(d, s, lucky)
    <2>1. \/ \E n : o \in Opened(d, s, n)
          \/ \E n : \E p \in Opened(d, s, n) : o = [p EXCEPT !.st = RelaxWakeup(@)]
          \/ \E n : \E p \in Opened(d, s, n) : o = [p EXCEPT !.st = Failed(@)]
      BY <1>2 DEF DirectConnections
    <2>2. CASE \E n : o \in Opened(d, s, n)
      BY <2>2, OpenedFine
    <2>3. CASE \E n : \E p \in Opened(d, s, n) : o = [p EXCEPT !.st = RelaxWakeup(@)]
      <3>0. PICK n : \E p \in Opened(d, s, n) : o = [p EXCEPT !.st = RelaxWakeup(@)]
        BY <2>3
      <3>1. PICK p \in Opened(d, s, n) : o = [p EXCEPT !.st = RelaxWakeup(@)]
        BY <3>0
      <3>2. Fine([p EXCEPT !.st = RelaxWakeup(@)], tq, last)
        BY OpenedFine
      <3>3. QED
        BY <3>1, <3>2
    <2>4. CASE \E n : \E p \in Opened(d, s, n) : o = [p EXCEPT !.st = Failed(@)]
      <3>0. PICK n : \E p \in Opened(d, s, n) : o = [p EXCEPT !.st = Failed(@)]
        BY <2>4
      <3>1. PICK p \in Opened(d, s, n) : o = [p EXCEPT !.st = Failed(@)]
        BY <3>0
      <3>2. Fine([p EXCEPT !.st = Failed(@)], tq, last)
        BY OpenedFine
      <3>3. QED
        BY <3>1, <3>2
    <2>5. QED
      BY <2>1, <2>2, <2>3, <2>4
  <1>3. CASE o \in ProxyConnections(d, s, lucky)
    <2> DEFINE started == [Check(s) EXCEPT !.pending_sockets = @ + 1]
    <2>1. started \in LifeState
      BY CheckType DEF LifeState
    <2> HIDE DEF started
    <2>2. RelaxWakeup(started) \in LifeState /\ RelaxWakeup(s) \in LifeState /\ Failed(s) \in LifeState
      BY <2>1, RelaxWakeupType, FailedType
    <2>3. \/ o = [dv |-> d, st |-> RelaxWakeup(started)]
          \/ o = [dv |-> d, st |-> Failed(s)]
          \/ o \in UseReadySockets(d, s, lucky)
          \/ o \in UseReadySockets(d, RelaxWakeup(s), lucky)
      BY <1>3 DEF ProxyConnections, started
    <2>4. QED
      BY <2>2, <2>3, UseReadySocketsFine DEF Fine
  <1>4. QED
    BY <1>1, <1>2, <1>3 DEF CreateNewConnections

LEMMA StopKeepsInv ==
  ASSUME tail \in 0..MaxEvent, NEW d, NEW tq, DeliveryInv(d, tq, tail),
         NEW s \in LifeState, Stop(s)
  PROVE  DeliveryInv(dv', tq, tail) /\ st' \in LifeState
  <1>1. tq \in SUBSET (1..tail)
    BY DEF DeliveryInv, TailInv
  <1>2. QED
    BY <1>1, EmptyInv, NoActorType DEF Stop

LEMMA SendUpdatesKeepsInv ==
  ASSUME NEW d, NEW tq, NEW last, DeliveryInv(d, tq, last),
         NEW s \in LifeState, SendUpdates(d, s)
  PROVE  DeliveryInv(dv', tq, last) /\ st' \in LifeState
  <1>1. RelaxWakeup(s) \in LifeState
    BY RelaxWakeupType
  <1>2. CASE d.header_fits
    <2>1. PICK f \in Assignments(d) : dv' = Send(d, f) /\ st' \in {s, RelaxWakeup(s)}
      BY <1>2 DEF SendUpdates
    <2>2. QED
      BY <1>1, <2>1, SendKeepsInv
  <1>3. CASE ~d.header_fits
    <2>1. /\ st' \in {s, RelaxWakeup(s)}
          /\ dv' = d \/ \E e : dv' = FailToSend(d, e)
      BY <1>3 DEF SendUpdates
    <2>2. QED
      BY <1>1, <1>3, <2>1, FailKeepsInv
  <1>4. QED
    BY <1>2, <1>3

LEMMA LoopKeepsInv ==
  ASSUME tail \in 0..MaxEvent, NEW d, NEW tq, DeliveryInv(d, tq, tail),
         NEW s \in LifeState, NEW lucky \in BOOLEAN, Loop(d, s, tq, lucky)
  PROVE  DeliveryInv(dv', tqueue', tail) /\ st' \in LifeState
  <1>1. CASE s.stop_flag
    BY <1>1, StopKeepsInv DEF Loop
  <1>2. CASE ~s.stop_flag
    <2> DEFINE loaded == LoadUpdates(d, tq)
    <2>1. tqueue' = QueueAfterLoad(d, tq)
      BY <1>2 DEF Loop
    <2>2. DeliveryInv(loaded, tqueue', tail)
      BY <2>1, LoadKeepsInv
    <2>3. PICK active \in {FALSE, s.active} :
            LET s1 == ResolveIpAddress([s EXCEPT !.active = active])
            IN  \E o \in CreateNewConnections(loaded, s1, lucky) :
                  IF o.st.stop_flag THEN Stop(o.st) ELSE SendUpdates(o.dv, o.st)
      BY <1>2 DEF Loop
    <2> DEFINE s0 == [s EXCEPT !.active = active]
               s1 == ResolveIpAddress(s0)
    <2>4. s0 \in LifeState
      BY DEF LifeState
    <2> HIDE DEF loaded, s0
    <2>5. s1 \in LifeState
      BY <2>4, ResolveIpAddressType
    <2>6. PICK o \in CreateNewConnections(loaded, s1, lucky) :
            IF o.st.stop_flag THEN Stop(o.st) ELSE SendUpdates(o.dv, o.st)
      BY <2>3 DEF s0
    <2> HIDE DEF s1
    <2>7. DeliveryInv(o.dv, tqueue', tail) /\ o.st \in LifeState
      BY <2>2, <2>5, <2>6, CreateNewConnectionsFine DEF Fine
    <2>8. QED
      BY <2>6, <2>7, StopKeepsInv, SendUpdatesKeepsInv
  <1>3. QED
    BY <1>1, <1>2

\* loop() takes only expired updates out of the TQueue.
LEMMA LoopKeepsUpdates ==
  ASSUME NEW d, NEW s, NEW tq, NEW lucky, Loop(d, s, tq, lucky)
  PROVE  tqueue' \subseteq tq /\ tq \ tqueue' \subseteq expired
  BY DEF Loop, QueueAfterLoad, AfterGet
-----------------------------------------------------------------------------
(* The inductive invariant.                                                *)

IInv ==
  /\ TypeOK
  /\ DeliveryInv(dv, tqueue, tail)
  /\ NothingLost

\* What every handler that ends with loop() still has to show.
LEMMA HandlerKeepsInv ==
  ASSUME IInv, UNCHANGED <<tail, expired>>, update_message' \in BOOLEAN,
         NEW d, NEW tq \in SUBSET tqueue, DeliveryInv(d, tq, tail),
         NEW s \in LifeState, NEW lucky \in BOOLEAN, Loop(d, s, tq, lucky),
         acked' \in SUBSET Event, given_up' \in SUBSET Event,
         acked \subseteq acked', given_up \subseteq given_up',
         tqueue \ tq \subseteq acked' \cup given_up'
  PROVE  IInv'
  <1>1. tail \in 0..MaxEvent
    BY DEF IInv, TypeOK
  <1>2. DeliveryInv(dv', tqueue', tail) /\ st' \in LifeState
    BY <1>1, LoopKeepsInv
  <1>3. tqueue' \subseteq tq /\ tq \ tqueue' \subseteq expired
    BY LoopKeepsUpdates
  <1>4. DeliveryInv(dv, tqueue, tail)'
    BY <1>2
  <1>5. TypeOK'
    BY <1>1, <1>2, <1>3 DEF IInv, TypeOK, DeliveryInv
  <1>6. NothingLost'
    BY <1>3 DEF IInv, NothingLost
  <1>7. QED
    BY <1>4, <1>5, <1>6 DEF IInv

LEMMA InitInv == Init => IInv
  <1> SUFFICES ASSUME Init PROVE IInv
    OBVIOUS
  <1>1. 0 \in 0..MaxEvent
    BY ConstantsAssumption
  <1>2. DeliveryInv(dv, tqueue, tail)
    BY <1>1, EmptyInv DEF Init
  <1>3. NoActor \in LifeState
    BY DEF NoActor, LifeState
  <1>4. TypeOK
    BY <1>1, <1>2, <1>3 DEF Init, TypeOK, DeliveryInv
  <1>5. NothingLost
    BY DEF Init, NothingLost
  <1>6. QED
    BY <1>2, <1>4, <1>5 DEF IInv
-----------------------------------------------------------------------------
(* The actions of the surroundings.                                        *)

LEMMA AddUpdateKeepsInv == IInv /\ AddUpdate => IInv'
  <1> SUFFICES ASSUME IInv, AddUpdate PROVE IInv'
    OBVIOUS
  <1>1. /\ tail' = tail + 1 /\ tqueue' = tqueue \cup {tail + 1}
        /\ tail \in 0..MaxEvent /\ tail' \in 0..MaxEvent /\ tail + 1 \in Event
    BY ConstantsAssumption DEF AddUpdate, IInv, TypeOK, Event
  <1>2. /\ UNCHANGED <<dv, st, expired, acked, given_up>>
        /\ update_message' \in BOOLEAN
    BY DEF AddUpdate
  <1>3. SkippedInv(dv, tqueue')
    <2>1. dv.tqueue_offset <= tail + 1 /\ dv.tqueue_offset \in Int
      BY DEF IInv, DeliveryInv, TailInv, DeliveryState
    <2>2. ~(tail + 1 < dv.tqueue_offset)
      BY <1>1, <2>1
    <2>3. QED
      BY <1>1, <2>2 DEF IInv, DeliveryInv, SkippedInv
  <1>4. TailInv(dv, tqueue', tail')
    BY <1>1 DEF IInv, DeliveryInv, TailInv, DeliveryState
  <1>5. DeliveryInv(dv, tqueue, tail)'
    BY <1>2, <1>3, <1>4 DEF IInv, DeliveryInv
  <1>6. TypeOK'
    BY <1>1, <1>2 DEF IInv, TypeOK
  <1>7. NothingLost'
    BY <1>1, <1>2 DEF IInv, NothingLost
  <1>8. QED
    BY <1>5, <1>6, <1>7 DEF IInv

LEMMA ExpireKeepsInv == \A e \in Event : IInv /\ Expire(e) => IInv'
  <1> SUFFICES ASSUME NEW e \in Event, IInv, Expire(e) PROVE IInv'
    OBVIOUS
  <1>1. /\ expired' = expired \cup {e}
        /\ UNCHANGED <<tqueue, tail, update_message, dv, st, acked, given_up>>
    BY DEF Expire
  <1>2. DeliveryInv(dv, tqueue, tail)'
    BY <1>1 DEF IInv
  <1>3. TypeOK' /\ NothingLost'
    BY <1>1 DEF IInv, TypeOK, NothingLost
  <1>4. QED
    BY <1>2, <1>3 DEF IInv

LEMMA RunGcKeepsInv == IInv /\ RunGc => IInv'
  <1> SUFFICES ASSUME IInv, RunGc PROVE IInv'
    OBVIOUS
  <1>1. /\ tqueue' = tqueue \ expired
        /\ UNCHANGED <<tail, expired, update_message, dv, st, acked, given_up>>
    BY DEF RunGc
  <1>2. DeliveryInv(dv, tqueue', tail)
    BY <1>1, SmallerQueueKeepsInv DEF IInv
  <1>3. TypeOK' /\ NothingLost'
    BY <1>1 DEF IInv, TypeOK, NothingLost
  <1>4. QED
    BY <1>1, <1>2, <1>3 DEF IInv

LEMMA CreateKeepsInv == \A w \in Webhooks : IInv /\ Create(w) => IInv'
  <1> SUFFICES ASSUME NEW w \in Webhooks, IInv, Create(w) PROVE IInv'
    OBVIOUS
  <1>1. /\ dv' = EmptyDelivery(w.header_fits)
        /\ update_message' = FALSE
        /\ UNCHANGED <<tqueue, tail, expired, acked, given_up>>
    BY DEF Create, History
  <1>2. w \in [from_db : BOOLEAN, fix_ip : BOOLEAN, ip : BOOLEAN,
              proxy : BOOLEAN, header_fits : BOOLEAN]
    BY ConstantsAssumption
  <1>3. st' \in LifeState
    <2>1. st' = [st EXCEPT !.life = "created", !.callback = TRUE, !.told = {},
                           !.from_db = w.from_db, !.fix_ip = w.fix_ip, !.ip = w.ip,
                           !.proxy = w.proxy]
      BY DEF Create
    <2>2. w.from_db \in BOOLEAN /\ w.fix_ip \in BOOLEAN /\ w.ip \in BOOLEAN /\ w.proxy \in BOOLEAN
      BY <1>2
    <2>3. QED
      BY <2>1, <2>2 DEF IInv, TypeOK, LifeState
  <1>4. DeliveryInv(EmptyDelivery(w.header_fits), tqueue, tail)
    BY <1>2, EmptyInv DEF IInv, TypeOK, DeliveryInv, TailInv
  <1>5. TypeOK' /\ NothingLost'
    BY <1>1, <1>3, <1>4 DEF IInv, TypeOK, NothingLost, DeliveryInv
  <1>6. QED
    BY <1>1, <1>4, <1>5 DEF IInv
-----------------------------------------------------------------------------
(* The handlers of the actor.                                              *)

LEMMA StartUpKeepsInv ==
  \A url_ok, ip_ok, https \in BOOLEAN : IInv /\ StartUp(url_ok, ip_ok, https) => IInv'
  <1> SUFFICES ASSUME NEW url_ok \in BOOLEAN, NEW ip_ok \in BOOLEAN,
                      NEW https \in BOOLEAN, IInv, StartUp(url_ok, ip_ok, https)
               PROVE  IInv'
    OBVIOUS
  <1>1. UNCHANGED <<tqueue, tail, expired, update_message, dv, acked, given_up>>
    BY DEF StartUp, History
  <1>2. st' \in LifeState
    <2>1. PICK due \in BOOLEAN :
            LET s0 == [st EXCEPT !.life = "running", !.resolve_due = ~st.fix_ip /\ (~st.from_db \/ due)]
                s1 == IF url_ok THEN s0 ELSE OnError(s0)
                s2 == IF s1.from_db /\ ~s1.stop_flag THEN Check(s1) ELSE s1
                s3 == IF ~https THEN [s2 EXCEPT !.ssl_ctx = "ready"]
                      ELSE IF ~s2.stop_flag THEN [s2 EXCEPT !.ssl_ctx = "creating"]
                           ELSE s2
            IN  st' = IF s1.fix_ip /\ ~s1.stop_flag /\ ~ip_ok THEN OnError(s1)
                      ELSE RelaxWakeup(s3)
      BY DEF StartUp
    <2> DEFINE due_now == ~st.fix_ip /\ (~st.from_db \/ due)
               s0 == [st EXCEPT !.life = "running", !.resolve_due = due_now]
               s1 == IF url_ok THEN s0 ELSE OnError(s0)
               s2 == IF s1.from_db /\ ~s1.stop_flag THEN Check(s1) ELSE s1
               s3 == IF ~https THEN [s2 EXCEPT !.ssl_ctx = "ready"]
                     ELSE IF ~s2.stop_flag THEN [s2 EXCEPT !.ssl_ctx = "creating"]
                          ELSE s2
    <2>2. st' = OnError(s1) \/ st' = RelaxWakeup(s3)
      BY <2>1
    <2>3. s0 \in LifeState
      <3>1. due_now \in BOOLEAN
        OBVIOUS
      <3> HIDE DEF due_now
      <3>2. QED
        BY <3>1 DEF IInv, TypeOK, LifeState
    <2> HIDE DEF s0
    <2>4. s1 \in LifeState
      BY <2>3, OnErrorType
    <2> HIDE DEF s1
    <2>5. s2 \in LifeState
      BY <2>4, CheckType
    <2> HIDE DEF s2
    <2>6. s3 \in LifeState
      BY <2>5 DEF LifeState
    <2> HIDE DEF s3
    <2>7. QED
      BY <2>2, <2>4, <2>6, OnErrorType, RelaxWakeupType
  <1>3. DeliveryInv(dv, tqueue, tail)'
    BY <1>1 DEF IInv
  <1>4. TypeOK' /\ NothingLost'
    BY <1>1, <1>2 DEF IInv, TypeOK, NothingLost
  <1>5. QED
    BY <1>3, <1>4 DEF IInv

\* A handler that answers no request.
LEMMA QuietHandlerKeepsInv ==
  ASSUME IInv, UNCHANGED History, update_message' \in BOOLEAN,
         NEW d, DeliveryInv(d, tqueue, tail),
         NEW s \in LifeState, NEW lucky \in BOOLEAN, Loop(d, s, tqueue, lucky)
  PROVE  IInv'
  <1>1. UNCHANGED <<tail, expired>> /\ acked' = acked /\ given_up' = given_up
    BY DEF History
  <1>2. acked \in SUBSET Event /\ given_up \in SUBSET Event
    BY DEF IInv, TypeOK
  <1>3. QED
    BY <1>1, <1>2, HandlerKeepsInv

LEMMA UpdateKeepsInv == IInv /\ Update => IInv'
  <1> SUFFICES ASSUME IInv, Update PROVE IInv'
    OBVIOUS
  <1> DEFINE d == [dv EXCEPT !.tqueue_empty = FALSE]
  <1>1. /\ Loop(d, st, tqueue, FALSE) /\ UNCHANGED History
        /\ update_message' \in BOOLEAN /\ st \in LifeState
    BY DEF Update, IInv, TypeOK
  <1>2. DeliveryInv(d, tqueue, tail)
    <2>1. /\ d \in DeliveryState
          /\ d.waiting = dv.waiting /\ d.connections = dv.connections
          /\ d.ready = dv.ready /\ d.event = dv.event /\ d.loaded = dv.loaded
          /\ d.tqueue_offset = dv.tqueue_offset
          /\ d.header_fits = dv.header_fits
      BY DEF IInv, DeliveryInv, DeliveryState
    <2>2. QED
      BY <2>1, SameKeepsInv DEF IInv
  <1> HIDE DEF d
  <1>3. QED
    BY <1>1, <1>2, QuietHandlerKeepsInv

LEMMA TimeoutKeepsInv == IInv /\ Timeout => IInv'
  <1> SUFFICES ASSUME IInv, Timeout PROVE IInv'
    OBVIOUS
  <1>1. PICK woken \in SUBSET dv.delayed, due \in BOOLEAN : TimeoutWith(woken, due, FALSE)
    BY DEF Timeout
  <1> DEFINE d == [dv EXCEPT !.delayed = @ \ woken]
             s == [st EXCEPT !.timer = FALSE, !.resolve_due = @ \/ due]
  <1>2. /\ Loop(d, s, tqueue, FALSE) /\ UNCHANGED History
        /\ update_message' \in BOOLEAN
    BY <1>1 DEF TimeoutWith, IInv, TypeOK
  <1>3. s \in LifeState
    BY DEF IInv, TypeOK, LifeState
  <1>4. DeliveryInv(d, tqueue, tail)
    <2>1. /\ d \in DeliveryState
          /\ d.waiting = dv.waiting /\ d.connections = dv.connections
          /\ d.ready = dv.ready /\ d.event = dv.event /\ d.loaded = dv.loaded
          /\ d.tqueue_offset = dv.tqueue_offset
          /\ d.header_fits = dv.header_fits
      BY DEF IInv, DeliveryInv, DeliveryState
    <2>2. QED
      BY <2>1, SameKeepsInv DEF IInv
  <1> HIDE DEF d, s
  <1>5. QED
    BY <1>2, <1>3, <1>4, QuietHandlerKeepsInv

LEMMA ResolvedKeepsInv ==
  \A result \in {"error", "same", "new"} : IInv /\ OnResolvedIpAddress(result) => IInv'
  <1> SUFFICES ASSUME NEW result \in {"error", "same", "new"}, IInv,
                      OnResolvedIpAddress(result)
               PROVE  IInv'
    OBVIOUS
  <1> DEFINE s == [st EXCEPT !.resolving = FALSE]
             s1 == [s EXCEPT !.ip = TRUE]
             d == [dv EXCEPT !.old_ip = dv.connections]
             s2 == IF s1.was_checked THEN OnWebhookVerified(s1) ELSE s1
  <1>1. UNCHANGED History /\ update_message' \in BOOLEAN
    BY DEF OnResolvedIpAddress, IInv, TypeOK
  <1>2. s \in LifeState
    BY DEF IInv, TypeOK, LifeState
  <1>3. \/ Loop(dv, OnError(s), tqueue, FALSE)
        \/ Loop(dv, s, tqueue, FALSE)
        \/ Loop(d, s2, tqueue, FALSE)
    BY DEF OnResolvedIpAddress
  <1> HIDE DEF s
  <1>4. s1 \in LifeState
    BY <1>2 DEF LifeState
  <1> HIDE DEF s1
  <1>5. s2 \in LifeState
    BY <1>4, TellType DEF OnWebhookVerified, Messages
  <1>6. DeliveryInv(d, tqueue, tail)
    <2>1. /\ d \in DeliveryState
          /\ d.waiting = dv.waiting /\ d.connections = dv.connections
          /\ d.ready = dv.ready /\ d.event = dv.event /\ d.loaded = dv.loaded
          /\ d.tqueue_offset = dv.tqueue_offset
          /\ d.header_fits = dv.header_fits
      BY DEF IInv, DeliveryInv, DeliveryState
    <2>2. QED
      BY <2>1, SameKeepsInv DEF IInv
  <1> HIDE DEF d, s2
  <1>7. OnError(s) \in LifeState /\ DeliveryInv(dv, tqueue, tail)
    BY <1>2, OnErrorType DEF IInv
  <1>8. QED
    BY <1>1, <1>2, <1>3, <1>5, <1>6, <1>7, QuietHandlerKeepsInv

LEMMA SslContextKeepsInv == \A ok \in BOOLEAN : IInv /\ OnSslContextCreated(ok) => IInv'
  <1> SUFFICES ASSUME NEW ok \in BOOLEAN, IInv, OnSslContextCreated(ok) PROVE IInv'
    OBVIOUS
  <1> DEFINE good == [st EXCEPT !.ssl_ctx = "ready"]
             bad == [st EXCEPT !.ssl_ctx = "failed"]
  <1>1. /\ Loop(dv, good, tqueue, FALSE) \/ Loop(dv, OnError(bad), tqueue, FALSE)
        /\ UNCHANGED History /\ update_message' \in BOOLEAN
    BY DEF OnSslContextCreated, IInv, TypeOK
  <1>2. good \in LifeState /\ bad \in LifeState
    BY DEF IInv, TypeOK, LifeState
  <1> HIDE DEF good, bad
  <1>3. OnError(bad) \in LifeState /\ DeliveryInv(dv, tqueue, tail)
    BY <1>2, OnErrorType DEF IInv
  <1>4. QED
    BY <1>1, <1>2, <1>3, QuietHandlerKeepsInv

LEMMA SocketKeepsInv == \A ok \in BOOLEAN : IInv /\ OnSocketReadyAsync(ok) => IInv'
  <1> SUFFICES ASSUME NEW ok \in BOOLEAN, IInv, OnSocketReadyAsync(ok) PROVE IInv'
    OBVIOUS
  <1> DEFINE s == [st EXCEPT !.pending_sockets = @ - 1]
             s1 == [s EXCEPT !.ready_sockets = @ + 1]
  <1>1. /\ Loop(dv, s1, tqueue, FALSE) \/ Loop(dv, OnError(s), tqueue, FALSE)
        /\ UNCHANGED History /\ update_message' \in BOOLEAN
    BY DEF OnSocketReadyAsync, IInv, TypeOK
  <1>2. s \in LifeState
    <2>1. st \in LifeState /\ st.pending_sockets \in Nat /\ st.pending_sockets > 0
      BY DEF OnSocketReadyAsync, IInv, TypeOK, LifeState
    <2>2. st.pending_sockets - 1 \in Nat
      BY <2>1
    <2>3. QED
      BY <2>1, <2>2 DEF LifeState
  <1> HIDE DEF s
  <1>3. s1 \in LifeState
    BY <1>2 DEF LifeState
  <1> HIDE DEF s1
  <1>4. OnError(s) \in LifeState /\ DeliveryInv(dv, tqueue, tail)
    BY <1>2, OnErrorType DEF IInv
  <1>5. QED
    BY <1>1, <1>3, <1>4, QuietHandlerKeepsInv

LEMMA StoppedKeepsInv ==
  ASSUME IInv, NEW s \in LifeState, Stop(s), UNCHANGED <<tqueue, update_message, History>>
  PROVE  IInv'
  <1>1. UNCHANGED <<tqueue, update_message, tail, expired, acked, given_up>>
    BY DEF History
  <1>2. tail \in 0..MaxEvent /\ DeliveryInv(dv, tqueue, tail)
    BY DEF IInv, TypeOK
  <1>3. DeliveryInv(dv', tqueue, tail) /\ st' \in LifeState
    BY <1>2, StopKeepsInv
  <1>4. DeliveryInv(dv, tqueue, tail)'
    BY <1>1, <1>3
  <1>5. TypeOK' /\ NothingLost'
    BY <1>1, <1>3 DEF IInv, TypeOK, NothingLost, DeliveryInv
  <1>6. QED
    BY <1>4, <1>5 DEF IInv

LEMMA CloseKeepsInv == IInv /\ (Close \/ Hangup) => IInv'
  <1> DEFINE dropped == [st EXCEPT !.told = @ \cup {"dropped"}]
  <1> SUFFICES ASSUME IInv, Close \/ Hangup
               PROVE  IInv'
    OBVIOUS
  <1>1. st \in LifeState
    BY DEF IInv, TypeOK
  <1>2. CASE Close
    <2>1. Tell(st, "closed") \in LifeState
      BY <1>1, TellType DEF Messages
    <2>2. QED
      BY <1>2, <2>1, StoppedKeepsInv DEF Close
  <1>3. CASE Hangup
    <2>1. dropped \in LifeState
      BY <1>1 DEF LifeState, Messages
    <2>2. QED
      BY <1>3, <2>1, StoppedKeepsInv DEF Hangup
  <1>4. QED
    BY <1>2, <1>3

LEMMA HandleResponseKeepsInv ==
  \A c \in Conn, ok, keep_alive, retry_after, no_time \in BOOLEAN :
    IInv /\ HandleResponse(c, ok, keep_alive, retry_after, no_time) => IInv'
  <1> SUFFICES ASSUME NEW c \in Conn, NEW ok \in BOOLEAN, NEW keep_alive \in BOOLEAN,
                      NEW retry_after \in BOOLEAN, NEW no_time \in BOOLEAN, IInv,
                      HandleResponse(c, ok, keep_alive, retry_after, no_time)
               PROVE  IInv'
    OBVIOUS
  <1> DEFINE e == dv.event[c]
             close == ~keep_alive \/ c \in dv.old_ip
             drop == \/ e \in expired
                     \/ no_time /\ ~RetriesAtOnce(dv, e, retry_after)
             d == IF ok \/ drop THEN DropEvent(dv, e) ELSE DelayEvent(dv, e, retry_after)
             tq == IF ok \/ drop THEN tqueue \ {e} ELSE tqueue
             s == [st EXCEPT !.timer = @ \/ close]
             good == [s EXCEPT !.active = TRUE, !.gone = FALSE]
             okst == IF ok THEN good ELSE s
             notgone == [s EXCEPT !.gone = FALSE]
             isgone == [s EXCEPT !.gone = TRUE]
             ending == [s EXCEPT !.close_message = TRUE]
             kept == ReleaseConnection(d, c, close)
             closed == ReleaseConnection(d, c, TRUE)
  <1>1. /\ c \in dv.connections /\ e # NoEvent
        /\ UNCHANGED <<tail, expired, update_message>>
        /\ acked' = IF ok THEN acked \cup {e} ELSE acked
        /\ given_up' = IF ~ok /\ drop THEN given_up \cup {e} ELSE given_up
    BY DEF HandleResponse
  <1>2. \/ Loop(kept, okst, tq, FALSE)
        \/ Loop(kept, notgone, tq, FALSE)
        \/ Loop(kept, isgone, tq, FALSE)
        \/ dv' = closed /\ st' = ending /\ tqueue' = tq
    BY DEF HandleResponse
  <1>3. e \in Event
    BY <1>1 DEF IInv, DeliveryInv, DeliveryState
  <1>4. close \in BOOLEAN /\ TRUE \in BOOLEAN
    OBVIOUS
  <1>5. s \in LifeState
    BY <1>4 DEF IInv, TypeOK, LifeState
  <1>6. tq \in SUBSET tqueue /\ tqueue \ tq \subseteq acked' \cup given_up'
    BY <1>1
  <1>7. DeliveryInv(kept, tq, tail) /\ DeliveryInv(closed, tq, tail)
    <2> HIDE DEF close, drop
    <2>1. CASE ok \/ drop
      BY <2>1, <1>1, <1>4, DropKeepsInv DEF IInv
    <2>2. CASE ~(ok \/ drop)
      BY <2>2, <1>1, <1>4, DelayKeepsInv DEF IInv
    <2>3. QED
      BY <2>1, <2>2
  <1> HIDE DEF s, kept, closed, tq, drop
  <1>8. good \in LifeState /\ notgone \in LifeState /\ isgone \in LifeState /\ ending \in LifeState
    BY <1>5 DEF LifeState
  <1>9. okst \in LifeState
    BY <1>5, <1>8
  <1>10. /\ acked \in SUBSET Event /\ given_up \in SUBSET Event
         /\ acked' \in SUBSET Event /\ given_up' \in SUBSET Event
         /\ acked \subseteq acked' /\ given_up \subseteq given_up'
         /\ update_message' \in BOOLEAN
    <2> HIDE DEF e
    <2>1. QED
      BY <1>1, <1>3 DEF IInv, TypeOK
  <1> HIDE DEF e, okst, notgone, isgone, ending, good
  <1>11. ASSUME NEW t \in LifeState, Loop(kept, t, tq, FALSE)
         PROVE  IInv'
    BY <1>1, <1>6, <1>7, <1>10, <1>11, HandlerKeepsInv
  <1>12. ASSUME dv' = closed, st' = ending, tqueue' = tq
         PROVE  IInv'
    <2>1. DeliveryInv(dv, tqueue, tail)'
      BY <1>1, <1>7, <1>12
    <2>2. TypeOK'
      BY <1>1, <1>6, <1>8, <1>10, <1>12, <2>1 DEF IInv, TypeOK, DeliveryInv
    <2>3. NothingLost'
      BY <1>1, <1>6, <1>10, <1>12 DEF IInv, NothingLost
    <2>4. QED
      BY <2>1, <2>2, <2>3 DEF IInv
  <1>13. QED
    BY <1>2, <1>8, <1>9, <1>11, <1>12

LEMMA HangupSharedKeepsInv ==
  \A c \in Conn, no_time \in BOOLEAN : IInv /\ HangupShared(c, no_time) => IInv'
  <1> SUFFICES ASSUME NEW c \in Conn, NEW no_time \in BOOLEAN, IInv,
                      HangupShared(c, no_time)
               PROVE  IInv'
    OBVIOUS
  <1> DEFINE e == dv.event[c]
             drop == \/ e \in expired
                     \/ no_time /\ ~RetriesAtOnce(dv, e, FALSE)
             d == IF e = NoEvent THEN dv
                  ELSE IF drop THEN DropEvent(dv, e) ELSE DelayEvent(dv, e, FALSE)
             gone == e # NoEvent /\ drop
             tq == IF gone THEN tqueue \ {e} ELSE tqueue
             closed == ReleaseConnection(d, c, TRUE)
  <1>1. /\ c \in dv.connections
        /\ UNCHANGED <<tail, expired, update_message>>
        /\ acked' = acked
        /\ given_up' = IF gone THEN given_up \cup {e} ELSE given_up
        /\ Loop(closed, RelaxWakeup(st), tq, FALSE)
    BY DEF HangupShared
  <1>2. gone => e \in Event
    BY DEF IInv, DeliveryInv, DeliveryState
  <1>3. tq \in SUBSET tqueue /\ tqueue \ tq \subseteq acked' \cup given_up'
    BY <1>1
  <1>4. DeliveryInv(closed, tq, tail)
    <2> HIDE DEF drop
    <2>1. CASE e = NoEvent
      BY <2>1, <1>1, IdleKeepsInv DEF IInv
    <2>2. CASE e # NoEvent /\ drop
      BY <2>2, <1>1, DropKeepsInv DEF IInv
    <2>3. CASE e # NoEvent /\ ~drop
      BY <2>3, <1>1, DelayKeepsInv DEF IInv
    <2>4. QED
      BY <2>1, <2>2, <2>3
  <1>5. RelaxWakeup(st) \in LifeState
    BY RelaxWakeupType DEF IInv, TypeOK
  <1> HIDE DEF closed, tq, gone
  <1>6. /\ acked' \in SUBSET Event /\ given_up' \in SUBSET Event
        /\ acked \subseteq acked' /\ given_up \subseteq given_up'
        /\ update_message' \in BOOLEAN
    <2> HIDE DEF e
    <2>1. QED
      BY <1>1, <1>2 DEF IInv, TypeOK
  <1> HIDE DEF e
  <1>7. QED
    BY <1>1, <1>3, <1>4, <1>5, <1>6, HandlerKeepsInv
-----------------------------------------------------------------------------
(* The theorems.                                                           *)

LEMMA NextKeepsInv == IInv /\ [Next]_vars => IInv'
  <1> SUFFICES ASSUME IInv, [Next]_vars PROVE IInv'
    OBVIOUS
  <1>1. CASE AddUpdate
    BY <1>1, AddUpdateKeepsInv
  <1>2. CASE RunGc
    BY <1>2, RunGcKeepsInv
  <1>3. CASE \E e \in Event : Expire(e)
    BY <1>3, ExpireKeepsInv
  <1>4. CASE \E w \in Webhooks : Create(w)
    BY <1>4, CreateKeepsInv
  <1>5. CASE \E url_ok, ip_ok, https \in BOOLEAN : StartUp(url_ok, ip_ok, https)
    BY <1>5, StartUpKeepsInv
  <1>6. CASE Update
    BY <1>6, UpdateKeepsInv
  <1>7. CASE Timeout
    BY <1>7, TimeoutKeepsInv
  <1>8. CASE \E c \in Conn, ok, keep_alive, retry_after, no_time \in BOOLEAN :
               HandleResponse(c, ok, keep_alive, retry_after, no_time)
    BY <1>8, HandleResponseKeepsInv
  <1>9. CASE \E c \in Conn, no_time \in BOOLEAN : HangupShared(c, no_time)
    BY <1>9, HangupSharedKeepsInv
  <1>10. CASE \E result \in {"error", "same", "new"} : OnResolvedIpAddress(result)
    BY <1>10, ResolvedKeepsInv
  <1>11. CASE \E ok \in BOOLEAN : OnSslContextCreated(ok)
    BY <1>11, SslContextKeepsInv
  <1>12. CASE \E ok \in BOOLEAN : OnSocketReadyAsync(ok)
    BY <1>12, SocketKeepsInv
  <1>13. CASE Close \/ Hangup
    BY <1>13, CloseKeepsInv
  <1>14. CASE UNCHANGED vars
    <2>1. UNCHANGED <<tqueue, tail, expired, update_message, dv, st, acked, given_up>>
      BY <1>14 DEF vars
    <2>2. DeliveryInv(dv, tqueue, tail)'
      BY <2>1 DEF IInv
    <2>3. TypeOK' /\ NothingLost'
      BY <2>1 DEF IInv, TypeOK, NothingLost
    <2>4. QED
      BY <2>2, <2>3 DEF IInv
  <1>15. QED
    BY <1>1, <1>2, <1>3, <1>4, <1>5, <1>6, <1>7, <1>8, <1>9, <1>10, <1>11,
       <1>12, <1>13, <1>14 DEF Next

LEMMA Inductive == Spec => []IInv
  BY InitInv, NextKeepsInv, PTL DEF Spec

\* The members of the actor always have the values that their types and the
\* bounds of the model allow.
THEOREM TypeCorrect == Spec => []TypeOK
  <1>1. IInv => TypeOK
    BY DEF IInv
  <1>2. QED
    BY <1>1, Inductive, PTL

\* However the handlers, responses and timers interleave, every queue with
\* loaded updates waits in queues_ or is being sent, never both: no queue gets
\* stuck and none is sent twice.
THEOREM QueuesArePlaced == Spec => []QueuesPlaced
  <1>1. IInv => QueuesPlaced
    BY DEF IInv, DeliveryInv, PlacedInv, QueuesPlaced
  <1>2. QED
    BY <1>1, Inductive, PTL

\* What is in flight is the front of its queue, so the CHECK of drop_event
\* cannot fail and one queue is delivered in order.
THEOREM FrontsAreInFlight == Spec => []FrontsInFlight
  <1>1. IInv => FrontsInFlight
    BY DEF IInv, DeliveryInv, FrontsInv, FrontsInFlight
  <1>2. QED
    BY <1>1, Inductive, PTL

\* No update is skipped by the read offset, and none is loaded twice.
THEOREM NoneSkipped == Spec => []NothingSkipped
  <1>1. IInv => NothingSkipped
    BY DEF IInv, DeliveryInv, SkippedInv, NothingSkipped
  <1>2. QED
    BY <1>1, Inductive, PTL

\* An update leaves the durable queue only for a reason.
THEOREM NoneLost == Spec => []NothingLost
  <1>1. IInv => NothingLost
    BY DEF IInv
  <1>2. QED
    BY <1>1, Inductive, PTL

-----------------------------------------------------------------------------
(***************************************************************************)
(* WebhookActor implements UpdateDelivery: every step of the actor, of the *)
(* Client and of TQueue is a step of the promise under the mapping of      *)
(* Promise, or changes nothing there.  The invariant says that what is in  *)
(* flight comes first among all that is pending.  It takes one more        *)
(* invariant to show that nothing that is pending disappears when an actor *)
(* stops and forgets what it has loaded.                                   *)
(***************************************************************************)

\* What is loaded is still stored, unless TQueue dropped it because its lifetime is over.
LoadedInv == dv.loaded \subseteq tqueue \cup expired

Pending == tqueue \cup dv.loaded

-----------------------------------------------------------------------------
(* A step that gives nothing up too early is a step of the promise.        *)

\* What is in flight is the first of its queue, also among what is only stored.
LEMMA FlightIsFirst ==
  ASSUME NEW d, NEW tq \in SUBSET Event, NEW l, DeliveryInv(d, tq, l),
         NEW e \in InFlight(d), NEW f \in tq \cup d.loaded,
         e = f \/ (Extra[e] # 0 /\ Extra[e] = Extra[f])
  PROVE  e <= f
<1>1. d \in DeliveryState /\ FrontsInv(d) /\ SkippedInv(d, tq)
  BY DEF DeliveryInv
<1>2. d.loaded \subseteq Event /\ d.tqueue_offset \in Int
  BY <1>1, MaxEventType DEF DeliveryState
<1>3. e \in Fronts(d.loaded) /\ e \in d.loaded /\ e \in Event /\ f \in Event
  BY <1>1, <1>2 DEF FrontsInv, Fronts
<1>4. e \in Int /\ f \in Int
  BY <1>3 DEF Event
<1>5. CASE f \in d.loaded
  <2>1. QueueOf(e) = QueueOf(f)
    BY DEF QueueOf
  <2> QED
    BY <1>3, <1>5, <2>1 DEF Fronts
<1>6. CASE f \in tq /\ f \notin d.loaded
  <2>1. e < d.tqueue_offset /\ ~(f < d.tqueue_offset)
    BY <1>1, <1>3, <1>6 DEF SkippedInv
  <2> QED
    BY <1>2, <1>4, <2>1
<1> QED
  BY <1>5, <1>6

LEMMA FlightIsPending ==
  ASSUME NEW d, NEW tq, NEW l, DeliveryInv(d, tq, l)
  PROVE  InFlight(d) \subseteq tq \cup d.loaded
  BY DEF DeliveryInv, FrontsInv, Fronts

LEMMA StepDelivers ==
  ASSUME IInv, IInv', UNCHANGED <<tail, expired>>,
         Pending' \subseteq Pending,
         Pending \subseteq Pending' \cup InFlight(dv) \cup expired
  PROVE  Promise!AbstractNext
<1> DEFINE S == InFlight(dv)
           done == Pending \ Pending'
           returned == S \ S'
           sent == S' \ S
<1>1. S \subseteq Pending
  BY FlightIsPending DEF IInv, Pending
<1>2. S' \subseteq Pending'
  <2>1. DeliveryInv(dv', tqueue', tail')
    BY DEF IInv
  <2>2. InFlight(dv') \subseteq tqueue' \cup dv'.loaded
    BY <2>1, FlightIsPending
  <2> QED
    BY <2>2 DEF Pending, InFlight
<1>3. \A e \in S' : \A f \in Pending' : (e = f \/ (Extra[e] # 0 /\ Extra[e] = Extra[f])) => e <= f
  <2>1. DeliveryInv(dv', tqueue', tail') /\ tqueue' \in SUBSET Event
    BY DEF IInv, TypeOK
  <2>2. \A e \in InFlight(dv') : \A f \in tqueue' \cup dv'.loaded :
          (e = f \/ (Extra[e] # 0 /\ Extra[e] = Extra[f])) => e <= f
    BY <2>1, FlightIsFirst
  <2> QED
    BY <2>2 DEF Pending, InFlight
<1>4. Promise!Deliver(done, returned, sent)
  <2>1. \A e \in sent : Promise!First(e, Pending')
    BY <1>3 DEF Promise!First, Promise!SameQueue
  <2> HIDE DEF S
  <2> QED
    BY <1>1, <1>2, <2>1 DEF Promise!Deliver, Pending, S
<1>5. done \in SUBSET Pending /\ returned \in SUBSET Pending /\ sent \in SUBSET Pending
  BY <1>1, <1>2
<1> HIDE DEF done, returned, sent
<1> QED
  BY <1>4, <1>5 DEF Promise!AbstractNext, Pending

-----------------------------------------------------------------------------
(* loop() reads, opens and sends, and drops only what has expired.         *)

LEMMA LoopLoads ==
  ASSUME NEW d, NEW tq, NEW s, NEW lucky \in BOOLEAN, Loop(d, s, tq, lucky), d \in DeliveryState,
         LoadUpdates(d, tq) \in DeliveryState
  PROVE  dv'.loaded \subseteq d.loaded \cup tq
<1> DEFINE loaded == LoadUpdates(d, tq)
<1>1. loaded.loaded \subseteq d.loaded \cup tq
  BY DEF LoadUpdates, Stored, DeliveryState
<1>2. ASSUME NEW t, Stop(t) PROVE dv'.loaded = {}
  BY <1>2 DEF Stop, EmptyDelivery
<1>3. CASE s.stop_flag
  BY <1>2, <1>3 DEF Loop
<1>4. CASE ~s.stop_flag
  <2>0. PICK t : \E o \in CreateNewConnections(loaded, t, lucky) :
          IF o.st.stop_flag THEN Stop(o.st) ELSE SendUpdates(o.dv, o.st)
    BY <1>4 DEF Loop
  <2>1. PICK o \in CreateNewConnections(loaded, t, lucky) :
          IF o.st.stop_flag THEN Stop(o.st) ELSE SendUpdates(o.dv, o.st)
    BY <2>0
  <2> HIDE DEF loaded
  <2>2. o.dv = loaded \/ \E new \in SUBSET Conn : o.dv = OpenConnections(loaded, new)
    BY <2>1 DEF CreateNewConnections, ProxyConnections, DirectConnections, UseReadySockets, Opened, kSubset
  <2>3. loaded \in DeliveryState
    BY DEF loaded
  <2>4. o.dv \in DeliveryState /\ o.dv.loaded = loaded.loaded
    <3>1. ASSUME NEW n \in DeliveryState, NEW new \in SUBSET Conn
          PROVE  OpenConnections(n, new) \in DeliveryState /\ OpenConnections(n, new).loaded = n.loaded
      BY DEF OpenConnections, DeliveryState
    <3> QED
      BY <2>2, <2>3, <3>1
  <2>5. CASE o.st.stop_flag
    BY <1>2, <2>1, <2>5
  <2>6. CASE ~o.st.stop_flag
    <3>1. SendUpdates(o.dv, o.st)
      BY <2>1, <2>6
    <3>2. dv'.loaded = o.dv.loaded
      BY <2>4, <3>1 DEF SendUpdates, Send, FailToSend, DeliveryState
    <3> QED
      BY <1>1, <2>4, <3>2
  <2> QED
    BY <2>5, <2>6
<1> QED
  BY <1>3, <1>4

\* A handler that passes on what there was, less what it answered or gave up
LEMMA HandlerDelivers ==
  ASSUME IInv, IInv', LoadedInv, UNCHANGED <<tail, expired>>, NEW d, NEW tq \in SUBSET tqueue, NEW s,
         NEW lucky \in BOOLEAN, Loop(d, s, tq, lucky),
         DeliveryInv(d, tq, tail), d.loaded \subseteq dv.loaded,
         Pending \subseteq tq \cup d.loaded \cup InFlight(dv),
         d.loaded \subseteq tq \cup expired
  PROVE  Promise!AbstractNext /\ LoadedInv'
<1>1. tail \in 0..MaxEvent /\ d \in DeliveryState
  BY DEF IInv, TypeOK, DeliveryInv
<1>2. LoadUpdates(d, tq) \in DeliveryState
  BY <1>1, LoadKeepsInv DEF DeliveryInv
<1>3. dv'.loaded \subseteq d.loaded \cup tq
  BY <1>1, <1>2, LoopLoads
<1>4. tqueue' \subseteq tq /\ tq \subseteq tqueue' \cup expired
  BY LoopKeepsUpdates
<1>5. dv'.loaded \subseteq tqueue' \cup expired
  BY <1>3, <1>4
<1>6. Pending' \subseteq Pending /\ Pending \subseteq Pending' \cup InFlight(dv) \cup expired
  BY <1>3, <1>4 DEF Pending
<1> QED
  BY <1>5, <1>6, StepDelivers DEF LoadedInv

\* A handler that answers nothing
LEMMA QuietHandlerDelivers ==
  ASSUME IInv, IInv', LoadedInv, UNCHANGED <<tail, expired>>, NEW d, NEW s,
         NEW lucky \in BOOLEAN, Loop(d, s, tqueue, lucky),
         DeliveryInv(d, tqueue, tail), d.loaded = dv.loaded
  PROVE  Promise!AbstractNext /\ LoadedInv'
  BY HandlerDelivers DEF LoadedInv, Pending

\* An actor that stops forgets only what is still stored.
LEMMA StopDelivers ==
  ASSUME IInv, IInv', LoadedInv, UNCHANGED <<tail, expired, tqueue>>, dv'.loaded = {}
  PROVE  Promise!AbstractNext /\ LoadedInv'
<1>1. Pending' \subseteq Pending /\ Pending \subseteq Pending' \cup InFlight(dv) \cup expired
  BY DEF Pending, LoadedInv
<1> QED
  BY <1>1, StepDelivers DEF LoadedInv

-----------------------------------------------------------------------------
(* The actions.                                                            *)

LEMMA UpdateDelivers == IInv /\ IInv' /\ LoadedInv /\ Update => Promise!AbstractNext /\ LoadedInv'
<1> SUFFICES ASSUME IInv, IInv', LoadedInv, Update PROVE Promise!AbstractNext /\ LoadedInv'
  OBVIOUS
<1> DEFINE d == [dv EXCEPT !.tqueue_empty = FALSE]
<1>1. Loop(d, st, tqueue, FALSE) /\ UNCHANGED <<tail, expired>>
  BY DEF Update, History
<1>2. DeliveryInv(d, tqueue, tail) /\ d.loaded = dv.loaded
  <2>1. /\ dv \in DeliveryState /\ DeliveryInv(dv, tqueue, tail)
    BY DEF IInv, TypeOK
  <2>2. /\ d \in DeliveryState
        /\ d.waiting = dv.waiting /\ d.connections = dv.connections
        /\ d.ready = dv.ready /\ d.event = dv.event /\ d.loaded = dv.loaded
        /\ d.tqueue_offset = dv.tqueue_offset /\ d.header_fits = dv.header_fits
    BY <2>1 DEF DeliveryState
  <2> HIDE DEF d
  <2> QED
    BY <2>1, <2>2, SameKeepsInv
<1> HIDE DEF d
<1> QED
  BY <1>1, <1>2, QuietHandlerDelivers

LEMMA TimeoutDelivers == IInv /\ IInv' /\ LoadedInv /\ Timeout => Promise!AbstractNext /\ LoadedInv'
<1> SUFFICES ASSUME IInv, IInv', LoadedInv, Timeout PROVE Promise!AbstractNext /\ LoadedInv'
  OBVIOUS
<1>1. PICK woken \in SUBSET dv.delayed, due \in BOOLEAN : TimeoutWith(woken, due, FALSE)
  BY DEF Timeout
<1> DEFINE d == [dv EXCEPT !.delayed = @ \ woken]
           s == [st EXCEPT !.timer = FALSE, !.resolve_due = @ \/ due]
<1>2. Loop(d, s, tqueue, FALSE) /\ UNCHANGED <<tail, expired>>
  BY <1>1 DEF TimeoutWith, History
<1>3. DeliveryInv(d, tqueue, tail) /\ d.loaded = dv.loaded
  <2>1. /\ dv \in DeliveryState /\ DeliveryInv(dv, tqueue, tail)
    BY DEF IInv, TypeOK
  <2>2. /\ d \in DeliveryState
        /\ d.waiting = dv.waiting /\ d.connections = dv.connections
        /\ d.ready = dv.ready /\ d.event = dv.event /\ d.loaded = dv.loaded
        /\ d.tqueue_offset = dv.tqueue_offset /\ d.header_fits = dv.header_fits
    BY <2>1 DEF DeliveryState
  <2> HIDE DEF d
  <2> QED
    BY <2>1, <2>2, SameKeepsInv
<1> HIDE DEF d, s
<1> QED
  BY <1>2, <1>3, QuietHandlerDelivers

LEMMA ResolvedDelivers ==
  \A result \in {"error", "same", "new"} :
    IInv /\ IInv' /\ LoadedInv /\ OnResolvedIpAddress(result) => Promise!AbstractNext /\ LoadedInv'
<1> SUFFICES ASSUME NEW result \in {"error", "same", "new"}, IInv, IInv', LoadedInv,
                    OnResolvedIpAddress(result)
             PROVE  Promise!AbstractNext /\ LoadedInv'
  OBVIOUS
<1> DEFINE d == [dv EXCEPT !.old_ip = dv.connections]
<1>1. /\ \/ \E s : Loop(dv, s, tqueue, FALSE)
         \/ \E s : Loop(d, s, tqueue, FALSE)
      /\ UNCHANGED <<tail, expired>>
  BY DEF OnResolvedIpAddress, History
<1>2. dv \in DeliveryState /\ DeliveryInv(dv, tqueue, tail)
  BY DEF IInv, TypeOK
<1>3. DeliveryInv(d, tqueue, tail) /\ d.loaded = dv.loaded
  <2>1. /\ d \in DeliveryState
        /\ d.waiting = dv.waiting /\ d.connections = dv.connections
        /\ d.ready = dv.ready /\ d.event = dv.event /\ d.loaded = dv.loaded
        /\ d.tqueue_offset = dv.tqueue_offset /\ d.header_fits = dv.header_fits
    BY <1>2 DEF DeliveryState
  <2> HIDE DEF d
  <2> QED
    BY <1>2, <2>1, SameKeepsInv
<1> HIDE DEF d
<1> QED
  BY <1>1, <1>2, <1>3, QuietHandlerDelivers

LEMMA ReadyDelivers ==
  \A ok \in BOOLEAN :
    IInv /\ IInv' /\ LoadedInv /\ (OnSslContextCreated(ok) \/ OnSocketReadyAsync(ok))
      => Promise!AbstractNext /\ LoadedInv'
<1> SUFFICES ASSUME NEW ok \in BOOLEAN, IInv, IInv', LoadedInv,
                    OnSslContextCreated(ok) \/ OnSocketReadyAsync(ok)
             PROVE  Promise!AbstractNext /\ LoadedInv'
  OBVIOUS
<1>1. (\E s : Loop(dv, s, tqueue, FALSE)) /\ UNCHANGED <<tail, expired>>
  BY DEF OnSslContextCreated, OnSocketReadyAsync, History
<1>2. DeliveryInv(dv, tqueue, tail)
  BY DEF IInv
<1> QED
  BY <1>1, <1>2, QuietHandlerDelivers

LEMMA ResponseDelivers ==
  \A c \in Conn, ok, keep_alive, retry_after, no_time \in BOOLEAN :
    IInv /\ IInv' /\ LoadedInv /\ HandleResponse(c, ok, keep_alive, retry_after, no_time)
      => Promise!AbstractNext /\ LoadedInv'
<1> SUFFICES ASSUME NEW c \in Conn, NEW ok \in BOOLEAN, NEW keep_alive \in BOOLEAN,
                    NEW retry_after \in BOOLEAN, NEW no_time \in BOOLEAN, IInv, IInv', LoadedInv,
                    HandleResponse(c, ok, keep_alive, retry_after, no_time)
             PROVE  Promise!AbstractNext /\ LoadedInv'
  OBVIOUS
<1> DEFINE e == dv.event[c]
           close == ~keep_alive \/ c \in dv.old_ip
           drop == \/ e \in expired
                   \/ no_time /\ ~RetriesAtOnce(dv, e, retry_after)
           d == IF ok \/ drop THEN DropEvent(dv, e) ELSE DelayEvent(dv, e, retry_after)
           tq == IF ok \/ drop THEN tqueue \ {e} ELSE tqueue
           kept == ReleaseConnection(d, c, close)
           closed == ReleaseConnection(d, c, TRUE)
<1>1. c \in dv.connections /\ e # NoEvent /\ UNCHANGED <<tail, expired>>
  BY DEF HandleResponse
<1>2. (\E t : Loop(kept, t, tq, FALSE)) \/ (dv' = closed /\ tqueue' = tq)
  BY DEF HandleResponse
<1>3. /\ dv \in DeliveryState /\ DeliveryInv(dv, tqueue, tail)
  BY DEF IInv, TypeOK
<1>4. close \in BOOLEAN /\ TRUE \in BOOLEAN /\ tq \in SUBSET tqueue
  OBVIOUS
<1>5. DeliveryInv(kept, tq, tail) /\ DeliveryInv(closed, tq, tail)
  <2> HIDE DEF close, drop
  <2>1. CASE ok \/ drop
    BY <2>1, <1>1, <1>3, <1>4, DropKeepsInv
  <2>2. CASE ~(ok \/ drop)
    BY <2>2, <1>1, <1>3, <1>4, DelayKeepsInv
  <2> QED
    BY <2>1, <2>2
<1>6. e \in InFlight(dv)
  BY <1>1 DEF InFlight
<1>7. /\ kept.loaded = IF ok \/ drop THEN dv.loaded \ {e} ELSE dv.loaded
      /\ closed.loaded = kept.loaded
  <2> HIDE DEF close, drop, e
  <2>1. d.loaded = IF ok \/ drop THEN dv.loaded \ {e} ELSE dv.loaded
    BY <1>3 DEF DropEvent, DelayEvent, DeliveryState
  <2>2. DOMAIN d = DOMAIN dv /\ "loaded" \in DOMAIN dv
    BY <1>3 DEF DropEvent, DelayEvent, DeliveryState
  <2> HIDE DEF d
  <2> QED
    BY <2>1, <2>2 DEF ReleaseConnection
<1> HIDE DEF drop, close, kept, closed, d, e
<1>8. /\ kept.loaded \subseteq dv.loaded
      /\ Pending \subseteq tq \cup kept.loaded \cup InFlight(dv)
      /\ kept.loaded \subseteq tq \cup expired
  BY <1>6, <1>7 DEF Pending, LoadedInv
<1> HIDE DEF tq
<1>9. ASSUME NEW t, Loop(kept, t, tq, FALSE)
      PROVE  Promise!AbstractNext /\ LoadedInv'
  BY <1>1, <1>4, <1>5, <1>8, <1>9, HandlerDelivers
<1>10. ASSUME dv' = closed, tqueue' = tq
       PROVE  Promise!AbstractNext /\ LoadedInv'
  <2>1. Pending' \subseteq Pending /\ Pending \subseteq Pending' \cup InFlight(dv) \cup expired
    BY <1>4, <1>7, <1>8, <1>10 DEF Pending
  <2>2. LoadedInv'
    BY <1>1, <1>7, <1>8, <1>10 DEF LoadedInv
  <2> QED
    BY <1>1, <2>1, <2>2, StepDelivers
<1> QED
  BY <1>2, <1>9, <1>10

LEMMA HangupDelivers ==
  \A c \in Conn, no_time \in BOOLEAN :
    IInv /\ IInv' /\ LoadedInv /\ HangupShared(c, no_time) => Promise!AbstractNext /\ LoadedInv'
<1> SUFFICES ASSUME NEW c \in Conn, NEW no_time \in BOOLEAN, IInv, IInv', LoadedInv,
                    HangupShared(c, no_time)
             PROVE  Promise!AbstractNext /\ LoadedInv'
  OBVIOUS
<1> DEFINE e == dv.event[c]
           drop == \/ e \in expired
                   \/ no_time /\ ~RetriesAtOnce(dv, e, FALSE)
           d == IF e = NoEvent THEN dv
                ELSE IF drop THEN DropEvent(dv, e) ELSE DelayEvent(dv, e, FALSE)
           gone == e # NoEvent /\ drop
           tq == IF gone THEN tqueue \ {e} ELSE tqueue
           closed == ReleaseConnection(d, c, TRUE)
<1>1. /\ c \in dv.connections /\ UNCHANGED <<tail, expired>>
      /\ Loop(closed, RelaxWakeup(st), tq, FALSE)
  BY DEF HangupShared
<1>2. tq \in SUBSET tqueue
  OBVIOUS
<1>3. /\ dv \in DeliveryState /\ DeliveryInv(dv, tqueue, tail)
  BY DEF IInv, TypeOK
<1>4. DeliveryInv(closed, tq, tail)
  <2> HIDE DEF drop
  <2>1. CASE e = NoEvent
    BY <2>1, <1>1, <1>3, IdleKeepsInv
  <2>2. CASE e # NoEvent /\ drop
    BY <2>2, <1>1, <1>3, DropKeepsInv
  <2>3. CASE e # NoEvent /\ ~drop
    BY <2>3, <1>1, <1>3, DelayKeepsInv
  <2> QED
    BY <2>1, <2>2, <2>3
<1>5. gone => e \in InFlight(dv)
  BY <1>1 DEF InFlight
<1>6. closed.loaded = IF gone THEN dv.loaded \ {e} ELSE dv.loaded
  <2> HIDE DEF drop, e
  <2>1. d.loaded = IF gone THEN dv.loaded \ {e} ELSE dv.loaded
    BY <1>3 DEF DropEvent, DelayEvent, DeliveryState
  <2>2. DOMAIN d = DOMAIN dv /\ "loaded" \in DOMAIN dv
    BY <1>3 DEF DropEvent, DelayEvent, DeliveryState
  <2> HIDE DEF d, gone
  <2> QED
    BY <2>1, <2>2 DEF ReleaseConnection
<1> HIDE DEF drop, gone, closed, d, e
<1>7. /\ closed.loaded \subseteq dv.loaded
      /\ Pending \subseteq tq \cup closed.loaded \cup InFlight(dv)
      /\ closed.loaded \subseteq tq \cup expired
  BY <1>5, <1>6 DEF Pending, LoadedInv
<1> HIDE DEF tq
<1> QED
  BY <1>1, <1>2, <1>4, <1>7, HandlerDelivers

LEMMA EndDelivers == IInv /\ IInv' /\ LoadedInv /\ (Close \/ Hangup) => Promise!AbstractNext /\ LoadedInv'
<1> SUFFICES ASSUME IInv, IInv', LoadedInv, Close \/ Hangup PROVE Promise!AbstractNext /\ LoadedInv'
  OBVIOUS
<1>1. UNCHANGED <<tail, expired, tqueue>> /\ dv'.loaded = {}
  BY DEF Close, Hangup, History, Stop, EmptyDelivery
<1> QED
  BY <1>1, StopDelivers

LEMMA CreateDelivers ==
  \A w \in Webhooks : IInv /\ IInv' /\ LoadedInv /\ Create(w) => Promise!AbstractNext /\ LoadedInv'
<1> SUFFICES ASSUME NEW w \in Webhooks, IInv, IInv', LoadedInv, Create(w)
             PROVE  Promise!AbstractNext /\ LoadedInv'
  OBVIOUS
<1>1. UNCHANGED <<tail, expired, tqueue>> /\ dv'.loaded = {}
  BY DEF Create, History, EmptyDelivery
<1> QED
  BY <1>1, StopDelivers

\* tqueue->run_gc drops what has expired, be it loaded or not.
LEMMA RunGcDelivers == IInv /\ IInv' /\ LoadedInv /\ RunGc => Promise!AbstractNext /\ LoadedInv'
<1> SUFFICES ASSUME IInv, IInv', LoadedInv, RunGc PROVE Promise!AbstractNext /\ LoadedInv'
  OBVIOUS
<1>1. UNCHANGED <<tail, expired, dv>> /\ tqueue' = tqueue \ expired
  BY DEF RunGc
<1>2. Pending' \subseteq Pending /\ Pending \subseteq Pending' \cup InFlight(dv) \cup expired
  BY <1>1 DEF Pending
<1> QED
  BY <1>1, <1>2, StepDelivers DEF LoadedInv

\* The Client stores an update: the promise is given for it.
LEMMA AddUpdateAccepts == IInv /\ LoadedInv /\ AddUpdate => Promise!AbstractNext /\ LoadedInv'
<1> SUFFICES ASSUME IInv, LoadedInv, AddUpdate PROVE Promise!AbstractNext /\ LoadedInv'
  OBVIOUS
<1>1. /\ tail < MaxEvent /\ tail' = tail + 1 /\ tqueue' = tqueue \cup {tail + 1}
      /\ UNCHANGED <<dv, expired>>
  BY DEF AddUpdate
<1>2. Promise!Accept
  BY <1>1 DEF Promise!Accept, InFlight
<1> QED
  BY <1>1, <1>2 DEF Promise!AbstractNext, LoadedInv

LEMMA ExpireExpires ==
  \A e \in Event : LoadedInv /\ Expire(e) => Promise!AbstractNext /\ LoadedInv'
<1> SUFFICES ASSUME NEW e \in Event, LoadedInv, Expire(e) PROVE Promise!AbstractNext /\ LoadedInv'
  OBVIOUS
<1>1. /\ e \in tqueue \cup dv.loaded /\ expired' = expired \cup {e}
      /\ UNCHANGED <<tail, tqueue, dv>>
  BY DEF Expire
<1>2. Promise!Expires
  BY <1>1 DEF Promise!Expires, InFlight
<1> QED
  BY <1>1, <1>2 DEF Promise!AbstractNext, LoadedInv

LEMMA QuietSteps ==
  LoadedInv /\ UNCHANGED <<tqueue, tail, expired, dv>>
    => UNCHANGED <<tail, tqueue \cup dv.loaded, InFlight(dv), expired>> /\ LoadedInv'
  BY DEF LoadedInv, InFlight

-----------------------------------------------------------------------------
(* The theorem.                                                            *)

LEMMA NextDelivers ==
  IInv /\ IInv' /\ LoadedInv /\ [Next]_vars => [Promise!AbstractNext]_(Promise!abstractVars) /\ LoadedInv'
<1> SUFFICES ASSUME IInv, IInv', LoadedInv, [Next]_vars
             PROVE  [Promise!AbstractNext]_(Promise!abstractVars) /\ LoadedInv'
  OBVIOUS
<1>1. CASE AddUpdate
  BY <1>1, AddUpdateAccepts
<1>2. CASE RunGc
  BY <1>2, RunGcDelivers
<1>3. CASE \E e \in Event : Expire(e)
  BY <1>3, ExpireExpires
<1>4. CASE \E w \in Webhooks : Create(w)
  BY <1>4, CreateDelivers
<1>5. CASE (\E url_ok, ip_ok, https \in BOOLEAN : StartUp(url_ok, ip_ok, https)) \/ UNCHANGED vars
  <2>1. UNCHANGED <<tqueue, tail, expired, dv>>
    BY <1>5 DEF StartUp, History, vars
  <2> QED
    BY <2>1, QuietSteps DEF Promise!abstractVars
<1>6. CASE Update
  BY <1>6, UpdateDelivers
<1>7. CASE Timeout
  BY <1>7, TimeoutDelivers
<1>8. CASE \E c \in Conn, ok, keep_alive, retry_after, no_time \in BOOLEAN :
             HandleResponse(c, ok, keep_alive, retry_after, no_time)
  BY <1>8, ResponseDelivers
<1>9. CASE \E c \in Conn, no_time \in BOOLEAN : HangupShared(c, no_time)
  BY <1>9, HangupDelivers
<1>10. CASE \E result \in {"error", "same", "new"} : OnResolvedIpAddress(result)
  BY <1>10, ResolvedDelivers
<1>11. CASE \E ok \in BOOLEAN : OnSslContextCreated(ok)
  BY <1>11, ReadyDelivers
<1>12. CASE \E ok \in BOOLEAN : OnSocketReadyAsync(ok)
  BY <1>12, ReadyDelivers
<1>13. CASE Close \/ Hangup
  BY <1>13, EndDelivers
<1> QED
  BY <1>1, <1>2, <1>3, <1>4, <1>5, <1>6, <1>7, <1>8, <1>9, <1>10, <1>11, <1>12, <1>13 DEF Next

\* Every update the Client stores is delivered at least once and in the order of its queue:
\* it is sent only when it is the first of its queue, by one connection at a time, and is
\* gone only after it was in flight or its lifetime is over, across retries, closed
\* connections, new webhooks and restarts.
THEOREM PromiseKept == Spec => ImplementsUpdateDelivery
<1>1. Init => Promise!AbstractInit /\ LoadedInv
  BY DEF Init, EmptyDelivery, InFlight, Promise!AbstractInit, LoadedInv
<1> QED
  BY <1>1, InitInv, NextKeepsInv, NextDelivers, PTL DEF Spec, ImplementsUpdateDelivery, Promise!AbstractSpec

=============================================================================
