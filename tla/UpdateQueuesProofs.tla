------------------------- MODULE UpdateQueuesProofs -------------------------
(***************************************************************************)
(* Proofs of the safety properties of UpdateQueues, for any queues, any    *)
(* number of lookups and any number of updates.  The inductive invariant   *)
(* adds that a queue is sorted, and that nothing in it or in what was      *)
(* stored is numbered beyond what has arrived.                             *)
(***************************************************************************)
EXTENDS UpdateQueues, SequenceTheorems, TLAPS

Sorted(q) == \A i, j \in 1..Len(q) : i < j => q[i] < q[j]

NothingFromTheFuture ==
  \A k \in Key :
    /\ \A i \in 1..Len(queue[k]) : queue[k][i] <= arrived[k]
    /\ \A u \in stored[k] : u <= arrived[k]

IInv ==
  /\ TypeOK
  /\ FrontAwaited
  /\ StoredBeforeQueued
  /\ NothingFromTheFuture
  /\ \A k \in Key : Sorted(queue[k])

\* What a queue is like when its processing begins.
Ready(k, q) ==
  /\ q \in Seq(Nat \ {0})
  /\ Sorted(q)
  /\ \A i \in 1..Len(q) : q[i] <= arrived'[k] /\ \A u \in stored[k] : u < q[i]

\* A new update comes last, and with a larger number than all others.
LEMMA AppendReady ==
  ASSUME IInv, NEW k \in Key, arrived' = [arrived EXCEPT ![k] = @ + 1]
  PROVE  Ready(k, Append(queue[k], arrived[k] + 1))
<1> DEFINE q == queue[k]
           r == Append(q, arrived[k] + 1)
<1>1. q \in Seq(Nat \ {0}) /\ arrived[k] \in Nat /\ arrived'[k] = arrived[k] + 1
  BY DEF IInv, TypeOK
<1>2. r \in Seq(Nat \ {0}) /\ Len(r) = Len(q) + 1 /\ r[Len(q) + 1] = arrived[k] + 1
  BY <1>1
<1>3. \A i \in 1..Len(q) : r[i] = q[i] /\ q[i] \in Nat /\ q[i] <= arrived[k]
  BY <1>1 DEF IInv, NothingFromTheFuture
<1>4. \A i \in 1..Len(r) : i \in 1..Len(q) \/ i = Len(q) + 1
  BY <1>1, <1>2
<1>5. Sorted(r)
  BY <1>1, <1>2, <1>3, <1>4 DEF IInv, Sorted
<1>6. \A i \in 1..Len(r) : r[i] <= arrived'[k]
  BY <1>1, <1>2, <1>3, <1>4
<1>7. \A u \in stored[k] : u \in Nat /\ u <= arrived[k]
  BY DEF IInv, TypeOK, NothingFromTheFuture
<1>8. \A i \in 1..Len(r) : \A u \in stored[k] : u < r[i]
  BY <1>1, <1>2, <1>3, <1>4, <1>7 DEF IInv, StoredBeforeQueued
<1> QED
  BY <1>2, <1>5, <1>6, <1>8 DEF Ready

\* What is left of a queue once its first n updates have been taken off it.
LEMMA QueueAfter ==
  ASSUME NEW q \in Seq(Nat \ {0}), NEW n \in Nat, n <= Len(q)
  PROVE  /\ SubSeq(q, n + 1, Len(q)) \in Seq(Nat \ {0})
         /\ Len(SubSeq(q, n + 1, Len(q))) = Len(q) - n
         /\ \A i \in 1..Len(SubSeq(q, n + 1, Len(q))) : SubSeq(q, n + 1, Len(q))[i] = q[i + n]
<1> DEFINE r == SubSeq(q, n + 1, Len(q))
           l == Len(q)
<1>1. l \in Nat /\ n + 1 \in Int /\ l \in Int
  OBVIOUS
<1>2. \A i \in (n+1)..l : q[i] \in Nat \ {0}
  BY <1>1
<1>3. r \in Seq(Nat \ {0})
      /\ Len(r) = (IF n + 1 <= l THEN l - (n + 1) + 1 ELSE 0)
      /\ \A i \in 1..l-(n+1)+1 : r[i] = q[(n + 1) + i - 1]
  BY ONLY <1>1, <1>2, SubSeqProperties
<1>4. n <= l
  OBVIOUS
<1> HIDE DEF r, l
<1>5. Len(r) = l - n
  BY <1>1, <1>3, <1>4
<1>6. ASSUME NEW i \in 1..Len(r) PROVE r[i] = q[i + n]
  <2>1. i \in 1..l-(n+1)+1 /\ (n + 1) + i - 1 = i + n
    BY <1>1, <1>5
  <2> QED
    BY <1>3, <2>1
<1>7. r \in Seq(Nat \ {0}) /\ Len(r) = l - n /\ \A i \in 1..Len(r) : r[i] = q[i + n]
  BY <1>3, <1>5, <1>6
<1> QED
  BY <1>7 DEF r, l

\* The loop leaves a sorted rest of the queue behind, with what it stored
\* before everything in it, and what it stores comes after what was stored.
LEMMA RunQueueInv ==
  ASSUME UpdateQueuesAssumption, IInv, NEW k \in Key,
         NEW q, Ready(k, q), NEW state \in Nat,
         arrived' \in [Key -> Nat], arrived'[k] >= arrived[k],
         \A j \in Key \ {k} : arrived'[j] = arrived[j],
         closing' = closing,
         RunQueue(k, q, {}, state)
  PROVE  IInv' /\ \A u \in stored[k], v \in stored'[k] \ stored[k] : u < v
<1>1. PICK n \in 0..Len(q) :
        /\ queue' = [queue EXCEPT ![k] = SubSeq(q, n + 1, Len(q))]
        /\ \E kept \in SUBSET {q[i] : i \in 1..n} : stored' = [stored EXCEPT ![k] = @ \cup kept]
        /\ \/ /\ n = Len(q)
              /\ active' = [active EXCEPT ![k] = FALSE]
              /\ calls' = [calls EXCEPT ![k] = {}]
           \/ /\ n < Len(q)
              /\ \E s \in 0..Lookups[k]-1 :
                   /\ n = 0 => s >= state
                   /\ active' = [active EXCEPT ![k] = TRUE]
                   /\ calls' = [calls EXCEPT ![k] = {} \cup {s}]
  BY DEF RunQueue
<1>2. PICK kept \in SUBSET {q[i] : i \in 1..n} : stored' = [stored EXCEPT ![k] = @ \cup kept]
  BY <1>1
<1> DEFINE r == SubSeq(q, n + 1, Len(q))
<1>3. q \in Seq(Nat \ {0}) /\ n \in Nat /\ Len(q) \in Nat /\ n <= Len(q)
  BY DEF Ready
<1>4. r \in Seq(Nat \ {0}) /\ Len(r) = Len(q) - n /\ \A i \in 1..Len(r) : r[i] = q[i + n]
  BY ONLY <1>3, QueueAfter
<1>a. queue' = [queue EXCEPT ![k] = r]
  BY <1>1
<1> HIDE DEF r
<1>b. Len(r) = Len(q) - n
  BY <1>4
<1>5. \A i \in 1..Len(r) : i + n \in 1..Len(q) /\ i + n > n
  BY ONLY <1>3, <1>b, SMTT(30)
<1>6. stored \in [Key -> SUBSET (Nat \ {0})] /\ queue \in [Key -> Seq(Nat \ {0})]
      /\ active \in [Key -> BOOLEAN] /\ calls \in [Key -> SUBSET Nat] /\ arrived \in [Key -> Nat]
  BY DEF IInv, TypeOK
<1>7. \A v \in kept : \E i \in 1..n : v = q[i] /\ i \in 1..Len(q) /\ v \in Nat \ {0}
  BY <1>3
<1>8. stored'[k] = stored[k] \cup kept /\ queue'[k] = r
  BY <1>2, <1>6, <1>a
<1>9. \A j \in Key \ {k} : /\ stored'[j] = stored[j] /\ queue'[j] = queue[j]
                            /\ active'[j] = active[j] /\ calls'[j] = calls[j]
  BY <1>1, <1>2, <1>6
<1>10. \A u \in stored[k], v \in kept : u < v
  BY <1>7 DEF Ready
<1>11. TypeOK'
  <2>1. queue' \in [Key -> Seq(Nat \ {0})]
    BY <1>4, <1>6, <1>a
  <2>2. stored' \in [Key -> SUBSET (Nat \ {0})]
    BY <1>2, <1>6, <1>7
  <2>3. Lookups[k] \in Nat
    BY DEF UpdateQueuesAssumption
  <2>4. active' \in [Key -> BOOLEAN]
    BY <1>1, <1>6, Zenon
  <2>5. calls' \in [Key -> SUBSET Nat]
    <3>1. CASE calls' = [calls EXCEPT ![k] = {}]
      BY <1>6, <3>1
    <3>2. ASSUME NEW s \in 0..Lookups[k]-1, calls' = [calls EXCEPT ![k] = {} \cup {s}]
          PROVE  calls' \in [Key -> SUBSET Nat]
      <4>1. s \in Nat
        BY <2>3
      <4> QED
        BY <1>6, <3>2, <4>1
    <3> QED
      BY <1>1, <3>1, <3>2, Zenon
  <2>6. closing' \in BOOLEAN
    BY DEF IInv, TypeOK
  <2>7. \A j \in Key : calls'[j] \subseteq 0..Lookups[j]-1
    <3>1. \A s \in 0..Lookups[k]-1 : calls' = [calls EXCEPT ![k] = {} \cup {s}] => calls'[k] = {s}
      BY <1>6
    <3>2. calls' = [calls EXCEPT ![k] = {}] => calls'[k] = {}
      BY <1>6
    <3>3. calls'[k] \subseteq 0..Lookups[k]-1
      BY <1>1, <3>1, <3>2
    <3> QED
      BY <1>9, <3>3 DEF IInv, TypeOK
  <2> QED
    BY <2>1, <2>2, <2>4, <2>5, <2>6, <2>7 DEF TypeOK
<1>12. FrontAwaited'
  <2>1. /\ active'[k] <=> r # <<>>
        /\ active'[k] <=> calls'[k] # {}
        /\ \A s, t \in calls'[k] : s = t
    <3>1. CASE n = Len(q)
      <4>1. r = <<>>
        BY <1>3, <1>4, <3>1
      <4> QED
        BY <1>1, <1>6, <3>1, <4>1
    <3>2. CASE n < Len(q)
      <4>1. r # <<>>
        <5>1. Len(r) # 0
          BY <1>3, <1>4, <3>2
        <5> QED
          BY <1>4, <5>1, EmptySeq
      <4>2. PICK s \in 0..Lookups[k]-1 :
              active' = [active EXCEPT ![k] = TRUE] /\ calls' = [calls EXCEPT ![k] = {} \cup {s}]
        <5>1. n # Len(q)
          BY <1>3, <3>2
        <5> QED
          BY <1>1, <5>1, Zenon
      <4>3. active'[k] = TRUE /\ calls'[k] = {s}
        BY <1>6, <4>2
      <4> QED
        BY <4>1, <4>3
    <3> QED
      BY <1>3, <3>1, <3>2
  <2>2. ASSUME NEW j \in Key
        PROVE  /\ active'[j] <=> queue'[j] # <<>>
               /\ active'[j] <=> calls'[j] # {}
               /\ \A s, t \in calls'[j] : s = t
    <3>1. CASE j = k
      BY <1>8, <2>1, <3>1
    <3>2. CASE j # k
      <4>1. /\ active[j] <=> queue[j] # <<>>
            /\ active[j] <=> calls[j] # {}
            /\ \A s, t \in calls[j] : s = t
        BY DEF IInv, FrontAwaited
      <4>2. queue'[j] = queue[j] /\ active'[j] = active[j] /\ calls'[j] = calls[j]
        BY <1>9, <3>2
      <4> QED
        BY <4>1, <4>2, Zenon
    <3> QED
      BY <3>1, <3>2
  <2> QED
    BY <2>2 DEF FrontAwaited
<1>13. StoredBeforeQueued'
  <2>1. \A i \in 1..Len(r) : \A u \in stored[k] : u < r[i]
    BY <1>4, <1>5 DEF Ready
  <2>2. \A i \in 1..Len(r) : \A u \in kept : u < r[i]
    <3>1. ASSUME NEW i \in 1..Len(r), NEW u \in kept PROVE u < r[i]
      <4>1. PICK h \in 1..n : u = q[h]
        BY <1>7
      <4>2. h \in 1..Len(q) /\ i + n \in 1..Len(q) /\ h < i + n
        BY <1>3, <1>5
      <4>3. q[h] < q[i + n]
        BY <4>2 DEF Ready, Sorted
      <4> QED
        BY <1>4, <4>1, <4>3
    <3> QED
      BY <3>1
  <2>3. \A i \in 1..Len(queue'[k]) : \A u \in stored'[k] : u < queue'[k][i]
    BY <1>8, <2>1, <2>2
  <2> QED
    BY <1>9, <2>3 DEF IInv, StoredBeforeQueued
<1>14. NothingFromTheFuture'
  <2>1. \A i \in 1..Len(r) : r[i] <= arrived'[k]
    BY <1>4, <1>5 DEF Ready
  <2>2. \A u \in kept : u <= arrived'[k]
    BY <1>7 DEF Ready
  <2>3. \A u \in stored[k] : u <= arrived'[k]
    BY <1>6 DEF IInv, NothingFromTheFuture
  <2> QED
    BY <1>8, <1>9, <2>1, <2>2, <2>3 DEF IInv, NothingFromTheFuture
<1>15. \A j \in Key : Sorted(queue'[j])
  <2>1. \A i, j \in 1..Len(q) : i < j => q[i] < q[j]
    BY DEF Ready, Sorted
  <2>2. ASSUME NEW i \in 1..Len(r), NEW j \in 1..Len(r), i < j
        PROVE  r[i] < r[j]
    <3>1. i + n \in 1..Len(q) /\ j + n \in 1..Len(q)
      BY ONLY <1>5
    <3>2. Len(r) \in Nat /\ i + n < j + n
      BY ONLY <1>3, <1>4, <2>2
    <3>3. q[i + n] < q[j + n]
      BY ONLY <2>1, <3>1, <3>2
    <3>4. r[i] = q[i + n] /\ r[j] = q[j + n]
      BY ONLY <1>4
    <3> QED
      BY <3>3, <3>4
  <2>3. Sorted(r)
    BY <2>2 DEF Sorted
  <2> QED
    BY <1>8, <1>9, <2>3 DEF IInv
<1> QED
  BY <1>8, <1>10, <1>11, <1>12, <1>13, <1>14, <1>15 DEF IInv

\* An update that joins a waiting queue changes nothing else.
LEMMA WaitInv ==
  ASSUME IInv, NEW k \in Key, active[k],
         arrived' = [arrived EXCEPT ![k] = @ + 1], closing' = closing,
         Wait(k, Append(queue[k], arrived[k] + 1), calls[k])
  PROVE  IInv' /\ stored' = stored
<1> DEFINE q == Append(queue[k], arrived[k] + 1)
<1>1. Ready(k, q)
  BY AppendReady
<1>2. /\ queue' = [queue EXCEPT ![k] = q]
      /\ calls' = [calls EXCEPT ![k] = calls[k]]
      /\ active' = active /\ stored' = stored
  BY DEF Wait
<1>3. TypeOK
  BY DEF IInv
<1>4. calls' = calls /\ queue'[k] = q
  BY <1>2, <1>3 DEF TypeOK
<1>5. \A j \in Key \ {k} : queue'[j] = queue[j] /\ arrived'[j] = arrived[j]
  BY <1>2, <1>3 DEF TypeOK
<1>6. TypeOK'
  BY <1>1, <1>2, <1>3, <1>4 DEF TypeOK, Ready
<1>7. FrontAwaited'
  <2>1. q # <<>>
    <3>1. queue[k] \in Seq(Nat \ {0}) /\ arrived[k] + 1 \in Nat \ {0}
      BY <1>3 DEF TypeOK
    <3>2. q \in Seq(Nat \ {0}) /\ Len(q) # 0
      BY <3>1
    <3> QED
      BY <3>2, EmptySeq
  <2>2. active[k] <=> queue[k] # <<>>
    BY DEF IInv, FrontAwaited
  <2> QED
    BY <1>2, <1>4, <1>5, <2>1, <2>2 DEF IInv, FrontAwaited
<1>8. StoredBeforeQueued'
  BY <1>1, <1>2, <1>4, <1>5 DEF IInv, StoredBeforeQueued, Ready
<1>9. NothingFromTheFuture'
  <2>1. arrived'[k] = arrived[k] + 1 /\ arrived[k] \in Nat
    BY <1>3 DEF TypeOK
  <2>2. \A u \in stored'[k] : u <= arrived'[k]
    BY <1>2, <1>3, <2>1 DEF IInv, NothingFromTheFuture, TypeOK
  <2> QED
    BY <1>1, <1>2, <1>4, <1>5, <2>2 DEF IInv, NothingFromTheFuture, Ready
<1>10. \A j \in Key : Sorted(queue'[j])
  BY <1>1, <1>4, <1>5 DEF IInv, Ready
<1> QED
  BY <1>2, <1>6, <1>7, <1>8, <1>9, <1>10 DEF IInv

\* Neither does an erased queue, whose answer has just come or that was empty.
LEMMA EraseInv ==
  ASSUME IInv, NEW k \in Key, Erase(k, {}),
         arrived' \in [Key -> Nat], arrived'[k] >= arrived[k],
         \A j \in Key \ {k} : arrived'[j] = arrived[j],
         closing' = closing
  PROVE  IInv' /\ stored' = stored
<1>1. /\ queue' = [queue EXCEPT ![k] = <<>>]
      /\ active' = [active EXCEPT ![k] = FALSE]
      /\ calls' = [calls EXCEPT ![k] = {}]
      /\ stored' = stored
  BY DEF Erase
<1>2. TypeOK
  BY DEF IInv
<1>3. queue'[k] = <<>> /\ active'[k] = FALSE /\ calls'[k] = {} /\ Len(<<>>) = 0
  BY <1>1, <1>2 DEF TypeOK
<1>4. \A j \in Key \ {k} : queue'[j] = queue[j] /\ active'[j] = active[j] /\ calls'[j] = calls[j]
  BY <1>1, <1>2 DEF TypeOK
<1>5. TypeOK'
  <2>1. queue' \in [Key -> Seq(Nat \ {0})]
    BY <1>1, <1>2 DEF TypeOK
  <2>2. active' \in [Key -> BOOLEAN]
    BY <1>1, <1>2, Zenon DEF TypeOK
  <2>3. calls' \in [Key -> SUBSET Nat]
    BY <1>1, <1>2 DEF TypeOK
  <2> QED
    BY <1>1, <1>2, <2>1, <2>2, <2>3 DEF TypeOK
<1>6. FrontAwaited'
  BY <1>3, <1>4 DEF IInv, FrontAwaited
<1>7. StoredBeforeQueued'
  BY <1>1, <1>3, <1>4 DEF IInv, StoredBeforeQueued
<1>8. NothingFromTheFuture'
  <2>1. arrived[k] \in Nat /\ arrived'[k] \in Nat /\ \A u \in stored[k] : u \in Nat
    BY <1>2 DEF TypeOK
  <2>2. \A u \in stored'[k] : u <= arrived'[k]
    BY <1>1, <2>1 DEF IInv, NothingFromTheFuture
  <2> QED
    BY <1>1, <1>3, <1>4, <2>2 DEF IInv, NothingFromTheFuture
<1>9. \A j \in Key : Sorted(queue'[j])
  BY <1>3, <1>4 DEF IInv, Sorted
<1> QED
  BY <1>1, <1>5, <1>6, <1>7, <1>8, <1>9 DEF IInv

InOrderStep ==
  \A k \in Key : \A u \in stored[k], v \in stored'[k] \ stored[k] : u < v

\* Stored updates of the other queues are the same after RunQueue.
LEMMA RunQueueElsewhere ==
  ASSUME IInv, NEW k \in Key, NEW q, NEW c, NEW state, RunQueue(k, q, c, state)
  PROVE  \A j \in Key \ {k} : stored'[j] = stored[j]
<1>1. PICK n \in 0..Len(q) :
        \E kept \in SUBSET {q[i] : i \in 1..n} : stored' = [stored EXCEPT ![k] = @ \cup kept]
  BY DEF RunQueue
<1> QED
  BY <1>1 DEF IInv, TypeOK

LEMMA AddUpdateInv ==
  ASSUME UpdateQueuesAssumption, IInv, NEW k \in Key, AddUpdate(k)
  PROVE  IInv' /\ InOrderStep
<1> DEFINE q == Append(queue[k], arrived[k] + 1)
<1>1. /\ arrived' = [arrived EXCEPT ![k] = @ + 1]
      /\ ProcessQueue(k, q, calls[k], 0)
      /\ closing' = closing
  BY DEF AddUpdate
<1>2. /\ arrived' \in [Key -> Nat] /\ arrived'[k] >= arrived[k]
      /\ \A j \in Key \ {k} : arrived'[j] = arrived[j]
  BY <1>1 DEF IInv, TypeOK
<1>3. CASE active[k]
  <2>1. Wait(k, q, calls[k])
    BY <1>1, <1>3 DEF ProcessQueue
  <2>2. IInv' /\ stored' = stored
    BY <1>1, <1>3, <2>1, WaitInv
  <2> QED
    BY <2>2 DEF InOrderStep
<1>4. CASE ~active[k]
  <2>1. calls[k] = {}
    BY <1>4 DEF IInv, FrontAwaited
  <2>2. CASE closing
    <3>1. Erase(k, {})
      BY <1>1, <1>4, <2>1, <2>2 DEF ProcessQueue
    <3>2. IInv' /\ stored' = stored
      BY <1>1, <1>2, <3>1, EraseInv
    <3> QED
      BY <3>2 DEF InOrderStep
  <2>3. CASE ~closing
    <3>1. RunQueue(k, q, {}, 0)
      BY <1>1, <1>4, <2>1, <2>3 DEF ProcessQueue
    <3>2. Ready(k, q)
      BY <1>1, AppendReady
    <3>3. IInv' /\ \A u \in stored[k], v \in stored'[k] \ stored[k] : u < v
      BY <1>1, <1>2, <3>1, <3>2, RunQueueInv
    <3>4. \A j \in Key \ {k} : stored'[j] = stored[j]
      BY <3>1, RunQueueElsewhere
    <3> QED
      BY <3>3, <3>4 DEF InOrderStep
  <2> QED
    BY <2>2, <2>3
<1> QED
  BY <1>3, <1>4

LEMMA LookupAnsweredInv ==
  ASSUME UpdateQueuesAssumption, IInv, NEW k \in Key, NEW s \in 0..Lookups[k]-1,
         LookupAnswered(k, s)
  PROVE  IInv' /\ InOrderStep
<1>1. /\ s \in calls[k]
      /\ ProcessQueue(k, queue[k], calls[k] \ {s}, s + 1)
      /\ arrived' = arrived /\ closing' = closing
  BY DEF LookupAnswered
<1>2. calls[k] \ {s} = {}
  BY <1>1 DEF IInv, FrontAwaited
<1>3. s + 1 \in Nat /\ s + 1 # 0
  BY DEF UpdateQueuesAssumption
<1>4. /\ arrived' \in [Key -> Nat] /\ arrived'[k] >= arrived[k]
      /\ \A j \in Key \ {k} : arrived'[j] = arrived[j]
  BY <1>1 DEF IInv, TypeOK
<1>5. CASE closing
  <2>1. Erase(k, {})
    BY <1>1, <1>2, <1>3, <1>5 DEF ProcessQueue
  <2>2. IInv' /\ stored' = stored
    BY <1>1, <1>4, <2>1, EraseInv
  <2> QED
    BY <2>2 DEF InOrderStep
<1>6. CASE ~closing
  <2>1. RunQueue(k, queue[k], {}, s + 1)
    BY <1>1, <1>2, <1>3, <1>6 DEF ProcessQueue
  <2>2. Ready(k, queue[k])
    BY <1>1 DEF IInv, TypeOK, StoredBeforeQueued, NothingFromTheFuture, Ready
  <2>3. IInv' /\ \A u \in stored[k], v \in stored'[k] \ stored[k] : u < v
    BY <1>1, <1>3, <1>4, <2>1, <2>2, RunQueueInv
  <2>4. \A j \in Key \ {k} : stored'[j] = stored[j]
    BY <2>1, RunQueueElsewhere
  <2> QED
    BY <2>3, <2>4 DEF InOrderStep
<1> QED
  BY <1>5, <1>6
-----------------------------------------------------------------------------
LEMMA InitInv == Init => IInv
<1> SUFFICES ASSUME Init PROVE IInv
  OBVIOUS
<1>1. TypeOK
  <2>1. queue \in [Key -> Seq(Nat \ {0})]
    BY EmptySeq DEF Init
  <2>2. active \in [Key -> BOOLEAN] /\ closing \in BOOLEAN
    BY Zenon DEF Init
  <2>3. /\ arrived \in [Key -> Nat] /\ calls \in [Key -> SUBSET Nat]
        /\ stored \in [Key -> SUBSET (Nat \ {0})]
    BY DEF Init
  <2>4. \A k \in Key : calls[k] \subseteq 0..Lookups[k]-1
    BY DEF Init
  <2> QED
    BY <2>1, <2>2, <2>3, <2>4 DEF TypeOK
<1>2. \A k \in Key : queue[k] = <<>> /\ Len(queue[k]) = 0 /\ stored[k] = {}
                     /\ calls[k] = {} /\ active[k] = FALSE
  BY DEF Init
<1> QED
  BY <1>1, <1>2 DEF IInv, FrontAwaited, StoredBeforeQueued, NothingFromTheFuture, Sorted

\* Every step keeps the invariant and stores updates in order.
LEMMA NextInv ==
  ASSUME UpdateQueuesAssumption, IInv, [Next]_vars
  PROVE  IInv' /\ InOrderStep
<1>1. CASE \E k \in Key : AddUpdate(k)
  BY <1>1, AddUpdateInv
<1>2. CASE \E k \in Key : \E s \in 0..Lookups[k]-1 : LookupAnswered(k, s)
  BY <1>2, LookupAnsweredInv
<1>3. CASE StartClosing \/ UNCHANGED vars
  <2>1. UNCHANGED <<arrived, queue, active, calls, stored>> /\ closing' \in BOOLEAN
    BY <1>3 DEF StartClosing, vars, IInv, TypeOK
  <2> QED
    BY <2>1 DEF IInv, TypeOK, FrontAwaited, StoredBeforeQueued, NothingFromTheFuture, InOrderStep
<1> QED
  BY <1>1, <1>2, <1>3 DEF Next

\* The inductive invariant holds in every behaviour.
THEOREM Invariance == Spec => []IInv
<1>1. Init => IInv
  BY InitInv
<1>2. IInv /\ [Next]_vars => IInv'
  BY NextInv, UpdateQueuesAssumption
<1> QED
  BY <1>1, <1>2, PTL DEF Spec

\* Type correctness of the queues.
THEOREM QueuesTyped == Spec => []TypeOK
<1>1. IInv => TypeOK
  BY DEF IInv
<1> QED
  BY <1>1, Invariance, PTL

\* The CHECKs of the handlers hold for any number of queues and lookups: an
\* answer of TDLib always finds the one update it was asked for.
THEOREM ChecksHold == Spec => []FrontAwaited
<1>1. IInv => FrontAwaited
  BY DEF IInv
<1> QED
  BY <1>1, Invariance, PTL

\* What was stored had arrived before what still waits.
THEOREM StoredFirst == Spec => []StoredBeforeQueued
<1>1. IInv => StoredBeforeQueued
  BY DEF IInv
<1> QED
  BY <1>1, Invariance, PTL

\* The updates of each queue are stored in the order of their arrival.
THEOREM OrderKept == Spec => StoredInOrder
<1>1. IInv /\ [Next]_vars => [InOrderStep]_stored
  BY NextInv, UpdateQueuesAssumption
<1>2. StoredInOrder <=> [][InOrderStep]_stored
  BY PTL DEF StoredInOrder, InOrderStep
<1> QED
  BY <1>1, <1>2, Invariance, PTL DEF Spec

\* After logging_out_ or closing_ is set, no step stores an update.
THEOREM ClosedIsQuiet == Spec => NothingStoredWhenClosing
<1>1. [Next]_vars => (closing => UNCHANGED stored)
  <2> SUFFICES ASSUME [Next]_vars, closing PROVE UNCHANGED stored
    OBVIOUS
  <2>1. ASSUME NEW k \in Key, NEW q, NEW c, NEW state, ProcessQueue(k, q, c, state)
        PROVE  UNCHANGED stored
    BY <2>1 DEF ProcessQueue, Wait, Erase
  <2>2. CASE \E k \in Key : AddUpdate(k)
    BY <2>1, <2>2 DEF AddUpdate
  <2>3. CASE \E k \in Key : \E s \in 0..Lookups[k]-1 : LookupAnswered(k, s)
    BY <2>1, <2>3 DEF LookupAnswered
  <2>4. CASE StartClosing \/ UNCHANGED vars
    BY <2>4 DEF StartClosing, vars
  <2> QED
    BY <2>2, <2>3, <2>4 DEF Next
<1> QED
  BY <1>1, PTL DEF Spec, NothingStoredWhenClosing
=============================================================================
