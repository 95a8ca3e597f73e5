------------------------- MODULE NewMessagesProofs -------------------------
(***************************************************************************)
(* What holds of NewMessages for every number of messages, whatever they   *)
(* reply to, and any number of edits.                                      *)
(*                                                                         *)
(* The invariant Good is a predicate of the record that the handlers       *)
(* compute on, of what TDLib has told, and of the edits that are under     *)
(* way.  It is kept when the front message passes the cache (Finish), so   *)
(* it is kept by the loop of process_new_message_queue, however many       *)
(* messages that lets pass.                                                *)
(***************************************************************************)
EXTENDS NewMessages, SequenceTheorems, FiniteSetTheorems, WellFoundedInduction, TLAPS

Lookup == {"reply", "stickers"}
Known == [state : {"known"}, v : Version]
Cached == [cached : {TRUE}, v : Version, changed : BOOLEAN]
Item == [m : Message, v : Version, edited : BOOLEAN]

Tellings == [Message -> Known \cup {Unknown, Deleted}]
Caches == [Message -> Cached \cup {NoInfo}]
Bundles ==
  [queue : Seq(Item), active : BOOLEAN, lookups : SUBSET Lookup,
   cache : Caches, stored : Seq(Item), stale : SUBSET Message, skipped : SUBSET Message]

-----------------------------------------------------------------------------
(* Types.                                                                  *)

LEMMA MessageType == MaxMessage \in Nat /\ Message \subseteq Nat
  BY MessagesAssumption DEF Message

LEMMA VersionType ==
  ASSUME NEW v \in Version
  PROVE  /\ v.content \in Nat /\ v.markup \in Nat
         /\ v.content \in 1..MaxContent /\ v.markup \in 1..MaxMarkup
         /\ v = [content |-> v.content, markup |-> v.markup]
  BY MessagesAssumption DEF Version

LEMMA BundleType ==
  ASSUME NEW b \in Bundles
  PROVE  /\ b.queue \in Seq(Item) /\ b.stored \in Seq(Item)
         /\ Len(b.queue) \in Nat /\ Len(b.stored) \in Nat
         /\ b.active \in BOOLEAN /\ b.lookups \in SUBSET Lookup
         /\ b.cache \in Caches /\ b.stale \in SUBSET Message /\ b.skipped \in SUBSET Message
         /\ \A j \in 1..Len(b.queue) :
              /\ b.queue[j] \in Item /\ b.queue[j].m \in Message /\ b.queue[j].v \in Version
              /\ b.queue[j].edited \in BOOLEAN
         /\ \A j \in 1..Len(b.stored) :
              /\ b.stored[j] \in Item /\ b.stored[j].m \in Message /\ b.stored[j].v \in Version
              /\ b.stored[j].edited \in BOOLEAN
<1>1. b.queue \in Seq(Item) /\ b.stored \in Seq(Item)
  BY DEF Bundles
<1>2. /\ \A j \in 1..Len(b.queue) : b.queue[j] \in Item
      /\ \A j \in 1..Len(b.stored) : b.stored[j] \in Item
  BY <1>1, ElementOfSeq
<1>3. \A x \in Item : x.m \in Message /\ x.v \in Version /\ x.edited \in BOOLEAN
  BY DEF Item
<1> QED
  BY <1>1, <1>2, <1>3 DEF Bundles

LEMMA CacheType ==
  ASSUME NEW c \in Caches, NEW m \in Message
  PROVE  /\ c[m].cached \in BOOLEAN
         /\ c[m].cached => c[m].v \in Version /\ c[m].changed \in BOOLEAN
         /\ c[m] \in Cached \cup {NoInfo}
<1>1. c[m] \in Cached \cup {NoInfo}
  BY DEF Caches
<1>2. CASE c[m] \in Cached
  BY <1>1, <1>2 DEF Cached
<1>3. CASE c[m] = NoInfo
  <2>1. c[m].cached = FALSE
    BY <1>3 DEF NoInfo
  <2> QED
    BY <1>1, <2>1, Zenon
<1> QED
  BY <1>1, <1>2, <1>3

LEMMA ToldType ==
  ASSUME NEW t \in Tellings, NEW m \in Message
  PROVE  /\ t[m].state = "known" => t[m].v \in Version /\ t[m] \in Known
         /\ t[m].state \in {"known", "unknown", "deleted"}
         /\ t[m].state = "unknown" => t[m] = Unknown
<1>1. t[m] \in Known \cup {Unknown, Deleted}
  BY DEF Tellings
<1>2. CASE t[m] \in Known
  BY <1>1, <1>2 DEF Known
<1>3. CASE t[m] = Unknown
  BY <1>3 DEF Unknown
<1>4. CASE t[m] = Deleted
  BY <1>4 DEF Deleted
<1> QED
  BY <1>1, <1>2, <1>3, <1>4

\* A number that has a property has a smallest one that has it.
LEMMA LeastNumber ==
  ASSUME NEW T, T \subseteq Nat, T # {}
  PROVE  \E n \in T : \A k \in T : n <= k
<1>1. PICK n \in T : \A k \in T : ~ (<<k, n>> \in OpToRel(<, Nat))
  BY NatLessThanWellFounded, WFMin
<1>2. \A k \in T : ~ (k < n) /\ k \in Nat /\ n \in Nat
  BY <1>1 DEF OpToRel
<1> QED
  BY <1>2

-----------------------------------------------------------------------------
(* The cache.                                                              *)

\* d is the cache c after it was given version v of message m.
Added(c, d, m, v) ==
  /\ d \in Caches
  /\ \A k \in Message : k # m => d[k] = c[k]
  /\ d[m].cached
  /\ d[m].v.markup = v.markup
  /\ d[m].v.content = IF c[m].cached THEN c[m].v.content ELSE v.content
  /\ d[m].changed <=> (c[m].cached => c[m].changed \/ c[m].v.markup # v.markup)

LEMMA AddMessageAdds ==
  ASSUME NEW c \in Caches, NEW m \in Message, NEW v \in Version
  PROVE  Added(c, AddMessage(c, m, v), m, v)
<1> DEFINE new == [cached |-> TRUE, v |-> v, changed |-> TRUE]
           w == [v EXCEPT !.content = c[m].v.content]
           old == [cached |-> TRUE, v |-> w, changed |-> c[m].changed \/ c[m].v.markup # v.markup]
           info == IF ~c[m].cached THEN new ELSE old
           d == [c EXCEPT ![m] = info]
<1>1. AddMessage(c, m, v) = d
  BY DEF AddMessage
<1>2. CASE ~c[m].cached
  <2>1. info \in Cached /\ info.cached /\ info.v = v /\ info.changed
    BY <1>2 DEF Cached
  <2> HIDE DEF info
  <2>2. d \in Caches /\ d[m] = info /\ \A k \in Message : k # m => d[k] = c[k]
    BY <2>1 DEF Caches
  <2> HIDE DEF d
  <2> QED
    BY <1>1, <1>2, <2>1, <2>2 DEF Added
<1>3. CASE c[m].cached
  <2>1. c[m].v \in Version /\ c[m].changed \in BOOLEAN
    BY <1>3, CacheType
  <2>2. w \in Version /\ w.content = c[m].v.content /\ w.markup = v.markup
    BY <2>1 DEF Version
  <2> HIDE DEF w
  <2> DEFINE ch == c[m].changed \/ c[m].v.markup # v.markup
  <2>3. ch \in BOOLEAN
    OBVIOUS
  <2> HIDE DEF ch
  <2>4. old = [cached |-> TRUE, v |-> w, changed |-> ch]
    BY DEF ch
  <2>5. info = old
    BY <1>3
  <2> HIDE DEF info, old
  <2>6. info \in Cached /\ info.cached /\ info.v = w /\ info.changed = ch
    BY <2>2, <2>3, <2>4, <2>5 DEF Cached
  <2>7. d \in Caches /\ d[m] = info /\ \A k \in Message : k # m => d[k] = c[k]
    BY <2>6 DEF Caches
  <2> HIDE DEF d
  <2>8. d[m].changed <=> (c[m].changed \/ c[m].v.markup # v.markup)
    BY <2>6, <2>7 DEF ch
  <2> QED
    BY <1>1, <1>3, <2>2, <2>6, <2>7, <2>8 DEF Added
<1> QED
  BY <1>2, <1>3, CacheType

-----------------------------------------------------------------------------
(* The front message passes.                                               *)

\* r is b after its front message has passed the cache, and skipped or stored.
Passed(b, r, m) ==
  /\ r \in Bundles
  /\ r.queue = Tail(b.queue) /\ r.active = b.active /\ r.lookups = b.lookups
  /\ b.stale \subseteq r.stale /\ b.skipped \ {m} \subseteq r.skipped
  /\ b.cache[m].cached /\ b.cache[m].v.content < b.queue[1].v.content => m \in r.stale
  /\ \A k \in Message : k # m => r.cache[k] = b.cache[k]
  /\ r.cache[m].cached
  /\ r.cache[m].v.markup = b.queue[1].v.markup
  /\ r.cache[m].v.content = IF b.cache[m].cached THEN b.cache[m].v.content ELSE b.queue[1].v.content
  /\ \/ /\ r.stored = b.stored
        /\ r.cache[m].changed <=>
             (b.cache[m].cached => b.cache[m].changed \/ b.cache[m].v.markup # b.queue[1].v.markup)
        /\ m \in r.skipped \/ ~r.cache[m].changed
     \/ /\ ~r.cache[m].changed
        /\ \E x \in Item : /\ x.m = m /\ x.edited = b.queue[1].edited /\ x.v = r.cache[m].v
                           /\ r.stored = Append(b.stored, x)

LEMMA FinishPasses ==
  ASSUME NEW b \in Bundles, b.queue # <<>>, NEW untold
  PROVE  Passed(b, Finish(b, untold), b.queue[1].m)
<1> DEFINE item == Head(b.queue)
           m == item.m
           c == AddMessage(b.cache, m, item.v)
           hid == IF HidesContent(b.cache, m, item.v) THEN {m} ELSE {}
           d == [b EXCEPT !.queue = Tail(@), !.cache = c, !.stale = @ \cup hid]
           x == [item EXCEPT !.v = c[m].v]
           shown == [c EXCEPT ![m].changed = FALSE]
           e == [d EXCEPT !.stored = Append(@, x), !.cache[m].changed = FALSE,
                          !.skipped = @ \ {m}]
           kept == [d EXCEPT !.skipped = @ \cup {m}]
<1>1. item = b.queue[1] /\ item \in Item /\ Tail(b.queue) \in Seq(Item)
  <2>1. b.queue \in Seq(Item)
    BY DEF Bundles
  <2> QED
    BY <2>1, HeadTailProperties
<1>2. m \in Message /\ item.v \in Version /\ item.edited \in BOOLEAN
  BY <1>1 DEF Item
<1>3. b.cache \in Caches /\ b.stored \in Seq(Item) /\ b.stale \in SUBSET Message
      /\ b.skipped \in SUBSET Message
  BY DEF Bundles
<1>4. Finish(b, untold) = IF ~NeedSkip(c, item, untold) THEN e
                     ELSE IF NeedSkip(c, item, FALSE) THEN d ELSE kept
  BY DEF Finish
<1> HIDE DEF item
<1>5. Added(b.cache, c, m, item.v)
  BY <1>2, <1>3, AddMessageAdds
<1> HIDE DEF m
<1>6. hid \in SUBSET Message /\ (b.cache[m].cached /\ b.cache[m].v.content < item.v.content => m \in hid)
  BY <1>2 DEF HidesContent
<1> HIDE DEF c, hid
<1>7. c \in Caches /\ c[m].cached
  BY <1>5 DEF Added
<1>8. /\ d \in Bundles
      /\ d.queue = Tail(b.queue) /\ d.active = b.active /\ d.lookups = b.lookups
      /\ d.stale = b.stale \cup hid /\ d.cache = c /\ d.stored = b.stored
      /\ d.skipped = b.skipped
  <2>1. b.stale \cup hid \in SUBSET Message
    BY <1>3, <1>6
  <2> QED
    BY <1>1, <1>7, <2>1 DEF Bundles
<1>9. c[m].v \in Version /\ c[m].changed \in BOOLEAN /\ c[m] \in Cached
  <2>1. c[m] \in Cached \cup {NoInfo}
    BY <1>2, <1>7, CacheType
  <2>2. c[m] # NoInfo
    BY <1>7 DEF NoInfo
  <2> QED
    BY <2>1, <2>2 DEF Cached
<1>10. CASE NeedSkip(c, item, FALSE)
  <2>1. ~c[m].changed
    BY <1>10 DEF NeedSkip, m
  <2>2. Finish(b, untold) = d
    BY <1>4, <1>10 DEF NeedSkip
  <2> HIDE DEF d
  <2>3. Passed(b, d, m)
    BY <1>1, <1>5, <1>6, <1>8, <2>1 DEF Passed, Added
  <2> QED
    BY <1>1, <2>2, <2>3 DEF m
<1>11. CASE NeedSkip(c, item, untold) /\ ~NeedSkip(c, item, FALSE)
  <2>1. Finish(b, untold) = kept
    BY <1>4, <1>11
  <2>2. b.skipped \cup {m} \in SUBSET Message
    BY <1>2, <1>3 DEF m
  <2> HIDE DEF d
  <2>3. /\ kept \in Bundles
        /\ kept.queue = Tail(b.queue) /\ kept.active = b.active /\ kept.lookups = b.lookups
        /\ kept.stale = b.stale \cup hid /\ kept.cache = c /\ kept.stored = b.stored
        /\ kept.skipped = b.skipped \cup {m}
    BY <1>8, <2>2 DEF Bundles
  <2> HIDE DEF kept
  <2>4. Passed(b, kept, m)
    BY <1>1, <1>5, <1>6, <2>3 DEF Passed, Added
  <2> QED
    BY <1>1, <2>1, <2>4 DEF m
<1>12. CASE ~NeedSkip(c, item, untold)
  <2>1. b.skipped \ {m} \in SUBSET Message
    BY <1>3
  <2>2. x \in Item /\ x.m = m /\ x.edited = item.edited /\ x.v = c[m].v
    BY <1>1, <1>9 DEF Item, m
  <2> HIDE DEF x
  <2>3. /\ shown \in Caches /\ shown[m].cached = TRUE /\ shown[m].changed = FALSE /\ shown[m].v = c[m].v
        /\ \A k \in Message : k # m => shown[k] = c[k]
    <3> DEFINE info == [c[m] EXCEPT !.changed = FALSE]
    <3>1. info \in Cached /\ info.cached = TRUE /\ info.changed = FALSE /\ info.v = c[m].v
      BY <1>9 DEF Cached
    <3>2. shown = [c EXCEPT ![m] = info]
      OBVIOUS
    <3> HIDE DEF info
    <3>3. shown \in Caches /\ shown[m] = info /\ \A k \in Message : k # m => shown[k] = c[k]
      BY <1>2, <1>7, <3>1, <3>2 DEF Caches
    <3> QED
      BY <3>1, <3>3
  <2>4. Append(b.stored, x) \in Seq(Item)
    BY <1>3, <2>2, AppendProperties
  <2>5. e = [d EXCEPT !.stored = Append(@, x), !.cache = shown,
                      !.skipped = @ \ {m}]
    <3>1. d.cache = c
      BY <1>8
    <3> QED
      BY <1>8, <3>1 DEF Bundles
  <2> HIDE DEF d, shown, e
  <2>6. /\ e \in Bundles
        /\ e.queue = Tail(b.queue) /\ e.active = b.active /\ e.lookups = b.lookups
        /\ e.stale = b.stale \cup hid /\ e.cache = shown /\ e.stored = Append(b.stored, x)
        /\ e.skipped = b.skipped \ {m}
    BY <1>8, <2>1, <2>3, <2>4, <2>5 DEF Bundles
  <2>7. Finish(b, untold) = e
    BY <1>4, <1>12
  <2>8. Passed(b, e, m)
    <3>1. e.cache[m].cached /\ ~e.cache[m].changed /\ e.cache[m].v = c[m].v
      BY <2>3, <2>6
    <3>2. /\ c[m].v.markup = item.v.markup
          /\ c[m].v.content = IF b.cache[m].cached THEN b.cache[m].v.content ELSE item.v.content
          /\ \A k \in Message : k # m => e.cache[k] = b.cache[k]
      BY <1>5, <2>3, <2>6 DEF Added
    <3>3. \E y \in Item : /\ y.m = m /\ y.edited = item.edited /\ y.v = e.cache[m].v
                          /\ e.stored = Append(b.stored, y)
      BY <2>2, <2>6, <3>1
    <3>4. /\ b.stale \subseteq e.stale
          /\ b.cache[m].cached /\ b.cache[m].v.content < item.v.content => m \in e.stale
      BY <1>6, <2>6
    <3> QED
      BY <1>1, <2>6, <3>1, <3>2, <3>3, <3>4 DEF Passed
  <2> QED
    BY <1>1, <2>7, <2>8 DEF m
<1> QED
  BY <1>10, <1>11, <1>12

-----------------------------------------------------------------------------
(* The invariant, for a record b of the queue, the cache and what was      *)
(* stored, for what TDLib has told of the messages, t, the edits asked     *)
(* for, e, and the message whose edit follows next, u.                     *)

\* The bot is told of nothing that TDLib has not announced.
AnnouncedInv(b, t) ==
  /\ \A i \in 1..Len(b.stored) : t[b.stored[i].m].state # "unknown"
  /\ \A j \in 1..Len(b.queue) : t[b.queue[j].m].state # "unknown"
  /\ \A m \in Message : b.cache[m].cached => t[m].state # "unknown"

\* What is stored and what waits is in the order of the chat.
OrderInv(b) ==
  /\ \A j \in 1..Len(b.queue) : \A i \in 1..j-1 :
       ~b.queue[j].edited => b.queue[i].m < b.queue[j].m
  /\ \A j \in 1..Len(b.queue) : \A i \in 1..Len(b.stored) :
       ~b.queue[j].edited => b.stored[i].m < b.queue[j].m
  /\ \A j \in 1..Len(b.stored) : \A i \in 1..j-1 :
       ~b.stored[j].edited => b.stored[i].m < b.stored[j].m

Older(v, w) == v.content <= w.content /\ v.markup <= w.markup

\* The versions of a message never go back, from what is stored through the cache and the
\* queue to what TDLib told last.  Only the keyboard in the cache may be newer than the one
\* that waits, and the content that waits may be older than the one in the cache.
QueueVersions(b, t, m) ==
  \A j \in 1..Len(b.queue) : b.queue[j].m = m =>
    /\ Older(b.queue[j].v, t[m].v)
    /\ \A i \in 1..j-1 : b.queue[i].m = m => Older(b.queue[i].v, b.queue[j].v)
    /\ \A i \in 1..Len(b.stored) : b.stored[i].m = m =>
         /\ b.stored[i].v.markup <= b.queue[j].v.markup
         /\ ~b.cache[m].cached => b.stored[i].v.content <= b.queue[j].v.content

StoredVersions(b, t, m) ==
  \A j \in 1..Len(b.stored) : b.stored[j].m = m =>
    /\ Older(b.stored[j].v, t[m].v)
    /\ b.cache[m].cached => b.stored[j].v.content <= b.cache[m].v.content
    /\ \A i \in 1..j-1 : b.stored[i].m = m => Older(b.stored[i].v, b.stored[j].v)

VersionInv(b, t) ==
  \A m \in Message : t[m].state = "known" =>
    /\ QueueVersions(b, t, m)
    /\ StoredVersions(b, t, m)
    /\ b.cache[m].cached => b.cache[m].v.content <= t[m].v.content

IsLast(s, m, i) == i \in 1..Len(s) /\ s[i].m = m /\ \A k \in i+1..Len(s) : s[k].m # m

\* Without is_content_changed, the bot was told last of what is cached.
UnchangedInv(b) ==
  \A m \in Message : b.cache[m].cached /\ ~b.cache[m].changed =>
    \E i \in 1..Len(b.stored) : IsLast(b.stored, m, i) /\ b.stored[i].v = b.cache[m].v

\* The last news of m were kept from the bot, or they are what it was told of m last.
Fresh(b, t, m) ==
  m \notin b.skipped => \A i \in 1..Len(b.stored) : IsLast(b.stored, m, i) =>
    /\ b.stored[i].v.markup = t[m].v.markup
    /\ m \notin b.stale => b.stored[i].v.content = t[m].v.content

Waits(b, m) == \E j \in 1..Len(b.queue) : b.queue[j].m = m

WaitsWith(b, m, v) == \E j \in 1..Len(b.queue) : b.queue[j].m = m /\ b.queue[j].v = v

\* The last version of a message is asked for, or waits, or the bot was told of it.
Arrives(b, t, e, u, m) ==
  \/ u = m \/ e[m] > 0
  \/ WaitsWith(b, m, t[m].v)
  \/ ~Waits(b, m) /\ Fresh(b, t, m)

ArriveInv(b, t, e, u) ==
  \A m \in Message : t[m].state = "known" => Arrives(b, t, e, u, m)

Good(b, t, e, u, closed) ==
  /\ b \in Bundles /\ t \in Tellings
  /\ AnnouncedInv(b, t) /\ OrderInv(b) /\ VersionInv(b, t) /\ UnchangedInv(b)
  /\ ~closed => ArriveInv(b, t, e, u)

-----------------------------------------------------------------------------
(* The passing of a message keeps it.                                      *)

\* The queue gets shorter at the front, and stored may get longer at the end.
LEMMA PassedShape ==
  ASSUME NEW b \in Bundles, b.queue # <<>>, NEW r, NEW m \in Message, m = b.queue[1].m, Passed(b, r, m)
  PROVE  /\ r \in Bundles /\ 1 <= Len(b.queue) /\ 1 \in 1..Len(b.queue)
         /\ Len(r.queue) = Len(b.queue) - 1
         /\ \A j \in 1..Len(r.queue) : j + 1 \in 1..Len(b.queue) /\ r.queue[j] = b.queue[j + 1]
         /\ \A j \in 2..Len(b.queue) : j - 1 \in 1..Len(r.queue) /\ r.queue[j - 1] = b.queue[j]
         /\ Len(b.stored) <= Len(r.stored)
         /\ \A i \in 1..Len(b.stored) : i \in 1..Len(r.stored) /\ r.stored[i] = b.stored[i]
         /\ \/ Len(r.stored) = Len(b.stored)
            \/ /\ Len(r.stored) = Len(b.stored) + 1 /\ Len(r.stored) \in 1..Len(r.stored)
               /\ r.stored[Len(r.stored)].m = m
               /\ r.stored[Len(r.stored)].edited = b.queue[1].edited
               /\ r.stored[Len(r.stored)].v = r.cache[m].v
               /\ ~r.cache[m].changed
               /\ \A i \in 1..Len(r.stored) : i # Len(r.stored) => i \in 1..Len(b.stored)
<1>1. /\ b.queue \in Seq(Item) /\ b.stored \in Seq(Item) /\ Len(b.queue) \in Nat /\ Len(b.stored) \in Nat
      /\ r \in Bundles /\ Len(r.queue) \in Nat /\ Len(r.stored) \in Nat
  BY BundleType DEF Passed
<1>2. /\ Len(r.queue) = Len(b.queue) - 1
      /\ \A j \in 1..Len(r.queue) : r.queue[j] = b.queue[j + 1]
  <2>1. PICK q \in Seq(Item) : q = b.queue
    BY <1>1
  <2>2. q # <<>> /\ r.queue = Tail(q)
    BY <2>1 DEF Passed
  <2>3. Len(Tail(q)) = Len(q) - 1 /\ \A i \in 1..Len(Tail(q)) : Tail(q)[i] = q[i + 1]
    BY <2>2, HeadTailProperties
  <2> QED
    BY <2>1, <2>2, <2>3
<1>3. 1 <= Len(b.queue)
  BY <1>1, <1>2
<1>4. /\ \A j \in 1..Len(r.queue) : j + 1 \in 1..Len(b.queue)
      /\ \A j \in 2..Len(b.queue) : j - 1 \in 1..Len(r.queue)
  BY <1>1, <1>2
<1>5. \A j \in 2..Len(b.queue) : r.queue[j - 1] = b.queue[j]
  <2> SUFFICES ASSUME NEW j \in 2..Len(b.queue) PROVE r.queue[j - 1] = b.queue[j]
    OBVIOUS
  <2>1. j - 1 \in 1..Len(r.queue) /\ (j - 1) + 1 = j
    BY <1>1, <1>4
  <2> QED
    BY <1>2, <2>1
<1>6. CASE r.stored = b.stored
  BY <1>1, <1>2, <1>3, <1>4, <1>5, <1>6
<1>7. CASE r.stored # b.stored
  <2>1. /\ ~r.cache[m].changed
        /\ \E x \in Item : /\ x.m = m /\ x.edited = b.queue[1].edited /\ x.v = r.cache[m].v
                           /\ r.stored = Append(b.stored, x)
    BY <1>7 DEF Passed
  <2>2. PICK x \in Item : /\ x.m = m /\ x.edited = b.queue[1].edited /\ x.v = r.cache[m].v
                          /\ r.stored = Append(b.stored, x)
    BY <2>1
  <2>3. /\ Len(r.stored) = Len(b.stored) + 1
        /\ \A i \in 1..Len(b.stored) : r.stored[i] = b.stored[i]
        /\ r.stored[Len(b.stored) + 1] = x
    BY <1>1, <2>2, AppendProperties
  <2>4. /\ Len(r.stored) \in 1..Len(r.stored) /\ Len(b.stored) <= Len(r.stored)
        /\ \A i \in 1..Len(b.stored) : i \in 1..Len(r.stored)
        /\ \A i \in 1..Len(r.stored) : i # Len(r.stored) => i \in 1..Len(b.stored)
    BY <1>1, <2>3
  <2>5. r.stored[Len(r.stored)] = x
    BY <2>3
  <2> QED
    BY <1>1, <1>2, <1>3, <1>4, <1>5, <2>1, <2>2, <2>3, <2>4, <2>5
<1> QED
  BY <1>6, <1>7

LEMMA PassedAnnounced ==
  ASSUME NEW b \in Bundles, b.queue # <<>>, NEW r, NEW m \in Message, m = b.queue[1].m, Passed(b, r, m),
         NEW t, AnnouncedInv(b, t)
  PROVE  AnnouncedInv(r, t)
<1>1. t[m].state # "unknown"
  BY PassedShape DEF AnnouncedInv
<1>2. \A i \in 1..Len(r.stored) : t[r.stored[i].m].state # "unknown"
  <2> SUFFICES ASSUME NEW i \in 1..Len(r.stored)
               PROVE  t[r.stored[i].m].state # "unknown"
    OBVIOUS
  <2>1. CASE i \in 1..Len(b.stored)
    BY <2>1, PassedShape DEF AnnouncedInv
  <2>2. CASE i \notin 1..Len(b.stored)
    <3>1. r.stored[i].m = m
      BY <2>2, PassedShape
    <3> QED
      BY <1>1, <3>1
  <2> QED
    BY <2>1, <2>2
<1>3. \A j \in 1..Len(r.queue) : t[r.queue[j].m].state # "unknown"
  <2> SUFFICES ASSUME NEW j \in 1..Len(r.queue) PROVE t[r.queue[j].m].state # "unknown"
    OBVIOUS
  <2>1. j + 1 \in 1..Len(b.queue) /\ r.queue[j] = b.queue[j + 1]
    BY PassedShape
  <2> QED
    BY <2>1 DEF AnnouncedInv
<1>4. \A k \in Message : r.cache[k].cached => t[k].state # "unknown"
  BY <1>1 DEF AnnouncedInv, Passed
<1> QED
  BY <1>2, <1>3, <1>4 DEF AnnouncedInv

LEMMA PassedOrder ==
  ASSUME NEW b \in Bundles, b.queue # <<>>, NEW r, NEW m \in Message, m = b.queue[1].m, Passed(b, r, m),
         OrderInv(b)
  PROVE  OrderInv(r)
<1>1. /\ Len(b.queue) \in Nat /\ Len(b.stored) \in Nat /\ Len(r.queue) \in Nat /\ Len(r.stored) \in Nat
  BY BundleType, PassedShape
<1>2. \A j \in 1..Len(r.queue) : \A i \in 1..j-1 : ~r.queue[j].edited => r.queue[i].m < r.queue[j].m
  <2> SUFFICES ASSUME NEW j \in 1..Len(r.queue), NEW i \in 1..j-1, ~r.queue[j].edited
               PROVE  r.queue[i].m < r.queue[j].m
    OBVIOUS
  <2>1. i \in 1..Len(r.queue) /\ i + 1 \in 1..(j + 1) - 1
    BY <1>1
  <2>2. /\ j + 1 \in 1..Len(b.queue) /\ r.queue[j] = b.queue[j + 1]
        /\ r.queue[i] = b.queue[i + 1]
    BY <2>1, PassedShape
  <2> QED
    BY <2>1, <2>2 DEF OrderInv
<1>3. \A j \in 1..Len(r.queue) : \A i \in 1..Len(r.stored) :
        ~r.queue[j].edited => r.stored[i].m < r.queue[j].m
  <2> SUFFICES ASSUME NEW j \in 1..Len(r.queue), NEW i \in 1..Len(r.stored), ~r.queue[j].edited
               PROVE  r.stored[i].m < r.queue[j].m
    OBVIOUS
  <2>1. j + 1 \in 1..Len(b.queue) /\ r.queue[j] = b.queue[j + 1] /\ 1 \in 1..(j + 1) - 1
    BY <1>1, PassedShape
  <2>2. CASE i \in 1..Len(b.stored)
    <3>1. r.stored[i] = b.stored[i]
      BY <2>2, PassedShape
    <3> QED
      BY <2>1, <2>2, <3>1 DEF OrderInv
  <2>3. CASE i \notin 1..Len(b.stored)
    <3>1. r.stored[i].m = b.queue[1].m
      <4>1. Len(r.stored) # Len(b.stored)
        BY <2>3
      <4>2. r.stored[Len(r.stored)].m = m /\ (i # Len(r.stored) => i \in 1..Len(b.stored))
        BY <4>1, PassedShape
      <4> QED
        BY <2>3, <4>2
    <3> QED
      BY <2>1, <3>1 DEF OrderInv
  <2> QED
    BY <2>2, <2>3
<1>4. \A j \in 1..Len(r.stored) : \A i \in 1..j-1 : ~r.stored[j].edited => r.stored[i].m < r.stored[j].m
  <2> SUFFICES ASSUME NEW j \in 1..Len(r.stored), NEW i \in 1..j-1, ~r.stored[j].edited
               PROVE  r.stored[i].m < r.stored[j].m
    OBVIOUS
  <2>1. CASE j \in 1..Len(b.stored)
    <3>1. i \in 1..Len(b.stored)
      BY <1>1, <2>1
    <3>2. r.stored[i] = b.stored[i] /\ r.stored[j] = b.stored[j]
      BY <2>1, <3>1, PassedShape
    <3> QED
      BY <2>1, <3>2 DEF OrderInv
  <2>2. CASE j \notin 1..Len(b.stored)
    <3>1. /\ j = Len(r.stored) /\ Len(r.stored) = Len(b.stored) + 1
          /\ r.stored[j].m = b.queue[1].m /\ r.stored[j].edited = b.queue[1].edited
      BY <2>2, PassedShape
    <3>2. i \in 1..Len(b.stored)
      BY <1>1, <3>1
    <3>3. r.stored[i] = b.stored[i] /\ 1 \in 1..Len(b.queue)
      BY <3>2, PassedShape
    <3> QED
      BY <3>1, <3>2, <3>3 DEF OrderInv
  <2> QED
    BY <2>1, <2>2
<1> QED
  BY <1>2, <1>3, <1>4 DEF OrderInv

LEMMA PassedVersions ==
  ASSUME NEW b \in Bundles, b.queue # <<>>, NEW r, NEW m \in Message, m = b.queue[1].m, Passed(b, r, m),
         NEW t \in Tellings, VersionInv(b, t)
  PROVE  VersionInv(r, t)
<1> SUFFICES ASSUME NEW k \in Message, t[k].state = "known"
             PROVE  /\ QueueVersions(r, t, k) /\ StoredVersions(r, t, k)
                    /\ r.cache[k].cached => r.cache[k].v.content <= t[k].v.content
  BY DEF VersionInv
<1> DEFINE first == b.queue[1]
           now == r.cache[m].v
<1>1. /\ QueueVersions(b, t, k) /\ StoredVersions(b, t, k)
      /\ b.cache[k].cached => b.cache[k].v.content <= t[k].v.content
  BY DEF VersionInv
<1>2. /\ Len(b.queue) \in Nat /\ Len(b.stored) \in Nat /\ Len(r.queue) \in Nat /\ Len(r.stored) \in Nat
      /\ 1 \in 1..Len(b.queue) /\ r \in Bundles
  BY BundleType, PassedShape
<1>3. t[k].v \in Version /\ t[k].v.content \in Nat /\ t[k].v.markup \in Nat
  BY ToldType, VersionType
<1>4. /\ \A i \in 1..Len(b.stored) : b.stored[i].v.content \in Nat /\ b.stored[i].v.markup \in Nat
      /\ \A i \in 1..Len(b.queue) : b.queue[i].v.content \in Nat /\ b.queue[i].v.markup \in Nat
  BY BundleType, VersionType
<1>5. b.cache[m].cached => b.cache[m].v.content \in Nat
  BY BundleType, CacheType, VersionType
<1>6. /\ now.markup = first.v.markup
      /\ now.content = IF b.cache[m].cached THEN b.cache[m].v.content ELSE first.v.content
      /\ r.cache[m].cached
      /\ \A l \in Message : l # m => r.cache[l] = b.cache[l]
  BY DEF Passed
<1>7. /\ first.v.content \in Nat /\ first.v.markup \in Nat /\ first.m = m
      /\ now.content \in Nat /\ now.markup \in Nat
  BY <1>2, <1>4, <1>5, <1>6
\* What is in the cache now lies between what was stored and what TDLib told.
<1>8. ASSUME k = m
      PROVE  /\ Older(first.v, t[m].v)
             /\ now.content <= t[m].v.content
             /\ \A i \in 1..Len(b.stored) : b.stored[i].m = m =>
                  b.stored[i].v.markup <= now.markup /\ b.stored[i].v.content <= now.content
  <2>1. Older(first.v, t[m].v)
    BY <1>1, <1>2, <1>8 DEF QueueVersions
  <2>2. now.content <= t[m].v.content
    BY <1>1, <1>6, <1>8, <2>1 DEF Older
  <2>3. ASSUME NEW i \in 1..Len(b.stored), b.stored[i].m = m
        PROVE  b.stored[i].v.markup <= now.markup /\ b.stored[i].v.content <= now.content
    <3>1. /\ b.stored[i].v.markup <= first.v.markup
          /\ ~b.cache[m].cached => b.stored[i].v.content <= first.v.content
      BY <1>1, <1>2, <1>8, <2>3 DEF QueueVersions
    <3>2. b.cache[m].cached => b.stored[i].v.content <= b.cache[m].v.content
      BY <1>1, <1>8, <2>3 DEF StoredVersions
    <3> QED
      BY <1>6, <3>1, <3>2
  <2> QED
    BY <2>1, <2>2, <2>3
<1>9. r.cache[k].cached => r.cache[k].v.content <= t[k].v.content
  BY <1>1, <1>6, <1>8
<1> HIDE DEF first, now
<1>10. QueueVersions(r, t, k)
  <2> SUFFICES ASSUME NEW j \in 1..Len(r.queue), r.queue[j].m = k
               PROVE  /\ Older(r.queue[j].v, t[k].v)
                      /\ \A i \in 1..j-1 : r.queue[i].m = k => Older(r.queue[i].v, r.queue[j].v)
                      /\ \A i \in 1..Len(r.stored) : r.stored[i].m = k =>
                           /\ r.stored[i].v.markup <= r.queue[j].v.markup
                           /\ ~r.cache[k].cached => r.stored[i].v.content <= r.queue[j].v.content
    BY DEF QueueVersions
  <2>1. j + 1 \in 1..Len(b.queue) /\ r.queue[j] = b.queue[j + 1] /\ 1 \in 1..(j + 1) - 1
    BY <1>2, PassedShape
  <2>2. Older(r.queue[j].v, t[k].v)
    BY <1>1, <2>1 DEF QueueVersions
  <2>3. ASSUME NEW i \in 1..j-1, r.queue[i].m = k
        PROVE  Older(r.queue[i].v, r.queue[j].v)
    <3>1. i \in 1..Len(r.queue) /\ i + 1 \in 1..(j + 1) - 1
      BY <1>2
    <3>2. r.queue[i] = b.queue[i + 1]
      BY <3>1, PassedShape
    <3> QED
      BY <1>1, <2>1, <2>3, <3>1, <3>2 DEF QueueVersions
  <2>4. ASSUME NEW i \in 1..Len(r.stored), r.stored[i].m = k
        PROVE  /\ r.stored[i].v.markup <= r.queue[j].v.markup
               /\ ~r.cache[k].cached => r.stored[i].v.content <= r.queue[j].v.content
    <3>1. CASE i \in 1..Len(b.stored)
      <4>1. r.stored[i] = b.stored[i]
        BY <3>1, PassedShape
      <4>2. /\ b.stored[i].v.markup <= b.queue[j + 1].v.markup
            /\ ~b.cache[k].cached => b.stored[i].v.content <= b.queue[j + 1].v.content
        BY <1>1, <2>1, <2>4, <3>1, <4>1 DEF QueueVersions
      <4> QED
        BY <1>6, <2>1, <4>1, <4>2
    <3>2. CASE i \notin 1..Len(b.stored)
      <4>1. r.stored[i].m = m /\ r.stored[i].v = now
        <5>1. Len(r.stored) # Len(b.stored)
          BY <3>2
        <5>2. /\ r.stored[Len(r.stored)].m = m /\ r.stored[Len(r.stored)].v = r.cache[m].v
              /\ i # Len(r.stored) => i \in 1..Len(b.stored)
          BY <5>1, PassedShape
        <5> QED
          BY <3>2, <5>2 DEF now
      <4>2. Older(b.queue[1].v, b.queue[j + 1].v)
        BY <1>1, <1>7, <2>1, <2>4, <4>1 DEF QueueVersions, first
      <4> QED
        BY <1>6, <2>1, <2>4, <4>1, <4>2 DEF Older, first
    <3> QED
      BY <3>1, <3>2
  <2> QED
    BY <2>2, <2>3, <2>4
<1>11. StoredVersions(r, t, k)
  <2> SUFFICES ASSUME NEW j \in 1..Len(r.stored), r.stored[j].m = k
               PROVE  /\ Older(r.stored[j].v, t[k].v)
                      /\ r.cache[k].cached => r.stored[j].v.content <= r.cache[k].v.content
                      /\ \A i \in 1..j-1 : r.stored[i].m = k => Older(r.stored[i].v, r.stored[j].v)
    BY DEF StoredVersions
  <2>1. CASE j \in 1..Len(b.stored)
    <3>1. r.stored[j] = b.stored[j]
      BY <2>1, PassedShape
    <3>2. /\ Older(b.stored[j].v, t[k].v)
          /\ b.cache[k].cached => b.stored[j].v.content <= b.cache[k].v.content
          /\ \A i \in 1..j-1 : b.stored[i].m = k => Older(b.stored[i].v, b.stored[j].v)
      BY <1>1, <2>1, <3>1 DEF StoredVersions
    <3>3. r.cache[k].cached => r.stored[j].v.content <= r.cache[k].v.content
      BY <1>6, <1>8, <2>1, <3>1, <3>2 DEF now
    <3>4. ASSUME NEW i \in 1..j-1, r.stored[i].m = k
          PROVE  Older(r.stored[i].v, r.stored[j].v)
      <4>1. i \in 1..Len(b.stored)
        BY <1>2, <2>1
      <4>2. r.stored[i] = b.stored[i]
        BY <4>1, PassedShape
      <4> QED
        BY <3>1, <3>2, <3>4, <4>2
    <3> QED
      BY <3>1, <3>2, <3>3, <3>4
  <2>2. CASE j \notin 1..Len(b.stored)
    <3>1. r.stored[j].m = m /\ r.stored[j].v = now /\ j = Len(r.stored) /\ Len(r.stored) = Len(b.stored) + 1
      BY <2>2, PassedShape DEF now
    <3>2. k = m /\ Older(now, t[k].v)
      BY <1>6, <1>8, <3>1 DEF Older
    <3>3. r.stored[j].v.content <= r.cache[k].v.content
      <4>1. r.cache[k].v = now /\ now.content \in Nat
        BY <1>7, <3>2 DEF now
      <4> QED
        BY <3>1, <4>1
    <3>4. ASSUME NEW i \in 1..j-1, r.stored[i].m = k
          PROVE  Older(r.stored[i].v, r.stored[j].v)
      <4>1. i \in 1..Len(b.stored)
        BY <1>2, <3>1
      <4>2. r.stored[i] = b.stored[i]
        BY <4>1, PassedShape
      <4> QED
        BY <1>8, <3>1, <3>2, <3>4, <4>1, <4>2 DEF Older
    <3> QED
      BY <3>1, <3>2, <3>3, <3>4
  <2> QED
    BY <2>1, <2>2
<1> QED
  BY <1>9, <1>10, <1>11

\* The last update about a message stays so, unless a later one about it is stored.
LEMMA LastOfPassed ==
  ASSUME NEW b \in Bundles, b.queue # <<>>, NEW r, NEW m \in Message, m = b.queue[1].m, Passed(b, r, m),
         NEW k \in Message, NEW i \in Int
  PROVE  /\ (k # m \/ r.stored = b.stored) =>
              /\ IsLast(b.stored, k, i) => IsLast(r.stored, k, i)
              /\ IsLast(r.stored, k, i) => IsLast(b.stored, k, i) /\ r.stored[i] = b.stored[i]
         /\ r.stored # b.stored => (IsLast(r.stored, m, i) <=> i = Len(r.stored))
<1>1. Len(b.stored) \in Nat /\ Len(r.stored) \in Nat
  BY BundleType, PassedShape
<1>2. CASE r.stored = b.stored
  BY <1>2
<1>3. CASE r.stored # b.stored
  <2>1. /\ Len(r.stored) = Len(b.stored) + 1 /\ r.stored[Len(r.stored)].m = m
        /\ \A n \in 1..Len(b.stored) : n \in 1..Len(r.stored) /\ r.stored[n] = b.stored[n]
    <3>1. \E x \in Item : r.stored = Append(b.stored, x)
      BY <1>3 DEF Passed
    <3>2. Len(r.stored) = Len(b.stored) + 1
      BY <3>1, BundleType, AppendProperties
    <3> QED
      BY <1>1, <3>2, PassedShape
  <2>2. IsLast(r.stored, m, i) <=> i = Len(r.stored)
    <3>1. ASSUME IsLast(r.stored, m, i), i # Len(r.stored) PROVE FALSE
      <4>1. Len(r.stored) \in i+1..Len(r.stored)
        BY <1>1, <3>1 DEF IsLast
      <4> QED
        BY <2>1, <3>1, <4>1 DEF IsLast
    <3>2. ASSUME i = Len(r.stored) PROVE IsLast(r.stored, m, i)
      <4>1. i \in 1..Len(r.stored) /\ i+1..Len(r.stored) = {}
        BY <1>1, <2>1, <3>2
      <4> QED
        BY <2>1, <3>2, <4>1 DEF IsLast
    <3> QED
      BY <3>1, <3>2
  <2>3. ASSUME k # m
        PROVE  /\ IsLast(b.stored, k, i) => IsLast(r.stored, k, i)
               /\ IsLast(r.stored, k, i) => IsLast(b.stored, k, i) /\ r.stored[i] = b.stored[i]
    <3>1. ASSUME IsLast(r.stored, k, i) PROVE IsLast(b.stored, k, i) /\ r.stored[i] = b.stored[i]
      <4>1. i \in 1..Len(b.stored)
        BY <1>1, <2>1, <2>3, <3>1 DEF IsLast
      <4>2. \A n \in i+1..Len(b.stored) : n \in i+1..Len(r.stored) /\ n \in 1..Len(b.stored)
        BY <1>1, <2>1, <4>1
      <4> QED
        BY <2>1, <3>1, <4>1, <4>2 DEF IsLast
    <3>2. ASSUME IsLast(b.stored, k, i) PROVE IsLast(r.stored, k, i)
      <4>1. i \in 1..Len(b.stored) /\ i \in 1..Len(r.stored)
        BY <2>1, <3>2 DEF IsLast
      <4>2. \A n \in i+1..Len(r.stored) :
              n = Len(r.stored) \/ (n \in i+1..Len(b.stored) /\ n \in 1..Len(b.stored))
        BY <1>1, <2>1, <4>1
      <4> QED
        BY <2>1, <2>3, <3>2, <4>1, <4>2 DEF IsLast
    <3> QED
      BY <3>1, <3>2
  <2> QED
    BY <1>3, <2>2, <2>3
<1> QED
  BY <1>2, <1>3

LEMMA LastIsOne ==
  ASSUME NEW s, Len(s) \in Nat, NEW m, NEW i, NEW k, IsLast(s, m, i), IsLast(s, m, k)
  PROVE  i = k
<1>1. i \in Int /\ k \in Int /\ (i < k => k \in i+1..Len(s)) /\ (k < i => i \in k+1..Len(s))
  BY DEF IsLast
<1> QED
  BY <1>1 DEF IsLast

LEMMA PassedUnchanged ==
  ASSUME NEW b \in Bundles, b.queue # <<>>, NEW r, NEW m \in Message, m = b.queue[1].m, Passed(b, r, m),
         UnchangedInv(b)
  PROVE  UnchangedInv(r)
<1> SUFFICES ASSUME NEW k \in Message, r.cache[k].cached, ~r.cache[k].changed
             PROVE  \E i \in 1..Len(r.stored) : IsLast(r.stored, k, i) /\ r.stored[i].v = r.cache[k].v
  BY DEF UnchangedInv
<1>1. /\ Len(b.stored) \in Nat /\ Len(r.stored) \in Nat /\ r \in Bundles
      /\ \A i \in 1..Len(b.stored) : i \in 1..Len(r.stored) /\ r.stored[i] = b.stored[i]
  BY BundleType, PassedShape
<1>2. ASSUME k # m \/ r.stored = b.stored,
             b.cache[k].cached, ~b.cache[k].changed, r.cache[k].v = b.cache[k].v
      PROVE  \E i \in 1..Len(r.stored) : IsLast(r.stored, k, i) /\ r.stored[i].v = r.cache[k].v
  <2>1. PICK i \in 1..Len(b.stored) : IsLast(b.stored, k, i) /\ b.stored[i].v = b.cache[k].v
    BY <1>2 DEF UnchangedInv
  <2>2. i \in Int /\ i \in 1..Len(r.stored) /\ r.stored[i] = b.stored[i]
    BY <1>1, <2>1
  <2>3. (k # m \/ r.stored = b.stored) => (IsLast(b.stored, k, i) => IsLast(r.stored, k, i))
    BY <2>2, LastOfPassed
  <2>4. IsLast(r.stored, k, i)
    BY <1>2, <2>1, <2>3
  <2> QED
    BY <1>2, <2>1, <2>2, <2>4
<1>3. CASE k # m
  BY <1>2, <1>3 DEF Passed
<1>4. CASE k = m /\ r.stored = b.stored
  <2>1. /\ r.cache[m].changed <=>
             (b.cache[m].cached => b.cache[m].changed \/ b.cache[m].v.markup # b.queue[1].v.markup)
        /\ r.cache[m].v.markup = b.queue[1].v.markup
        /\ r.cache[m].v.content = IF b.cache[m].cached THEN b.cache[m].v.content ELSE b.queue[1].v.content
    <3>1. ~ \E x \in Item : r.stored = Append(b.stored, x)
      <4> SUFFICES ASSUME NEW x \in Item, r.stored = Append(b.stored, x) PROVE FALSE
        OBVIOUS
      <4>1. Len(r.stored) = Len(b.stored) + 1
        BY BundleType, AppendProperties
      <4> QED
        BY <1>1, <1>4, <4>1
    <3> QED
      BY <3>1 DEF Passed
  <2>2. /\ b.cache[m].cached /\ ~b.cache[m].changed
        /\ r.cache[m].v.markup = b.cache[m].v.markup /\ r.cache[m].v.content = b.cache[m].v.content
    BY <1>4, <2>1
  <2>3. b.cache[m].v \in Version /\ r.cache[m].v \in Version
    <3>1. b.cache \in Caches /\ r.cache \in Caches
      BY <1>1, BundleType
    <3>2. b.cache[m].cached /\ r.cache[m].cached
      BY <1>4, <2>2
    <3>3. b.cache[m].v \in Version
      BY <3>1, <3>2, CacheType
    <3>4. r.cache[m].v \in Version
      BY <3>1, <3>2, CacheType
    <3> QED
      BY <3>3, <3>4
  <2>4. r.cache[m].v = b.cache[m].v
    BY <2>2, <2>3, VersionType
  <2> QED
    BY <1>2, <1>4, <2>2, <2>4
<1>5. CASE k = m /\ r.stored # b.stored
  <2>1. Len(r.stored) # Len(b.stored)
    <3>1. \E x \in Item : r.stored = Append(b.stored, x)
      BY <1>5 DEF Passed
    <3> QED
      BY <1>1, <3>1, BundleType, AppendProperties
  <2>2. Len(r.stored) \in 1..Len(r.stored) /\ r.stored[Len(r.stored)].v = r.cache[m].v
    BY <2>1, PassedShape
  <2>3. PICK i \in Int : i = Len(r.stored)
    BY <1>1
  <2>4. IsLast(r.stored, m, i)
    BY <1>5, <2>3, LastOfPassed
  <2> QED
    BY <1>5, <2>2, <2>3, <2>4
<1> QED
  BY <1>3, <1>4, <1>5

\* When the last version of the front message passes, the bot has been told of it.
LEMMA PassedIsTold ==
  ASSUME NEW b \in Bundles, b.queue # <<>>, NEW r, NEW m \in Message, m = b.queue[1].m, Passed(b, r, m),
         NEW t \in Tellings, t[m].state = "known", b.queue[1].v = t[m].v,
         AnnouncedInv(b, t), VersionInv(b, t), UnchangedInv(r)
  PROVE  Fresh(r, t, m)
<1>1. /\ Len(b.stored) \in Nat /\ Len(r.stored) \in Nat /\ r \in Bundles
  BY BundleType, PassedShape
<1>2. t[m].v.content \in Nat /\ (b.cache[m].cached => b.cache[m].v.content \in Nat)
  BY ToldType, VersionType, BundleType, CacheType
<1>3. /\ r.cache[m].v.markup = t[m].v.markup
      /\ m \notin r.stale => r.cache[m].v.content = t[m].v.content
  <2>1. b.cache[m].cached => b.cache[m].v.content <= t[m].v.content
    BY DEF VersionInv
  <2>2. /\ r.cache[m].v.markup = b.queue[1].v.markup
        /\ r.cache[m].v.content = IF b.cache[m].cached THEN b.cache[m].v.content ELSE b.queue[1].v.content
        /\ b.cache[m].cached /\ b.cache[m].v.content < b.queue[1].v.content => m \in r.stale
    BY DEF Passed
  <2> QED
    BY <1>2, <2>1, <2>2
<1>4. ASSUME m \notin r.skipped, NEW i \in 1..Len(r.stored), IsLast(r.stored, m, i)
      PROVE  r.stored[i].v = r.cache[m].v
  <2>1. CASE r.stored # b.stored
    <3>1. Len(r.stored) # Len(b.stored)
      <4>1. \E x \in Item : r.stored = Append(b.stored, x)
        BY <2>1 DEF Passed
      <4> QED
        BY <1>1, <4>1, BundleType, AppendProperties
    <3>2. r.stored[Len(r.stored)].v = r.cache[m].v
      BY <3>1, PassedShape
    <3>3. i = Len(r.stored)
      BY <1>1, <1>4, <2>1, LastOfPassed
    <3> QED
      BY <3>2, <3>3
  <2>2. CASE r.stored = b.stored
    <3>1. ~r.cache[m].changed /\ r.cache[m].cached
      BY <1>4 DEF Passed
    <3>2. PICK k \in 1..Len(r.stored) : IsLast(r.stored, m, k) /\ r.stored[k].v = r.cache[m].v
      BY <3>1 DEF UnchangedInv
    <3>3. i = k
      BY <1>1, <1>4, <3>2, LastIsOne
    <3> QED
      BY <3>2, <3>3
  <2> QED
    BY <2>1, <2>2
<1> QED
  BY <1>3, <1>4 DEF Fresh

LEMMA PassedArrive ==
  ASSUME NEW b \in Bundles, b.queue # <<>>, NEW r, NEW m \in Message, m = b.queue[1].m, Passed(b, r, m),
         NEW t \in Tellings, NEW e, NEW u,
         AnnouncedInv(b, t), VersionInv(b, t), UnchangedInv(r), ArriveInv(b, t, e, u)
  PROVE  ArriveInv(r, t, e, u)
<1> SUFFICES ASSUME NEW k \in Message, t[k].state = "known"
             PROVE  u = k \/ e[k] > 0 \/ WaitsWith(r, k, t[k].v) \/ (~Waits(r, k) /\ Fresh(r, t, k))
  BY DEF ArriveInv, Arrives
<1>1. /\ Len(b.stored) \in Nat /\ Len(r.stored) \in Nat /\ Len(b.queue) \in Nat /\ Len(r.queue) \in Nat
      /\ r \in Bundles /\ 1 \in 1..Len(b.queue)
  BY BundleType, PassedShape
<1>2. u = k \/ e[k] > 0 \/ WaitsWith(b, k, t[k].v) \/ (~Waits(b, k) /\ Fresh(b, t, k))
  BY DEF ArriveInv, Arrives
<1>3. ASSUME NEW j \in 2..Len(b.queue), b.queue[j].m = k, b.queue[j].v = t[k].v
      PROVE  WaitsWith(r, k, t[k].v)
  <2>1. j - 1 \in 1..Len(r.queue) /\ r.queue[j - 1] = b.queue[j]
    BY PassedShape
  <2> QED
    BY <1>3, <2>1 DEF WaitsWith
<1>4. CASE WaitsWith(b, k, t[k].v)
  <2>1. PICK j \in 1..Len(b.queue) : b.queue[j].m = k /\ b.queue[j].v = t[k].v
    BY <1>4 DEF WaitsWith
  <2>2. CASE j = 1
    <3>1. k = m /\ b.queue[1].v = t[m].v
      BY <2>1, <2>2
    <3>2. CASE Waits(r, m)
      <4>1. PICK n \in 1..Len(r.queue) : r.queue[n].m = m
        BY <3>2 DEF Waits
      <4>2. /\ n + 1 \in 2..Len(b.queue) /\ n + 1 \in 1..Len(b.queue) /\ 1 \in 1..(n + 1) - 1
            /\ b.queue[n + 1].m = m
        <5>1. n + 1 \in 1..Len(b.queue) /\ r.queue[n] = b.queue[n + 1]
          BY PassedShape
        <5> QED
          BY <1>1, <4>1, <5>1
      <4>3. QueueVersions(b, t, m)
        BY <3>1 DEF VersionInv
      <4>4. Older(b.queue[n + 1].v, t[m].v) /\ Older(b.queue[1].v, b.queue[n + 1].v)
        BY <4>2, <4>3 DEF QueueVersions
      <4>5. b.queue[n + 1].v \in Version /\ t[m].v \in Version
        BY <3>1, <4>2, BundleType, ToldType
      <4>6. PICK v \in Version, w \in Version : v = b.queue[n + 1].v /\ w = t[m].v
        BY <4>5
      <4>7. Older(v, w) /\ Older(w, v)
        BY <3>1, <4>4, <4>6
      <4>8. v.content = w.content /\ v.markup = w.markup
        BY <4>7, VersionType DEF Older
      <4>9. b.queue[n + 1].v = t[m].v
        BY <4>6, <4>8, VersionType
      <4> QED
        BY <1>3, <3>1, <4>2, <4>9
    <3>3. CASE ~Waits(r, m)
      BY <3>1, <3>3, PassedIsTold
    <3> QED
      BY <3>2, <3>3
  <2>3. CASE j # 1
    <3>1. j \in 2..Len(b.queue)
      BY <1>1, <2>3
    <3> QED
      BY <1>3, <2>1, <3>1
  <2> QED
    BY <2>2, <2>3
<1>5. CASE ~Waits(b, k) /\ Fresh(b, t, k)
  <2>1. k # m
    BY <1>1, <1>5 DEF Waits
  <2>2. ~Waits(r, k)
    <3> SUFFICES ASSUME NEW j \in 1..Len(r.queue), r.queue[j].m = k PROVE FALSE
      BY DEF Waits
    <3>1. j + 1 \in 1..Len(b.queue) /\ r.queue[j] = b.queue[j + 1]
      BY PassedShape
    <3> QED
      BY <1>5, <3>1 DEF Waits
  <2>3. Fresh(r, t, k)
    <3> SUFFICES ASSUME k \notin r.skipped, NEW i \in 1..Len(r.stored), IsLast(r.stored, k, i)
                 PROVE  /\ r.stored[i].v.markup = t[k].v.markup
                        /\ k \notin r.stale => r.stored[i].v.content = t[k].v.content
      BY DEF Fresh
    <3>1. IsLast(b.stored, k, i) /\ r.stored[i] = b.stored[i]
      BY <1>1, <2>1, LastOfPassed
    <3>2. i \in 1..Len(b.stored) /\ b.stale \subseteq r.stale /\ k \notin b.skipped
      BY <2>1, <3>1 DEF IsLast, Passed
    <3> QED
      BY <1>5, <3>1, <3>2 DEF Fresh
  <2> QED
    BY <2>2, <2>3
<1> QED
  BY <1>2, <1>4, <1>5

LEMMA PassedGood ==
  ASSUME NEW b, NEW t, NEW e, NEW u, NEW closed, Good(b, t, e, u, closed), b.queue # <<>>,
         NEW untold
  PROVE  /\ Good(Finish(b, untold), t, e, u, closed)
         /\ Len(Finish(b, untold).queue) = Len(b.queue) - 1
         /\ Finish(b, untold).active = b.active /\ Finish(b, untold).lookups = b.lookups
<1> DEFINE r == Finish(b, untold)
           m == b.queue[1].m
<1>1. /\ b \in Bundles /\ t \in Tellings /\ AnnouncedInv(b, t) /\ OrderInv(b) /\ VersionInv(b, t)
      /\ UnchangedInv(b) /\ (~closed => ArriveInv(b, t, e, u))
  BY DEF Good
<1>2. Passed(b, r, m)
  BY <1>1, FinishPasses
<1>3. m \in Message
  <2>1. Len(b.queue) \in Nat /\ b.queue \in Seq(Item) /\ \A j \in 1..Len(b.queue) : b.queue[j].m \in Message
    BY <1>1, BundleType
  <2>2. Len(b.queue) # 0
    BY <2>1, EmptySeq
  <2> QED
    BY <2>1, <2>2
<1> HIDE DEF r
<1>4. r \in Bundles /\ r.active = b.active /\ r.lookups = b.lookups
  BY <1>2 DEF Passed
<1>5. Len(r.queue) = Len(b.queue) - 1
  BY <1>1, <1>2, <1>3, PassedShape
<1>6. AnnouncedInv(r, t)
  BY <1>1, <1>2, <1>3, PassedAnnounced
<1>7. OrderInv(r)
  BY <1>1, <1>2, <1>3, PassedOrder
<1>8. VersionInv(r, t)
  BY <1>1, <1>2, <1>3, PassedVersions
<1>9. UnchangedInv(r)
  BY <1>1, <1>2, <1>3, PassedUnchanged
<1>10. ~closed => ArriveInv(r, t, e, u)
  BY <1>1, <1>2, <1>3, <1>9, PassedArrive
<1>11. Good(r, t, e, u, closed)
  BY <1>1, <1>4, <1>6, <1>7, <1>8, <1>9, <1>10 DEF Good
<1> QED
  BY <1>4, <1>5, <1>11 DEF r

-----------------------------------------------------------------------------
(* The loop of process_new_message_queue.                                  *)

\* The function After exists: for every number k, a function lets k messages pass.
LEMMA AfterWorks ==
  ASSUME NEW b, NEW untold, Len(b.queue) \in Nat
  PROVE  /\ After(b, untold)[0] = b
         /\ \A n \in 1..Len(b.queue) : After(b, untold)[n] = Finish(After(b, untold)[n - 1], n \in untold)
<1> DEFINE N == Len(b.queue)
           step(f, n) == IF n = 0 THEN b ELSE Finish(f[n - 1], n \in untold)
           Passes(k, f) == f = [n \in 0..k |-> step(f, n)]
           T == {k \in 0..N : ~ \E f : Passes(k, f)}
<1>1. After(b, untold) = CHOOSE f : Passes(N, f)
  BY DEF After
<1>2. N \in Nat /\ T \subseteq Nat
  OBVIOUS
<1> HIDE DEF N
<1>3. T = {}
  <2> SUFFICES ASSUME T # {} PROVE FALSE
    OBVIOUS
  <2>1. \E n \in T : \A k \in T : n <= k
    BY <1>2, LeastNumber
  <2>2. PICK k \in T : \A j \in T : k <= j
    BY <2>1
  <2>3. k \in 0..N /\ ~ \E f : Passes(k, f)
    BY <2>2
  <2>4. CASE k = 0
    <3> DEFINE f == [n \in 0..0 |-> b]
    <3>1. f = [n \in 0..0 |-> step(f, n)]
      <4>1. \A n \in 0..0 : step(f, n) = b
        OBVIOUS
      <4> QED
        BY <4>1
    <3>2. Passes(0, f)
      BY <3>1
    <3> QED
      BY <2>3, <2>4, <3>2
  <2>5. CASE k # 0
    <3>1. k - 1 \in 0..N /\ ~(k <= k - 1) /\ k \in Nat
      BY <1>2, <2>3, <2>5
    <3>2. k - 1 \notin T
      BY <2>2, <3>1
    <3>3. PICK f : Passes(k - 1, f)
      BY <3>1, <3>2
    <3> DEFINE g == [n \in 0..k |-> IF n < k THEN f[n] ELSE Finish(f[k - 1], k \in untold)]
    <3>4. ASSUME NEW n \in 0..k PROVE g[n] = step(g, n)
      <4>1. CASE n = k
        <5>1. g[k] = Finish(f[k - 1], k \in untold) /\ g[k - 1] = f[k - 1]
          BY <3>1
        <5> QED
          BY <2>5, <4>1, <5>1
      <4>2. CASE n # k
        <5>1. n \in 0..k-1 /\ n < k /\ g[n] = f[n]
          BY <3>1, <4>2
        <5>2. f[n] = step(f, n)
          BY <3>3, <5>1
        <5>3. n # 0 => g[n - 1] = f[n - 1]
          BY <3>1, <5>1
        <5> QED
          BY <5>1, <5>2, <5>3
      <4> QED
        BY <4>1, <4>2
    <3>5. g = [n \in 0..k |-> step(g, n)]
      <4>1. g = [n \in 0..k |-> g[n]]
        OBVIOUS
      <4> HIDE DEF g, step
      <4> QED
        BY <3>4, <4>1
    <3>6. Passes(k, g)
      BY <3>5
    <3> QED
      BY <2>3, <3>6
  <2> QED
    BY <2>4, <2>5
<1>4. \E f : Passes(N, f)
  BY <1>2, <1>3
<1>5. Passes(N, After(b, untold))
  BY <1>1, <1>4
<1> HIDE DEF Passes, step
<1>6. \A n \in 0..N : After(b, untold)[n] = step(After(b, untold), n)
  BY <1>5 DEF Passes
<1>7. ASSUME NEW n \in 1..N PROVE After(b, untold)[n] = Finish(After(b, untold)[n - 1], n \in untold)
  <2>1. n \in 0..N /\ n # 0
    BY <1>2
  <2> QED
    BY <1>6, <2>1 DEF step
<1>8. After(b, untold)[0] = b
  BY <1>2, <1>6 DEF step
<1> QED
  BY <1>7, <1>8 DEF N

LEMMA GoodAfter ==
  ASSUME NEW b, NEW t, NEW e, NEW u, NEW closed, Good(b, t, e, u, closed),
         NEW untold
  PROVE  \A n \in 0..Len(b.queue) :
           /\ Good(After(b, untold)[n], t, e, u, closed)
           /\ Len(After(b, untold)[n].queue) = Len(b.queue) - n
           /\ After(b, untold)[n].active = b.active /\ After(b, untold)[n].lookups = b.lookups
<1> DEFINE a(n) == After(b, untold)[n]
           N == Len(b.queue)
           Fine(n) == /\ Good(a(n), t, e, u, closed) /\ Len(a(n).queue) = N - n
                      /\ a(n).active = b.active /\ a(n).lookups = b.lookups
           T == {n \in 0..N : ~Fine(n)}
<1>1. b \in Bundles /\ N \in Nat
  BY BundleType DEF Good
<1>2. a(0) = b /\ \A n \in 1..N : a(n) = Finish(a(n - 1), n \in untold)
  BY <1>1, AfterWorks
<1>3. T \subseteq Nat
  BY <1>1
<1> HIDE DEF a, N
<1>4. T = {}
  <2> SUFFICES ASSUME T # {} PROVE FALSE
    OBVIOUS
  <2>1. \E n \in T : \A k \in T : n <= k
    BY <1>3, LeastNumber
  <2>2. PICK n \in T : \A k \in T : n <= k
    BY <2>1
  <2>3. n \in 0..N /\ ~Fine(n)
    BY <2>2
  <2>4. CASE n = 0
    <3>1. Fine(0)
      BY <1>1, <1>2 DEF N
    <3> QED
      BY <2>3, <2>4, <3>1
  <2>5. CASE n # 0
    <3>1. n - 1 \in 0..N /\ n \in 1..N /\ ~(n <= n - 1) /\ n \in Nat
      BY <1>1, <2>3, <2>5
    <3>2. n - 1 \notin T
      BY <2>2, <3>1
    <3>3. Fine(n - 1)
      BY <3>1, <3>2
    <3>4. PICK c : c = a(n - 1)
      OBVIOUS
    <3>5. /\ Good(c, t, e, u, closed) /\ Len(c.queue) = N - (n - 1)
          /\ c.active = b.active /\ c.lookups = b.lookups
      BY <3>3, <3>4
    <3>6. c.queue # <<>>
      <4>1. Len(c.queue) # 0
        BY <1>1, <3>1, <3>5
      <4> QED
        BY <4>1, EmptySeq
    <3>7. /\ Good(Finish(c, n \in untold), t, e, u, closed) /\ Len(Finish(c, n \in untold).queue) = Len(c.queue) - 1
          /\ Finish(c, n \in untold).active = c.active /\ Finish(c, n \in untold).lookups = c.lookups
      BY <3>5, <3>6, PassedGood
    <3>8. a(n) = Finish(c, n \in untold)
      BY <1>2, <3>1, <3>4
    <3>9. Len(a(n).queue) = N - n
      BY <1>1, <3>1, <3>5, <3>7, <3>8
    <3>10. Fine(n)
      BY <3>5, <3>7, <3>8, <3>9
    <3> QED
      BY <2>3, <3>10
  <2> QED
    BY <2>4, <2>5
<1>5. \A n \in 0..N : Fine(n)
  BY <1>4
<1> QED
  BY <1>5 DEF N, a

\* has_active_request_ and the lookups of a queue fit its front message.
FrontFits(b) ==
  /\ b.active <=> b.queue # <<>>
  /\ b.active <=> b.lookups # {}
  /\ b.lookups = {} \/ b.lookups = {"reply"} \/ b.lookups = {"stickers"}
  /\ "reply" \in b.lookups => ReplyTo[Head(b.queue).m] # 0

\* Good does not depend on has_active_request_ and on the lookups.
LEMMA GoodSame ==
  ASSUME NEW b, NEW t, NEW e, NEW u, NEW closed, Good(b, t, e, u, closed), NEW r \in Bundles,
         r.queue = b.queue, r.cache = b.cache, r.stored = b.stored, r.stale = b.stale,
         r.skipped = b.skipped
  PROVE  Good(r, t, e, u, closed)
  BY DEF Good, AnnouncedInv, OrderInv, VersionInv, QueueVersions, StoredVersions, UnchangedInv,
         ArriveInv, Arrives, Waits, WaitsWith, Fresh

LEMMA RunQueueGood ==
  ASSUME NEW b, NEW t, NEW e, NEW u, NEW closed, Good(b, t, e, u, closed), b.lookups = {},
         NEW untold, NEW state \in 0..2
  PROVE  Good(RunQueue(b, untold, state), t, e, u, closed) /\ FrontFits(RunQueue(b, untold, state))
<1> DEFINE N == Len(b.queue)
           Stops(n) == n = N \/ LookupAfter(b, untold, state, n) # "none"
           First(n) == /\ Stops(n)
                       /\ \A k \in 0..n-1 : LookupAfter(b, untold, state, k) = "none"
           T == {n \in 0..N : Stops(n)}
<1>1. b \in Bundles /\ N \in Nat
  BY BundleType DEF Good
<1>2. \E n \in 0..N : First(n)
  <2>1. T \subseteq Nat /\ N \in T
    BY <1>1
  <2>2. \E n \in T : \A k \in T : n <= k
    BY <2>1, LeastNumber
  <2>3. PICK n \in T : \A k \in T : n <= k
    BY <2>2
  <2>4. ASSUME NEW k \in 0..n-1 PROVE LookupAfter(b, untold, state, k) = "none"
    <3>1. k \in 0..N /\ ~(n <= k)
      BY <1>1, <2>3
    <3>2. k \notin T
      BY <2>3, <3>1
    <3> QED
      BY <3>1, <3>2
  <2> QED
    BY <2>3, <2>4
<1> DEFINE stop == CHOOSE n \in 0..N : First(n)
<1>3. stop \in 0..N /\ Stops(stop)
  BY <1>2
<1> DEFINE need == LookupAfter(b, untold, state, stop)
           a == After(b, untold)[stop]
           res == [a EXCEPT !.active = (stop < N), !.lookups = @ \cup ({need} \ {"none"})]
<1>4. RunQueue(b, untold, state) = res
  BY DEF RunQueue
<1> HIDE DEF stop
<1>5. /\ Good(a, t, e, u, closed) /\ Len(a.queue) = N - stop /\ a.lookups = {}
  <2>1. \A n \in 0..Len(b.queue) :
          /\ Good(After(b, untold)[n], t, e, u, closed)
          /\ Len(After(b, untold)[n].queue) = Len(b.queue) - n
          /\ After(b, untold)[n].active = b.active /\ After(b, untold)[n].lookups = b.lookups
    BY GoodAfter
  <2> QED
    BY <1>3, <2>1
<1>6. a \in Bundles
  BY <1>5 DEF Good
<1>7. /\ stop = N => need = "none"
      /\ stop < N => need \in Lookup /\ (need = "reply" => ReplyTo[Head(a.queue).m] # 0)
  <2>1. CASE stop = N
    BY <2>1 DEF LookupAfter
  <2>2. CASE stop < N
    <3>1. PICK s : s = IF stop = 0 THEN state ELSE 0
      OBVIOUS
    <3>2. need = Needed(a, s) /\ need # "none"
      BY <1>1, <1>3, <2>2, <3>1 DEF LookupAfter
    <3>3. Needed(a, s) = "reply" \/ Needed(a, s) = "stickers" \/ Needed(a, s) = "none"
      BY DEF Needed
    <3>4. Needed(a, s) = "reply" => ReplyTo[Head(a.queue).m] # 0
      BY DEF Needed
    <3>5. ~(stop = N)
      BY <1>1, <1>3, <2>2
    <3> QED
      BY <3>2, <3>3, <3>4, <3>5 DEF Lookup
  <2> QED
    BY <1>1, <1>3, <2>1, <2>2
<1> HIDE DEF need, a
<1>8. (stop < N) \in BOOLEAN /\ {need} \ {"none"} \in SUBSET Lookup /\ (stop < N <=> stop # N)
  BY <1>1, <1>3, <1>7
<1>9. /\ res \in Bundles /\ res.queue = a.queue /\ res.cache = a.cache /\ res.stored = a.stored
      /\ res.stale = a.stale /\ res.skipped = a.skipped /\ (res.active <=> stop < N) /\ res.lookups = {need} \ {"none"}
  BY <1>5, <1>6, <1>8 DEF Bundles
<1> HIDE DEF res
<1>10. Good(res, t, e, u, closed)
  BY <1>5, <1>9, GoodSame
<1>11. a.queue # <<>> <=> stop < N
  <2>1. Len(a.queue) = 0 <=> stop = N
    BY <1>1, <1>3, <1>5
  <2>2. a.queue \in Seq(Item)
    BY <1>6, BundleType
  <2>3. Len(a.queue) = 0 <=> a.queue = <<>>
    BY <2>2, EmptySeq
  <2> QED
    BY <1>8, <2>1, <2>3
<1>12. FrontFits(res)
  <2>1. CASE stop < N
    BY <1>7, <1>9, <1>11, <2>1 DEF FrontFits, Lookup
  <2>2. CASE ~(stop < N)
    BY <1>7, <1>8, <1>9, <1>11, <2>2 DEF FrontFits
  <2> QED
    BY <2>1, <2>2
<1> QED
  BY <1>4, <1>10, <1>12

LEMMA ProcessQueueGood ==
  ASSUME NEW b, NEW t, NEW e, NEW u, Good(b, t, e, u, closing), closing \in BOOLEAN, NEW untold, NEW state \in 0..2,
         b.active /\ state = 0 => FrontFits(b),
         ~(b.active /\ state = 0) => b.lookups = {}
  PROVE  /\ Good(ProcessQueue(b, untold, state), t, e, u, closing) /\ FrontFits(ProcessQueue(b, untold, state))
<1> DEFINE none == [b EXCEPT !.queue = <<>>, !.active = FALSE]
           idle == [b EXCEPT !.active = FALSE]
<1>1. b \in Bundles /\ t \in Tellings
  BY DEF Good
<1>2. CASE b.active /\ state = 0
  BY <1>2 DEF ProcessQueue
<1>3. CASE ~(b.active /\ state = 0) /\ closing
  <2>1. ProcessQueue(b, untold, state) = none
    BY <1>3 DEF ProcessQueue
  <2>2. <<>> \in Seq(Item) /\ Len(<<>>) = 0
    BY EmptySeq
  <2>3. /\ none \in Bundles /\ none.queue = <<>> /\ none.active = FALSE /\ none.lookups = {}
        /\ none.cache = b.cache /\ none.stored = b.stored
    BY <1>1, <1>3, <2>2 DEF Bundles
  <2> HIDE DEF none
  <2>4. AnnouncedInv(b, t) /\ OrderInv(b) /\ VersionInv(b, t) /\ UnchangedInv(b)
    BY DEF Good
  <2>5. AnnouncedInv(none, t) /\ OrderInv(none) /\ UnchangedInv(none)
    BY <2>2, <2>3, <2>4 DEF AnnouncedInv, OrderInv, UnchangedInv
  <2>6. VersionInv(none, t)
    BY <2>2, <2>3, <2>4 DEF VersionInv, QueueVersions, StoredVersions
  <2>7. FrontFits(none)
    BY <2>3 DEF FrontFits
  <2> QED
    BY <1>1, <1>3, <2>1, <2>3, <2>5, <2>6, <2>7 DEF Good
<1>4. CASE ~(b.active /\ state = 0) /\ ~closing
  <2>1. ProcessQueue(b, untold, state) = RunQueue(idle, untold, state)
    BY <1>4 DEF ProcessQueue
  <2>2. /\ idle \in Bundles /\ idle.queue = b.queue /\ idle.lookups = {}
        /\ idle.cache = b.cache /\ idle.stored = b.stored /\ idle.stale = b.stale
        /\ idle.skipped = b.skipped
    BY <1>1, <1>4 DEF Bundles
  <2> HIDE DEF idle
  <2>3. Good(idle, t, e, u, closing)
    BY <2>2, GoodSame
  <2> QED
    BY <2>1, <2>2, <2>3, RunQueueGood
<1> QED
  BY <1>2, <1>3, <1>4

-----------------------------------------------------------------------------
(* What the handlers do before the loop.                                   *)

\* TDLib tells of a message that nothing was known of.
LEMMA TellGood ==
  ASSUME NEW b, NEW t, NEW e, NEW u, NEW closed, Good(b, t, e, u, closed),
         NEW m \in Message, t[m].state = "unknown",
         NEW s \in Tellings, s[m].state = "known", \A k \in Message : k # m => s[k] = t[k]
  PROVE  Good(b, s, e, u, closed)
<1>1. /\ b \in Bundles /\ t \in Tellings /\ AnnouncedInv(b, t) /\ OrderInv(b) /\ VersionInv(b, t)
      /\ UnchangedInv(b) /\ (~closed => ArriveInv(b, t, e, u))
  BY DEF Good
<1>2. /\ \A i \in 1..Len(b.stored) : b.stored[i].m \in Message /\ b.stored[i].m # m
      /\ \A j \in 1..Len(b.queue) : b.queue[j].m \in Message /\ b.queue[j].m # m
      /\ ~b.cache[m].cached
  BY <1>1, BundleType, CacheType DEF AnnouncedInv
<1>3. AnnouncedInv(b, s)
  BY <1>1, <1>2 DEF AnnouncedInv
<1>4. ASSUME NEW k \in Message, s[k].state = "known"
      PROVE  /\ QueueVersions(b, s, k) /\ StoredVersions(b, s, k)
             /\ b.cache[k].cached => b.cache[k].v.content <= s[k].v.content
  <2>1. CASE k = m
    BY <1>2, <2>1 DEF QueueVersions, StoredVersions
  <2>2. CASE k # m
    <3>1. s[k] = t[k]
      BY <2>2
    <3> QED
      BY <1>1, <1>4, <3>1 DEF VersionInv, QueueVersions, StoredVersions
  <2> QED
    BY <2>1, <2>2
<1>5. VersionInv(b, s)
  BY <1>4 DEF VersionInv
<1>6. ASSUME ~closed PROVE ArriveInv(b, s, e, u)
  <2> SUFFICES ASSUME NEW k \in Message, s[k].state = "known" PROVE Arrives(b, s, e, u, k)
    BY DEF ArriveInv
  <2>1. CASE k = m
    <3>1. ~Waits(b, m) /\ Fresh(b, s, m)
      BY <1>2 DEF Waits, Fresh, IsLast
    <3> QED
      BY <2>1, <3>1 DEF Arrives
  <2>2. CASE k # m
    <3>1. s[k] = t[k]
      BY <2>2
    <3>2. Arrives(b, t, e, u, k)
      BY <1>1, <1>6, <3>1 DEF ArriveInv
    <3> QED
      BY <3>1, <3>2 DEF Arrives, Fresh
  <2> QED
    BY <2>1, <2>2
<1> QED
  BY <1>1, <1>3, <1>5, <1>6 DEF Good

\* A message that TDLib knows joins the queue, with the version it has.
LEMMA AppendGood ==
  ASSUME NEW b, NEW t, NEW e, NEW u, NEW closed, Good(b, t, e, u, closed),
         NEW m \in Message, t[m].state = "known",
         NEW x \in Item, x.m = m, x.v = t[m].v,
         ~x.edited => /\ \A i \in 1..Len(b.stored) : b.stored[i].m < m
                      /\ \A j \in 1..Len(b.queue) : b.queue[j].m < m,
         NEW f, \A k \in Message : k # m => f[k] = e[k],
         NEW r \in Bundles, r.queue = Append(b.queue, x), r.cache = b.cache, r.stored = b.stored,
         r.stale = b.stale, r.skipped = b.skipped
  PROVE  Good(r, t, f, u, closed)
<1>1. /\ b \in Bundles /\ t \in Tellings /\ AnnouncedInv(b, t) /\ OrderInv(b) /\ VersionInv(b, t)
      /\ UnchangedInv(b) /\ (~closed => ArriveInv(b, t, e, u))
  BY DEF Good
<1>2. /\ Len(b.queue) \in Nat /\ Len(b.stored) \in Nat
      /\ Len(r.queue) = Len(b.queue) + 1 /\ r.queue[Len(r.queue)] = x
      /\ \A j \in 1..Len(b.queue) : r.queue[j] = b.queue[j]
  <2>1. Len(b.queue) \in Nat /\ Len(b.stored) \in Nat /\ b.queue \in Seq(Item)
    BY <1>1, BundleType
  <2>2. PICK q \in Seq(Item) : q = b.queue
    BY <2>1
  <2>3. r.queue = Append(q, x)
    BY <2>2
  <2> QED
    BY <2>1, <2>2, <2>3, AppendProperties
<1>3. /\ Len(r.queue) \in 1..Len(r.queue)
      /\ \A j \in 1..Len(r.queue) : j # Len(r.queue) => j \in 1..Len(b.queue)
      /\ \A j \in 1..Len(r.queue) : \A i \in 1..j-1 : i \in 1..Len(b.queue)
      /\ \A j \in 1..Len(b.queue) : j \in 1..Len(r.queue)
  BY <1>2
<1>4. AnnouncedInv(r, t)
  <2>1. ASSUME NEW j \in 1..Len(r.queue) PROVE t[r.queue[j].m].state # "unknown"
    <3>1. CASE j = Len(r.queue)
      BY <1>2, <3>1
    <3>2. CASE j # Len(r.queue)
      BY <1>1, <1>2, <1>3, <3>2 DEF AnnouncedInv
    <3> QED
      BY <3>1, <3>2
  <2> QED
    BY <1>1, <2>1 DEF AnnouncedInv
<1>5. OrderInv(r)
  <2>1. ASSUME NEW j \in 1..Len(r.queue), ~r.queue[j].edited
        PROVE  /\ \A i \in 1..j-1 : r.queue[i].m < r.queue[j].m
               /\ \A i \in 1..Len(r.stored) : r.stored[i].m < r.queue[j].m
    <3>1. CASE j = Len(r.queue)
      BY <1>2, <1>3, <2>1, <3>1
    <3>2. CASE j # Len(r.queue)
      <4>1. j \in 1..Len(b.queue) /\ r.queue[j] = b.queue[j]
        BY <1>2, <1>3, <3>2
      <4>2. \A i \in 1..j-1 : r.queue[i] = b.queue[i]
        BY <1>2, <1>3
      <4> QED
        BY <1>1, <2>1, <4>1, <4>2 DEF OrderInv
    <3> QED
      BY <3>1, <3>2
  <2> QED
    BY <1>1, <2>1 DEF OrderInv
<1>6. VersionInv(r, t)
  <2> SUFFICES ASSUME NEW k \in Message, t[k].state = "known"
               PROVE  /\ QueueVersions(r, t, k) /\ StoredVersions(r, t, k)
                      /\ r.cache[k].cached => r.cache[k].v.content <= t[k].v.content
    BY DEF VersionInv
  <2>1. /\ QueueVersions(b, t, k) /\ StoredVersions(b, t, k)
        /\ b.cache[k].cached => b.cache[k].v.content <= t[k].v.content
    BY <1>1 DEF VersionInv
  <2>2. StoredVersions(r, t, k)
    BY <2>1 DEF StoredVersions
  <2>3. QueueVersions(r, t, k)
    <3> SUFFICES ASSUME NEW j \in 1..Len(r.queue), r.queue[j].m = k
                 PROVE  /\ Older(r.queue[j].v, t[k].v)
                        /\ \A i \in 1..j-1 : r.queue[i].m = k => Older(r.queue[i].v, r.queue[j].v)
                        /\ \A i \in 1..Len(r.stored) : r.stored[i].m = k =>
                             /\ r.stored[i].v.markup <= r.queue[j].v.markup
                             /\ ~r.cache[k].cached => r.stored[i].v.content <= r.queue[j].v.content
      BY DEF QueueVersions
    <3>1. \A i \in 1..j-1 : i \in 1..Len(b.queue) /\ r.queue[i] = b.queue[i]
      BY <1>2, <1>3
    <3>2. CASE j = Len(r.queue)
      <4>1. k = m /\ r.queue[j].v = t[m].v
        BY <1>2, <3>2
      <4>2. t[m].v.content \in Nat /\ t[m].v.markup \in Nat
        BY <1>1, ToldType, VersionType
      <4>3. Older(r.queue[j].v, t[k].v)
        BY <4>1, <4>2 DEF Older
      <4>4. \A i \in 1..j-1 : r.queue[i].m = k => Older(r.queue[i].v, r.queue[j].v)
        BY <2>1, <3>1, <4>1 DEF QueueVersions
      <4>5. \A i \in 1..Len(b.stored) : b.stored[i].m = k => Older(b.stored[i].v, t[k].v)
        BY <2>1 DEF StoredVersions
      <4> QED
        BY <4>1, <4>3, <4>4, <4>5 DEF Older
    <3>3. CASE j # Len(r.queue)
      <4>1. j \in 1..Len(b.queue) /\ r.queue[j] = b.queue[j]
        BY <1>2, <1>3, <3>3
      <4> QED
        BY <2>1, <3>1, <4>1 DEF QueueVersions
    <3> QED
      BY <3>2, <3>3
  <2> QED
    BY <2>1, <2>2, <2>3
<1>7. UnchangedInv(r)
  BY <1>1 DEF UnchangedInv
<1>8. ASSUME ~closed PROVE ArriveInv(r, t, f, u)
  <2> SUFFICES ASSUME NEW k \in Message, t[k].state = "known" PROVE Arrives(r, t, f, u, k)
    BY DEF ArriveInv
  <2>1. CASE k = m
    <3>1. WaitsWith(r, m, t[m].v)
      BY <1>2, <1>3 DEF WaitsWith
    <3> QED
      BY <2>1, <3>1 DEF Arrives
  <2>2. CASE k # m
    <3>1. Arrives(b, t, e, u, k) /\ f[k] = e[k]
      BY <1>1, <1>8, <2>2 DEF ArriveInv
    <3>2. ASSUME WaitsWith(b, k, t[k].v) PROVE WaitsWith(r, k, t[k].v)
      BY <1>2, <1>3, <3>2 DEF WaitsWith
    <3>3. ASSUME Waits(r, k) PROVE Waits(b, k)
      <4>1. PICK j \in 1..Len(r.queue) : r.queue[j].m = k
        BY <3>3 DEF Waits
      <4>2. j # Len(r.queue)
        BY <1>2, <2>2, <4>1
      <4> QED
        BY <1>2, <1>3, <4>1, <4>2 DEF Waits
    <3>4. Fresh(b, t, k) => Fresh(r, t, k)
      BY DEF Fresh
    <3> QED
      BY <3>1, <3>2, <3>3, <3>4 DEF Arrives
  <2> QED
    BY <2>1, <2>2
<1> QED
  BY <1>1, <1>4, <1>5, <1>6, <1>7, <1>8 DEF Good

\* TDLib tells of a newer version of a message, and the cache follows it.
LEMMA EditGood ==
  ASSUME NEW b, NEW t, NEW e, NEW u, NEW closed, Good(b, t, e, u, closed),
         NEW m \in Message, t[m].state = "known",
         NEW s \in Tellings, s[m].state = "known", Older(t[m].v, s[m].v),
         \A k \in Message : k # m => s[k] = t[k],
         NEW f, \A k \in Message : k # m => f[k] = e[k],
         NEW w, w = m \/ f[m] > 0, \A k \in Message : k # m => u # k,
         NEW r \in Bundles, r.queue = b.queue, r.stored = b.stored, r.stale = b.stale,
         r.skipped = b.skipped,
         \A k \in Message : k # m => r.cache[k] = b.cache[k],
         r.cache[m].cached <=> b.cache[m].cached,
         b.cache[m].cached => /\ b.cache[m].v.content <= r.cache[m].v.content
                              /\ r.cache[m].v.content <= s[m].v.content,
         b.cache[m].cached /\ ~r.cache[m].changed => ~b.cache[m].changed /\ r.cache[m].v = b.cache[m].v
  PROVE  Good(r, s, f, w, closed)
<1>1. /\ b \in Bundles /\ t \in Tellings /\ AnnouncedInv(b, t) /\ OrderInv(b) /\ VersionInv(b, t)
      /\ UnchangedInv(b) /\ (~closed => ArriveInv(b, t, e, u))
  BY DEF Good
<1>2. /\ \A i \in 1..Len(b.stored) : b.stored[i].m \in Message /\ b.stored[i].v \in Version
      /\ \A j \in 1..Len(b.queue) : b.queue[j].m \in Message /\ b.queue[j].v \in Version
  BY <1>1, BundleType
<1>3. AnnouncedInv(r, s)
  BY <1>1, <1>2 DEF AnnouncedInv
<1>4. OrderInv(r)
  BY <1>1 DEF OrderInv
<1>5. ASSUME NEW v \in Version, Older(v, t[m].v) PROVE Older(v, s[m].v)
  <2>1. t[m].v \in Version /\ s[m].v \in Version
    BY <1>1, ToldType
  <2> QED
    BY <1>5, <2>1, VersionType DEF Older
<1>6. VersionInv(r, s)
  <2> SUFFICES ASSUME NEW k \in Message, s[k].state = "known"
               PROVE  /\ QueueVersions(r, s, k) /\ StoredVersions(r, s, k)
                      /\ r.cache[k].cached => r.cache[k].v.content <= s[k].v.content
    BY DEF VersionInv
  <2>1. t[k].state = "known"
    BY DEF VersionInv
  <2>2. /\ QueueVersions(b, t, k) /\ StoredVersions(b, t, k)
        /\ b.cache[k].cached => b.cache[k].v.content <= t[k].v.content
    BY <1>1, <2>1 DEF VersionInv
  <2>3. CASE k # m
    BY <2>2, <2>3 DEF QueueVersions, StoredVersions
  <2>4. CASE k = m
    <3>1. QueueVersions(r, s, m)
      BY <1>2, <1>5, <2>2, <2>4 DEF QueueVersions
    <3>2. ASSUME NEW j \in 1..Len(r.stored), r.stored[j].m = m
          PROVE  /\ Older(r.stored[j].v, s[m].v)
                 /\ r.cache[m].cached => r.stored[j].v.content <= r.cache[m].v.content
                 /\ \A i \in 1..j-1 : r.stored[i].m = m => Older(r.stored[i].v, r.stored[j].v)
      <4>1. /\ Older(b.stored[j].v, t[m].v)
            /\ b.cache[m].cached => b.stored[j].v.content <= b.cache[m].v.content
            /\ \A i \in 1..j-1 : b.stored[i].m = m => Older(b.stored[i].v, b.stored[j].v)
        BY <2>2, <2>4, <3>2 DEF StoredVersions
      <4>2. Older(r.stored[j].v, s[m].v)
        BY <1>2, <1>5, <3>2, <4>1
      <4>3. r.cache[m].cached =>
              /\ b.cache[m].v.content \in Nat /\ r.cache[m].v.content \in Nat
              /\ b.stored[j].v.content \in Nat
        BY <1>1, <1>2, <3>2, BundleType, CacheType, VersionType
      <4>4. r.cache[m].cached => r.stored[j].v.content <= r.cache[m].v.content
        BY <4>1, <4>3
      <4> QED
        BY <4>1, <4>2, <4>4
    <3>3. StoredVersions(r, s, m)
      BY <3>2 DEF StoredVersions
    <3> QED
      BY <2>4, <3>1, <3>3
  <2> QED
    BY <2>3, <2>4
<1>7. UnchangedInv(r)
  <2> SUFFICES ASSUME NEW k \in Message, r.cache[k].cached, ~r.cache[k].changed
               PROVE  \E i \in 1..Len(r.stored) : IsLast(r.stored, k, i) /\ r.stored[i].v = r.cache[k].v
    BY DEF UnchangedInv
  <2>1. b.cache[k].cached /\ ~b.cache[k].changed /\ r.cache[k].v = b.cache[k].v
    OBVIOUS
  <2> QED
    BY <1>1, <2>1 DEF UnchangedInv
<1>8. ASSUME ~closed PROVE ArriveInv(r, s, f, w)
  <2> SUFFICES ASSUME NEW k \in Message, s[k].state = "known" PROVE Arrives(r, s, f, w, k)
    BY DEF ArriveInv
  <2>1. CASE k = m
    BY <2>1 DEF Arrives
  <2>2. CASE k # m
    <3>1. Arrives(b, t, e, u, k) /\ u # k /\ f[k] = e[k] /\ s[k] = t[k]
      BY <1>1, <1>8, <2>2 DEF ArriveInv
    <3> QED
      BY <3>1 DEF Arrives, Waits, WaitsWith, Fresh
  <2> QED
    BY <2>1, <2>2
<1> QED
  BY <1>1, <1>3, <1>4, <1>6, <1>7, <1>8 DEF Good

\* The message that another one replies to is put into the cache.
LEMMA FoundGood ==
  ASSUME NEW b, NEW t, NEW e, NEW u, NEW closed, Good(b, t, e, u, closed),
         NEW m \in Message, t[m].state = "known",
         NEW r \in Bundles, r.queue = b.queue, r.stored = b.stored, b.stale \subseteq r.stale,
         r.skipped = b.skipped,
         Added(b.cache, r.cache, m, t[m].v)
  PROVE  Good(r, t, e, u, closed)
<1>1. /\ b \in Bundles /\ t \in Tellings /\ AnnouncedInv(b, t) /\ OrderInv(b) /\ VersionInv(b, t)
      /\ UnchangedInv(b) /\ (~closed => ArriveInv(b, t, e, u))
  BY DEF Good
<1>2. /\ \A k \in Message : k # m => r.cache[k] = b.cache[k]
      /\ r.cache[m].cached
      /\ r.cache[m].v.markup = t[m].v.markup
      /\ r.cache[m].v.content = IF b.cache[m].cached THEN b.cache[m].v.content ELSE t[m].v.content
      /\ r.cache[m].changed <=>
           (b.cache[m].cached => b.cache[m].changed \/ b.cache[m].v.markup # t[m].v.markup)
  BY DEF Added
<1>3. AnnouncedInv(r, t) /\ OrderInv(r)
  BY <1>1, <1>2 DEF AnnouncedInv, OrderInv
<1>4. VersionInv(r, t)
  <2> SUFFICES ASSUME NEW k \in Message, t[k].state = "known"
               PROVE  /\ QueueVersions(r, t, k) /\ StoredVersions(r, t, k)
                      /\ r.cache[k].cached => r.cache[k].v.content <= t[k].v.content
    BY DEF VersionInv
  <2>1. /\ QueueVersions(b, t, k) /\ StoredVersions(b, t, k)
        /\ b.cache[k].cached => b.cache[k].v.content <= t[k].v.content
    BY <1>1 DEF VersionInv
  <2>2. CASE k # m
    BY <1>2, <2>1, <2>2 DEF QueueVersions, StoredVersions
  <2>3. CASE k = m
    <3>1. t[m].v.content \in Nat
      BY <1>1, ToldType, VersionType
    <3>2. r.cache[m].v.content <= t[m].v.content
      BY <1>2, <2>1, <2>3, <3>1
    <3>3. QueueVersions(r, t, m)
      BY <1>2, <2>1, <2>3 DEF QueueVersions
    <3>4. StoredVersions(r, t, m)
      BY <1>2, <2>1, <2>3 DEF StoredVersions, Older
    <3> QED
      BY <2>3, <3>2, <3>3, <3>4
  <2> QED
    BY <2>2, <2>3
<1>5. UnchangedInv(r)
  <2> SUFFICES ASSUME NEW k \in Message, r.cache[k].cached, ~r.cache[k].changed
               PROVE  \E i \in 1..Len(r.stored) : IsLast(r.stored, k, i) /\ r.stored[i].v = r.cache[k].v
    BY DEF UnchangedInv
  <2>1. b.cache[k].cached /\ ~b.cache[k].changed /\ r.cache[k].v = b.cache[k].v
    <3>1. CASE k # m
      BY <1>2, <3>1
    <3>2. CASE k = m
      <4>1. /\ b.cache[m].cached /\ ~b.cache[m].changed
            /\ r.cache[m].v.markup = b.cache[m].v.markup /\ r.cache[m].v.content = b.cache[m].v.content
        BY <1>2, <3>2
      <4>2. b.cache[m].v \in Version /\ r.cache[m].v \in Version
        BY <1>1, <1>2, <4>1, BundleType, CacheType
      <4> QED
        BY <3>2, <4>1, <4>2, VersionType
    <3> QED
      BY <3>1, <3>2
  <2> QED
    BY <1>1, <2>1 DEF UnchangedInv
<1>6. ~closed => ArriveInv(r, t, e, u)
  BY <1>1 DEF ArriveInv, Arrives, Waits, WaitsWith, Fresh
<1> QED
  BY <1>1, <1>3, <1>4, <1>5, <1>6 DEF Good

\* A message is deleted, or unloaded when nothing is under way about it.
LEMMA DeleteGood ==
  ASSUME NEW b, NEW t, NEW e, NEW u, NEW closed, Good(b, t, e, u, closed),
         NEW m \in Message, t[m].state = "known",
         NEW s \in Tellings, \A k \in Message : k # m => s[k] = t[k],
         s[m].state = "deleted" \/ (s = t /\ ~Waits(b, m) /\ ~(e[m] > 0) /\ u # m),
         NEW r \in Bundles, r.queue = b.queue, r.stored = b.stored, r.stale = b.stale,
         r.skipped = b.skipped,
         \A k \in Message : k # m => r.cache[k] = b.cache[k],
         ~r.cache[m].cached
  PROVE  Good(r, s, e, u, closed)
<1>1. /\ b \in Bundles /\ t \in Tellings /\ AnnouncedInv(b, t) /\ OrderInv(b) /\ VersionInv(b, t)
      /\ UnchangedInv(b) /\ (~closed => ArriveInv(b, t, e, u))
  BY DEF Good
<1>2. /\ \A i \in 1..Len(b.stored) : b.stored[i].m \in Message
      /\ \A j \in 1..Len(b.queue) : b.queue[j].m \in Message
  BY <1>1, BundleType
<1>3. s[m].state # "unknown"
  OBVIOUS
<1>4. AnnouncedInv(r, s) /\ OrderInv(r)
  BY <1>1, <1>2, <1>3 DEF AnnouncedInv, OrderInv
<1>5. ASSUME NEW k \in Message, s[k].state = "known"
      PROVE  s[k] = t[k] /\ (k = m => s = t /\ ~Waits(b, m) /\ ~(e[m] > 0) /\ u # m)
  BY <1>5
<1>6. VersionInv(r, s)
  <2> SUFFICES ASSUME NEW k \in Message, s[k].state = "known"
               PROVE  /\ QueueVersions(r, s, k) /\ StoredVersions(r, s, k)
                      /\ r.cache[k].cached => r.cache[k].v.content <= s[k].v.content
    BY DEF VersionInv
  <2>1. s[k] = t[k]
    BY <1>5
  <2>2. /\ QueueVersions(b, t, k) /\ StoredVersions(b, t, k)
        /\ b.cache[k].cached => b.cache[k].v.content <= t[k].v.content
    BY <1>1, <2>1 DEF VersionInv
  <2>3. CASE k # m
    BY <2>1, <2>2, <2>3 DEF QueueVersions, StoredVersions
  <2>4. CASE k = m
    <3>1. QueueVersions(r, s, m)
      BY <1>5, <2>4 DEF QueueVersions, Waits
    <3>2. StoredVersions(r, s, m)
      BY <2>1, <2>2, <2>4 DEF StoredVersions
    <3> QED
      BY <2>4, <3>1, <3>2
  <2> QED
    BY <2>3, <2>4
<1>7. UnchangedInv(r)
  BY <1>1 DEF UnchangedInv
<1>8. ASSUME ~closed PROVE ArriveInv(r, s, e, u)
  <2> SUFFICES ASSUME NEW k \in Message, s[k].state = "known" PROVE Arrives(r, s, e, u, k)
    BY DEF ArriveInv
  <2>1. s[k] = t[k]
    BY <1>5
  <2>2. Arrives(b, t, e, u, k)
    BY <1>1, <1>8, <2>1 DEF ArriveInv
  <2> QED
    BY <2>1, <2>2 DEF Arrives, Waits, WaitsWith, Fresh
<1> QED
  BY <1>1, <1>4, <1>6, <1>7, <1>8 DEF Good

-----------------------------------------------------------------------------
(* The inductive invariant.                                                *)

Counts == [Message -> Nat]

\* TDLib tells of the messages in their order.
InTurn(t) ==
  \A m \in Message : \A k \in 1..m-1 : t[m].state # "unknown" => t[k].state # "unknown"

Inv ==
  /\ Good(Bundle, td, edits, due, closing)
  /\ FrontFits(Bundle)
  /\ edits \in Counts /\ closing \in BOOLEAN
  /\ InTurn(td)

LEMMA BundleFields ==
  /\ Bundle.queue = queue /\ Bundle.active = active /\ Bundle.lookups = lookups
  /\ Bundle.cache = cache /\ Bundle.stored = stored /\ Bundle.stale = stale
  /\ Bundle.skipped = skipped
  BY DEF Bundle

\* The handlers put the record they computed in place of the state.
LEMMA Becomes ==
  ASSUME NEW b \in Bundles, Become(b)
  PROVE  Bundle' = b
  BY DEF Become, Bundle, Bundles

LEMMA InitInv == Init => Inv
<1> SUFFICES ASSUME Init PROVE Inv
  OBVIOUS
<1>1. <<>> \in Seq(Item) /\ Len(<<>>) = 0
  BY EmptySeq
<1>2. Unknown \in Known \cup {Unknown, Deleted} /\ Unknown.state = "unknown"
  BY DEF Unknown
<1>3. td \in Tellings /\ \A m \in Message : td[m].state = "unknown"
  BY <1>2 DEF Init, Tellings
<1>4. cache \in Caches /\ \A m \in Message : ~cache[m].cached
  BY DEF Init, Caches, NoInfo
<1>5. Bundle \in Bundles
  BY <1>1, <1>4 DEF Init, Bundle, Bundles
<1>6. AnnouncedInv(Bundle, td) /\ OrderInv(Bundle) /\ UnchangedInv(Bundle)
  BY <1>1, <1>4, BundleFields DEF Init, AnnouncedInv, OrderInv, UnchangedInv
<1>7. VersionInv(Bundle, td) /\ ArriveInv(Bundle, td, edits, due)
  BY <1>3 DEF VersionInv, ArriveInv
<1>8. FrontFits(Bundle)
  BY BundleFields DEF Init, FrontFits
<1>9. edits \in Counts /\ closing \in BOOLEAN /\ InTurn(td)
  BY <1>3 DEF Init, Counts, InTurn
<1> QED
  BY <1>3, <1>5, <1>6, <1>7, <1>8, <1>9 DEF Good, Inv

\* add_new_message, for what TDLib has told after the update.
LEMMA AddNewMessageGood ==
  ASSUME Inv, NEW untold, NEW m \in Message, NEW edited \in BOOLEAN, NEW f,
         Good(Bundle, td', edits, due, closing),
         td'[m].state = "known", \A k \in Message : k # m => f[k] = edits[k],
         ~edited => td[m].state = "unknown"
  PROVE  /\ AddNewMessage(Bundle, untold, m, edited) \in Bundles
         /\ Good(AddNewMessage(Bundle, untold, m, edited), td', f, due, closing)
         /\ FrontFits(AddNewMessage(Bundle, untold, m, edited))
<1> DEFINE x == [m |-> m, v |-> td'[m].v, edited |-> edited]
           b == [Bundle EXCEPT !.queue = Append(@, x)]
<1>1. PICK t : t = td'
  OBVIOUS
<1>2. Good(Bundle, t, edits, due, closing) /\ t \in Tellings /\ t[m].state = "known" /\ Bundle \in Bundles
  BY <1>1 DEF Good
<1>3. x \in Item /\ x.m = m /\ x.v = t[m].v /\ x.edited = edited
  <2>1. t[m].v \in Version
    BY <1>2, ToldType
  <2> QED
    BY <1>1, <2>1 DEF Item
<1>4. AddNewMessage(Bundle, untold, m, edited) = ProcessQueue(b, untold, 0)
  BY DEF AddNewMessage
<1> HIDE DEF x
<1>5. /\ b \in Bundles /\ b.queue = Append(Bundle.queue, x) /\ b.cache = Bundle.cache
      /\ b.stored = Bundle.stored /\ b.stale = Bundle.stale
      /\ b.skipped = Bundle.skipped
      /\ b.active = Bundle.active /\ b.lookups = Bundle.lookups
  <2>1. Append(Bundle.queue, x) \in Seq(Item)
    BY <1>2, <1>3, BundleType, AppendProperties
  <2> QED
    BY <1>2, <2>1 DEF Bundles
<1> HIDE DEF b
<1>6. ASSUME ~edited
      PROVE  /\ \A i \in 1..Len(Bundle.stored) : Bundle.stored[i].m < m
             /\ \A j \in 1..Len(Bundle.queue) : Bundle.queue[j].m < m
  <2>1. AnnouncedInv(Bundle, td) /\ InTurn(td) /\ td[m].state = "unknown"
    BY <1>6 DEF Inv, Good
  <2>2. ASSUME NEW k \in Message, td[k].state # "unknown" PROVE k < m
    <3>1. k \in Nat /\ m \in Nat /\ 1 <= m
      BY MessageType DEF Message
    <3>2. m < k => m \in 1..k-1
      BY <3>1
    <3> QED
      BY <2>1, <2>2, <3>1, <3>2 DEF InTurn
  <2> QED
    BY <1>2, <2>1, <2>2, BundleType DEF AnnouncedInv
<1>7. Good(b, t, f, due, closing)
  BY <1>2, <1>3, <1>5, <1>6, AppendGood
<1>8. ASSUME b.active PROVE FrontFits(b)
  <2>1. FrontFits(Bundle) /\ Bundle.active
    BY <1>5, <1>8 DEF Inv
  <2>2. b.queue # <<>> /\ Head(b.queue) = Head(Bundle.queue)
    <3>1. PICK q \in Seq(Item) : q = Bundle.queue
      BY <1>2, BundleType
    <3>2. q # <<>>
      BY <2>1, <3>1 DEF FrontFits
    <3>3. Len(Append(q, x)) = Len(q) + 1 /\ Append(q, x) \in Seq(Item) /\ Len(q) \in Nat
      BY <1>3, <3>1, AppendProperties
    <3>4. Append(q, x) # <<>>
      BY <3>3, EmptySeq
    <3>5. 1 \in 1..Len(q)
      BY <3>2, <3>3, EmptySeq
    <3>6. Append(q, x)[1] = q[1]
      BY <1>3, <3>5, AppendProperties
    <3>7. Head(Append(q, x)) = Append(q, x)[1] /\ Head(q) = q[1]
      BY <3>2, <3>3, <3>4, HeadTailProperties
    <3> QED
      BY <1>5, <3>1, <3>4, <3>6, <3>7
  <2> QED
    BY <1>5, <2>1, <2>2 DEF FrontFits
<1>9. ~b.active => b.lookups = {}
  BY <1>5 DEF Inv, FrontFits
<1>10. Good(ProcessQueue(b, untold, 0), t, f, due, closing) /\ FrontFits(ProcessQueue(b, untold, 0))
  <2>1. closing \in BOOLEAN /\ 0 \in 0..2
    BY DEF Inv
  <2> QED
    BY <1>7, <1>8, <1>9, <2>1, ProcessQueueGood
<1> QED
  BY <1>1, <1>4, <1>10 DEF Good

-----------------------------------------------------------------------------
(* Every action keeps the invariant.                                       *)

LEMMA FirstVersion == [state |-> "known", v |-> [content |-> 1, markup |-> 1]] \in Known
<1>1. [content |-> 1, markup |-> 1] \in Version
  BY MessagesAssumption DEF Version
<1> QED
  BY <1>1 DEF Known

\* After the next message was announced, or found.
LEMMA NextMessage ==
  ASSUME Inv, NEW m \in Message, ~Announced(m), \A k \in 1..m-1 : Announced(k),
         td' = [td EXCEPT ![m] = [state |-> "known", v |-> [content |-> 1, markup |-> 1]]]
  PROVE  /\ td[m].state = "unknown" /\ td'[m].state = "known"
         /\ Good(Bundle, td', edits, due, closing) /\ InTurn(td')
<1>1. td \in Tellings /\ Good(Bundle, td, edits, due, closing) /\ InTurn(td)
  BY DEF Inv, Good
<1>2. td[m].state = "unknown" /\ \A k \in 1..m-1 : td[k].state # "unknown"
  BY DEF Announced
<1>3. PICK new : new = [state |-> "known", v |-> [content |-> 1, markup |-> 1]]
  OBVIOUS
<1>4. new \in Known /\ new.state = "known"
  BY <1>3, FirstVersion
<1>5. PICK t : t = td'
  OBVIOUS
<1>6. t \in Tellings /\ t[m] = new /\ \A k \in Message : k # m => t[k] = td[k]
  BY <1>1, <1>3, <1>4, <1>5 DEF Tellings
<1>7. Good(Bundle, t, edits, due, closing)
  BY <1>1, <1>2, <1>4, <1>6, TellGood
<1>8. InTurn(t)
  <2> SUFFICES ASSUME NEW n \in Message, NEW k \in 1..n-1, t[n].state # "unknown"
               PROVE  t[k].state # "unknown"
    BY DEF InTurn
  <2>1. k \in Message /\ k # n
    BY MessageType DEF Message
  <2>2. CASE n = m
    BY <1>2, <1>6, <2>1, <2>2
  <2>3. CASE n # m
    BY <1>1, <1>4, <1>6, <2>1, <2>3 DEF InTurn
  <2> QED
    BY <2>2, <2>3
<1> QED
  BY <1>2, <1>4, <1>5, <1>6, <1>7, <1>8

LEMMA UpdateNewMessageStep ==
  ASSUME Inv, NEW m \in Message, UpdateNewMessage(m)
  PROVE  Inv'
<1>1. /\ td[m].state = "unknown" /\ td'[m].state = "known"
      /\ Good(Bundle, td', edits, due, closing) /\ InTurn(td')
  BY NextMessage DEF UpdateNewMessage
<1>2. PICK untold \in Untold : Become(AddNewMessage(Bundle, untold, m, FALSE))
  BY DEF UpdateNewMessage
<1>3. PICK b : b = AddNewMessage(Bundle, untold, m, FALSE)
  OBVIOUS
<1>4. b \in Bundles /\ Good(b, td', edits, due, closing) /\ FrontFits(b)
  BY <1>1, <1>3, AddNewMessageGood
<1>5. edits' = edits /\ due' = due /\ closing' = closing
  BY DEF UpdateNewMessage
<1>6. Bundle' = b
  BY <1>2, <1>3, <1>4, Becomes
<1>7. Good(Bundle', td', edits', due', closing') /\ FrontFits(Bundle')
  BY <1>4, <1>5, <1>6
<1>8. edits' \in Counts /\ closing' \in BOOLEAN
  BY <1>5 DEF Inv
<1> QED
  BY <1>1, <1>7, <1>8 DEF Inv

LEMMA OldMessageStep ==
  ASSUME Inv, NEW m \in Message, OldMessage(m)
  PROVE  Inv'
<1>1. Good(Bundle, td', edits, due, closing) /\ InTurn(td')
  BY NextMessage DEF OldMessage
<1>2. Bundle' = Bundle /\ edits' = edits /\ due' = due /\ closing' = closing
  BY DEF OldMessage, Bundle
<1>3. FrontFits(Bundle) /\ edits \in Counts /\ closing \in BOOLEAN
  BY DEF Inv
<1>4. Good(Bundle', td', edits', due', closing')
  BY <1>1, <1>2
<1> QED
  BY <1>1, <1>2, <1>3, <1>4 DEF Inv

\* What is common to the two updates about an edit.
LEMMA EditKeepsTurn ==
  ASSUME NEW t \in Tellings, NEW s \in Tellings, NEW m \in Message, InTurn(t),
         t[m].state = "known", s[m].state = "known", \A k \in Message : k # m => s[k] = t[k]
  PROVE  InTurn(s)
<1> SUFFICES ASSUME NEW n \in Message, NEW k \in 1..n-1, s[n].state # "unknown"
             PROVE  s[k].state # "unknown"
  BY DEF InTurn
<1>1. k \in Message
  BY MessageType DEF Message
<1>2. t[n].state # "unknown"
  OBVIOUS
<1>3. t[k].state # "unknown"
  BY <1>2 DEF InTurn
<1> QED
  BY <1>1, <1>3

LEMMA UpdateMessageContentStep ==
  ASSUME Inv, NEW m \in Message, UpdateMessageContent(m)
  PROVE  Inv'
<1>1. /\ Good(Bundle, td, edits, due, closing) /\ td \in Tellings /\ Bundle \in Bundles /\ InTurn(td)
      /\ FrontFits(Bundle) /\ edits \in Counts /\ closing \in BOOLEAN
  BY DEF Inv, Good
<1>2. td[m].state = "known" /\ td[m] \in Known /\ td[m].v \in Version
  BY <1>1, ToldType DEF UpdateMessageContent
<1>3. PICK old : old = td[m].v
  OBVIOUS
<1>4. PICK v : v = [old EXCEPT !.content = @ + 1]
  OBVIOUS
<1>5. v \in Version /\ v.content = old.content + 1 /\ v.markup = old.markup /\ Older(old, v)
  <2>1. old.content \in Nat /\ old.markup \in Nat /\ old.content < MaxContent
    BY <1>2, <1>3, VersionType DEF UpdateMessageContent
  <2>2. old.content + 1 \in 1..MaxContent
    BY <2>1, MessagesAssumption
  <2> QED
    BY <1>2, <1>3, <1>4, <2>1, <2>2 DEF Version, Older
<1>6. PICK new : new = [td[m] EXCEPT !.v = v]
  OBVIOUS
<1>7. new \in Known /\ new.state = "known" /\ new.v = v
  BY <1>2, <1>5, <1>6 DEF Known
<1>8. PICK s : s = td'
  OBVIOUS
<1>9. s = [td EXCEPT ![m] = new]
  <2>1. td' = [td EXCEPT ![m].v.content = @ + 1]
    BY DEF UpdateMessageContent
  <2> QED
    BY <1>3, <1>4, <1>6, <1>8, <2>1
<1>10. s \in Tellings /\ s[m] = new /\ \A k \in Message : k # m => s[k] = td[k]
  BY <1>1, <1>7, <1>9 DEF Tellings
<1>11. PICK c : c = cache'
  OBVIOUS
<1>12. cache \in Caches
  BY <1>1, BundleFields, BundleType
<1>13. /\ c \in Caches /\ \A k \in Message : k # m => c[k] = cache[k]
       /\ c[m].cached <=> cache[m].cached
       /\ cache[m].cached => c[m].v.content = v.content /\ c[m].changed
  <2>1. c = IF cache[m].cached
            THEN [cache EXCEPT ![m].v.content = v.content, ![m].changed = TRUE]
            ELSE cache
    <3>1. td'[m].v = v
      BY <1>7, <1>8, <1>10
    <3>2. UpdateContent(m, td'[m].v)
      BY DEF UpdateMessageContent
    <3>3. UpdateContent(m, v)
      BY <3>1, <3>2
    <3> QED
      BY <1>11, <3>3 DEF UpdateContent
  <2>2. CASE ~cache[m].cached
    BY <1>12, <2>1, <2>2
  <2>3. CASE cache[m].cached
    <3>1. cache[m] \in Cached
      <4>1. cache[m] # NoInfo
        BY <2>3 DEF NoInfo
      <4> QED
        BY <1>12, <4>1, CacheType
    <3>2. PICK info : info = [cache[m] EXCEPT !.v.content = v.content, !.changed = TRUE]
      OBVIOUS
    <3>3. info \in Cached /\ info.cached /\ info.v.content = v.content /\ info.changed
      BY <1>5, <3>1, <3>2 DEF Cached, Version
    <3>4. c = [cache EXCEPT ![m] = info]
      BY <2>1, <2>3, <3>2
    <3>5. c \in Caches /\ c[m] = info /\ \A k \in Message : k # m => c[k] = cache[k]
      BY <1>12, <3>3, <3>4 DEF Caches
    <3> QED
      BY <2>3, <3>3, <3>5
  <2> QED
    BY <2>2, <2>3
<1>14. PICK r : r = Bundle'
  OBVIOUS
<1>15. /\ r \in Bundles /\ r.queue = Bundle.queue /\ r.stored = Bundle.stored /\ r.stale = Bundle.stale
       /\ r.skipped = Bundle.skipped
       /\ r.active = Bundle.active /\ r.lookups = Bundle.lookups /\ r.cache = c
  <2>1. r = [queue |-> queue, active |-> active, lookups |-> lookups,
             cache |-> c, stored |-> stored, stale |-> stale, skipped |-> skipped]
    BY <1>11, <1>14 DEF UpdateMessageContent, Bundle
  <2> QED
    BY <1>1, <1>13, <2>1, BundleFields, BundleType DEF Bundles
<1>16. Good(r, s, edits, m, closing)
  <2>1. Bundle.cache = cache
    BY BundleFields
  <2>2. cache[m].cached => /\ cache[m].v.content <= c[m].v.content
                           /\ c[m].v.content <= s[m].v.content
    <3> SUFFICES ASSUME cache[m].cached PROVE /\ cache[m].v.content <= c[m].v.content
                                             /\ c[m].v.content <= s[m].v.content
      OBVIOUS
    <3>1. cache[m].v.content <= old.content
      BY <1>1, <1>2, <1>3, <2>1 DEF Good, VersionInv
    <3>2. cache[m].v.content \in Nat /\ old.content \in Nat
      BY <1>2, <1>3, <1>12, CacheType, VersionType
    <3> QED
      BY <1>5, <1>7, <1>10, <1>13, <3>1, <3>2
  <2>3. \A k \in Message : k # m => due # k
    BY MessageType DEF UpdateMessageContent, Message
  <2>4. Older(td[m].v, s[m].v) /\ s[m].state = "known"
    BY <1>3, <1>5, <1>7, <1>10
  <2>5. cache[m].cached => c[m].changed
    BY <1>13
  <2>6. /\ \A k \in Message : k # m => r.cache[k] = Bundle.cache[k]
        /\ r.cache[m].cached <=> Bundle.cache[m].cached
    BY <1>13, <1>15, <2>1
  <2> QED
    BY <1>1, <1>2, <1>10, <1>15, <2>1, <2>2, <2>3, <2>4, <2>5, <2>6, EditGood
<1>17. InTurn(s)
  BY <1>1, <1>2, <1>7, <1>10, EditKeepsTurn
<1>18. FrontFits(r)
  BY <1>1, <1>15 DEF FrontFits
<1>19. edits' = edits /\ due' = m /\ closing' = closing
  BY DEF UpdateMessageContent
<1>20. Good(Bundle', td', edits', due', closing')
  BY <1>8, <1>14, <1>16, <1>19
<1> QED
  BY <1>1, <1>8, <1>14, <1>17, <1>18, <1>19, <1>20 DEF Inv

LEMMA UpdateMessageEditedStep ==
  ASSUME Inv, NEW m \in Message, UpdateMessageEdited(m)
  PROVE  Inv'
<1>1. /\ Good(Bundle, td, edits, due, closing) /\ td \in Tellings /\ Bundle \in Bundles /\ InTurn(td)
      /\ FrontFits(Bundle) /\ edits \in Counts /\ closing \in BOOLEAN
  BY DEF Inv, Good
<1>2. td[m].state = "known" /\ td[m] \in Known /\ td[m].v \in Version
  BY <1>1, ToldType DEF UpdateMessageEdited
<1>3. PICK old : old = td[m].v
  OBVIOUS
<1>4. PICK s : s = td'
  OBVIOUS
<1>5. old.content \in Nat /\ old.markup \in Nat
  BY <1>2, <1>3, VersionType
<1>6. /\ s \in Tellings /\ s[m].state = "known" /\ s[m].v \in Version
      /\ s[m].v.content = old.content /\ Older(old, s[m].v)
      /\ \A k \in Message : k # m => s[k] = td[k]
  <2>1. CASE td' = td
    BY <1>1, <1>2, <1>3, <1>4, <1>5, <2>1 DEF Older
  <2>2. CASE td[m].v.markup < MaxMarkup /\ td' = [td EXCEPT ![m].v.markup = @ + 1]
    <3>1. PICK v : v = [old EXCEPT !.markup = @ + 1]
      OBVIOUS
    <3>2. v \in Version /\ v.content = old.content /\ v.markup = old.markup + 1
      <4>1. old.markup + 1 \in 1..MaxMarkup
        BY <1>3, <1>5, <2>2, MessagesAssumption
      <4> QED
        BY <1>2, <1>3, <3>1, <4>1 DEF Version
    <3>3. PICK new : new = [td[m] EXCEPT !.v = v]
      OBVIOUS
    <3>4. new \in Known /\ new.state = "known" /\ new.v = v
      BY <1>2, <3>2, <3>3 DEF Known
    <3>5. s = [td EXCEPT ![m] = new]
      BY <1>3, <1>4, <2>2, <3>1, <3>3
    <3>6. s \in Tellings /\ s[m] = new /\ \A k \in Message : k # m => s[k] = td[k]
      BY <1>1, <3>4, <3>5 DEF Tellings
    <3> QED
      BY <1>5, <3>2, <3>4, <3>6 DEF Older
  <2> QED
    BY <2>1, <2>2 DEF UpdateMessageEdited
<1>7. PICK v : v = s[m].v
  OBVIOUS
<1>8. PICK c : c = cache'
  OBVIOUS
<1>9. cache \in Caches
  BY <1>1, BundleFields, BundleType
<1>10. /\ c \in Caches /\ \A k \in Message : k # m => c[k] = cache[k]
       /\ c[m].cached <=> cache[m].cached
       /\ cache[m].cached => /\ c[m].v.content = cache[m].v.content
                             /\ ~c[m].changed => ~cache[m].changed /\ c[m].v = cache[m].v
  <2>1. c = IF cache[m].cached
            THEN [cache EXCEPT ![m].v.markup = v.markup,
                               ![m].changed = @ \/ cache[m].v.markup # v.markup]
            ELSE cache
    <3>1. td'[m].v.markup = v.markup
      BY <1>4, <1>7
    <3>2. cache' = IF cache[m].cached
                   THEN [cache EXCEPT ![m].v.markup = td'[m].v.markup,
                                      ![m].changed = @ \/ cache[m].v.markup # td'[m].v.markup]
                   ELSE cache
      BY DEF UpdateMessageEdited
    <3> QED
      BY <1>8, <3>1, <3>2
  <2>2. CASE ~cache[m].cached
    BY <1>9, <2>1, <2>2
  <2>3. CASE cache[m].cached
    <3>1. cache[m] \in Cached /\ cache[m].v \in Version
      <4>1. cache[m] # NoInfo
        BY <2>3 DEF NoInfo
      <4> QED
        BY <1>9, <2>3, <4>1, CacheType
    <3> DEFINE ch == cache[m].changed \/ cache[m].v.markup # v.markup
    <3>2. PICK x : x = ch
      OBVIOUS
    <3>3. x \in BOOLEAN
      BY <3>2
    <3>4. PICK w : w = [cache[m].v EXCEPT !.markup = v.markup]
      OBVIOUS
    <3>5. w \in Version /\ w.content = cache[m].v.content /\ w.markup = v.markup
      BY <1>6, <1>7, <3>1, <3>4, VersionType DEF Version
    <3>6. PICK info : info = [cache[m] EXCEPT !.v = w, !.changed = x]
      OBVIOUS
    <3>7. info \in Cached /\ info.cached /\ info.v = w /\ info.changed = x
      BY <3>1, <3>3, <3>5, <3>6 DEF Cached
    <3>8. c = [cache EXCEPT ![m] = info]
      <4>1. c = [cache EXCEPT ![m].v.markup = v.markup, ![m].changed = ch]
        BY <2>1, <2>3
      <4> HIDE DEF ch
      <4> QED
        BY <3>2, <3>4, <3>6, <4>1
    <3>9. c \in Caches /\ c[m] = info /\ \A k \in Message : k # m => c[k] = cache[k]
      BY <1>9, <3>7, <3>8 DEF Caches
    <3>10. ASSUME ~c[m].changed PROVE ~cache[m].changed /\ c[m].v = cache[m].v
      <4>1. ~x
        BY <3>7, <3>9, <3>10
      <4>2. ~ch
        BY <3>2, <4>1
      <4>3. ~cache[m].changed /\ cache[m].v.markup = v.markup
        BY <4>2
      <4>4. w = cache[m].v
        BY <3>1, <3>5, <4>3, VersionType
      <4> QED
        BY <3>7, <3>9, <4>3, <4>4
    <3> QED
      BY <2>3, <3>5, <3>7, <3>9, <3>10
  <2> QED
    BY <2>2, <2>3
<1>11. PICK r : r = Bundle'
  OBVIOUS
<1>12. /\ r \in Bundles /\ r.queue = Bundle.queue /\ r.stored = Bundle.stored /\ r.stale = Bundle.stale
       /\ r.skipped = Bundle.skipped
       /\ r.active = Bundle.active /\ r.lookups = Bundle.lookups /\ r.cache = c
  <2>1. r = [queue |-> queue, active |-> active, lookups |-> lookups,
             cache |-> c, stored |-> stored, stale |-> stale, skipped |-> skipped]
    BY <1>8, <1>11 DEF UpdateMessageEdited, Bundle
  <2> QED
    BY <1>1, <1>10, <2>1, BundleFields, BundleType DEF Bundles
<1>13. PICK f : f = edits'
  OBVIOUS
<1>14. f \in Counts /\ f[m] > 0 /\ \A k \in Message : k # m => f[k] = edits[k]
  <2>1. f = [edits EXCEPT ![m] = @ + 1] /\ edits \in Counts
    BY <1>1, <1>13 DEF UpdateMessageEdited
  <2> QED
    BY <2>1 DEF Counts
<1>15. Good(r, s, f, 0, closing)
  <2>1. Bundle.cache = cache
    BY BundleFields
  <2>2. cache[m].cached => /\ cache[m].v.content <= c[m].v.content
                           /\ c[m].v.content <= s[m].v.content
    <3> SUFFICES ASSUME cache[m].cached PROVE /\ cache[m].v.content <= c[m].v.content
                                             /\ c[m].v.content <= s[m].v.content
      OBVIOUS
    <3>1. cache[m].v.content <= old.content
      BY <1>1, <1>2, <1>3, <2>1 DEF Good, VersionInv
    <3>2. cache[m].v.content \in Nat
      BY <1>9, CacheType, VersionType
    <3> QED
      BY <1>5, <1>6, <1>10, <3>1, <3>2
  <2>3. \A k \in Message : k # m => due # k
    BY MessageType DEF UpdateMessageEdited, Message
  <2>4. Older(td[m].v, s[m].v) /\ s[m].state = "known"
    BY <1>3, <1>6
  <2>5. Bundle.cache[m].cached /\ ~r.cache[m].changed =>
          ~Bundle.cache[m].changed /\ r.cache[m].v = Bundle.cache[m].v
    BY <1>10, <1>12, <2>1
  <2>6. /\ \A k \in Message : k # m => r.cache[k] = Bundle.cache[k]
        /\ r.cache[m].cached <=> Bundle.cache[m].cached
        /\ Bundle.cache[m].cached => /\ Bundle.cache[m].v.content <= r.cache[m].v.content
                                     /\ r.cache[m].v.content <= s[m].v.content
    BY <1>10, <1>12, <2>1, <2>2
  <2> QED
    BY <1>1, <1>2, <1>6, <1>12, <1>14, <2>3, <2>4, <2>5, <2>6, EditGood
<1>16. InTurn(s)
  BY <1>1, <1>2, <1>6, EditKeepsTurn
<1>17. FrontFits(r)
  BY <1>1, <1>12 DEF FrontFits
<1>18. due' = 0 /\ closing' = closing
  BY DEF UpdateMessageEdited
<1>19. Good(Bundle', td', edits', due', closing')
  BY <1>4, <1>11, <1>13, <1>15, <1>18
<1> QED
  BY <1>1, <1>4, <1>11, <1>13, <1>14, <1>16, <1>17, <1>18, <1>19 DEF Inv

LEMMA GetEditedMessageStep ==
  ASSUME Inv, NEW m \in Message, GetEditedMessage(m)
  PROVE  Inv'
<1>1. /\ Good(Bundle, td, edits, due, closing) /\ td \in Tellings /\ Bundle \in Bundles /\ InTurn(td)
      /\ FrontFits(Bundle) /\ edits \in Counts /\ closing \in BOOLEAN
  BY DEF Inv, Good
<1>2. td' = td /\ due' = due /\ closing' = closing /\ due = 0
  BY DEF GetEditedMessage
<1>3. PICK f : f = edits'
  OBVIOUS
<1>4. f \in Counts /\ \A k \in Message : k # m => f[k] = edits[k]
  <2>1. f = [edits EXCEPT ![m] = @ - 1] /\ edits \in Counts /\ edits[m] > 0
    BY <1>1, <1>3 DEF GetEditedMessage
  <2>2. edits[m] \in Nat /\ edits[m] - 1 \in Nat
    BY <2>1 DEF Counts
  <2> QED
    BY <2>1, <2>2 DEF Counts
<1>5. PICK untold \in Untold :
        Become(IF td[m].state = "known" THEN AddNewMessage(Bundle, untold, m, TRUE) ELSE Bundle)
  BY DEF GetEditedMessage
<1>6. PICK b : b = IF td[m].state = "known" THEN AddNewMessage(Bundle, untold, m, TRUE) ELSE Bundle
  OBVIOUS
<1>7. b \in Bundles /\ Good(b, td, f, due, closing) /\ FrontFits(b)
  <2>1. CASE td[m].state = "known"
    <3>1. Good(Bundle, td', edits, due, closing) /\ td'[m].state = "known"
      BY <1>1, <1>2, <2>1
    <3>2. /\ AddNewMessage(Bundle, untold, m, TRUE) \in Bundles
          /\ Good(AddNewMessage(Bundle, untold, m, TRUE), td', f, due, closing)
          /\ FrontFits(AddNewMessage(Bundle, untold, m, TRUE))
      BY <1>4, <3>1, AddNewMessageGood
    <3> QED
      BY <1>2, <1>6, <2>1, <3>2
  <2>2. CASE td[m].state # "known"
    <3>1. ~closing => ArriveInv(Bundle, td, f, due)
      BY <1>1, <1>4, <2>2 DEF Good, ArriveInv, Arrives
    <3>2. Good(Bundle, td, f, due, closing)
      BY <1>1, <3>1 DEF Good
    <3> QED
      BY <1>1, <1>6, <2>2, <3>2
  <2> QED
    BY <2>1, <2>2
<1>8. Bundle' = b
  BY <1>5, <1>6, <1>7, Becomes
<1>9. Good(Bundle', td', edits', due', closing') /\ FrontFits(Bundle')
  BY <1>2, <1>3, <1>7, <1>8
<1> QED
  BY <1>1, <1>2, <1>3, <1>4, <1>9 DEF Inv

\* The handler of an answer goes on with the queue.
LEMMA AnswerStep ==
  ASSUME Inv, NEW b \in Bundles, NEW untold, NEW state \in {1, 2}, Good(b, td, edits, due, closing), b.lookups = {},
         Become(ProcessQueue(b, untold, state)), UNCHANGED <<td, due, edits, closing>>
  PROVE  Inv'
<1>1. closing \in BOOLEAN /\ edits \in Counts /\ InTurn(td) /\ state \in 0..2 /\ state # 0
  BY DEF Inv
<1>2. PICK r : r = ProcessQueue(b, untold, state)
  OBVIOUS
<1>3. Good(r, td, edits, due, closing) /\ FrontFits(r)
  BY <1>1, <1>2, ProcessQueueGood
<1>4. Bundle' = r
  <2>1. r \in Bundles /\ Become(r)
    BY <1>2, <1>3 DEF Good
  <2> QED
    BY <2>1, Becomes
<1>5. Good(Bundle', td', edits', due', closing') /\ FrontFits(Bundle')
  BY <1>3, <1>4
<1> QED
  BY <1>1, <1>5 DEF Inv

LEMMA GetReplyMessageStep ==
  ASSUME Inv, NEW found \in BOOLEAN, GetReplyMessage(found)
  PROVE  Inv'
<1>1. /\ Good(Bundle, td, edits, due, closing) /\ td \in Tellings /\ Bundle \in Bundles
      /\ FrontFits(Bundle)
  BY DEF Inv, Good
<1>2. PICK n : n = ReplyTo[Head(queue).m]
  OBVIOUS
<1>3. PICK b : b = [Bundle EXCEPT !.lookups = @ \ {"reply"}]
  OBVIOUS
<1>4. lookups = {"reply"} /\ n # 0
  BY <1>1, <1>2, BundleFields DEF FrontFits, GetReplyMessage
<1>5. /\ b \in Bundles /\ b.queue = queue /\ b.cache = cache /\ b.stored = stored
      /\ b.stale = stale /\ b.skipped = skipped /\ b.lookups = {}
  BY <1>1, <1>3, <1>4, BundleFields DEF Bundles
<1>6. Good(b, td, edits, due, closing)
  BY <1>1, <1>5, BundleFields, GoodSame
<1>7. n \in Message
  <2>1. queue # <<>> /\ queue \in Seq(Item)
    BY <1>1, <1>4, BundleFields, BundleType DEF FrontFits
  <2>2. Head(queue) \in Item
    BY <2>1, HeadTailProperties
  <2>3. Head(queue).m \in Message
    BY <2>2 DEF Item
  <2>4. n \in 0..MaxMessage
    BY <1>2, <2>3, MessagesAssumption
  <2> QED
    BY <1>4, <2>4, MessageType DEF Message
<1>8. PICK c : c = AddMessage(cache, n, td[n].v)
  OBVIOUS
<1>9. PICK h : h = IF HidesContent(cache, n, td[n].v) THEN {n} ELSE {}
  OBVIOUS
<1>10. PICK d : d = IF found THEN [b EXCEPT !.cache = c, !.stale = @ \cup h] ELSE b
  OBVIOUS
<1>11. PICK untold \in Untold : Become(ProcessQueue(d, untold, 1)) /\ (found => td[n].state = "known")
  <2>1. PICK untold \in Untold : Become(ProcessQueue(
               IF found
               THEN [[Bundle EXCEPT !.lookups = @ \ {"reply"}]
                       EXCEPT !.cache = AddMessage(cache, n, td[n].v),
                              !.stale = @ \cup IF HidesContent(cache, n, td[n].v)
                                               THEN {n} ELSE {}]
               ELSE [Bundle EXCEPT !.lookups = @ \ {"reply"}], untold, 1))
    BY <1>2 DEF GetReplyMessage
  <2>2. found => td[n].state = "known"
    BY <1>2 DEF GetReplyMessage
  <2> QED
    BY <1>3, <1>8, <1>9, <1>10, <2>1, <2>2
<1>12. d \in Bundles /\ d.lookups = {} /\ Good(d, td, edits, due, closing)
  <2>1. CASE ~found
    BY <1>5, <1>6, <1>10, <2>1
  <2>2. CASE found
    <3>1. td[n].state = "known" /\ td[n].v \in Version
      BY <1>1, <1>7, <1>11, <2>2, ToldType
    <3>2. Added(cache, c, n, td[n].v)
      BY <1>5, <1>7, <1>8, <3>1, BundleType, AddMessageAdds
    <3>3. c \in Caches /\ h \in SUBSET Message
      BY <1>7, <1>9, <3>2 DEF Added
    <3>4. stale \in SUBSET Message /\ d = [b EXCEPT !.cache = c, !.stale = @ \cup h]
      BY <1>5, <1>10, <2>2, BundleType
    <3>5. /\ d \in Bundles /\ d.queue = b.queue /\ d.stored = b.stored /\ d.cache = c
          /\ d.stale = stale \cup h /\ d.skipped = b.skipped /\ d.lookups = {}
      BY <1>5, <3>3, <3>4 DEF Bundles
    <3>6. b.stale \subseteq d.stale /\ Added(b.cache, d.cache, n, td[n].v)
      BY <1>5, <3>2, <3>5
    <3> QED
      BY <1>5, <1>6, <1>7, <3>1, <3>5, <3>6, FoundGood
  <2> QED
    BY <2>1, <2>2
<1>13. UNCHANGED <<td, due, edits, closing>>
  BY DEF GetReplyMessage
<1> QED
  BY <1>11, <1>12, <1>13, AnswerStep

LEMMA StickerSetNamesKnownStep ==
  ASSUME Inv, StickerSetNamesKnown
  PROVE  Inv'
<1>1. Good(Bundle, td, edits, due, closing) /\ Bundle \in Bundles /\ FrontFits(Bundle)
  BY DEF Inv, Good
<1>2. PICK b : b = [Bundle EXCEPT !.lookups = @ \ {"stickers"}]
  OBVIOUS
<1>3. lookups = {"stickers"}
  BY <1>1, BundleFields DEF FrontFits, StickerSetNamesKnown
<1>4. /\ b \in Bundles /\ b.queue = queue /\ b.cache = cache /\ b.stored = stored
      /\ b.stale = stale /\ b.skipped = skipped /\ b.lookups = {}
  BY <1>1, <1>2, <1>3, BundleFields DEF Bundles
<1>5. Good(b, td, edits, due, closing)
  BY <1>1, <1>4, BundleFields, GoodSame
<1>6. (\E untold \in Untold : Become(ProcessQueue(b, untold, 2))) /\ UNCHANGED <<td, due, edits, closing>>
  BY <1>2 DEF StickerSetNamesKnown
<1> QED
  BY <1>4, <1>5, <1>6, AnswerStep

LEMMA UpdateDeleteMessagesStep ==
  ASSUME Inv, NEW m \in Message, NEW unloaded \in BOOLEAN, UpdateDeleteMessages(m, unloaded)
  PROVE  Inv'
<1>1. /\ Good(Bundle, td, edits, due, closing) /\ td \in Tellings /\ Bundle \in Bundles /\ InTurn(td)
      /\ FrontFits(Bundle) /\ edits \in Counts /\ closing \in BOOLEAN
  BY DEF Inv, Good
<1>2. PICK s : s = td'
  OBVIOUS
<1>3. /\ s \in Tellings /\ \A k \in Message : k # m => s[k] = td[k]
      /\ s[m].state = "deleted" \/ (s = td /\ unloaded)
  <2>1. Deleted \in Known \cup {Unknown, Deleted} /\ Deleted.state = "deleted"
    BY DEF Deleted
  <2>2. s = IF unloaded THEN td ELSE [td EXCEPT ![m] = Deleted]
    BY <1>2 DEF UpdateDeleteMessages
  <2> QED
    BY <1>1, <2>1, <2>2 DEF Tellings
<1>4. td[m].state = "known"
  BY DEF UpdateDeleteMessages
<1>5. unloaded => ~Waits(Bundle, m) /\ ~(edits[m] > 0) /\ due # m
  <2>1. due = 0 /\ m # 0
    BY MessageType DEF UpdateDeleteMessages, Message
  <2>2. unloaded => edits[m] = 0 /\ \A i \in 1..Len(queue) : queue[i].m # m
    BY DEF UpdateDeleteMessages
  <2> QED
    BY <2>1, <2>2, BundleFields DEF Waits
<1>6. PICK c : c = cache'
  OBVIOUS
<1>7. c \in Caches /\ ~c[m].cached /\ \A k \in Message : k # m => c[k] = cache[k]
  <2>1. c = [cache EXCEPT ![m] = NoInfo] /\ cache \in Caches
    BY <1>1, <1>6, BundleFields, BundleType DEF UpdateDeleteMessages
  <2>2. NoInfo.cached = FALSE
    BY DEF NoInfo
  <2> QED
    BY <2>1, <2>2 DEF Caches
<1>8. PICK r : r = Bundle'
  OBVIOUS
<1>9. /\ r \in Bundles /\ r.queue = Bundle.queue /\ r.stored = Bundle.stored /\ r.stale = Bundle.stale
      /\ r.skipped = Bundle.skipped
      /\ r.active = Bundle.active /\ r.lookups = Bundle.lookups /\ r.cache = c
  <2>1. r = [queue |-> queue, active |-> active, lookups |-> lookups,
             cache |-> c, stored |-> stored, stale |-> stale, skipped |-> skipped]
    BY <1>6, <1>8 DEF UpdateDeleteMessages, Bundle
  <2> QED
    BY <1>1, <1>7, <2>1, BundleFields, BundleType DEF Bundles
<1>10. Good(r, s, edits, due, closing)
  <2>1. ~r.cache[m].cached /\ \A k \in Message : k # m => r.cache[k] = Bundle.cache[k]
    BY <1>7, <1>9, BundleFields
  <2>2. s[m].state = "deleted" \/ (s = td /\ ~Waits(Bundle, m) /\ ~(edits[m] > 0) /\ due # m)
    BY <1>3, <1>5
  <2> QED
    BY <1>1, <1>3, <1>4, <1>9, <2>1, <2>2, DeleteGood
<1>11. InTurn(s)
  <2> SUFFICES ASSUME NEW n \in Message, NEW k \in 1..n-1, s[n].state # "unknown"
               PROVE  s[k].state # "unknown"
    BY DEF InTurn
  <2>1. k \in Message
    BY MessageType DEF Message
  <2>2. td[n].state # "unknown"
    BY <1>3, <1>4
  <2>3. td[k].state # "unknown"
    BY <1>1, <2>2 DEF InTurn
  <2> QED
    BY <1>3, <2>1, <2>3
<1>12. FrontFits(r)
  BY <1>1, <1>9 DEF FrontFits
<1>13. edits' = edits /\ due' = due /\ closing' = closing
  BY DEF UpdateDeleteMessages
<1>14. Good(Bundle', td', edits', due', closing')
  BY <1>2, <1>8, <1>10, <1>13
<1> QED
  BY <1>1, <1>2, <1>8, <1>11, <1>12, <1>13, <1>14 DEF Inv

LEMMA StartClosingStep ==
  ASSUME Inv, StartClosing
  PROVE  Inv'
<1>1. /\ Good(Bundle, td, edits, due, closing) /\ FrontFits(Bundle) /\ edits \in Counts /\ InTurn(td)
  BY DEF Inv
<1>2. /\ Bundle' = Bundle /\ td' = td /\ edits' = edits /\ due' = due /\ closing' = TRUE
  BY DEF StartClosing, Bundle
<1>3. Good(Bundle, td, edits, due, TRUE)
  BY <1>1 DEF Good
<1>4. Good(Bundle', td', edits', due', closing')
  BY <1>2, <1>3
<1> QED
  BY <1>1, <1>2, <1>4 DEF Inv

LEMMA NextInv == Inv /\ [Next]_vars => Inv'
<1> SUFFICES ASSUME Inv, [Next]_vars PROVE Inv'
  OBVIOUS
<1>1. ASSUME NEW m \in Message, UpdateNewMessage(m) PROVE Inv'
  BY <1>1, UpdateNewMessageStep
<1>2. ASSUME NEW m \in Message, OldMessage(m) PROVE Inv'
  BY <1>2, OldMessageStep
<1>3. ASSUME NEW m \in Message, UpdateMessageContent(m) PROVE Inv'
  BY <1>3, UpdateMessageContentStep
<1>4. ASSUME NEW m \in Message, UpdateMessageEdited(m) PROVE Inv'
  BY <1>4, UpdateMessageEditedStep
<1>5. ASSUME NEW m \in Message, GetEditedMessage(m) PROVE Inv'
  BY <1>5, GetEditedMessageStep
<1>6. ASSUME NEW m \in Message, NEW unloaded \in BOOLEAN, UpdateDeleteMessages(m, unloaded) PROVE Inv'
  BY <1>6, UpdateDeleteMessagesStep
<1>7. ASSUME NEW found \in BOOLEAN, GetReplyMessage(found) PROVE Inv'
  BY <1>7, GetReplyMessageStep
<1>8. CASE StickerSetNamesKnown
  BY <1>8, StickerSetNamesKnownStep
<1>9. CASE StartClosing
  BY <1>9, StartClosingStep
<1>10. CASE UNCHANGED vars
  <2>1. /\ Bundle' = Bundle /\ td' = td /\ edits' = edits /\ due' = due /\ closing' = closing
    BY <1>10 DEF vars, Bundle
  <2>2. /\ Good(Bundle, td, edits, due, closing) /\ FrontFits(Bundle) /\ edits \in Counts
        /\ closing \in BOOLEAN /\ InTurn(td)
    BY DEF Inv
  <2>3. Good(Bundle', td', edits', due', closing')
    BY <2>1, <2>2
  <2> QED
    BY <2>1, <2>2, <2>3 DEF Inv
<1> QED
  BY <1>1, <1>2, <1>3, <1>4, <1>5, <1>6, <1>7, <1>8, <1>9, <1>10 DEF Next

\* Inv is an invariant: the versions of every message, from what was stored through the cache and
\* the queue to what TDLib told last, never go back, and nothing that TDLib told last is forgotten.
THEOREM VersionsAreInvariant == Spec => []Inv
<1> QED
  BY InitInv, NextInv, PTL DEF Spec

-----------------------------------------------------------------------------
(* What follows.                                                           *)

\* A queue of new messages with has_active_request_ waits for exactly one lookup, made for its
\* front message, and every other queue is empty.
THEOREM FrontIsAwaited == Spec => []FrontAwaited
<1>1. Inv => FrontAwaited
  <2> SUFFICES ASSUME Inv PROVE FrontAwaited
    OBVIOUS
  <2>1. /\ active <=> queue # <<>>
        /\ active <=> lookups # {}
        /\ lookups = {} \/ lookups = {"reply"} \/ lookups = {"stickers"}
        /\ "reply" \in lookups => ReplyTo[Head(queue).m] # 0
    BY BundleFields DEF Inv, FrontFits
  <2>2. Cardinality(lookups) <= 1
    <3>1. Cardinality({}) = 0 /\ Cardinality({"reply"}) = 1 /\ Cardinality({"stickers"}) = 1
      BY FS_EmptySet, FS_Singleton
    <3>2. PICK n : n = Cardinality(lookups)
      OBVIOUS
    <3>3. n = 0 \/ n = 1
      BY <2>1, <3>1, <3>2, Zenon
    <3> QED
      BY <3>2, <3>3
  <2> QED
    BY <2>1, <2>2 DEF FrontAwaited
<1> QED
  BY <1>1, VersionsAreInvariant, PTL

\* The bot is told of new messages in the order of the chat, and of an edited message only after
\* the message itself, although lookups and edits come back whenever they like.
THEOREM MessagesInOrder == Spec => []InOrder
<1>1. Inv => InOrder
  BY BundleFields DEF Inv, Good, OrderInv, InOrder
<1> QED
  BY <1>1, VersionsAreInvariant, PTL

\* Two updates about one message never show its versions in the wrong order.
THEOREM VersionsNeverOld == Spec => []NoOldVersion
<1>1. Inv => NoOldVersion
  <2> SUFFICES ASSUME Inv, NEW j \in 1..Len(stored), NEW i \in 1..j-1,
                      stored[i].m = stored[j].m, td[stored[i].m].state = "known"
               PROVE  /\ stored[i].v.content <= stored[j].v.content
                      /\ stored[i].v.markup <= stored[j].v.markup
    BY DEF NoOldVersion
  <2>1. Bundle \in Bundles /\ VersionInv(Bundle, td)
    BY DEF Inv, Good
  <2>2. stored[j].m \in Message
    BY <2>1, BundleFields, BundleType
  <2>3. StoredVersions(Bundle, td, stored[j].m)
    BY <2>1, <2>2 DEF VersionInv
  <2> QED
    BY <2>3, BundleFields DEF StoredVersions, Older
<1> QED
  BY <1>1, VersionsAreInvariant, PTL

\* LastTold reads the last update about a message.
LEMMA LastToldIsLast ==
  ASSUME Bundle \in Bundles, NEW m, \E i \in 1..Len(stored) : stored[i].m = m
  PROVE  \E i \in 1..Len(stored) : IsLast(stored, m, i) /\ LastTold(m) = stored[i].v
<1> DEFINE A == {i \in 1..Len(stored) : stored[i].m = m}
           T == {n \in 0..Len(stored) : Len(stored) - n \in A}
<1>1. Len(stored) \in Nat
  BY BundleFields, BundleType
<1>2. T \subseteq Nat /\ T # {}
  <2>1. PICK i \in 1..Len(stored) : stored[i].m = m
    OBVIOUS
  <2>2. i \in Int /\ Len(stored) - i \in 0..Len(stored) /\ Len(stored) - (Len(stored) - i) = i
    BY <1>1, <2>1
  <2>3. Len(stored) - i \in T
    BY <2>1, <2>2
  <2>4. \A n \in 0..Len(stored) : n \in Nat
    BY <1>1
  <2> QED
    BY <2>3, <2>4
<1>3. \E n \in T : \A k \in T : n <= k
  BY <1>2, LeastNumber
<1>4. PICK n \in T : \A k \in T : n <= k
  BY <1>3
<1>5. PICK top : top = Len(stored) - n
  OBVIOUS
<1>6. top \in A /\ top \in Int /\ n \in Nat
  BY <1>1, <1>4, <1>5
<1>7. ASSUME NEW i \in A PROVE i <= top
  <2>1. i \in Int /\ Len(stored) - i \in 0..Len(stored) /\ Len(stored) - (Len(stored) - i) = i
    BY <1>1
  <2>2. Len(stored) - i \in T
    BY <2>1
  <2>3. n <= Len(stored) - i
    BY <1>4, <2>2
  <2> QED
    BY <1>1, <1>5, <1>6, <2>1, <2>3
<1>8. Max(A) = top
  <2>1. \A i \in A : i \in Int
    BY <1>1
  <2>2. \A x \in A : (\A y \in A : x >= y) => x = top
    BY <1>6, <1>7, <2>1
  <2>3. \A y \in A : top >= y
    BY <1>6, <1>7, <2>1
  <2> HIDE DEF A
  <2>4. Max(A) = CHOOSE x \in A : \A y \in A : x >= y
    BY DEF Max
  <2> QED
    BY <1>6, <2>2, <2>3, <2>4
<1>9. IsLast(stored, m, top)
  <2>1. top \in 1..Len(stored) /\ stored[top].m = m
    BY <1>6
  <2>2. ASSUME NEW k \in top+1..Len(stored) PROVE stored[k].m # m
    <3>1. k \in 1..Len(stored) /\ ~(k <= top)
      BY <1>1, <1>6
    <3> QED
      BY <1>7, <3>1
  <2> QED
    BY <2>1, <2>2 DEF IsLast
<1>10. LastTold(m) = stored[top].v
  BY <1>8 DEF LastTold
<1> QED
  BY <1>6, <1>9, <1>10

\* When nothing is under way, the bot has been told of the last keyboard of every message it
\* knows, and of its last content unless add_message hid it; except for the messages whose last
\* news were kept from it, because when their turn came they were older than a day or the bot
\* was not in the chat (need_skip_update_message).
THEOREM EditsDoArrive == Spec => []EditsArrive
<1>1. Inv => EditsArrive
  <2> SUFFICES ASSUME Inv, Rest, NEW m \in Message, td[m].state = "known",
                      Told(m), m \notin skipped
               PROVE  /\ LastTold(m).markup = td[m].v.markup
                      /\ m \notin stale => LastTold(m).content = td[m].v.content
    BY DEF EditsArrive
  <2>1. Bundle \in Bundles /\ ArriveInv(Bundle, td, edits, due)
    BY DEF Inv, Good, Rest
  <2>2. PICK i \in 1..Len(stored) : IsLast(stored, m, i) /\ LastTold(m) = stored[i].v
    BY <2>1, LastToldIsLast DEF Told
  <2>3. queue = <<>> /\ due = 0 /\ edits[m] = 0
    BY DEF Rest
  <2>4. Arrives(Bundle, td, edits, due, m)
    BY <2>1 DEF ArriveInv
  <2>5. due # m
    BY <2>3, MessageType DEF Message
  <2>6. ~(edits[m] > 0)
    BY <2>3
  <2>7. Len(Bundle.queue) = 0
    BY <2>3, BundleFields, EmptySeq
  <2>8. ~WaitsWith(Bundle, m, td[m].v)
    BY <2>7 DEF WaitsWith
  <2>9. Fresh(Bundle, td, m)
    BY <2>4, <2>5, <2>6, <2>8 DEF Arrives
  <2> QED
    BY <2>2, <2>9, BundleFields DEF Fresh
<1> QED
  BY <1>1, VersionsAreInvariant, PTL
=============================================================================
