--------------------------- MODULE RequestsProofs ---------------------------
(***************************************************************************)
(* What holds of Requests for any queries, loads, usernames, keyboards and *)
(* files.                                                                  *)
(*                                                                         *)
(* The invariant has a part for the places where a query can be (HeldInv), *)
(* a part for the files (FilesInv), and a part for the usernames           *)
(* (NamesInv).  The last one relies on the places: a query whose usernames *)
(* are to be resolved waits for no name yet, because it was somewhere else *)
(* before.                                                                 *)
(***************************************************************************)
EXTENDS Requests, SequenceTheorems, FiniteSetTheorems, WellFoundedInduction, TLAPS

ReportKinds == {"answer", "error", "update"}

FileStates == {"idle", "active", "done", "big", "big idle"}

FileReport == [kind : ReportKinds, state : FileStates]

\* Types of what handlers change
HandlerTypes ==
  /\ DOMAIN asking \subseteq Query
  /\ DOMAIN pending \subseteq Query
  /\ answers \in [Query -> Nat]
  /\ awaiting \in [Username -> Seq(Query)]
  /\ listeners \in [File -> Seq(Query)]
  /\ toTd \in [File -> Seq({"download", "cancel"})]
  /\ fromTd \in [File -> Seq(FileReport)]
  /\ remote \in [File -> FileStates]
  /\ bot_user_ids \in [Username -> Nat]
  /\ cur_temp_bot_user_id \in Nat \ {0}
  /\ unresolved \in SUBSET Username /\ IsFiniteSet(unresolved)

TypeInv ==
  /\ load \in DOMAIN Loads
  /\ received \subseteq Query
  /\ cmd_queue \in Seq(Query)
  /\ asleep \subseteq Query
  /\ HandlerTypes

\* The places of a query, and what they have to do with each other
InQueue(q) == \E i \in DOMAIN cmd_queue : cmd_queue[i] = q
Listens(q) == \E f \in File : q \in Listening(f)

QueuedOnce(q) ==
  \A i, j \in DOMAIN cmd_queue : cmd_queue[i] = q /\ cmd_queue[j] = q => i = j

ListensOnce(q) ==
  \A f, g \in File : \A i \in DOMAIN listeners[f], j \in DOMAIN listeners[g] :
    listeners[f][i] = q /\ listeners[g][j] = q => f = g /\ i = j

\* A handler has begun with the query.
Begun(q) == q \in DOMAIN asking \/ q \in DOMAIN pending \/ Listens(q) \/ answers[q] # 0

BegunOnce(q) ==
  /\ q \in DOMAIN asking => q \notin DOMAIN pending /\ ~Listens(q) /\ answers[q] = 0
  /\ q \in DOMAIN pending => ~Listens(q) /\ answers[q] = 0
  /\ Listens(q) => answers[q] = 0
  /\ answers[q] \in {0, 1}
  /\ ListensOnce(q)

OnePlace(q) ==
  /\ q \in received <=> InQueue(q) \/ q \in asleep \/ Begun(q)
  /\ InQueue(q) => q \notin asleep /\ ~Begun(q)
  /\ q \in asleep => ~Begun(q)
  /\ QueuedOnce(q)
  /\ BegunOnce(q)

HeldInv == TypeInv /\ \A q \in Query : OnePlace(q)
-----------------------------------------------------------------------------
(* Keyboards.                                                              *)

Button == [name : Username \cup {Own}, id : Nat \ {0}]

ParsedType ==
  [ids : [Username -> Nat], next : Nat \ {0}, unresolved : SUBSET Username, buttons : Seq(Button),
   cleared : SUBSET Username]

KeepsIds(p) == \A u \in Username : bot_user_ids[u] # 0 => p.ids[u] = bot_user_ids[u]

\* What is known of a name that was not known before
NewIds(p) ==
  \A u \in Username : bot_user_ids[u] = 0 /\ p.ids[u] # 0 =>
    \E n \in Nat : n >= cur_temp_bot_user_id /\ n < p.next /\ p.ids[u] = 1000 * n

DistinctIds(p) ==
  \A u, v \in Username :
    bot_user_ids[u] = 0 /\ bot_user_ids[v] = 0 /\ p.ids[u] # 0 /\ p.ids[u] = p.ids[v] => u = v

ButtonNamed(p, b) ==
  IF b.name = Own THEN b.id = MyId
  ELSE /\ b.id = p.ids[b.name]
       /\ IsTemporary(b.id) => b.name \in p.unresolved \cup p.cleared

\* A button that was named before p became r still is.
NamesStay(p, r) == \A b \in Button : ButtonNamed(p, b) => ButtonNamed(r, b)

\* What is known after some buttons of some keyboards
ParsedInv(p) ==
  /\ p \in ParsedType
  /\ IsFiniteSet(p.unresolved)
  /\ p.next >= cur_temp_bot_user_id
  /\ KeepsIds(p) /\ NewIds(p) /\ DistinctIds(p)
  /\ \A i \in DOMAIN p.buttons : ButtonNamed(p, p.buttons[i])

LEMMA Least ==
  ASSUME NEW T, T \subseteq Nat, T # {}
  PROVE  \E m \in T : \A n \in T : m <= n
  <1>1. PICK m \in T : \A n \in T : ~ (<<n, m>> \in OpToRel(<, Nat))
    BY NatLessThanWellFounded, WFMin
  <1>2. \A n \in T : ~ (n < m)
    BY <1>1 DEF OpToRel
  <1> QED
    BY <1>2

LEMMA LoginButtonKeepsNames ==
  ASSUME NEW p \in ParsedType, NEW u \in Username \cup {Own}
  PROVE  NamesStay(p, LoginButton(p, u))
  <1> SUFFICES ASSUME NEW b \in Button, ButtonNamed(p, b) PROVE ButtonNamed(LoginButton(p, u), b)
    BY DEF NamesStay
  <1>1. CASE u = Own
    BY <1>1 DEF LoginButton, ButtonNamed, ParsedType
  <1>2. CASE u # Own
    <2> DEFINE new == p.ids[u] = 0
               id == IF new THEN 1000 * p.next ELSE p.ids[u]
               r == LoginButton(p, u)
    <2>1. u \in Username /\ p.ids \in [Username -> Nat]
      BY <1>2 DEF ParsedType
    <2>2. /\ r.ids = [p.ids EXCEPT ![u] = id]
          /\ r.unresolved = IF IsTemporary(id) THEN p.unresolved \cup {u} ELSE p.unresolved
          /\ r.cleared = p.cleared \ {u}
      BY <1>2 DEF LoginButton
    <2>3. b.id # 0 /\ b.name \in Username \cup {Own}
      BY DEF Button
    <2> HIDE DEF r
    <2>4. CASE b.name = Own
      BY <2>4 DEF ButtonNamed, r
    <2>5. CASE b.name # Own
      <3>1. b.id = p.ids[b.name] /\ (IsTemporary(b.id) => b.name \in p.unresolved \cup p.cleared)
        BY <2>5 DEF ButtonNamed
      <3>2. b.name = u => b.id = id
        BY <2>3, <3>1
      <3>3. b.id = r.ids[b.name]
        BY <2>1, <2>2, <2>3, <2>5, <3>1, <3>2
      <3>4. IsTemporary(b.id) => b.name \in r.unresolved \cup r.cleared
        BY <2>2, <3>1, <3>2
      <3> QED
        BY <2>5, <3>3, <3>4 DEF ButtonNamed, r
    <2> QED
      BY <2>4, <2>5 DEF r
  <1> QED
    BY <1>1, <1>2

LEMMA LoginButtonKeepsInv ==
  ASSUME TypeInv, NEW p, ParsedInv(p),
         NEW u \in Username \cup {Own}
  PROVE  ParsedInv(LoginButton(p, u))
  <1>1. CASE u = Own
    <2> DEFINE b == [name |-> u, id |-> MyId]
               bs == Append(p.buttons, b)
               r == [p EXCEPT !.buttons = bs]
    <2>1. p \in ParsedType /\ b \in Button /\ b.name = Own /\ b.id = MyId
      BY <1>1, BotNamesAssumption DEF ParsedInv, Button
    <2>2. /\ bs \in Seq(Button)
          /\ \A i \in DOMAIN bs : bs[i] = b \/ (i \in DOMAIN p.buttons /\ bs[i] = p.buttons[i])
      BY <2>1 DEF ParsedType
    <2>3. LoginButton(p, u) = r
      BY <1>1 DEF LoginButton
    <2> HIDE DEF bs, b
    <2>4. /\ r \in ParsedType /\ r.ids = p.ids /\ r.next = p.next /\ r.unresolved = p.unresolved
          /\ r.buttons = bs /\ r.cleared = p.cleared
      BY <2>1, <2>2 DEF ParsedType
    <2> HIDE DEF r
    <2>5. KeepsIds(r) /\ NewIds(r) /\ DistinctIds(r)
      BY <2>4 DEF ParsedInv, KeepsIds, NewIds, DistinctIds
    <2>6. \A i \in DOMAIN r.buttons : ButtonNamed(r, r.buttons[i])
      <3>1. ButtonNamed(r, b)
        BY <2>1 DEF ButtonNamed
      <3>2. \A i \in DOMAIN p.buttons : ButtonNamed(r, p.buttons[i])
        BY <2>4 DEF ParsedInv, ButtonNamed
      <3> QED
        BY <2>2, <2>4, <3>1, <3>2
    <2> QED
      BY <2>3, <2>4, <2>5, <2>6 DEF ParsedInv
  <1>2. CASE u # Own
    <2> DEFINE new == p.ids[u] = 0
               id == IF new THEN 1000 * p.next ELSE p.ids[u]
               b == [name |-> u, id |-> id]
               r == LoginButton(p, u)
    <2>1. /\ p \in ParsedType /\ u \in Username
          /\ p.ids \in [Username -> Nat] /\ p.next \in Nat \ {0} /\ p.buttons \in Seq(Button)
          /\ p.unresolved \in SUBSET Username /\ p.cleared \in SUBSET Username
      BY <1>2 DEF ParsedInv, ParsedType
    <2>2. id \in Nat \ {0} /\ b \in Button /\ b.name = u /\ b.id = id
      BY <2>1 DEF Button
    <2>3. /\ r.ids = [p.ids EXCEPT ![u] = id]
          /\ r.next = IF new THEN p.next + 1 ELSE p.next
          /\ r.unresolved = IF IsTemporary(id) THEN p.unresolved \cup {u} ELSE p.unresolved
          /\ r.buttons = Append(p.buttons, b)
          /\ r.cleared = p.cleared \ {u}
      BY <1>2 DEF LoginButton
    <2>4. r \in ParsedType
      <3>1. /\ r.ids \in [Username -> Nat] /\ r.next \in Nat \ {0}
            /\ r.unresolved \in SUBSET Username /\ r.buttons \in Seq(Button)
            /\ r.cleared \in SUBSET Username
        BY <2>1, <2>2, <2>3
      <3>2. r = [ids |-> r.ids, next |-> r.next, unresolved |-> r.unresolved, buttons |-> r.buttons,
                 cleared |-> r.cleared]
        BY <1>2 DEF LoginButton
      <3> HIDE DEF r
      <3> QED
        BY <3>1, <3>2 DEF ParsedType
    <2>5. new => IsTemporary(id)
      BY <2>1 DEF IsTemporary
    <2>6. \A i \in DOMAIN r.buttons :
            r.buttons[i] = b \/ (i \in DOMAIN p.buttons /\ r.buttons[i] = p.buttons[i])
      BY <2>1, <2>2, <2>3
    <2>7. /\ \A v \in Username : r.ids[v] = IF v = u THEN id ELSE p.ids[v]
          /\ \A v \in Username : p.ids[v] # 0 => r.ids[v] = p.ids[v]
      BY <2>1, <2>3
    <2>8. IsFiniteSet(r.unresolved) /\ p.unresolved \subseteq r.unresolved
      <3>1. IsFiniteSet(p.unresolved) /\ IsFiniteSet(p.unresolved \cup {u})
        BY FS_AddElement DEF ParsedInv
      <3> QED
        BY <2>3, <3>1 DEF ParsedInv
    <2>9. r.next >= cur_temp_bot_user_id /\ r.next >= p.next
      <3>1. p.next >= cur_temp_bot_user_id /\ cur_temp_bot_user_id \in Nat
        BY DEF ParsedInv, TypeInv, HandlerTypes
      <3>2. r.next = p.next \/ r.next = p.next + 1
        BY <2>3
      <3> HIDE DEF r
      <3> QED
        BY <2>1, <3>1, <3>2
    <2>10. KeepsIds(r)
      BY <2>7 DEF ParsedInv, KeepsIds
    <2>11. new => /\ id = 1000 * p.next /\ p.next < r.next
                  /\ p.next >= cur_temp_bot_user_id
      BY <2>1, <2>3, <2>5 DEF ParsedInv
    <2>12. NewIds(r)
      <3> SUFFICES ASSUME NEW v \in Username, bot_user_ids[v] = 0, r.ids[v] # 0
                   PROVE  \E n \in Nat : n >= cur_temp_bot_user_id /\ n < r.next /\ r.ids[v] = 1000 * n
        BY DEF NewIds
      <3>1. CASE p.ids[v] # 0
        <4>1. r.ids[v] = p.ids[v]
          BY <2>7, <3>1
        <4>2. PICK n \in Nat : n >= cur_temp_bot_user_id /\ n < p.next /\ p.ids[v] = 1000 * n
          BY <3>1 DEF ParsedInv, NewIds
        <4>3. n < r.next /\ r.ids[v] = 1000 * n
          BY <2>1, <2>3, <4>1, <4>2
        <4> QED
          BY <4>2, <4>3
      <3>2. CASE p.ids[v] = 0
        <4>1. v = u /\ new
          BY <2>7, <3>2
        <4> QED
          BY <2>1, <2>7, <2>11, <4>1
      <3> QED
        BY <3>1, <3>2
    <2>13. DistinctIds(r)
      <3> SUFFICES ASSUME NEW v \in Username, NEW w \in Username, bot_user_ids[v] = 0,
                          bot_user_ids[w] = 0, r.ids[v] # 0, r.ids[v] = r.ids[w]
                   PROVE  v = w
        BY DEF DistinctIds
      <3>1. ASSUME NEW x \in Username, new, x # u, bot_user_ids[x] = 0, p.ids[x] # 0
            PROVE  p.ids[x] # 1000 * p.next
        <4>1. PICK n \in Nat : n < p.next /\ p.ids[x] = 1000 * n
          BY <3>1 DEF ParsedInv, NewIds
        <4> QED
          BY <2>1, <4>1
      <3>2. CASE p.ids[v] # 0 /\ p.ids[w] # 0
        <4>1. r.ids[v] = p.ids[v] /\ r.ids[w] = p.ids[w]
          BY <2>7, <3>2
        <4> QED
          BY <3>2, <4>1 DEF ParsedInv, DistinctIds
      <3>3. CASE p.ids[v] = 0 /\ w # u
        <4>1. v = u /\ new /\ r.ids[v] = 1000 * p.next /\ r.ids[w] = p.ids[w]
          BY <2>7, <2>11, <3>3
        <4> QED
          BY <3>1, <3>3, <4>1
      <3>4. CASE p.ids[w] = 0 /\ v # u
        <4>1. w = u /\ new /\ r.ids[w] = 1000 * p.next /\ r.ids[v] = p.ids[v]
          BY <2>7, <2>11, <3>4
        <4> QED
          BY <3>1, <3>4, <4>1
      <3>5. p.ids[v] = 0 => v = u
        BY <2>7
      <3>6. p.ids[w] = 0 => w = u
        BY <2>7
      <3> QED
        BY <3>2, <3>3, <3>4, <3>5, <3>6
    <2>14. \A i \in DOMAIN r.buttons : ButtonNamed(r, r.buttons[i])
      <3>1. ButtonNamed(r, b)
        <4>1. r.ids[u] = id
          BY <2>1, <2>7
        <4>2. IsTemporary(id) => u \in r.unresolved
          BY <2>3
        <4> HIDE DEF r
        <4> QED
          BY <1>2, <2>2, <4>1, <4>2 DEF ButtonNamed
      <3>2. \A i \in DOMAIN p.buttons : ButtonNamed(r, p.buttons[i])
        <4>1. NamesStay(p, r)
          BY <2>1, LoginButtonKeepsNames
        <4>2. \A i \in DOMAIN p.buttons : p.buttons[i] \in Button /\ ButtonNamed(p, p.buttons[i])
          BY <2>1 DEF ParsedInv
        <4> QED
          BY <4>1, <4>2 DEF NamesStay
      <3> QED
        BY <2>6, <3>1, <3>2
    <2> HIDE DEF r
    <2>15. ParsedInv(r)
      BY <2>4, <2>8, <2>9, <2>10, <2>12, <2>13, <2>14 DEF ParsedInv
    <2> QED
      BY <2>15 DEF r
  <1> QED
    BY <1>1, <1>2

\* One button after the other
LEMMA AfterButtonsKeepsInv ==
  ASSUME TypeInv, NEW p, ParsedInv(p), NEW k \in Keyboards
  PROVE  ParsedInv(AfterButtons(p, k)) /\ NamesStay(p, AfterButtons(p, k))
  <1> DEFINE N == Len(k)
             Step(g, m) == [n \in 0..m |-> IF n = 0 THEN p ELSE LoginButton(g[n - 1], k[n])]
             after == CHOOSE g : g = Step(g, N)
  <1>1. k \in Seq(Username \cup {Own}) /\ N \in Nat
    BY BotNamesAssumption
  <1>2. AfterButtons(p, k) = after[N]
    BY DEF AfterButtons
  <1>3. \A m \in 0..N : \E g : g = Step(g, m)
    <2> DEFINE T == {m \in 0..N : ~ \E g : g = Step(g, m)}
    <2>1. SUFFICES ASSUME T # {} PROVE FALSE
      OBVIOUS
    <2>2. PICK m \in T : \A n \in T : m <= n
      <3>1. T \subseteq Nat
        BY <1>1
      <3> HIDE DEF T
      <3> QED
        BY <2>1, <3>1, Least
    <2>3. CASE m = 0
      <3> DEFINE h == [n \in 0..0 |-> p]
      <3>1. h = Step(h, 0)
        OBVIOUS
      <3> QED
        BY <2>2, <2>3, <3>1
    <2>4. CASE m # 0
      <3>1. m \in Nat \ {0} /\ m - 1 \in 0..N /\ m - 1 \notin T
        <4>1. m \in Nat \ {0} /\ m - 1 \in 0..N /\ ~(m <= m - 1)
          BY <1>1, <2>2, <2>4
        <4> HIDE DEF T
        <4> QED
          BY <2>2, <4>1
      <3>2. PICK g : g = Step(g, m - 1)
        BY <3>1
      <3> DEFINE h == [n \in 0..m |-> IF n = m THEN LoginButton(g[m - 1], k[m]) ELSE g[n]]
      <3>3. \A n \in 0..m : h[n] = IF n = 0 THEN p ELSE LoginButton(h[n - 1], k[n])
        <4> SUFFICES ASSUME NEW n \in 0..m
                     PROVE  h[n] = IF n = 0 THEN p ELSE LoginButton(h[n - 1], k[n])
          OBVIOUS
        <4>1. CASE n = m
          <5>1. h[n - 1] = g[m - 1] /\ h[n] = LoginButton(g[m - 1], k[m])
            BY <3>1, <4>1
          <5> QED
            BY <3>1, <4>1, <5>1
        <4>2. CASE n # m
          <5>1. n \in 0..(m - 1) /\ h[n] = g[n] /\ (n # 0 => h[n - 1] = g[n - 1])
            BY <3>1, <4>2
          <5>2. g[n] = IF n = 0 THEN p ELSE LoginButton(g[n - 1], k[n])
            BY <3>2, <5>1
          <5> QED
            BY <5>1, <5>2
        <4> QED
          BY <4>1, <4>2
      <3>4. h = Step(h, m)
        BY <3>3
      <3> QED
        BY <2>2, <3>4
    <2> QED
      BY <2>3, <2>4
  <1>4. after = Step(after, N)
    <2>1. \E g : g = Step(g, N)
      BY <1>1, <1>3
    <2> QED
      BY <2>1
  <1>5. \A m \in 0..N : ParsedInv(after[m]) /\ NamesStay(p, after[m])
    <2> DEFINE T == {m \in 0..N : ~(ParsedInv(after[m]) /\ NamesStay(p, after[m]))}
    <2>1. SUFFICES ASSUME T # {} PROVE FALSE
      OBVIOUS
    <2>2. PICK m \in T : \A n \in T : m <= n
      <3>1. T \subseteq Nat
        BY <1>1
      <3> HIDE DEF T
      <3> QED
        BY <2>1, <3>1, Least
    <2>3. CASE m = 0
      <3>1. after[m] = p
        BY <1>1, <1>4, <2>3
      <3>2. NamesStay(p, p)
        BY DEF NamesStay
      <3> QED
        BY <2>2, <3>1, <3>2
    <2>4. CASE m # 0
      <3>1. m \in Nat \ {0} /\ m - 1 \in 0..N /\ m - 1 \notin T /\ m \in 1..N
        BY <1>1, <2>2, <2>4
      <3>2. ParsedInv(after[m - 1]) /\ NamesStay(p, after[m - 1])
        BY <3>1
      <3>3. after[m] = LoginButton(after[m - 1], k[m])
        BY <1>1, <1>4, <3>1
      <3>4. k[m] \in Username \cup {Own}
        BY <1>1, <3>1
      <3>5. ParsedInv(after[m])
        BY <3>2, <3>3, <3>4, LoginButtonKeepsInv
      <3>6. NamesStay(after[m - 1], after[m])
        BY <3>2, <3>3, <3>4, LoginButtonKeepsNames DEF ParsedInv
      <3>7. NamesStay(p, after[m])
        BY <3>2, <3>6 DEF NamesStay
      <3> QED
        BY <2>2, <3>5, <3>7
    <2> QED
      BY <2>3, <2>4
  <1> QED
    BY <1>1, <1>2, <1>5

LEMMA StartIs ==
  ASSUME TypeInv, NEW over \in SUBSET Username, IsFiniteSet(over)
  PROVE  ParsedInv(Start(over))
  <1>1. PICK p : p = Start(over)
    OBVIOUS
  <1>2. p \in ParsedType
    <2>1. <<>> \in Seq(Button)
      OBVIOUS
    <2> QED
      BY <1>1, <2>1 DEF TypeInv, HandlerTypes, ParsedType, Start
  <1>3. /\ p.next = cur_temp_bot_user_id /\ p.ids = bot_user_ids
        /\ p.unresolved = over /\ p.buttons = <<>>
    BY <1>1 DEF Start
  <1>4. p.next >= cur_temp_bot_user_id
    <2>1. cur_temp_bot_user_id \in Nat
      BY DEF TypeInv, HandlerTypes
    <2> QED
      BY <1>3, <2>1
  <1>5. KeepsIds(p) /\ NewIds(p) /\ DistinctIds(p)
    BY <1>3 DEF KeepsIds, NewIds, DistinctIds
  <1>6. DOMAIN p.buttons = {}
    BY <1>3
  <1> QED
    BY <1>1, <1>2, <1>3, <1>4, <1>5, <1>6 DEF ParsedInv

\* A keyboard that is not inline leaves the buttons before it, and their names are cleared.
LEMMA ReplyMarkupKeepsInv ==
  ASSUME TypeInv, NEW p, ParsedInv(p), NEW markup \in Markup
  PROVE  ParsedInv(AfterButtons(p, markup.names)) /\ ParsedInv(ReplyMarkup(p, markup))
  <1>1. PICK a : a = AfterButtons(p, markup.names)
    OBVIOUS
  <1>2. markup.names \in Keyboards /\ markup.inline \in BOOLEAN
    BY DEF Markup
  <1>3. ParsedInv(a) /\ NamesStay(p, a)
    BY <1>1, <1>2, AfterButtonsKeepsInv
  <1>4. CASE markup.inline
    BY <1>1, <1>3, <1>4 DEF ReplyMarkup
  <1>5. CASE ~markup.inline
    <2>1. PICK r : r = [a EXCEPT !.buttons = p.buttons, !.unresolved = {},
                                 !.cleared = @ \cup a.unresolved]
      OBVIOUS
    <2>2. a \in ParsedType /\ p.buttons \in Seq(Button) /\ a.cleared \cup a.unresolved \in SUBSET Username
      BY <1>3 DEF ParsedInv, ParsedType
    <2>3. /\ r \in ParsedType /\ r.ids = a.ids /\ r.next = a.next /\ r.buttons = p.buttons
          /\ r.unresolved = {} /\ r.cleared = a.cleared \cup a.unresolved
      BY <2>1, <2>2 DEF ParsedType
    <2>4. KeepsIds(r) /\ NewIds(r) /\ DistinctIds(r) /\ r.next >= cur_temp_bot_user_id
      BY <1>3, <2>3 DEF ParsedInv, KeepsIds, NewIds, DistinctIds
    <2>5. ASSUME NEW i \in DOMAIN r.buttons PROVE ButtonNamed(r, r.buttons[i])
      <3>1. p.buttons[i] \in Button /\ ButtonNamed(p, p.buttons[i])
        BY <2>2, <2>3 DEF ParsedInv
      <3>2. ButtonNamed(a, p.buttons[i])
        BY <1>3, <3>1 DEF NamesStay
      <3> QED
        BY <2>3, <3>2 DEF ButtonNamed
    <2>6. IsFiniteSet(r.unresolved)
      BY <2>3, FS_EmptySet
    <2>7. ParsedInv(r)
      BY <2>3, <2>4, <2>5, <2>6 DEF ParsedInv
    <2>8. ReplyMarkup(p, markup) = r
      BY <1>1, <1>5, <2>1 DEF ReplyMarkup
    <2> QED
      BY <1>1, <1>3, <2>7, <2>8
  <1> QED
    BY <1>2, <1>4, <1>5

\* One keyboard after the other
LEMMA ReplyMarkupsIs ==
  ASSUME TypeInv, NEW markups \in Seq(Markup), NEW over \in SUBSET Username, IsFiniteSet(over)
  PROVE  ParsedInv(ReplyMarkups(markups, over))
  <1> DEFINE N == Len(markups)
             Step(g, m) == [n \in 0..m |-> IF n = 0 THEN Start(over) ELSE ReplyMarkup(g[n - 1], markups[n])]
             after == CHOOSE g : g = Step(g, N)
  <1>1. markups \in Seq(Markup) /\ N \in Nat
    BY BotNamesAssumption
  <1>2. ReplyMarkups(markups, over) = after[N]
    BY DEF ReplyMarkups
  <1>3. \A m \in 0..N : \E g : g = Step(g, m)
    <2> DEFINE T == {m \in 0..N : ~ \E g : g = Step(g, m)}
    <2>1. SUFFICES ASSUME T # {} PROVE FALSE
      OBVIOUS
    <2>2. PICK m \in T : \A n \in T : m <= n
      <3>1. T \subseteq Nat
        BY <1>1
      <3> HIDE DEF T
      <3> QED
        BY <2>1, <3>1, Least
    <2>3. CASE m = 0
      <3> DEFINE h == [n \in 0..0 |-> Start(over)]
      <3>1. h = Step(h, 0)
        OBVIOUS
      <3> QED
        BY <2>2, <2>3, <3>1
    <2>4. CASE m # 0
      <3>1. m \in Nat \ {0} /\ m - 1 \in 0..N /\ m - 1 \notin T
        <4>1. m \in Nat \ {0} /\ m - 1 \in 0..N /\ ~(m <= m - 1)
          BY <1>1, <2>2, <2>4
        <4> HIDE DEF T
        <4> QED
          BY <2>2, <4>1
      <3>2. PICK g : g = Step(g, m - 1)
        BY <3>1
      <3> DEFINE h == [n \in 0..m |-> IF n = m THEN ReplyMarkup(g[m - 1], markups[m]) ELSE g[n]]
      <3>3. \A n \in 0..m : h[n] = IF n = 0 THEN Start(over) ELSE ReplyMarkup(h[n - 1], markups[n])
        <4> SUFFICES ASSUME NEW n \in 0..m
                     PROVE  h[n] = IF n = 0 THEN Start(over) ELSE ReplyMarkup(h[n - 1], markups[n])
          OBVIOUS
        <4>1. CASE n = m
          <5>1. h[n - 1] = g[m - 1] /\ h[n] = ReplyMarkup(g[m - 1], markups[m])
            BY <3>1, <4>1
          <5> QED
            BY <3>1, <4>1, <5>1
        <4>2. CASE n # m
          <5>1. n \in 0..(m - 1) /\ h[n] = g[n] /\ (n # 0 => h[n - 1] = g[n - 1])
            BY <3>1, <4>2
          <5>2. g[n] = IF n = 0 THEN Start(over) ELSE ReplyMarkup(g[n - 1], markups[n])
            BY <3>2, <5>1
          <5> QED
            BY <5>1, <5>2
        <4> QED
          BY <4>1, <4>2
      <3>4. h = Step(h, m)
        BY <3>3
      <3> QED
        BY <2>2, <3>4
    <2> QED
      BY <2>3, <2>4
  <1>4. after = Step(after, N)
    <2>1. \E g : g = Step(g, N)
      BY <1>1, <1>3
    <2> QED
      BY <2>1
  <1>5. \A m \in 0..N : ParsedInv(after[m])
    <2> DEFINE T == {m \in 0..N : ~ParsedInv(after[m])}
    <2>1. SUFFICES ASSUME T # {} PROVE FALSE
      OBVIOUS
    <2>2. PICK m \in T : \A n \in T : m <= n
      <3>1. T \subseteq Nat
        BY <1>1
      <3> HIDE DEF T
      <3> QED
        BY <2>1, <3>1, Least
    <2>3. CASE m = 0
      <3>1. after[m] = Start(over)
        BY <1>1, <1>4, <2>3
      <3> QED
        BY <2>2, <3>1, StartIs
    <2>4. CASE m # 0
      <3>1. m \in Nat \ {0} /\ m - 1 \in 0..N /\ m - 1 \notin T /\ m \in 1..N
        BY <1>1, <2>2, <2>4
      <3>2. ParsedInv(after[m - 1])
        BY <3>1
      <3>3. after[m] = ReplyMarkup(after[m - 1], markups[m])
        BY <1>1, <1>4, <3>1
      <3>4. markups[m] \in Markup
        BY <1>1, <3>1
      <3>5. ParsedInv(after[m])
        BY <3>2, <3>3, <3>4, ReplyMarkupKeepsInv
      <3> QED
        BY <2>2, <3>5
    <2> QED
      BY <2>3, <2>4
  <1> QED
    BY <1>1, <1>2, <1>5

-----------------------------------------------------------------------------
(* What a handler does.                                                    *)

LEMMA ListsAre ==
  ASSUME NEW op, NEW markups \in Lists(op)
  PROVE  markups \in Seq(Markup)
  <1>1. \A markup \in Markup : <<markup>> \in Seq(Markup)
    OBVIOUS
  <1>2. Results \subseteq Seq(Markup)
    BY BotNamesAssumption
  <1> QED
    BY <1>1, <1>2, Zenon DEF Lists

\* The maps of usernames are as they were, or keyboards were parsed and not used.
NamesKept(over) ==
  /\ UNCHANGED <<pending, awaiting, temp_to_real>>
  /\ \/ unresolved' = over /\ UNCHANGED <<bot_user_ids, cur_temp_bot_user_id>>
     \/ \E p : /\ ParsedInv(p)
               /\ bot_user_ids' = p.ids
               /\ cur_temp_bot_user_id' = p.next
               /\ unresolved' = p.unresolved

\* The query begins to wait for names, if the searches do not fail at once.
StartsToResolve(q) ==
  \E p : /\ ParsedInv(p) /\ p.unresolved # {}
         /\ \E then : ResolveBotUsernames(q, p, then, Closing)
         /\ Answer(IF ResolveFails(p.unresolved, Closing) THEN {q} ELSE {})

LEMMA ContinueIs ==
  ASSUME TypeInv, NEW q, NEW steps, NEW over \in SUBSET Username, IsFiniteSet(over),
         Continue(q, steps, over)
  PROVE  \/ /\ \/ \E o : SettleOne(q, o)
               \/ Answer({q}) /\ Unhold(q)
               \/ over # {} /\ UNCHANGED <<answers, asking>>
            /\ NamesKept(over)
            /\ UNCHANGED downloadVars
         \/ /\ StartsToResolve(q)
            /\ Unhold(q)
            /\ UNCHANGED downloadVars
         \/ /\ ListenToFile(q)
            /\ Unhold(q)
            /\ NamesKept(over)
  <1>1. PICK o \in Outcomes(steps) :
          \/ /\ o.kind \in {"answer", "ask"}
             /\ SettleOne(q, o)
             /\ unresolved' = over
             /\ UNCHANGED <<bot_user_ids, cur_temp_bot_user_id, pending, awaiting, temp_to_real,
                            downloadVars, aborted>>
          \/ /\ o.kind \in ParsesKeyboards
             /\ \/ MarkupFails(q, over, Lists(o.kind))
                \/ o.kind = "names" /\ WithoutMarkup(q, over, o.left)
                \/ WithMarkups(q, over, o.left, Lists(o.kind))
             /\ UNCHANGED downloadVars
          \/ /\ o.kind = "download"
             /\ ListenToFile(q)
             /\ Unhold(q)
             /\ unresolved' = over
             /\ UNCHANGED <<bot_user_ids, cur_temp_bot_user_id, pending, awaiting, temp_to_real, aborted>>
    BY DEF Continue
  <1>2. CASE /\ SettleOne(q, o)
             /\ unresolved' = over
             /\ UNCHANGED <<bot_user_ids, cur_temp_bot_user_id, pending, awaiting, temp_to_real,
                            downloadVars, aborted>>
    BY <1>2 DEF NamesKept
  <1>3. CASE MarkupFails(q, over, Lists(o.kind)) /\ UNCHANGED downloadVars
    <2>1. PICK markups \in Lists(o.kind) : \E n \in DOMAIN markups :
            \/ KeepNames(AfterButtons(ReplyMarkups(SubSeq(markups, 1, n - 1), over), markups[n].names))
            \/ KeepNames(ReplyMarkup(ReplyMarkups(SubSeq(markups, 1, n - 1), over), markups[n]))
      BY <1>3 DEF MarkupFails
    <2>2. PICK n \in DOMAIN markups :
            \/ KeepNames(AfterButtons(ReplyMarkups(SubSeq(markups, 1, n - 1), over), markups[n].names))
            \/ KeepNames(ReplyMarkup(ReplyMarkups(SubSeq(markups, 1, n - 1), over), markups[n]))
      BY <2>1
    <2>3. markups \in Seq(Markup) /\ markups[n] \in Markup
      <3>1. markups \in Seq(Markup)
        BY ListsAre
      <3> QED
        BY <3>1, ElementOfSeq
    <2>4. SubSeq(markups, 1, n - 1) \in Seq(Markup)
      <3>1. n \in 1..Len(markups) /\ Len(markups) \in Nat
        BY <2>3
      <3>2. \A i \in 1..(n - 1) : markups[i] \in Markup
        BY <2>3, <3>1, ElementOfSeq
      <3> QED
        BY <2>3, <3>1, <3>2
    <2>5. PICK before : before = ReplyMarkups(SubSeq(markups, 1, n - 1), over)
      OBVIOUS
    <2>6. ParsedInv(before)
      BY <2>4, <2>5, ReplyMarkupsIs
    <2>7. ParsedInv(AfterButtons(before, markups[n].names)) /\ ParsedInv(ReplyMarkup(before, markups[n]))
      BY <2>3, <2>6, ReplyMarkupKeepsInv
    <2>8. PICK p : ParsedInv(p) /\ KeepNames(p)
      BY <2>2, <2>5, <2>7
    <2>9. NamesKept(over)
      BY <2>8 DEF KeepNames, NamesKept
    <2> QED
      BY <1>3, <2>9 DEF MarkupFails
  <1>4. CASE WithoutMarkup(q, over, o.left) /\ UNCHANGED downloadVars
    <2>1. NamesKept(over)
      BY <1>4 DEF WithoutMarkup, NamesKept
    <2>2. (over # {} /\ UNCHANGED <<answers, asking>>) \/ \E p : SettleOne(q, p)
      BY <1>4 DEF WithoutMarkup
    <2> QED
      BY <1>4, <2>1, <2>2
  <1>5. CASE WithMarkups(q, over, o.left, Lists(o.kind)) /\ UNCHANGED downloadVars
    <2>1. PICK markups \in Lists(o.kind) :
            IF ReplyMarkups(markups, over).unresolved = {}
            THEN /\ KeepNames(ReplyMarkups(markups, over))
                 /\ \E p \in Outcomes(o.left) : SettleOne(q, p)
                 /\ UNCHANGED aborted
            ELSE /\ ResolveBotUsernames(q, ReplyMarkups(markups, over), o.left, Closing)
                 /\ Answer(IF ResolveFails(ReplyMarkups(markups, over).unresolved, Closing) THEN {q} ELSE {})
                 /\ Unhold(q)
                 /\ UNCHANGED aborted
      BY <1>5 DEF WithMarkups
    <2>2. PICK parsed : parsed = ReplyMarkups(markups, over)
      OBVIOUS
    <2>3. ParsedInv(parsed)
      <3>1. markups \in Seq(Markup)
        BY ListsAre
      <3> QED
        BY <2>2, <3>1, ReplyMarkupsIs
    <2>4. CASE parsed.unresolved = {}
      <3>1. KeepNames(parsed) /\ \E p : SettleOne(q, p)
        BY <2>1, <2>2, <2>4
      <3>2. NamesKept(over)
        BY <2>3, <3>1 DEF KeepNames, NamesKept
      <3> QED
        BY <1>5, <3>1, <3>2
    <2>5. CASE parsed.unresolved # {}
      <3>1. /\ ResolveBotUsernames(q, parsed, o.left, Closing)
            /\ Answer(IF ResolveFails(parsed.unresolved, Closing) THEN {q} ELSE {})
            /\ Unhold(q)
        BY <2>1, <2>2, <2>5
      <3> QED
        BY <1>5, <2>3, <2>5, <3>1 DEF StartsToResolve
    <2> QED
      BY <2>4, <2>5
  <1>6. CASE /\ ListenToFile(q) /\ Unhold(q) /\ unresolved' = over
             /\ UNCHANGED <<bot_user_ids, cur_temp_bot_user_id, pending, awaiting, temp_to_real, aborted>>
    BY <1>6 DEF NamesKept
  <1> QED
    BY <1>1, <1>2, <1>3, <1>4, <1>5, <1>6

\* on_cmd
LEMMA OnCmdIs ==
  ASSUME NEW q, NEW force, OnCmd(q, force)
  PROVE  \/ /\ Answer({q})
            /\ asleep' = asleep \ {q}
            /\ UNCHANGED <<asking, nameVars, downloadVars>>
         \/ /\ \E steps : asking' = Put(asking, q, steps)
            /\ asleep' = asleep \ {q}
            /\ UNCHANGED <<answers, nameVars, downloadVars>>
         \/ /\ asleep' = asleep \cup {q}
            /\ NamesKept({})
            /\ UNCHANGED <<answers, asking, downloadVars>>
         \/ /\ \E steps : Continue(q, steps, {})
            /\ asleep' = asleep \ {q}
  BY DEF OnCmd, OnSpecial, Finish, FloodControl, NamesKept

-----------------------------------------------------------------------------
(* The places of queries.                                                  *)

LEMMA AnswerIs ==
  ASSUME TypeInv, NEW Q, Answer(Q)
  PROVE  /\ answers' \in [Query -> Nat]
         /\ \A q \in Query : answers'[q] = IF q \in Q THEN answers[q] + 1 ELSE answers[q]
  <1>1. answers \in [Query -> Nat] /\ answers' = [q \in Query |-> answers[q] + (IF q \in Q THEN 1 ELSE 0)]
    BY DEF Answer, TypeInv, HandlerTypes
  <1>2. \A q \in Query : answers[q] \in Nat /\ answers'[q] = answers[q] + (IF q \in Q THEN 1 ELSE 0)
    BY <1>1
  <1>3. \A q \in Query : answers'[q] = IF q \in Q THEN answers[q] + 1 ELSE answers[q]
    BY <1>2
  <1>4. \A q \in Query : answers'[q] \in Nat
    BY <1>2, <1>3
  <1>5. answers' = [q \in Query |-> answers'[q]]
    BY <1>1
  <1> QED
    BY <1>3, <1>4, <1>5

LEMMA SettleIs ==
  ASSUME TypeInv, NEW q \in Query, NEW o, SettleOne(q, o)
  PROVE  LET done == o.kind = "answer"
         IN  /\ answers' \in [Query -> Nat]
             /\ \A r \in Query : answers'[r] = IF r = q /\ done THEN answers[r] + 1 ELSE answers[r]
             /\ DOMAIN asking' = IF done THEN DOMAIN asking \ {q} ELSE DOMAIN asking \cup {q}
  <1> DEFINE outcome == [r \in {q} |-> o]
             D == {r \in DOMAIN outcome : outcome[r].kind = "answer"}
  <1>1. DOMAIN outcome = {q} /\ outcome[q] = o
    OBVIOUS
  <1>2. D = IF o.kind = "answer" THEN {q} ELSE {}
    BY <1>1
  <1>3. Answer(D) /\ DOMAIN asking' = (DOMAIN asking \cup {q}) \ D
    BY <1>1 DEF SettleOne, Settle
  <1> HIDE DEF D
  <1> QED
    BY <1>2, <1>3, AnswerIs

\* Names that were kept have their types.
LEMMA NamesKeptTypes ==
  ASSUME TypeInv, NEW over \in SUBSET Username, IsFiniteSet(over), NamesKept(over)
  PROVE  /\ DOMAIN pending' = DOMAIN pending /\ awaiting' \in [Username -> Seq(Query)]
         /\ bot_user_ids' \in [Username -> Nat] /\ cur_temp_bot_user_id' \in Nat \ {0}
         /\ unresolved' \in SUBSET Username /\ IsFiniteSet(unresolved')
  <1>1. CASE unresolved' = over /\ UNCHANGED <<bot_user_ids, cur_temp_bot_user_id>>
    BY <1>1 DEF NamesKept, TypeInv, HandlerTypes
  <1>2. ASSUME NEW p, ParsedInv(p), bot_user_ids' = p.ids, cur_temp_bot_user_id' = p.next,
               unresolved' = p.unresolved
        PROVE  /\ bot_user_ids' \in [Username -> Nat] /\ cur_temp_bot_user_id' \in Nat \ {0}
               /\ unresolved' \in SUBSET Username /\ IsFiniteSet(unresolved')
    BY <1>2 DEF ParsedInv, ParsedType
  <1> QED
    BY <1>1, <1>2 DEF NamesKept, TypeInv, HandlerTypes

\* All that listen to a file are told.
LEMMA ListenersCleared ==
  ASSUME TypeInv, NEW f \in File, listeners' = [listeners EXCEPT ![f] = <<>>]
  PROVE  /\ listeners' \in [File -> Seq(Query)]
         /\ Listening(f)' = {} /\ \A g \in File \ {f} : Listening(g)' = Listening(g)
         /\ \A r : /\ r \notin Listening(f) => (Listens(r)' <=> Listens(r))
                   /\ r \in Listening(f) /\ ListensOnce(r) => ~Listens(r)'
                   /\ ListensOnce(r) => ListensOnce(r)'
  <1>1. /\ listeners \in [File -> Seq(Query)] /\ listeners' \in [File -> Seq(Query)]
        /\ listeners'[f] = <<>> /\ \A g \in File \ {f} : listeners'[g] = listeners[g]
    <2>1. listeners \in [File -> Seq(Query)]
      BY DEF TypeInv, HandlerTypes
    <2>2. <<>> \in Seq(Query)
      OBVIOUS
    <2> QED
      BY <2>1, <2>2
  <1>2. Listening(f)' = {} /\ \A g \in File \ {f} : Listening(g)' = Listening(g)
    BY <1>1 DEF Listening
  <1>3. ASSUME NEW r, r \notin Listening(f)
        PROVE  Listens(r)' <=> Listens(r)
    BY <1>2, <1>3 DEF Listens
  <1>4. ASSUME NEW r, r \in Listening(f), ListensOnce(r)
        PROVE  ~Listens(r)'
    <2>1. \A g \in File \ {f} : r \notin Listening(g)
      BY <1>4 DEF Listening, ListensOnce
    <2> QED
      BY <1>2, <2>1 DEF Listens
  <1>5. ASSUME NEW r, ListensOnce(r)
        PROVE  ListensOnce(r)'
    BY <1>1, <1>5 DEF ListensOnce
  <1> QED
    BY <1>1, <1>2, <1>3, <1>4, <1>5

LEMMA ListenerAdded ==
  ASSUME TypeInv, NEW f \in File, NEW q \in Query, ~Listens(q),
         listeners' = [listeners EXCEPT ![f] = Append(@, q)]
  PROVE  /\ listeners' \in [File -> Seq(Query)]
         /\ Listens(q)' /\ ListensOnce(q)'
         /\ \A r : r # q => /\ Listens(r)' <=> Listens(r)
                            /\ ListensOnce(r) => ListensOnce(r)'
  <1>1. /\ listeners \in [File -> Seq(Query)] /\ listeners' \in [File -> Seq(Query)]
        /\ listeners'[f] = Append(listeners[f], q) /\ \A g \in File \ {f} : listeners'[g] = listeners[g]
    <2>1. listeners \in [File -> Seq(Query)]
      BY DEF TypeInv, HandlerTypes
    <2>2. Append(listeners[f], q) \in Seq(Query)
      BY <2>1
    <2> QED
      BY <2>1, <2>2
  <1> DEFINE n == Len(listeners[f])
  <1>2. /\ n \in Nat /\ DOMAIN listeners[f] = 1..n /\ DOMAIN listeners'[f] = 1..(n + 1)
        /\ listeners'[f][n + 1] = q /\ \A i \in 1..n : listeners'[f][i] = listeners[f][i]
    BY <1>1
  <1>3. /\ Listening(f)' = Listening(f) \cup {q}
        /\ \A g \in File \ {f} : Listening(g)' = Listening(g)
    <2>1. 1..(n + 1) = (1..n) \cup {n + 1}
      BY <1>2
    <2> QED
      BY <1>1, <1>2, <2>1 DEF Listening
  <1>4. \A g \in File : \A i \in DOMAIN listeners[g] : listeners[g][i] # q
    BY DEF Listens, Listening
  <1>5. \A g \in File : \A i \in DOMAIN listeners'[g] :
          IF listeners'[g][i] = q THEN g = f /\ i = n + 1
          ELSE i \in DOMAIN listeners[g] /\ listeners'[g][i] = listeners[g][i]
    BY <1>1, <1>2, <1>4
  <1>6. ListensOnce(q)'
    BY <1>5 DEF ListensOnce
  <1>7. ASSUME NEW r, r # q
        PROVE  /\ Listens(r)' <=> Listens(r)
               /\ ListensOnce(r) => ListensOnce(r)'
    BY <1>3, <1>5, <1>7 DEF ListensOnce, Listens
  <1>8. Listens(q)'
    BY <1>3 DEF Listens
  <1> QED
    BY <1>1, <1>6, <1>7, <1>8

\* One query moves, and nobody listens to another file than before.
LEMMA OneMoves ==
  ASSUME \A r \in Query : BegunOnce(r), listeners' = listeners, NEW q \in Query, ~Listens(q),
         \A r \in Query \ {q} : /\ r \in DOMAIN asking' <=> r \in DOMAIN asking
                                /\ r \in DOMAIN pending' <=> r \in DOMAIN pending
                                /\ answers'[r] = answers[r],
         answers'[q] \in {0, 1},
         q \in DOMAIN asking' => q \notin DOMAIN pending' /\ answers'[q] = 0,
         q \in DOMAIN pending' => answers'[q] = 0
  PROVE  /\ \A r \in Query : BegunOnce(r)'
         /\ \A r \in Query \ {q} : Begun(r)' <=> Begun(r)
         /\ Begun(q)' <=> q \in DOMAIN asking' \/ q \in DOMAIN pending' \/ answers'[q] = 1
  <1>1. \A r : (Listens(r)' <=> Listens(r)) /\ (ListensOnce(r)' <=> ListensOnce(r))
    BY DEF Listens, ListensOnce, Listening
  <1> QED
    BY <1>1 DEF BegunOnce, Begun

LEMMA ContinueHolds ==
  ASSUME TypeInv, \A r \in Query : BegunOnce(r),
         NEW q \in Query, q \notin DOMAIN pending, ~Listens(q), answers[q] = 0,
         NEW steps, NEW over \in SUBSET Username, IsFiniteSet(over),
         over = {} \/ q \in DOMAIN asking,
         Continue(q, steps, over)
  PROVE  /\ HandlerTypes'
         /\ \A r \in Query : BegunOnce(r)'
         /\ \A r \in Query \ {q} : Begun(r)' <=> Begun(r)
         /\ Begun(q)'
  <1>1. CASE /\ \/ \E o : SettleOne(q, o)
                \/ Answer({q}) /\ Unhold(q)
                \/ over # {} /\ UNCHANGED <<answers, asking>>
             /\ NamesKept(over)
             /\ UNCHANGED downloadVars
    <2>1. /\ DOMAIN pending' = DOMAIN pending /\ awaiting' \in [Username -> Seq(Query)]
          /\ bot_user_ids' \in [Username -> Nat] /\ cur_temp_bot_user_id' \in Nat \ {0}
          /\ unresolved' \in SUBSET Username /\ IsFiniteSet(unresolved')
      BY <1>1, NamesKeptTypes
    <2>2. /\ answers' \in [Query -> Nat]
          /\ DOMAIN asking' \subseteq Query
          /\ \A r \in Query \ {q} : answers'[r] = answers[r] /\ (r \in DOMAIN asking' <=> r \in DOMAIN asking)
          /\ \/ answers'[q] = 1 /\ q \notin DOMAIN asking'
             \/ answers'[q] = 0 /\ q \in DOMAIN asking'
      <3>0. DOMAIN asking \subseteq Query /\ answers \in [Query -> Nat]
        BY DEF TypeInv, HandlerTypes
      <3>1. ASSUME NEW o, SettleOne(q, o)
            PROVE  /\ answers' \in [Query -> Nat]
                   /\ DOMAIN asking' \subseteq Query
                   /\ \A r \in Query \ {q} : answers'[r] = answers[r] /\ (r \in DOMAIN asking' <=> r \in DOMAIN asking)
                   /\ \/ answers'[q] = 1 /\ q \notin DOMAIN asking'
                      \/ answers'[q] = 0 /\ q \in DOMAIN asking'
        <4> DEFINE done == o.kind = "answer"
        <4>1. /\ answers' \in [Query -> Nat]
              /\ \A r \in Query : answers'[r] = IF r = q /\ done THEN answers[r] + 1 ELSE answers[r]
              /\ DOMAIN asking' = IF done THEN DOMAIN asking \ {q} ELSE DOMAIN asking \cup {q}
          BY <3>1, SettleIs
        <4> QED
          BY <3>0, <4>1
      <3>2. CASE Answer({q}) /\ Unhold(q)
        <4>1. DOMAIN asking' = DOMAIN asking \ {q}
          BY <3>2 DEF Unhold, Without
        <4> QED
          BY <3>0, <3>2, <4>1, AnswerIs
      <3>3. CASE over # {} /\ UNCHANGED <<answers, asking>>
        BY <3>0, <3>3
      <3>4. CASE \E o : SettleOne(q, o)
        <4>1. PICK o : SettleOne(q, o)
          BY <3>4
        <4> QED
          BY <3>1, <4>1
      <3> QED
        BY <1>1, <3>2, <3>3, <3>4
    <2>3. HandlerTypes'
      BY <1>1, <2>1, <2>2 DEF downloadVars, TypeInv, HandlerTypes
    <2>4. listeners' = listeners
      BY <1>1 DEF downloadVars
    <2> QED
      BY <2>1, <2>2, <2>3, <2>4, OneMoves
  <1>2. CASE /\ StartsToResolve(q)
             /\ Unhold(q)
             /\ UNCHANGED downloadVars
    <2>1. PICK p :
            /\ ParsedInv(p)
            /\ \E then : ResolveBotUsernames(q, p, then, Closing)
            /\ Answer(IF ResolveFails(p.unresolved, Closing) THEN {q} ELSE {})
      BY <1>2 DEF StartsToResolve
    <2> DEFINE fails == ResolveFails(p.unresolved, Closing)
    <2>2. PICK then : /\ ResolveBotUsernames(q, p, then, Closing)
                      /\ Answer(IF fails THEN {q} ELSE {})
      BY <2>1
    <2>3. p \in ParsedType
      BY <2>1 DEF ParsedInv
    <2>4. /\ answers' \in [Query -> Nat]
          /\ \A r \in Query : answers'[r] = IF r = q /\ fails THEN answers[r] + 1 ELSE answers[r]
      <3>1. /\ answers' \in [Query -> Nat]
            /\ \A r \in Query : answers'[r] = IF r \in (IF fails THEN {q} ELSE {}) THEN answers[r] + 1 ELSE answers[r]
        BY <2>2, AnswerIs
      <3> HIDE DEF fails
      <3> QED
        BY <3>1
    <2>5. DOMAIN pending' = IF fails THEN DOMAIN pending ELSE DOMAIN pending \cup {q}
      BY <2>2 DEF ResolveBotUsernames, ResolveFails, Put
    <2>6. DOMAIN asking' = DOMAIN asking \ {q}
      BY <1>2 DEF Unhold, Without
    <2>7. /\ awaiting' \in [Username -> Seq(Query)]
          /\ bot_user_ids' \in [Username -> Nat] /\ cur_temp_bot_user_id' \in Nat \ {0}
          /\ unresolved' \in SUBSET Username /\ IsFiniteSet(unresolved')
      <3>0. awaiting \in [Username -> Seq(Query)]
        BY DEF TypeInv, HandlerTypes
      <3>1. \A u \in Username : awaiting[u] \in Seq(Query) /\ Append(awaiting[u], q) \in Seq(Query)
        BY <3>0
      <3>2. awaiting' \in [Username -> Seq(Query)]
        BY <2>2, <3>1 DEF ResolveBotUsernames
      <3>3. bot_user_ids' \in [Username -> Nat] /\ cur_temp_bot_user_id' \in Nat \ {0}
        BY <2>2, <2>3 DEF ResolveBotUsernames, ParsedType
      <3> QED
        BY <2>2, <3>2, <3>3, FS_EmptySet DEF ResolveBotUsernames
    <2>8. listeners' = listeners
      BY <1>2 DEF downloadVars
    <2> HIDE DEF fails
    <2>9. DOMAIN asking \subseteq Query /\ DOMAIN pending \subseteq Query
      BY DEF TypeInv, HandlerTypes
    <2>10. HandlerTypes'
      BY <1>2, <2>4, <2>5, <2>6, <2>7, <2>9 DEF downloadVars, TypeInv, HandlerTypes
    <2>11. /\ answers'[q] = IF fails THEN 1 ELSE 0
           /\ q \in DOMAIN pending' <=> ~fails
           /\ q \notin DOMAIN asking'
      BY <2>4, <2>5, <2>6
    <2> QED
      BY <2>4, <2>5, <2>6, <2>8, <2>10, <2>11, OneMoves
  <1>3. CASE ListenToFile(q) /\ Unhold(q) /\ NamesKept(over)
    <2>1. PICK f \in File :
            IF Closing THEN DoGetFileClosing(f) /\ Answer(Listening(f) \cup {q})
            ELSE DoGetFile(f, q) /\ UNCHANGED answers
      BY <1>3 DEF ListenToFile
    <2>2. /\ DOMAIN pending' = DOMAIN pending /\ awaiting' \in [Username -> Seq(Query)]
          /\ bot_user_ids' \in [Username -> Nat] /\ cur_temp_bot_user_id' \in Nat \ {0}
          /\ unresolved' \in SUBSET Username /\ IsFiniteSet(unresolved')
      BY <1>3, NamesKeptTypes
    <2>3. DOMAIN asking' = DOMAIN asking \ {q}
      BY <1>3 DEF Unhold, Without
    <2>4. DOMAIN asking \subseteq Query /\ DOMAIN pending \subseteq Query /\ answers \in [Query -> Nat]
      BY DEF TypeInv, HandlerTypes
    <2>5. CASE Closing
      <3>1. /\ listeners' = [listeners EXCEPT ![f] = <<>>]
            /\ UNCHANGED <<toTd, fromTd, remote>>
            /\ Answer(Listening(f) \cup {q})
        BY <2>1, <2>5 DEF DoGetFileClosing
      <3>2. /\ answers' \in [Query -> Nat]
            /\ \A r \in Query : answers'[r] = IF r \in Listening(f) \cup {q} THEN answers[r] + 1 ELSE answers[r]
        BY <3>1, AnswerIs
      <3>3. /\ listeners' \in [File -> Seq(Query)]
            /\ \A r : /\ r \notin Listening(f) => (Listens(r)' <=> Listens(r))
                      /\ r \in Listening(f) /\ ListensOnce(r) => ~Listens(r)'
                      /\ ListensOnce(r) => ListensOnce(r)'
        BY <3>1, ListenersCleared
      <3>4. HandlerTypes'
        BY <2>2, <2>3, <2>4, <3>1, <3>2, <3>3 DEF TypeInv, HandlerTypes
      <3>5. \A r : r \in Listening(f) => Listens(r)
        BY DEF Listens
      <3>6. ASSUME NEW r \in Query \ {q}
            PROVE  BegunOnce(r)' /\ (Begun(r)' <=> Begun(r))
        <4>1. CASE r \in Listening(f)
          <5>1. /\ Listens(r) /\ r \notin DOMAIN asking /\ r \notin DOMAIN pending /\ answers[r] = 0
                /\ ListensOnce(r)
            BY <3>5, <4>1 DEF BegunOnce
          <5>2. ~Listens(r)' /\ answers'[r] = 1 /\ ListensOnce(r)'
            BY <3>2, <3>3, <4>1, <5>1
          <5> QED
            BY <2>2, <2>3, <5>1, <5>2 DEF BegunOnce, Begun
        <4>2. CASE r \notin Listening(f)
          <5>1. (Listens(r)' <=> Listens(r)) /\ answers'[r] = answers[r] /\ (ListensOnce(r) => ListensOnce(r)')
            BY <3>2, <3>3, <4>2
          <5> QED
            BY <2>2, <2>3, <3>6, <5>1 DEF BegunOnce, Begun
        <4> QED
          BY <4>1, <4>2
      <3>7. BegunOnce(q)' /\ Begun(q)'
        <4>1. ~Listens(q)' /\ answers'[q] = 1
          BY <3>2, <3>3, <3>5
        <4> QED
          BY <2>2, <2>3, <3>3, <4>1 DEF BegunOnce, Begun
      <3> QED
        BY <3>4, <3>6, <3>7
    <2>6. CASE ~Closing
      <3>1. /\ listeners' = [listeners EXCEPT ![f] = Append(@, q)]
            /\ toTd' = [toTd EXCEPT ![f] = Append(@, "download")]
            /\ UNCHANGED <<fromTd, remote>> /\ answers' = answers
        BY <2>1, <2>6 DEF DoGetFile
      <3>2. /\ listeners' \in [File -> Seq(Query)]
            /\ Listens(q)' /\ ListensOnce(q)'
            /\ \A r : r # q => /\ Listens(r)' <=> Listens(r)
                               /\ ListensOnce(r) => ListensOnce(r)'
        BY <3>1, ListenerAdded
      <3>3. toTd' \in [File -> Seq({"download", "cancel"})]
        <4>1. toTd \in [File -> Seq({"download", "cancel"})]
          BY DEF TypeInv, HandlerTypes
        <4>2. Append(toTd[f], "download") \in Seq({"download", "cancel"})
          BY <4>1
        <4> QED
          BY <3>1, <4>1, <4>2
      <3>4. HandlerTypes'
        BY <2>2, <2>3, <2>4, <3>1, <3>2, <3>3 DEF TypeInv, HandlerTypes
      <3>5. ASSUME NEW r \in Query \ {q}
            PROVE  BegunOnce(r)' /\ (Begun(r)' <=> Begun(r))
        BY <2>2, <2>3, <3>1, <3>2, <3>5 DEF BegunOnce, Begun
      <3>6. BegunOnce(q)' /\ Begun(q)'
        BY <2>2, <2>3, <3>1, <3>2 DEF BegunOnce, Begun
      <3> QED
        BY <3>4, <3>5, <3>6
    <2> QED
      BY <2>5, <2>6
  <1> QED
    BY <1>1, <1>2, <1>3, ContinueIs


-----------------------------------------------------------------------------
(* The invariant of the places.                                            *)

LEMMA FinishHolds ==
  ASSUME TypeInv, \A r \in Query : BegunOnce(r), NEW q \in Query, ~Begun(q),
         Answer({q}), asleep' = asleep \ {q}, UNCHANGED <<asking, nameVars, downloadVars>>
  PROVE  /\ HandlerTypes' /\ asleep' \subseteq Query
         /\ \A r \in Query : BegunOnce(r)'
         /\ \A r \in Query \ {q} : (Begun(r)' <=> Begun(r)) /\ (r \in asleep' <=> r \in asleep)
         /\ q \in asleep' <=> ~Begun(q)'
  <1>0. /\ q \notin DOMAIN asking /\ q \notin DOMAIN pending /\ ~Listens(q) /\ answers[q] = 0
        /\ asleep \subseteq Query
    BY DEF Begun, TypeInv, HandlerTypes
  <1>1. /\ answers' \in [Query -> Nat]
        /\ \A r \in Query : answers'[r] = IF r = q THEN 1 ELSE answers[r]
    BY <1>0, AnswerIs
  <1>2. HandlerTypes' /\ listeners' = listeners /\ pending' = pending /\ asking' = asking
    BY <1>0, <1>1 DEF TypeInv, HandlerTypes, nameVars, downloadVars
  <1>3. /\ \A r \in Query : BegunOnce(r)'
        /\ \A r \in Query \ {q} : Begun(r)' <=> Begun(r)
        /\ Begun(q)'
    BY <1>0, <1>1, <1>2, OneMoves
  <1> QED
    BY <1>0, <1>2, <1>3

\* on_cmd answers a query, lets it sleep, or begins with it.
LEMMA OnCmdHolds ==
  ASSUME TypeInv, \A r \in Query : BegunOnce(r), NEW q \in Query, ~Begun(q), NEW force, OnCmd(q, force)
  PROVE  /\ HandlerTypes' /\ asleep' \subseteq Query
         /\ \A r \in Query : BegunOnce(r)'
         /\ \A r \in Query \ {q} : (Begun(r)' <=> Begun(r)) /\ (r \in asleep' <=> r \in asleep)
         /\ q \in asleep' <=> ~Begun(q)'
  <1>0. /\ q \notin DOMAIN asking /\ q \notin DOMAIN pending /\ ~Listens(q) /\ answers[q] = 0
        /\ answers \in [Query -> Nat] /\ DOMAIN asking \subseteq Query /\ asleep \subseteq Query
    BY DEF Begun, TypeInv, HandlerTypes
  <1>1. CASE /\ Answer({q})
             /\ asleep' = asleep \ {q}
             /\ UNCHANGED <<asking, nameVars, downloadVars>>
    BY <1>1, FinishHolds
  <1>2. CASE /\ \E steps : asking' = Put(asking, q, steps)
             /\ asleep' = asleep \ {q}
             /\ UNCHANGED <<answers, nameVars, downloadVars>>
    <2>1. DOMAIN asking' = DOMAIN asking \cup {q}
      BY <1>2 DEF Put
    <2>2. HandlerTypes' /\ listeners' = listeners /\ pending' = pending /\ answers' = answers
      BY <1>0, <1>2, <2>1 DEF TypeInv, HandlerTypes, nameVars, downloadVars
    <2>3. /\ \A r \in Query : BegunOnce(r)'
          /\ \A r \in Query \ {q} : Begun(r)' <=> Begun(r)
          /\ Begun(q)'
      BY <1>0, <2>1, <2>2, OneMoves
    <2> QED
      BY <1>0, <1>2, <2>2, <2>3
  <1>3. CASE /\ asleep' = asleep \cup {q}
             /\ NamesKept({})
             /\ UNCHANGED <<answers, asking, downloadVars>>
    <2>1. /\ DOMAIN pending' = DOMAIN pending /\ awaiting' \in [Username -> Seq(Query)]
          /\ bot_user_ids' \in [Username -> Nat] /\ cur_temp_bot_user_id' \in Nat \ {0}
          /\ unresolved' \in SUBSET Username /\ IsFiniteSet(unresolved')
      BY <1>3, NamesKeptTypes, FS_EmptySet
    <2>2. HandlerTypes' /\ listeners' = listeners /\ asking' = asking /\ answers' = answers
      BY <1>3, <2>1 DEF TypeInv, HandlerTypes, downloadVars
    <2>3. /\ \A r \in Query : BegunOnce(r)'
          /\ \A r \in Query \ {q} : Begun(r)' <=> Begun(r)
          /\ ~Begun(q)'
      BY <1>0, <2>1, <2>2, OneMoves
    <2> QED
      BY <1>0, <1>3, <2>2, <2>3
  <1>4. CASE /\ \E steps : Continue(q, steps, {})
             /\ asleep' = asleep \ {q}
    <2>1. PICK steps : Continue(q, steps, {})
      BY <1>4
    <2>2. /\ HandlerTypes'
          /\ \A r \in Query : BegunOnce(r)'
          /\ \A r \in Query \ {q} : Begun(r)' <=> Begun(r)
          /\ Begun(q)'
      BY <1>0, <2>1, ContinueHolds, FS_EmptySet
    <2> QED
      BY <1>0, <1>4, <2>2
  <1> QED
    BY <1>1, <1>2, <1>3, <1>4, OnCmdIs

\* The parts of the invariant for a query that is in the same places as before
LEMMA SamePlace ==
  ASSUME NEW r, OnePlace(r), BegunOnce(r)', Begun(r)' <=> Begun(r),
         r \in received' <=> r \in received, r \in asleep' <=> r \in asleep,
         cmd_queue' = cmd_queue
  PROVE  OnePlace(r)'
  BY DEF OnePlace, InQueue, QueuedOnce

LEMMA SameBegun ==
  ASSUME UNCHANGED <<asking, pending, listeners, answers>>
  PROVE  \A r : (Begun(r)' <=> Begun(r)) /\ (BegunOnce(r) => BegunOnce(r)')
  BY DEF Begun, BegunOnce, Listens, ListensOnce, Listening

LEMMA LoopHolds ==
  ASSUME HeldInv, Looping, Loop
  PROVE  HeldInv'
  <1>q. PICK q : q = Head(cmd_queue)
    OBVIOUS
  <1>n. PICK n : n = Len(cmd_queue)
    OBVIOUS
  <1>1. /\ cmd_queue \in Seq(Query) /\ cmd_queue # <<>> /\ OnCmd(q, FALSE)
        /\ cmd_queue' = Tail(cmd_queue) /\ UNCHANGED <<load, received>>
    BY <1>q DEF HeldInv, TypeInv, Loop, Looping
  <1>2. /\ n \in Nat \ {0} /\ DOMAIN cmd_queue = 1..n /\ q = cmd_queue[1] /\ q \in Query
        /\ cmd_queue' \in Seq(Query) /\ DOMAIN cmd_queue' = 1..(n - 1)
        /\ \A i \in 1..(n - 1) : i + 1 \in 1..n /\ cmd_queue'[i] = cmd_queue[i + 1]
    BY <1>q, <1>n, <1>1
  <1>3. InQueue(q) /\ OnePlace(q)
    BY <1>2 DEF HeldInv, InQueue
  <1>4. q \notin asleep /\ ~Begun(q) /\ q \in received /\ QueuedOnce(q)
    BY <1>3 DEF OnePlace
  <1>5. TypeInv /\ \A r \in Query : BegunOnce(r)
    BY DEF HeldInv, OnePlace
  <1>6. /\ HandlerTypes' /\ asleep' \subseteq Query
        /\ \A r \in Query : BegunOnce(r)'
        /\ \A r \in Query \ {q} : (Begun(r)' <=> Begun(r)) /\ (r \in asleep' <=> r \in asleep)
        /\ q \in asleep' <=> ~Begun(q)'
    BY <1>1, <1>2, <1>4, <1>5, OnCmdHolds
  <1>7. ~InQueue(q)'
    <2>1. SUFFICES ASSUME NEW i \in 1..(n - 1), cmd_queue'[i] = q PROVE FALSE
      BY <1>2 DEF InQueue
    <2>2. i + 1 \in 1..n /\ 1 \in 1..n /\ cmd_queue[i + 1] = q /\ i + 1 # 1
      BY <1>2, <2>1
    <2> QED
      BY <1>2, <1>4, <2>2 DEF QueuedOnce
  <1>8. ASSUME NEW r \in Query \ {q}
        PROVE  /\ InQueue(r)' <=> InQueue(r)
               /\ QueuedOnce(r) => QueuedOnce(r)'
    <2>1. \A i \in 1..n : cmd_queue[i] = r => i - 1 \in 1..(n - 1) /\ cmd_queue'[i - 1] = r
      <3> SUFFICES ASSUME NEW i \in 1..n, cmd_queue[i] = r
                   PROVE  i - 1 \in 1..(n - 1) /\ cmd_queue'[i - 1] = r
        OBVIOUS
      <3>1. i # 1
        BY <1>2, <1>8
      <3>2. i - 1 \in 1..(n - 1) /\ (i - 1) + 1 = i
        BY <1>2, <3>1
      <3> QED
        BY <1>2, <3>2
    <2>2. InQueue(r)' <=> InQueue(r)
      BY <1>2, <2>1 DEF InQueue
    <2>3. ASSUME QueuedOnce(r) PROVE QueuedOnce(r)'
      <3> SUFFICES ASSUME NEW i \in 1..(n - 1), NEW j \in 1..(n - 1), cmd_queue'[i] = r, cmd_queue'[j] = r
                   PROVE  i = j
        BY <1>2 DEF QueuedOnce
      <3>1. i + 1 = j + 1
        BY <1>2, <2>3 DEF QueuedOnce
      <3> QED
        BY <1>2, <3>1
    <2> QED
      BY <2>2, <2>3
  <1>9. OnePlace(q)'
    BY <1>1, <1>2, <1>4, <1>6, <1>7 DEF OnePlace, QueuedOnce, InQueue
  <1>10. ASSUME NEW r \in Query \ {q} PROVE OnePlace(r)'
    BY <1>1, <1>6, <1>8 DEF HeldInv, OnePlace
  <1>11. TypeInv'
    BY <1>1, <1>2, <1>6 DEF HeldInv, TypeInv
  <1> QED
    BY <1>9, <1>10, <1>11 DEF HeldInv

\* A query that is in no place before
LEMMA SendHolds ==
  ASSUME HeldInv, NEW q \in Query, Send(q)
  PROVE  HeldInv'
  <1>1. /\ q \notin received /\ received' = received \cup {q} /\ UNCHANGED load
        /\ \/ Finish(q) /\ UNCHANGED cmd_queue
           \/ OnCmd(q, FALSE) /\ UNCHANGED cmd_queue
           \/ /\ cmd_queue' = Append(cmd_queue, q)
              /\ UNCHANGED <<asleep, asking, answers, nameVars, downloadVars>>
    BY DEF Send
  <1>2. OnePlace(q) /\ ~InQueue(q) /\ q \notin asleep /\ ~Begun(q)
    BY <1>1 DEF HeldInv, OnePlace
  <1>3. TypeInv /\ \A r \in Query : OnePlace(r) /\ BegunOnce(r)
    BY DEF HeldInv, OnePlace
  <1>4. CASE (Finish(q) \/ OnCmd(q, FALSE)) /\ UNCHANGED cmd_queue
    <2>1. /\ HandlerTypes' /\ asleep' \subseteq Query
          /\ \A r \in Query : BegunOnce(r)'
          /\ \A r \in Query \ {q} : (Begun(r)' <=> Begun(r)) /\ (r \in asleep' <=> r \in asleep)
          /\ q \in asleep' <=> ~Begun(q)'
      BY <1>2, <1>3, <1>4, OnCmdHolds, FinishHolds DEF Finish
    <2>2. ASSUME NEW r \in Query \ {q} PROVE OnePlace(r)'
      BY <1>1, <1>3, <1>4, <2>1, SamePlace
    <2>3. OnePlace(q)'
      BY <1>1, <1>2, <1>4, <2>1 DEF OnePlace, InQueue, QueuedOnce
    <2>4. TypeInv'
      BY <1>1, <1>3, <1>4, <2>1 DEF TypeInv
    <2> QED
      BY <2>2, <2>3, <2>4 DEF HeldInv
  <1>5. CASE /\ cmd_queue' = Append(cmd_queue, q)
             /\ UNCHANGED <<asleep, asking, answers, nameVars, downloadVars>>
    <2>1. cmd_queue \in Seq(Query)
      BY <1>3 DEF TypeInv
    <2>2. TypeInv'
      <3>1. HandlerTypes'
        BY <1>3, <1>5 DEF TypeInv, HandlerTypes, nameVars, downloadVars
      <3>2. Append(cmd_queue, q) \in Seq(Query)
        BY <2>1
      <3> QED
        BY <1>1, <1>3, <1>5, <3>1, <3>2 DEF TypeInv
    <2>3. PICK n : n = Len(cmd_queue)
      OBVIOUS
    <2>4. /\ n \in Nat /\ DOMAIN cmd_queue = 1..n /\ DOMAIN cmd_queue' = 1..(n + 1)
          /\ cmd_queue'[n + 1] = q /\ \A i \in 1..n : cmd_queue'[i] = cmd_queue[i] /\ cmd_queue[i] # q
      BY <1>2, <1>5, <2>1, <2>3 DEF InQueue
    <2>5. \A i \in 1..(n + 1) : i = n + 1 \/ i \in 1..n
      BY <2>4
    <2>6. n + 1 \in 1..(n + 1) /\ \A i \in 1..n : i \in 1..(n + 1)
      BY <2>4
    <2>7. InQueue(q)' /\ QueuedOnce(q)'
      BY <2>4, <2>5, <2>6 DEF InQueue, QueuedOnce
    <2>8. ASSUME NEW r \in Query \ {q}
          PROVE  (InQueue(r)' <=> InQueue(r)) /\ (QueuedOnce(r) => QueuedOnce(r)')
      BY <2>4, <2>5, <2>6, <2>8 DEF InQueue, QueuedOnce
    <2>9. \A r \in Query : (Begun(r)' <=> Begun(r)) /\ (BegunOnce(r) => BegunOnce(r)')
      BY <1>5, SameBegun DEF nameVars, downloadVars
    <2>10. \A r \in Query : OnePlace(r)'
      BY <1>1, <1>2, <1>3, <1>5, <2>7, <2>8, <2>9 DEF OnePlace
    <2> QED
      BY <2>2, <2>10 DEF HeldInv
  <1> QED
    BY <1>1, <1>4, <1>5

LEMMA WakeHolds ==
  ASSUME HeldInv, NEW q \in Query, Wake(q)
  PROVE  HeldInv'
  <1>1. /\ q \in asleep
        /\ Finish(q) \/ OnCmd(q, TRUE)
        /\ UNCHANGED <<load, received, cmd_queue>>
    BY DEF Wake
  <1>2. OnePlace(q) /\ ~InQueue(q) /\ q \in received /\ ~Begun(q)
    BY <1>1 DEF HeldInv, OnePlace
  <1>3. TypeInv /\ \A r \in Query : OnePlace(r) /\ BegunOnce(r)
    BY DEF HeldInv, OnePlace
  <1>4. /\ HandlerTypes' /\ asleep' \subseteq Query
        /\ \A r \in Query : BegunOnce(r)'
        /\ \A r \in Query \ {q} : (Begun(r)' <=> Begun(r)) /\ (r \in asleep' <=> r \in asleep)
        /\ q \in asleep' <=> ~Begun(q)'
    BY <1>1, <1>2, <1>3, OnCmdHolds, FinishHolds DEF Finish
  <1>5. ASSUME NEW r \in Query \ {q} PROVE OnePlace(r)'
    BY <1>1, <1>3, <1>4, SamePlace
  <1>6. OnePlace(q)'
    BY <1>1, <1>2, <1>3, <1>4 DEF OnePlace, InQueue, QueuedOnce
  <1>7. TypeInv'
    BY <1>1, <1>3, <1>4 DEF TypeInv
  <1> QED
    BY <1>5, <1>6, <1>7 DEF HeldInv

\* TDLib answers the request of a query.
LEMMA OnResultHolds ==
  ASSUME HeldInv, NEW q \in Query, OnResult(q)
  PROVE  HeldInv'
  <1>1. /\ q \in DOMAIN asking
        /\ \/ Answer({q}) /\ Unhold(q) /\ UNCHANGED <<nameVars, downloadVars>>
           \/ Continue(q, Tail(asking[q]), unresolved)
        /\ UNCHANGED <<load, received, cmd_queue, asleep>>
    BY DEF OnResult
  <1>2. /\ Begun(q) /\ q \notin DOMAIN pending /\ ~Listens(q) /\ answers[q] = 0
        /\ TypeInv /\ \A r \in Query : OnePlace(r) /\ BegunOnce(r)
    BY <1>1 DEF HeldInv, OnePlace, BegunOnce, Begun
  <1>3. /\ HandlerTypes'
        /\ \A r \in Query : BegunOnce(r)'
        /\ \A r \in Query \ {q} : Begun(r)' <=> Begun(r)
        /\ Begun(q)'
    <2>1. CASE Answer({q}) /\ Unhold(q) /\ UNCHANGED <<nameVars, downloadVars>>
      <3>1. /\ answers' \in [Query -> Nat]
            /\ \A r \in Query : answers'[r] = IF r = q THEN 1 ELSE answers[r]
        BY <1>2, <2>1, AnswerIs
      <3>2. DOMAIN asking' = DOMAIN asking \ {q}
        BY <2>1 DEF Unhold, Without
      <3>3. HandlerTypes' /\ listeners' = listeners /\ pending' = pending
        BY <1>2, <2>1, <3>1, <3>2 DEF TypeInv, HandlerTypes, nameVars, downloadVars
      <3> QED
        BY <1>2, <3>1, <3>2, <3>3, OneMoves
    <2>2. CASE Continue(q, Tail(asking[q]), unresolved)
      <3>1. PICK steps, over : steps = Tail(asking[q]) /\ over = unresolved
        OBVIOUS
      <3>2. over \in SUBSET Username /\ IsFiniteSet(over)
        BY <1>2, <3>1 DEF TypeInv, HandlerTypes
      <3> QED
        BY <1>1, <1>2, <2>2, <3>1, <3>2, ContinueHolds
    <2> QED
      BY <1>1, <2>1, <2>2
  <1>4. \A r \in Query : Begun(r)' <=> Begun(r)
    BY <1>2, <1>3
  <1>5. ASSUME NEW r \in Query PROVE OnePlace(r)'
    BY <1>1, <1>2, <1>3, <1>4, SamePlace
  <1>6. TypeInv'
    BY <1>1, <1>2, <1>3 DEF TypeInv
  <1> QED
    BY <1>5, <1>6 DEF HeldInv

\* The usernames of some queries are resolved, or are not.
LEMMA ResolvedMove ==
  ASSUME \A r \in Query : BegunOnce(r), listeners' = listeners,
         NEW Q, Q \subseteq DOMAIN pending, DOMAIN pending' = DOMAIN pending \ Q,
         \A r \in Query : r \notin Q => /\ r \in DOMAIN asking' <=> r \in DOMAIN asking
                                        /\ answers'[r] = answers[r],
         \A r \in Query : r \in Q => answers'[r] = IF r \in DOMAIN asking' THEN 0 ELSE 1
  PROVE  \A r \in Query : BegunOnce(r)' /\ (Begun(r)' <=> Begun(r))
  <1>1. \A r : (Listens(r)' <=> Listens(r)) /\ (ListensOnce(r)' <=> ListensOnce(r))
    BY DEF Listens, ListensOnce, Listening
  <1> SUFFICES ASSUME NEW r \in Query PROVE BegunOnce(r)' /\ (Begun(r)' <=> Begun(r))
    OBVIOUS
  <1>2. CASE r \in Q
    <2>1. r \in DOMAIN pending /\ r \notin DOMAIN pending' /\ ~Listens(r) /\ ListensOnce(r)
      BY <1>2 DEF BegunOnce
    <2> QED
      BY <1>1, <1>2, <2>1 DEF BegunOnce, Begun
  <1>3. CASE r \notin Q
    BY <1>1, <1>3 DEF BegunOnce, Begun
  <1> QED
    BY <1>2, <1>3

LEMMA NotFoundHolds ==
  ASSUME HeldInv, NEW u \in Username, OnNameNotFound(u)
  PROVE  HeldInv'
  <1>1. /\ Answer(Waiting(u))
        /\ awaiting' = [awaiting EXCEPT ![u] = <<>>]
        /\ bot_user_ids' = [bot_user_ids EXCEPT ![u] = 0]
        /\ DOMAIN pending' = DOMAIN pending \ Waiting(u)
        /\ UNCHANGED <<cur_temp_bot_user_id, unresolved>>
        /\ UNCHANGED <<load, received, cmd_queue, asleep, asking, downloadVars>>
    BY DEF OnNameNotFound, NotFound, Without
  <1>2. TypeInv /\ \A r \in Query : OnePlace(r) /\ BegunOnce(r)
    BY DEF HeldInv, OnePlace
  <1>3. PICK Q : Q = Waiting(u)
    OBVIOUS
  <1>4. Q \subseteq DOMAIN pending /\ DOMAIN pending \subseteq Query
    BY <1>2, <1>3 DEF Waiting, TypeInv, HandlerTypes
  <1>5. /\ answers' \in [Query -> Nat]
        /\ \A r \in Query : answers'[r] = IF r \in Q THEN answers[r] + 1 ELSE answers[r]
    BY <1>1, <1>2, <1>3, AnswerIs
  <1>6. \A r \in Q : answers[r] = 0 /\ r \notin DOMAIN asking
    BY <1>2, <1>4 DEF BegunOnce
  <1>7. listeners' = listeners /\ asking' = asking
    BY <1>1 DEF downloadVars
  <1>8. \A r \in Query : BegunOnce(r)' /\ (Begun(r)' <=> Begun(r))
    <2>1. \A r \in Query : r \notin Q => /\ r \in DOMAIN asking' <=> r \in DOMAIN asking
                                         /\ answers'[r] = answers[r]
      BY <1>5, <1>7
    <2>2. \A r \in Query : r \in Q => answers'[r] = IF r \in DOMAIN asking' THEN 0 ELSE 1
      BY <1>5, <1>6, <1>7
    <2> QED
      BY <1>1, <1>2, <1>3, <1>4, <1>7, <2>1, <2>2, ResolvedMove
  <1>9. HandlerTypes'
    <2>1. awaiting' \in [Username -> Seq(Query)]
      <3>1. <<>> \in Seq(Query)
        OBVIOUS
      <3> QED
        BY <1>1, <1>2, <3>1 DEF TypeInv, HandlerTypes
    <2>2. bot_user_ids' \in [Username -> Nat]
      BY <1>1, <1>2 DEF TypeInv, HandlerTypes
    <2> QED
      BY <1>1, <1>2, <1>5, <2>1, <2>2 DEF TypeInv, HandlerTypes, downloadVars
  <1>10. \A r \in Query : OnePlace(r)'
    BY <1>1, <1>2, <1>8, SamePlace
  <1>11. TypeInv'
    BY <1>1, <1>2, <1>9 DEF TypeInv
  <1> QED
    BY <1>10, <1>11 DEF HeldInv

LEMMA FoundHolds ==
  ASSUME HeldInv, NEW u \in Username, OnNameFound(u)
  PROVE  HeldInv'
  <1>1. /\ awaiting' = [awaiting EXCEPT ![u] = <<>>]
        /\ bot_user_ids' = [bot_user_ids EXCEPT ![u] = RealId[u]]
        /\ DOMAIN pending' = DOMAIN pending \ Finished(u)
        /\ UNCHANGED <<cur_temp_bot_user_id, unresolved>>
        /\ UNCHANGED <<load, received, cmd_queue, asleep, downloadVars>>
    BY DEF OnNameFound, Found
  <1>2. TypeInv /\ \A r \in Query : OnePlace(r) /\ BegunOnce(r)
    BY DEF HeldInv, OnePlace
  <1>3. PICK Q : Q = Finished(u)
    OBVIOUS
  <1>4. Q \subseteq DOMAIN pending /\ DOMAIN pending \subseteq Query /\ DOMAIN asking \subseteq Query
    BY <1>2, <1>3 DEF Finished, Waiting, TypeInv, HandlerTypes
  <1>5. PICK outcome : DOMAIN outcome = Q /\ Settle(outcome)
    BY <1>3 DEF OnNameFound
  <1>6. PICK done : done = {q \in Q : outcome[q].kind = "answer"}
    OBVIOUS
  <1>7. Answer(done) /\ DOMAIN asking' = (DOMAIN asking \cup Q) \ done
    BY <1>5, <1>6 DEF Settle
  <1>8. /\ answers' \in [Query -> Nat]
        /\ \A r \in Query : answers'[r] = IF r \in done THEN answers[r] + 1 ELSE answers[r]
    BY <1>2, <1>7, AnswerIs
  <1>9. \A r \in Q : answers[r] = 0 /\ r \in Query
    BY <1>2, <1>4 DEF BegunOnce
  <1>10. listeners' = listeners
    BY <1>1 DEF downloadVars
  <1>11. \A r \in Query : r \notin Q => /\ r \in DOMAIN asking' <=> r \in DOMAIN asking
                                        /\ answers'[r] = answers[r]
    BY <1>6, <1>7, <1>8
  <1>12. \A r \in Query : r \in Q => answers'[r] = IF r \in DOMAIN asking' THEN 0 ELSE 1
    BY <1>6, <1>7, <1>8, <1>9
  <1>13. \A r \in Query : BegunOnce(r)' /\ (Begun(r)' <=> Begun(r))
    BY <1>1, <1>2, <1>3, <1>4, <1>10, <1>11, <1>12, ResolvedMove
  <1>14. HandlerTypes'
    <2>1. awaiting' \in [Username -> Seq(Query)]
      <3>1. <<>> \in Seq(Query)
        OBVIOUS
      <3> QED
        BY <1>1, <1>2, <3>1 DEF TypeInv, HandlerTypes
    <2>2. bot_user_ids' \in [Username -> Nat]
      BY <1>1, <1>2, BotNamesAssumption DEF TypeInv, HandlerTypes
    <2>3. DOMAIN asking' \subseteq Query
      BY <1>4, <1>7
    <2> QED
      BY <1>1, <1>2, <1>4, <1>8, <2>1, <2>2, <2>3 DEF TypeInv, HandlerTypes, downloadVars
  <1>15. \A r \in Query : OnePlace(r)'
    BY <1>1, <1>2, <1>13, SamePlace
  <1>16. TypeInv'
    BY <1>1, <1>2, <1>14 DEF TypeInv
  <1> QED
    BY <1>15, <1>16 DEF HeldInv

\* What OnFile does to the listeners and the requests for a file
LEMMA OnFileIs ==
  ASSUME TypeInv, NEW f \in File, OnFile(f)
  PROVE  /\ listeners' \in {listeners, [listeners EXCEPT ![f] = <<>>]}
         /\ started' \in {started, started \cup {f}, started \ {f}}
         /\ toTd' \in {toTd, [toTd EXCEPT ![f] = Append(@, "cancel")]}
         /\ fromTd' = [fromTd EXCEPT ![f] = Tail(@)]
         /\ UNCHANGED remote
         /\ Answer(Listening(f) \ {listeners'[f][i] : i \in DOMAIN listeners'[f]})
         /\ UNCHANGED <<load, received, cmd_queue, asleep, asking, nameVars>>
  <1> DEFINE report == Head(fromTd[f])
  <1>4. ASSUME NEW state, NEW begun, OnUpdateFile(f, state, begun, Closing)
        PROVE  /\ listeners' \in {listeners, [listeners EXCEPT ![f] = <<>>]}
               /\ started' \in {started, started \cup {f}, started \ {f}}
               /\ toTd' \in {toTd, [toTd EXCEPT ![f] = Append(@, "cancel")]}
               /\ UNCHANGED remote
    BY <1>4 DEF OnUpdateFile, OnFileDownload
  <1>5. CASE OnFileAnswer(f, report.state, Closing)
    <2> HIDE DEF report
    <2> QED
      BY <1>4, <1>5 DEF OnFileAnswer, OnFile
  <1>6. CASE OnFileError(f)
    BY <1>6 DEF OnFile, OnFileError, OnFileDownload
  <1>7. CASE OnFileUpdate(f, report.state, Closing)
    <2> HIDE DEF report
    <2> QED
      BY <1>4, <1>7 DEF OnFileUpdate, OnFile
  <1> QED
    BY <1>5, <1>6, <1>7 DEF OnFile

LEMMA OnFileHolds ==
  ASSUME HeldInv, NEW f \in File, OnFile(f)
  PROVE  HeldInv'
  <1>1. TypeInv /\ \A r \in Query : OnePlace(r) /\ BegunOnce(r)
    BY DEF HeldInv, OnePlace
  <1>2. /\ listeners' \in {listeners, [listeners EXCEPT ![f] = <<>>]}
        /\ toTd' \in {toTd, [toTd EXCEPT ![f] = Append(@, "cancel")]}
        /\ fromTd' = [fromTd EXCEPT ![f] = Tail(@)]
        /\ UNCHANGED remote
        /\ Answer(Listening(f) \ {listeners'[f][i] : i \in DOMAIN listeners'[f]})
        /\ UNCHANGED <<load, received, cmd_queue, asleep, asking, nameVars>>
        /\ fromTd[f] # <<>>
    BY <1>1, OnFileIs DEF OnFile
  <1>3. /\ listeners' \in [File -> Seq(Query)]
        /\ \A r \in Query : BegunOnce(r)' /\ (Begun(r)' <=> Begun(r))
        /\ answers' \in [Query -> Nat]
    <2>1. CASE listeners' = listeners
      <3>1. Listening(f) \ {listeners'[f][i] : i \in DOMAIN listeners'[f]} = {}
        BY <2>1 DEF Listening
      <3>2. answers' \in [Query -> Nat] /\ \A r \in Query : answers'[r] = answers[r]
        BY <1>1, <1>2, <3>1, AnswerIs
      <3>3. answers' = answers
        <4>1. answers \in [Query -> Nat]
          BY <1>1 DEF TypeInv, HandlerTypes
        <4> QED
          BY <3>2, <4>1
      <3> QED
        BY <1>1, <1>2, <2>1, <3>2, <3>3, SameBegun DEF nameVars, TypeInv, HandlerTypes
    <2>2. CASE listeners' = [listeners EXCEPT ![f] = <<>>]
      <3>1. /\ listeners' \in [File -> Seq(Query)] /\ Listening(f)' = {}
            /\ \A r : /\ r \notin Listening(f) => (Listens(r)' <=> Listens(r))
                      /\ r \in Listening(f) /\ ListensOnce(r) => ~Listens(r)'
                      /\ ListensOnce(r) => ListensOnce(r)'
        BY <1>1, <2>2, ListenersCleared
      <3>2. Answer(Listening(f))
        BY <1>2, <3>1 DEF Listening
      <3>3. /\ answers' \in [Query -> Nat]
            /\ \A r \in Query : answers'[r] = IF r \in Listening(f) THEN answers[r] + 1 ELSE answers[r]
        BY <1>1, <3>2, AnswerIs
      <3>4. asking' = asking /\ pending' = pending
        BY <1>2 DEF nameVars
      <3>5. ASSUME NEW r \in Query, r \in Listening(f) PROVE BegunOnce(r)' /\ (Begun(r)' <=> Begun(r))
        <4>1. Listens(r)
          BY <3>5 DEF Listens
        <4>2. /\ r \notin DOMAIN asking /\ r \notin DOMAIN pending /\ answers[r] = 0 /\ ListensOnce(r)
          BY <1>1, <4>1 DEF BegunOnce
        <4>3. ~Listens(r)' /\ ListensOnce(r)' /\ answers'[r] = 1
          BY <3>1, <3>3, <3>5, <4>2
        <4> QED
          BY <3>4, <4>1, <4>2, <4>3 DEF BegunOnce, Begun
      <3>6. ASSUME NEW r \in Query, r \notin Listening(f) PROVE BegunOnce(r)' /\ (Begun(r)' <=> Begun(r))
        <4>1. (Listens(r)' <=> Listens(r)) /\ (ListensOnce(r) => ListensOnce(r)') /\ answers'[r] = answers[r]
          BY <3>1, <3>3, <3>6
        <4> QED
          BY <1>1, <3>4, <4>1 DEF BegunOnce, Begun
      <3> QED
        BY <3>1, <3>3, <3>5, <3>6
    <2> QED
      BY <1>2, <2>1, <2>2
  <1>4. HandlerTypes'
    <2>1. toTd' \in [File -> Seq({"download", "cancel"})]
      <3>1. toTd \in [File -> Seq({"download", "cancel"})]
        BY <1>1 DEF TypeInv, HandlerTypes
      <3>2. Append(toTd[f], "cancel") \in Seq({"download", "cancel"})
        BY <3>1
      <3> QED
        BY <1>2, <3>1, <3>2
    <2>2. fromTd' \in [File -> Seq(FileReport)]
      <3>1. fromTd \in [File -> Seq(FileReport)]
        BY <1>1 DEF TypeInv, HandlerTypes
      <3>2. Tail(fromTd[f]) \in Seq(FileReport)
        BY <1>2, <3>1
      <3> QED
        BY <1>2, <3>1, <3>2
    <2> QED
      BY <1>1, <1>2, <1>3, <2>1, <2>2 DEF TypeInv, HandlerTypes, nameVars
  <1>5. \A r \in Query : OnePlace(r)'
    BY <1>1, <1>2, <1>3, SamePlace
  <1>6. TypeInv'
    BY <1>1, <1>2, <1>4 DEF TypeInv
  <1> QED
    BY <1>5, <1>6 DEF HeldInv

\* TDLib goes on with a download.
LEMMA TdFileTypes ==
  ASSUME TypeInv, NEW f \in File, TdFile(f)
  PROVE  /\ toTd' \in [File -> Seq({"download", "cancel"})]
         /\ fromTd' \in [File -> Seq(FileReport)]
         /\ remote' \in [File -> FileStates]
         /\ UNCHANGED <<requestVars, nameVars, listeners>>
  <1>1. /\ toTd \in [File -> Seq({"download", "cancel"})]
        /\ fromTd \in [File -> Seq(FileReport)]
        /\ remote \in [File -> FileStates]
    BY DEF TypeInv, HandlerTypes
  <1>2. ASSUME NEW kind \in ReportKinds, NEW state \in FileStates
        PROVE  Append(fromTd[f], Report(kind, state)) \in Seq(FileReport)
    <2>1. Report(kind, state) \in FileReport
      BY DEF FileReport, Report
    <2>2. fromTd[f] \in Seq(FileReport)
      BY <1>1
    <2> QED
      BY <2>1, <2>2, AppendProperties
  <1>3. toTd[f] # <<>> => Tail(toTd[f]) \in Seq({"download", "cancel"})
    <2>1. toTd[f] \in Seq({"download", "cancel"})
      BY <1>1
    <2> QED
      BY <2>1
  <1>4. CASE TdRefuses(f)
    <2>1. "error" \in ReportKinds /\ "idle" \in FileStates
      BY DEF FileStates, ReportKinds
    <2>2. Append(fromTd[f], Report("error", "idle")) \in Seq(FileReport)
      BY <1>2, <2>1
    <2> QED
      BY <1>1, <1>3, <1>4, <2>2 DEF TdRefuses, TdFile
  <1>5. CASE TdCancels(f)
    <2>1. PICK state \in {"big idle", "idle"} :
            /\ remote' = [remote EXCEPT ![f] = state] \/ remote' = remote
            /\ fromTd' = [fromTd EXCEPT ![f] = Append(@, Report("update", state))] \/ fromTd' = fromTd
      BY <1>5 DEF TdCancels
    <2>2. "update" \in ReportKinds /\ state \in FileStates
      BY DEF FileStates, ReportKinds
    <2>3. Append(fromTd[f], Report("update", state)) \in Seq(FileReport)
      BY <1>2, <2>2
    <2>4. /\ remote' \in [File -> FileStates] /\ fromTd' \in [File -> Seq(FileReport)]
      BY <1>1, <2>1, <2>2, <2>3
    <2> QED
      BY <1>1, <1>3, <1>5, <2>4 DEF TdCancels, TdFile
  <1>6. CASE TdDownload(f)
    <2>1. PICK state \in {"big", "active", "idle", remote[f]} :
            /\ remote' = [remote EXCEPT ![f] = state]
            /\ fromTd' = [fromTd EXCEPT ![f] = Append(@, Report("answer", state))]
      BY <1>6 DEF TdDownload
    <2>2. "answer" \in ReportKinds /\ state \in FileStates
      BY <1>1 DEF FileStates, ReportKinds
    <2>3. Append(fromTd[f], Report("answer", state)) \in Seq(FileReport)
      BY <1>2, <2>2
    <2>4. /\ remote' \in [File -> FileStates] /\ fromTd' \in [File -> Seq(FileReport)]
      BY <1>1, <2>1, <2>2, <2>3
    <2> QED
      BY <1>1, <1>3, <1>6, <2>4 DEF TdDownload, TdFile
  <1>7. CASE TdDownloads(f)
    <2>1. PICK state \in {"big idle", "done", "idle", "big"} :
            /\ remote' = [remote EXCEPT ![f] = state]
            /\ fromTd' = [fromTd EXCEPT ![f] = Append(@, Report("update", state))]
      BY <1>7 DEF TdDownloads
    <2>2. "update" \in ReportKinds /\ state \in FileStates
      BY DEF FileStates, ReportKinds
    <2>3. Append(fromTd[f], Report("update", state)) \in Seq(FileReport)
      BY <1>2, <2>2
    <2>4. /\ remote' \in [File -> FileStates] /\ fromTd' \in [File -> Seq(FileReport)]
      BY <1>1, <2>1, <2>2, <2>3
    <2> QED
      BY <1>1, <1>7, <2>4 DEF TdDownloads, TdFile
  <1> QED
    BY <1>4, <1>5, <1>6, <1>7 DEF TdFile

\* The client has no TDLib any more, and answers what it holds.
LEMMA OnClosedHolds ==
  ASSUME HeldInv, OnClosed
  PROVE  HeldInv'
  <1>1. PICK Q : Q = {cmd_queue[i] : i \in DOMAIN cmd_queue} \cup DOMAIN pending
                       \cup UNION {Listening(f) : f \in File}
    OBVIOUS
  <1>2. /\ Answer(Q) /\ cmd_queue' = <<>> /\ pending' = <<>>
        /\ listeners' = [f \in File |-> <<>>]
        /\ asking = <<>>
        /\ UNCHANGED <<load, received, asleep, asking, bot_user_ids, cur_temp_bot_user_id, unresolved,
                       awaiting, toTd, fromTd, remote>>
    BY <1>1 DEF OnClosed, TdIdle, DownloadsClosed
  <1>3. TypeInv /\ \A r \in Query : OnePlace(r) /\ BegunOnce(r)
    BY DEF HeldInv, OnePlace
  <1>4. /\ answers' \in [Query -> Nat]
        /\ \A r \in Query : answers'[r] = IF r \in Q THEN answers[r] + 1 ELSE answers[r]
    BY <1>2, <1>3, AnswerIs
  <1>5. \A r : r \in Q <=> InQueue(r) \/ r \in DOMAIN pending \/ Listens(r)
    BY <1>1 DEF InQueue, Listens
  <1>6. DOMAIN asking = {} /\ DOMAIN asking' = {} /\ DOMAIN pending' = {} /\ DOMAIN cmd_queue' = {}
    BY <1>2
  <1>7. \A r : ~Listens(r)' /\ ListensOnce(r)' /\ ~InQueue(r)' /\ QueuedOnce(r)'
    BY <1>2, <1>6 DEF Listens, Listening, ListensOnce, InQueue, QueuedOnce
  <1>8. ASSUME NEW r \in Query PROVE OnePlace(r)'
    <2>1. CASE r \in Q
      <3>1. answers[r] = 0 /\ r \notin asleep /\ r \in received
        BY <1>3, <1>5, <2>1 DEF OnePlace, BegunOnce, Begun
      <3> QED
        BY <1>2, <1>4, <1>6, <1>7, <2>1, <3>1 DEF OnePlace, BegunOnce, Begun
    <2>2. CASE r \notin Q
      <3>1. ~InQueue(r) /\ r \notin DOMAIN pending /\ ~Listens(r) /\ answers'[r] = answers[r]
        BY <1>4, <1>5, <2>2
      <3> QED
        BY <1>2, <1>3, <1>6, <1>7, <3>1 DEF OnePlace, BegunOnce, Begun
    <2> QED
      BY <2>1, <2>2
  <1>9. TypeInv'
    <2>1. listeners' \in [File -> Seq(Query)] /\ cmd_queue' \in Seq(Query)
      BY <1>2
    <2> QED
      BY <1>2, <1>3, <1>4, <1>6, <2>1 DEF TypeInv, HandlerTypes
  <1> QED
    BY <1>8, <1>9 DEF HeldInv

LEMMA SamePlaces ==
  ASSUME HeldInv, UNCHANGED <<load, received, cmd_queue, asleep, asking, answers, nameVars, listeners>>,
         HandlerTypes'
  PROVE  HeldInv'
  <1>1. TypeInv /\ \A r \in Query : OnePlace(r) /\ BegunOnce(r)
    BY DEF HeldInv, OnePlace
  <1>2. \A r \in Query : BegunOnce(r)' /\ (Begun(r)' <=> Begun(r))
    BY <1>1, SameBegun DEF nameVars
  <1>3. \A r \in Query : OnePlace(r)'
    BY <1>1, <1>2, SamePlace
  <1> QED
    BY <1>1, <1>3 DEF HeldInv, TypeInv

LEMMA HeldStart ==
  ASSUME Init
  PROVE  HeldInv
  <1>1. TypeInv
    <2>1. <<>> \in Seq(Query) /\ <<>> \in Seq(FileReport) /\ <<>> \in Seq({"download", "cancel"})
      OBVIOUS
    <2>2. DOMAIN asking = {} /\ DOMAIN pending = {}
      BY DEF Init, NamesInit
    <2> QED
      BY <2>1, <2>2, FS_EmptySet DEF Init, FileStates, NamesInit, DownloadsInit, TypeInv, HandlerTypes
  <1>2. \A r \in Query : OnePlace(r)
    <2>1. DOMAIN asking = {} /\ DOMAIN pending = {} /\ DOMAIN cmd_queue = {}
          /\ \A f \in File : DOMAIN listeners[f] = {}
      BY DEF Init, NamesInit, DownloadsInit
    <2>2. received = {} /\ asleep = {} /\ answers = [q \in Query |-> 0]
      BY DEF Init
    <2> QED
      BY <2>1, <2>2 DEF OnePlace, InQueue, QueuedOnce, Begun, BegunOnce, Listens, ListensOnce, Listening
  <1> QED
    BY <1>1, <1>2 DEF HeldInv

LEMMA HeldStep ==
  ASSUME HeldInv, [Next]_vars
  PROVE  HeldInv'
  <1>1. TypeInv
    BY DEF HeldInv
  <1>2. CASE Looping /\ Loop
    BY <1>2, LoopHolds
  <1>3. ASSUME NEW q \in Query, Wake(q) \/ OnResult(q) \/ Send(q)
        PROVE  HeldInv'
    BY <1>3, WakeHolds, OnResultHolds, SendHolds
  <1>4. ASSUME NEW u \in Username, OnNameNotFound(u) \/ OnNameFound(u)
        PROVE  HeldInv'
    BY <1>4, NotFoundHolds, FoundHolds
  <1>5. ASSUME NEW f \in File, OnFile(f) \/ TdFile(f)
        PROVE  HeldInv'
    <2>1. CASE TdFile(f)
      <3>1. /\ toTd' \in [File -> Seq({"download", "cancel"})]
            /\ fromTd' \in [File -> Seq(FileReport)]
            /\ remote' \in [File -> FileStates]
            /\ UNCHANGED <<requestVars, nameVars, listeners>>
        BY <1>1, <2>1, TdFileTypes
      <3>2. HandlerTypes'
        BY <1>1, <3>1 DEF TypeInv, HandlerTypes, requestVars, nameVars
      <3> QED
        BY <3>1, <3>2, SamePlaces DEF requestVars
    <2> QED
      BY <1>5, <2>1, OnFileHolds
  <1>6. CASE TdAuthorizes \/ TdChangesChat \/ TdCloses \/ Stop \/ UNCHANGED vars
    <2>1. UNCHANGED <<load, received, cmd_queue, asleep, asking, answers, nameVars, downloadVars>>
      BY <1>6 DEF TdAuthorizes, TdChangesChat, TdCloses, Stop, vars, requestVars
    <2>2. HandlerTypes'
      BY <1>1, <2>1 DEF TypeInv, HandlerTypes, nameVars, downloadVars
    <2> QED
      BY <2>1, <2>2, SamePlaces DEF downloadVars
  <1>7. CASE OnClosed
    BY <1>7, OnClosedHolds
  <1> QED
    BY <1>2, <1>3, <1>4, <1>5, <1>6, <1>7 DEF Next, Progress, Environment

LEMMA CardinalityOfAtMostOne ==
  ASSUME NEW S, \A x, y \in S : x = y
  PROVE  Cardinality(S) = IF S = {} THEN 0 ELSE 1
  <1>1. CASE S = {}
    BY <1>1, FS_EmptySet
  <1>2. CASE S # {}
    <2>1. PICK x \in S : TRUE
      BY <1>2
    <2>2. S = {x}
      BY <2>1
    <2> QED
      BY <1>2, <2>2, FS_Singleton
  <1> QED
    BY <1>1, <1>2

LEMMA OneHolder ==
  ASSUME HeldInv
  PROVE  HeldOnce
  <1> SUFFICES ASSUME NEW q \in Query
               PROVE  Holders(q) = IF q \in received THEN 1 ELSE 0
    BY DEF HeldOnce
  <1> DEFINE queued == {i \in DOMAIN cmd_queue : cmd_queue[i] = q}
             listening == UNION {{<<f, i>> : i \in {i \in DOMAIN listeners[f] : listeners[f][i] = q}} : f \in File}
             sleeps == {x \in {q} : x \in asleep}
             asks == {x \in {q} : x \in DOMAIN asking}
             waits == {x \in {q} : x \in DOMAIN pending}
  <1>1. OnePlace(q) /\ BegunOnce(q) /\ QueuedOnce(q) /\ ListensOnce(q)
    BY DEF HeldInv, OnePlace, BegunOnce
  <1>2. Cardinality(queued) = IF InQueue(q) THEN 1 ELSE 0
    <2>1. \A i, j \in queued : i = j
      BY <1>1 DEF QueuedOnce
    <2>2. queued = {} <=> ~InQueue(q)
      BY DEF InQueue
    <2> HIDE DEF queued
    <2> QED
      BY <2>1, <2>2, CardinalityOfAtMostOne
  <1>3. Cardinality(listening) = IF Listens(q) THEN 1 ELSE 0
    <2>1. \A x, y \in listening : x = y
      BY <1>1 DEF ListensOnce
    <2>2. Listens(q) <=> \E f \in File : \E i \in DOMAIN listeners[f] : listeners[f][i] = q
      BY DEF Listens, Listening
    <2>3. ASSUME NEW f \in File, NEW i \in DOMAIN listeners[f], listeners[f][i] = q
          PROVE  <<f, i>> \in listening
      BY <2>3
    <2>4. ASSUME NEW x \in listening
          PROVE  \E f \in File : \E i \in DOMAIN listeners[f] : listeners[f][i] = q
      OBVIOUS
    <2> HIDE DEF listening
    <2> QED
      BY <2>1, <2>2, <2>3, <2>4, CardinalityOfAtMostOne
  <1>4. Cardinality(sleeps) = IF q \in asleep THEN 1 ELSE 0
    <2>1. (\A x, y \in sleeps : x = y) /\ (sleeps = {} <=> q \notin asleep)
      OBVIOUS
    <2> HIDE DEF sleeps
    <2> QED
      BY <2>1, CardinalityOfAtMostOne
  <1>5. Cardinality(asks) = IF q \in DOMAIN asking THEN 1 ELSE 0
    <2>1. (\A x, y \in asks : x = y) /\ (asks = {} <=> q \notin DOMAIN asking)
      OBVIOUS
    <2> HIDE DEF asks
    <2> QED
      BY <2>1, CardinalityOfAtMostOne
  <1>6. Cardinality(waits) = IF q \in DOMAIN pending THEN 1 ELSE 0
    <2>1. (\A x, y \in waits : x = y) /\ (waits = {} <=> q \notin DOMAIN pending)
      OBVIOUS
    <2> HIDE DEF waits
    <2> QED
      BY <2>1, CardinalityOfAtMostOne
  <1>7. Holders(q) = Cardinality(queued) + Cardinality(sleeps) + Cardinality(asks) + Cardinality(waits)
                       + Cardinality(listening) + answers[q]
    BY DEF Holders
  <1> HIDE DEF queued, sleeps, asks, waits, listening
  <1> QED
    BY <1>1, <1>2, <1>3, <1>4, <1>5, <1>6, <1>7 DEF OnePlace, BegunOnce, Begun

\* The places of every query follow from the invariant in every state.
THEOREM PlacesAreInvariant == Spec => []HeldInv
  <1>1. Init => HeldInv
    BY HeldStart
  <1>2. HeldInv /\ [Next]_vars => HeldInv'
    BY HeldStep
  <1> QED
    BY <1>1, <1>2, PTL DEF Spec

\* A query is in exactly one place from its receipt to its answer, and it is answered once
\* (Client::on_cmd, Client::on_closed).
THEOREM QueriesAreHeldOnce == Spec => []HeldOnce
  <1>1. HeldInv => HeldOnce
    BY OneHolder
  <1> QED
    BY <1>1, PlacesAreInvariant, PTL

-----------------------------------------------------------------------------
(* The files.                                                              *)

\* A request to download the file is on its way to TDLib.
Asked(f) == \E i \in DOMAIN toTd[f] : toTd[f][i] = "download"

\* Whoever listens to the file will hear of it.
Served(f) ==
  listeners[f] # <<>> =>
    \/ Asked(f)
    \/ \E i \in DOMAIN fromTd[f] : fromTd[f][i].kind \in {"answer", "error"}
    \/ f \in started /\ (\/ remote[f] \in Active
                         \/ \E i \in DOMAIN fromTd[f] : EndsDownload(fromTd[f][i].state, TRUE))

\* A download that a report calls active is active, or a later report tells of its end.
EndReported(f) ==
  \A i \in DOMAIN fromTd[f] : fromTd[f][i].state = "active" =>
    \/ remote[f] \in Active
    \/ \E j \in DOMAIN fromTd[f] : j > i /\ fromTd[f][j].state # "active"

FilesInv == \A f \in File : Served(f) /\ EndReported(f)

LEMMA EndStates ==
  ASSUME NEW state \in FileStates
  PROVE  EndsDownload(state, TRUE) <=> state # "active"
  <1>1. EndsDownload(state, TRUE) <=> state \in {"big", "big idle", "done", "idle"}
    BY DEF EndsDownload, Big
  <1> QED
    BY <1>1 DEF FileStates

LEMMA OtherFile ==
  ASSUME FilesInv, NEW g \in File,
         listeners'[g] = listeners[g], toTd'[g] = toTd[g], fromTd'[g] = fromTd[g], remote'[g] = remote[g],
         g \in started' <=> g \in started
  PROVE  Served(g)' /\ EndReported(g)'
  BY DEF FilesInv, Served, Asked, EndReported, EndsDownload

\* Types of what is known of a file
LEMMA FileTypes ==
  ASSUME TypeInv, NEW f \in File
  PROVE  /\ listeners \in [File -> Seq(Query)] /\ toTd \in [File -> Seq({"download", "cancel"})]
         /\ fromTd \in [File -> Seq(FileReport)] /\ fromTd[f] \in Seq(FileReport)
         /\ toTd[f] \in Seq({"download", "cancel"})
         /\ remote \in [File -> FileStates]
         /\ \A i \in DOMAIN fromTd[f] :
              /\ fromTd[f][i].kind \in ReportKinds
              /\ fromTd[f][i].state \in FileStates
  <1>1. /\ listeners \in [File -> Seq(Query)] /\ toTd \in [File -> Seq({"download", "cancel"})]
        /\ fromTd \in [File -> Seq(FileReport)]
        /\ remote \in [File -> FileStates]
    BY DEF TypeInv, HandlerTypes
  <1>2. fromTd[f] \in Seq(FileReport) /\ toTd[f] \in Seq({"download", "cancel"})
    BY <1>1
  <1>3. \A i \in DOMAIN fromTd[f] : fromTd[f][i] \in FileReport
    BY <1>2, ElementOfSeq
  <1> QED
    BY <1>1, <1>2, <1>3 DEF FileReport

LEMMA Reported ==
  ASSUME TypeInv, NEW f \in File, NEW what \in ReportKinds,
         NEW news \in FileStates,
         fromTd'[f] = Append(fromTd[f], Report(what, news)),
         NEW n, n = Len(fromTd[f])
  PROVE  /\ n \in Nat /\ DOMAIN fromTd[f] = 1..n /\ DOMAIN fromTd'[f] = 1..(n + 1)
         /\ fromTd'[f][n + 1] = Report(what, news)
         /\ \A i \in 1..n : i \in 1..(n + 1) /\ i < n + 1 /\ fromTd'[f][i] = fromTd[f][i]
         /\ \A i \in 1..(n + 1) : i = n + 1 \/ i \in 1..n
         /\ n + 1 \in 1..(n + 1)
  <1>1. fromTd \in [File -> Seq(FileReport)] /\ fromTd[f] \in Seq(FileReport)
    BY FileTypes
  <1>2. fromTd'[f] = Append(fromTd[f], Report(what, news))
    OBVIOUS
  <1>3. n \in Nat /\ DOMAIN fromTd[f] = 1..n
    BY <1>1
  <1>4. /\ DOMAIN fromTd'[f] = 1..(n + 1) /\ fromTd'[f][n + 1] = Report(what, news)
        /\ \A i \in 1..n : fromTd'[f][i] = fromTd[f][i]
    BY <1>1, <1>2
  <1>5. /\ \A i \in 1..n : i \in 1..(n + 1) /\ i < n + 1
        /\ \A i \in 1..(n + 1) : i = n + 1 \/ i \in 1..n
        /\ n + 1 \in 1..(n + 1)
    BY <1>3
  <1> QED
    BY <1>3, <1>4, <1>5

\* TDLib reports on a file whose listeners do not change.
LEMMA ReportServes ==
  ASSUME TypeInv, FilesInv, NEW f \in File,
         NEW what \in ReportKinds, NEW news \in FileStates,
         fromTd'[f] = Append(fromTd[f], Report(what, news)),
         UNCHANGED <<listeners, started>>,
         remote'[f] = IF what = "error" THEN remote[f] ELSE news,
         what = "error" => news # "active",
         Asked(f) => what # "update" \/ Asked(f)',
         what = "update" => news # "active",
         what = "answer" => (remote[f] \in Active => news \in Active)
  PROVE  Served(f)' /\ EndReported(f)'
  <1>1. PICK n : n = Len(fromTd[f])
    OBVIOUS
  <1>2. /\ fromTd \in [File -> Seq(FileReport)] /\ fromTd[f] \in Seq(FileReport)
        /\ remote \in [File -> FileStates]
        /\ \A i \in DOMAIN fromTd[f] : fromTd[f][i].state \in FileStates
    BY FileTypes
  <1>3. /\ n \in Nat /\ DOMAIN fromTd[f] = 1..n /\ DOMAIN fromTd'[f] = 1..(n + 1)
        /\ fromTd'[f][n + 1] = Report(what, news)
        /\ \A i \in 1..n : i \in 1..(n + 1) /\ i < n + 1 /\ fromTd'[f][i] = fromTd[f][i]
        /\ \A i \in 1..(n + 1) : i = n + 1 \/ i \in 1..n
        /\ n + 1 \in 1..(n + 1)
    BY <1>1, Reported
  <1>4. /\ fromTd'[f][n + 1].kind = what /\ fromTd'[f][n + 1].state = news
    <2>1. Report(what, news).kind = what /\ Report(what, news).state = news
      BY DEF Report
    <2> QED
      BY <1>3, <2>1
  <1>5. remote'[f] = IF what = "error" THEN remote[f] ELSE news
    OBVIOUS
  <1>6. EndReported(f)'
    <2> SUFFICES ASSUME NEW i \in 1..(n + 1), fromTd'[f][i].state = "active"
                 PROVE  \/ remote'[f] \in Active
                        \/ \E j \in 1..(n + 1) : j > i /\ fromTd'[f][j].state # "active"
      BY <1>3 DEF EndReported
    <2>1. CASE i = n + 1
      BY <1>4, <1>5, <2>1 DEF Active
    <2>2. CASE i \in 1..n /\ news # "active"
      BY <1>3, <1>4, <2>2
    <2>3. CASE i \in 1..n /\ news = "active"
      BY <1>5, <2>3 DEF Active
    <2> QED
      BY <1>3, <2>1, <2>2, <2>3
  <1>7. Served(f)'
    <2> SUFFICES ASSUME listeners[f] # <<>>
                 PROVE  \/ Asked(f)'
                        \/ \E i \in 1..(n + 1) : fromTd'[f][i].kind \in {"answer", "error"}
                        \/ f \in started /\ (\/ remote'[f] \in Active
                                             \/ \E i \in 1..(n + 1) : EndsDownload(fromTd'[f][i].state, TRUE))
      BY <1>3 DEF Served
    <2>1. CASE what # "update"
      BY <1>3, <1>4, <2>1 DEF ReportKinds
    <2>2. CASE what = "update"
      <3>1. EndsDownload(fromTd'[f][n + 1].state, TRUE)
        <4>1. news # "active"
          BY <2>2
        <4>2. EndsDownload(news, TRUE)
          BY <4>1, EndStates
        <4> QED
          BY <1>4, <4>2
      <3>2. \/ Asked(f)
            \/ \E i \in 1..n : fromTd[f][i].kind \in {"answer", "error"}
            \/ f \in started
        BY <1>3 DEF FilesInv, Served
      <3> QED
        BY <1>3, <2>2, <3>1, <3>2
    <2> QED
      BY <2>1, <2>2
  <1> QED
    BY <1>6, <1>7

LEMMA TdFileServes ==
  ASSUME TypeInv, FilesInv, NEW f \in File, TdFile(f)
  PROVE  FilesInv'
  <1>1. /\ fromTd \in [File -> Seq(FileReport)] /\ remote \in [File -> FileStates]
        /\ toTd \in [File -> Seq({"download", "cancel"})] /\ toTd[f] \in Seq({"download", "cancel"})
    BY FileTypes
  <1>2. UNCHANGED <<listeners, started>>
    BY DEF TdFile, TdRefuses, TdCancels, TdDownload, TdDownloads
  <1>3. /\ \E x : toTd' = [toTd EXCEPT ![f] = x]
        /\ \E x : fromTd' = [fromTd EXCEPT ![f] = x]
        /\ \E x : remote' = [remote EXCEPT ![f] = x]
    <2>1. toTd = [toTd EXCEPT ![f] = toTd[f]] /\ fromTd = [fromTd EXCEPT ![f] = fromTd[f]]
          /\ remote = [remote EXCEPT ![f] = remote[f]]
      BY <1>1
    <2>2. CASE TdRefuses(f)
      BY <2>1, <2>2 DEF TdRefuses
    <2>3. CASE TdCancels(f)
      BY <2>1, <2>3 DEF TdCancels
    <2>4. CASE TdDownload(f)
      BY <2>1, <2>4 DEF TdDownload
    <2>5. CASE TdDownloads(f)
      BY <2>1, <2>5 DEF TdDownloads
    <2> QED
      BY <2>2, <2>3, <2>4, <2>5 DEF TdFile
  <1>4. ASSUME NEW g \in File \ {f} PROVE Served(g)' /\ EndReported(g)'
    BY <1>1, <1>2, <1>3, OtherFile
  <1>5. Served(f)' /\ EndReported(f)'
    <2>0. "error" \in ReportKinds /\ "answer" \in ReportKinds /\ "update" \in ReportKinds
          /\ "idle" \in FileStates
      BY DEF ReportKinds, FileStates
    <2>1. CASE TdRefuses(f)
      <3>1. fromTd'[f] = Append(fromTd[f], Report("error", "idle")) /\ remote'[f] = remote[f]
        BY <1>1, <2>1 DEF TdRefuses
      <3> QED
        BY <1>2, <2>0, <3>1, ReportServes
    <2>2. CASE TdDownload(f)
      <3>1. PICK state \in (IF remote[f] \in Big THEN {"big"}
                           ELSE IF remote[f] = "idle" THEN {"active", "idle"} ELSE {remote[f]}) :
              /\ remote' = [remote EXCEPT ![f] = state]
              /\ fromTd' = [fromTd EXCEPT ![f] = Append(@, Report("answer", state))]
        BY <2>2 DEF TdDownload
      <3>2. fromTd'[f] = Append(fromTd[f], Report("answer", state)) /\ remote'[f] = state
        BY <1>1, <3>1
      <3>3. remote[f] \in FileStates
        BY <1>1
      <3>4. state \in FileStates /\ (remote[f] \in Active => state \in Active)
        BY <3>1, <3>3 DEF Active, Big, FileStates
      <3> QED
        BY <1>2, <2>0, <3>2, <3>4, ReportServes
    <2>3. CASE TdDownloads(f)
      <3>1. PICK state \in {"big idle", "done", "idle", "big"} :
              /\ remote' = [remote EXCEPT ![f] = state]
              /\ fromTd' = [fromTd EXCEPT ![f] = Append(@, Report("update", state))]
        BY <2>3 DEF TdDownloads
      <3>2. fromTd'[f] = Append(fromTd[f], Report("update", state)) /\ remote'[f] = state
        BY <1>1, <3>1
      <3>3. state \in FileStates /\ state # "active"
        BY <3>1 DEF FileStates
      <3>4. Asked(f) => Asked(f)'
        BY <2>3 DEF TdDownloads, Asked
      <3> QED
        BY <1>2, <2>0, <3>2, <3>3, <3>4, ReportServes
    <2>4. CASE TdCancels(f)
      <3>1. /\ toTd[f] # <<>> /\ Head(toTd[f]) = "cancel" /\ toTd'[f] = Tail(toTd[f])
        BY <1>1, <2>4 DEF TdCancels
      <3>2. Asked(f) => Asked(f)'
        <4> SUFFICES ASSUME NEW i \in DOMAIN toTd[f], toTd[f][i] = "download"
                     PROVE  \E j \in DOMAIN toTd'[f] : toTd'[f][j] = "download"
          BY DEF Asked
        <4>m. PICK m : m = Len(toTd[f])
          OBVIOUS
        <4>n. PICK t \in Seq({"download", "cancel"}) : t = toTd[f] /\ t # <<>>
          BY <1>1, <3>1
        <4>0. m \in Nat /\ i \in 1..m /\ t[1] = "cancel" /\ t[i] = "download"
          BY <3>1, <4>m, <4>n
        <4>1. i \in 2..m
          <5>1. i # 1
            BY <4>0
          <5> QED
            BY <4>0, <5>1
        <4>2. i - 1 \in DOMAIN Tail(t) /\ Tail(t)[i - 1] = t[i]
          <5>1. /\ DOMAIN Tail(t) = 1..(m - 1) /\ \A j \in 1..(m - 1) : Tail(t)[j] = t[j + 1]
            BY <4>m, <4>n
          <5>2. i - 1 \in 1..(m - 1) /\ (i - 1) + 1 = i
            BY <4>0, <4>1
          <5> QED
            BY <5>1, <5>2
        <4> QED
          BY <3>1, <4>n, <4>0, <4>2
      <3>3. CASE remote[f] \in Active
        <4>1. PICK state \in {"big idle", "idle"} :
                /\ fromTd' = [fromTd EXCEPT ![f] = Append(@, Report("update", state))]
                /\ remote' = [remote EXCEPT ![f] = state]
          BY <2>4, <3>3 DEF TdCancels
        <4>2. fromTd'[f] = Append(fromTd[f], Report("update", state)) /\ remote'[f] = state
          BY <1>1, <4>1
        <4>3. state \in FileStates /\ state # "active"
          BY <4>1 DEF FileStates
        <4> QED
          BY <1>2, <2>0, <3>2, <4>2, <4>3, ReportServes
      <3>4. CASE remote[f] \notin Active
        <4>1. UNCHANGED <<fromTd, remote>>
          BY <2>4, <3>4 DEF TdCancels
        <4> QED
          BY <1>2, <3>2, <4>1 DEF FilesInv, Served, EndReported
      <3> QED
        BY <3>3, <3>4
    <2> QED
      BY <2>1, <2>2, <2>3, <2>4 DEF TdFile
  <1> QED
    BY <1>4, <1>5 DEF FilesInv

\* A report after which some still listen
LEMMA OnFileGoesOn ==
  ASSUME TypeInv, NEW f \in File, OnFile(f), listeners'[f] # <<>>, NEW report, report = Head(fromTd[f])
  PROVE  /\ report.kind # "error"
         /\ f \in started \/ report.kind = "answer" => f \in started' /\ ~EndsDownload(report.state, TRUE)
         /\ toTd' = toTd /\ listeners' = listeners
  <1>0. listeners \in [File -> Seq(Query)]
    BY FileTypes
  <1>1. CASE report.kind = "error" /\ OnFileError(f)
    BY <1>0, <1>1 DEF OnFileError, OnFileDownload
  <1>2. ASSUME NEW begun \in BOOLEAN, OnUpdateFile(f, report.state, begun, Closing)
        PROVE  /\ ~(listeners[f] # <<>> /\ EndsDownload(report.state, begun))
               /\ started' = (IF begun THEN started \cup {f} ELSE started)
               /\ toTd' = toTd /\ listeners' = listeners
    <2>1. ~(listeners[f] # <<>> /\ EndsDownload(report.state, begun))
      BY <1>0, <1>2 DEF OnUpdateFile, OnFileDownload
    <2> QED
      BY <1>2, <2>1 DEF OnUpdateFile
  <1>3. CASE report.kind = "answer" /\ OnFileAnswer(f, report.state, Closing)
    <2>1. PICK begun \in BOOLEAN : begun = (f \in started \/ listeners[f] # <<>>)
      OBVIOUS
    <2>2. OnUpdateFile(f, report.state, begun, Closing)
      BY <1>3, <2>1 DEF OnFileAnswer
    <2>3. /\ ~(listeners[f] # <<>> /\ EndsDownload(report.state, begun))
          /\ started' = (IF begun THEN started \cup {f} ELSE started)
          /\ toTd' = toTd /\ listeners' = listeners
      BY <1>2, <2>2
    <2>4. begun = TRUE /\ listeners[f] # <<>>
      BY <2>1, <2>3
    <2> QED
      BY <1>3, <2>3, <2>4
  <1>4. CASE report.kind = "update" /\ OnFileUpdate(f, report.state, Closing)
    <2>1. PICK begun \in BOOLEAN : begun = (f \in started)
      <3>1. (f \in started) \in BOOLEAN
        OBVIOUS
      <3> QED
        BY <3>1, Zenon
    <2>2. OnUpdateFile(f, report.state, begun, Closing)
      BY <1>4, <2>1 DEF OnFileUpdate
    <2>3. /\ ~(listeners[f] # <<>> /\ EndsDownload(report.state, begun))
          /\ started' = (IF begun THEN started \cup {f} ELSE started)
          /\ toTd' = toTd /\ listeners' = listeners
      BY <1>2, <2>2
    <2>4. listeners[f] # <<>>
      BY <2>3
    <2>5. CASE f \in started
      <3>1. begun = TRUE
        BY <2>1, <2>5
      <3> QED
        BY <1>4, <2>3, <2>4, <3>1
    <2>6. CASE f \notin started
      BY <1>4, <2>3, <2>6
    <2> QED
      BY <2>5, <2>6
  <1> QED
    BY <1>1, <1>3, <1>4 DEF OnFile

\* The client hears of a file.
LEMMA OnFileServes ==
  ASSUME TypeInv, FilesInv, NEW f \in File, OnFile(f)
  PROVE  FilesInv'
  <1>1. /\ listeners \in [File -> Seq(Query)] /\ toTd \in [File -> Seq({"download", "cancel"})]
        /\ fromTd \in [File -> Seq(FileReport)] /\ fromTd[f] \in Seq(FileReport)
        /\ toTd[f] \in Seq({"download", "cancel"})
        /\ \A i \in DOMAIN fromTd[f] :
             /\ fromTd[f][i].kind \in ReportKinds
             /\ fromTd[f][i].state \in FileStates
    BY FileTypes
  <1>2. /\ listeners' \in {listeners, [listeners EXCEPT ![f] = <<>>]}
        /\ toTd' \in {toTd, [toTd EXCEPT ![f] = Append(@, "cancel")]}
        /\ fromTd' = [fromTd EXCEPT ![f] = Tail(@)]
        /\ UNCHANGED remote
        /\ fromTd[f] # <<>>
    BY OnFileIs DEF OnFile
  <1>3. PICK n : n = Len(fromTd[f])
    OBVIOUS
  <1>4. /\ n \in Nat \ {0} /\ DOMAIN fromTd[f] = 1..n /\ DOMAIN fromTd'[f] = 1..(n - 1)
        /\ \A i \in 1..(n - 1) : i + 1 \in 1..n /\ fromTd'[f][i] = fromTd[f][i + 1]
        /\ \A i \in 1..n : i = 1 \/ (i - 1 \in 1..(n - 1) /\ fromTd'[f][i - 1] = fromTd[f][i])
        /\ 1 \in 1..n
    <2>1. /\ n \in Nat \ {0} /\ DOMAIN fromTd[f] = 1..n
          /\ fromTd'[f] = Tail(fromTd[f])
      BY <1>1, <1>2, <1>3
    <2>2. /\ DOMAIN fromTd'[f] = 1..(n - 1)
          /\ \A i \in 1..(n - 1) : i + 1 \in 1..n /\ fromTd'[f][i] = fromTd[f][i + 1]
      BY <1>1, <1>2, <1>3, <2>1
    <2>3. \A i \in 1..n : i = 1 \/ (i - 1 \in 1..(n - 1) /\ (i - 1) + 1 = i)
      BY <2>1
    <2> QED
      BY <2>1, <2>2, <2>3
  <1>5. EndReported(f)'
    <2> SUFFICES ASSUME NEW i \in 1..(n - 1), fromTd'[f][i].state = "active", remote[f] \notin Active
                 PROVE  \E j \in 1..(n - 1) : j > i /\ fromTd'[f][j].state # "active"
      BY <1>2, <1>4 DEF EndReported
    <2>1. i + 1 \in 1..n /\ fromTd[f][i + 1].state = "active"
      BY <1>4
    <2>2. PICK j \in 1..n : j > i + 1 /\ fromTd[f][j].state # "active"
      BY <1>4, <2>1 DEF FilesInv, EndReported
    <2>3. j # 1 /\ j - 1 > i
      BY <1>4, <2>2
    <2> QED
      BY <1>4, <2>2, <2>3
  <1>6. Served(f)'
    <2> SUFFICES ASSUME listeners'[f] # <<>>
                 PROVE  \/ Asked(f)'
                        \/ \E i \in 1..(n - 1) : fromTd'[f][i].kind \in {"answer", "error"}
                        \/ f \in started' /\ (\/ remote[f] \in Active
                                              \/ \E i \in 1..(n - 1) : EndsDownload(fromTd'[f][i].state, TRUE))
      BY <1>2, <1>4 DEF Served
    <2>1. PICK report : report = fromTd[f][1] /\ report = Head(fromTd[f])
      BY <1>1, <1>2
    <2>2. /\ report.kind # "error"
          /\ f \in started \/ report.kind = "answer" => f \in started' /\ ~EndsDownload(report.state, TRUE)
          /\ toTd' = toTd /\ listeners' = listeners
      BY <2>1, OnFileGoesOn
    <2>3. \/ Asked(f)
          \/ \E i \in 1..n : fromTd[f][i].kind \in {"answer", "error"}
          \/ f \in started /\ (\/ remote[f] \in Active
                               \/ \E i \in 1..n : EndsDownload(fromTd[f][i].state, TRUE))
      BY <1>4, <2>2 DEF FilesInv, Served
    <2>4. CASE Asked(f)
      BY <2>2, <2>4 DEF Asked
    <2>5. ASSUME NEW i \in 1..n, fromTd[f][i].kind \in {"answer", "error"}
          PROVE  \/ \E j \in 1..(n - 1) : fromTd'[f][j].kind \in {"answer", "error"}
                 \/ f \in started' /\ (\/ remote[f] \in Active
                                       \/ \E j \in 1..(n - 1) : EndsDownload(fromTd'[f][j].state, TRUE))
      <3>1. CASE i # 1
        BY <1>4, <2>5, <3>1
      <3>2. CASE i = 1
        <4>1. f \in started' /\ ~EndsDownload(report.state, TRUE)
          BY <2>1, <2>2, <2>5, <3>2
        <4>2. report.state \in FileStates
          BY <1>1, <1>4, <2>1
        <4>3. report.state = "active"
          BY <4>1, <4>2, EndStates
        <4>4. CASE remote[f] \notin Active
          <5>1. PICK j \in 1..n : j > 1 /\ fromTd[f][j].state # "active"
            BY <1>4, <2>1, <4>3, <4>4 DEF FilesInv, EndReported
          <5>2. fromTd[f][j].state \in FileStates
            BY <1>1, <1>4
          <5>3. EndsDownload(fromTd[f][j].state, TRUE)
            BY <5>1, <5>2, EndStates
          <5>4. j - 1 \in 1..(n - 1) /\ fromTd'[f][j - 1] = fromTd[f][j]
            BY <1>4, <5>1
          <5> QED
            BY <4>1, <5>3, <5>4
        <4> QED
          BY <4>1, <4>4
      <3> QED
        BY <3>1, <3>2
    <2>6. ASSUME NEW i \in 1..n, f \in started, EndsDownload(fromTd[f][i].state, TRUE)
          PROVE  f \in started' /\ \E j \in 1..(n - 1) : EndsDownload(fromTd'[f][j].state, TRUE)
      <3>1. i # 1 /\ f \in started'
        BY <2>1, <2>2, <2>6
      <3>2. i - 1 \in 1..(n - 1) /\ fromTd'[f][i - 1] = fromTd[f][i]
        BY <1>4, <3>1
      <3> QED
        BY <2>6, <3>1, <3>2
    <2>7. CASE f \in started /\ remote[f] \in Active
      BY <2>2, <2>7
    <2> QED
      BY <2>3, <2>4, <2>5, <2>6, <2>7
  <1>7. ASSUME NEW g \in File \ {f} PROVE Served(g)' /\ EndReported(g)'
    <2>1. /\ listeners'[g] = listeners[g] /\ toTd'[g] = toTd[g] /\ fromTd'[g] = fromTd[g] /\ remote'[g] = remote[g]
          /\ g \in started' <=> g \in started
      <3>1. started' \in {started, started \cup {f}, started \ {f}}
        BY OnFileIs
      <3> QED
        BY <1>1, <1>2, <3>1
    <2> QED
      BY <2>1, OtherFile
  <1> QED
    BY <1>5, <1>6, <1>7 DEF FilesInv

\* What may become of the downloads in a step
DownloadSteps ==
  \/ UNCHANGED downloadVars
  \/ \E f \in File : \E q : DoGetFile(f, q)
  \/ \E f \in File : DoGetFileClosing(f)
  \/ \E f \in File : OnFile(f) \/ TdFile(f)
  \/ DownloadsClosed

LEMMA ContinueDownloads ==
  ASSUME TypeInv, NEW q, NEW steps, NEW over \in SUBSET Username, IsFiniteSet(over), Continue(q, steps, over)
  PROVE  DownloadSteps
  <1>1. CASE ListenToFile(q)
    BY <1>1 DEF ListenToFile, DownloadSteps
  <1>2. CASE UNCHANGED downloadVars
    BY <1>2 DEF DownloadSteps
  <1> QED
    BY <1>1, <1>2, ContinueIs

LEMMA OnCmdDownloads ==
  ASSUME TypeInv, NEW q, NEW force, OnCmd(q, force)
  PROVE  DownloadSteps
  <1>1. ASSUME NEW steps, Continue(q, steps, {})
        PROVE  DownloadSteps
    BY <1>1, ContinueDownloads, FS_EmptySet
  <1>2. UNCHANGED downloadVars \/ \E steps : Continue(q, steps, {})
    BY OnCmdIs
  <1> QED
    BY <1>1, <1>2 DEF DownloadSteps

LEMMA DownloadsStep ==
  ASSUME TypeInv, [Next]_vars
  PROVE  DownloadSteps
  <1>1. ASSUME NEW q, OnResult(q)
        PROVE  DownloadSteps
    <2>1. PICK steps, over : steps = Tail(asking[q]) /\ over = unresolved
      OBVIOUS
    <2>2. over \in SUBSET Username /\ IsFiniteSet(over)
      BY <2>1 DEF TypeInv, HandlerTypes
    <2>3. UNCHANGED downloadVars \/ Continue(q, steps, over)
      BY <1>1, <2>1 DEF OnResult
    <2> QED
      BY <2>2, <2>3, ContinueDownloads DEF DownloadSteps
  <1>2. ASSUME NEW q, Send(q) \/ Wake(q)
        PROVE  DownloadSteps
    <2>1. UNCHANGED downloadVars \/ OnCmd(q, FALSE) \/ OnCmd(q, TRUE)
      BY <1>2 DEF Send, Wake, Finish
    <2> QED
      BY <2>1, OnCmdDownloads DEF DownloadSteps
  <1>3. CASE Loop
    BY <1>3, OnCmdDownloads DEF Loop
  <1>4. ASSUME NEW u, OnNameNotFound(u) \/ OnNameFound(u)
        PROVE  DownloadSteps
    BY <1>4 DEF OnNameNotFound, OnNameFound, DownloadSteps
  <1>5. CASE TdAuthorizes \/ TdChangesChat \/ TdCloses \/ Stop \/ UNCHANGED vars
    BY <1>5 DEF TdAuthorizes, TdChangesChat, TdCloses, Stop, vars, DownloadSteps
  <1>6. CASE OnClosed
    BY <1>6 DEF OnClosed, DownloadSteps
  <1>7. CASE \E f \in File : OnFile(f) \/ TdFile(f)
    BY <1>7 DEF DownloadSteps
  <1> QED
    BY <1>1, <1>2, <1>3, <1>4, <1>5, <1>6, <1>7 DEF Next, Progress, Environment

LEMMA FilesStep ==
  ASSUME TypeInv, FilesInv, DownloadSteps
  PROVE  FilesInv'
  <1>1. CASE UNCHANGED downloadVars
    BY <1>1, OtherFile DEF FilesInv, downloadVars
  <1>2. ASSUME NEW f \in File, NEW q, DoGetFile(f, q)
        PROVE  FilesInv'
    <2>1. listeners \in [File -> Seq(Query)] /\ toTd \in [File -> Seq({"download", "cancel"})]
          /\ toTd[f] \in Seq({"download", "cancel"})
      BY FileTypes
    <2>2. toTd'[f] = Append(toTd[f], "download") /\ UNCHANGED <<started, fromTd, remote>>
      BY <1>2, <2>1 DEF DoGetFile
    <2>3. Asked(f)'
      <3>1. Len(toTd[f]) + 1 \in DOMAIN toTd'[f] /\ toTd'[f][Len(toTd[f]) + 1] = "download"
        BY <2>1, <2>2
      <3> QED
        BY <3>1 DEF Asked
    <2>4. Served(f)' /\ EndReported(f)'
      BY <2>2, <2>3 DEF FilesInv, Served, EndReported
    <2>5. ASSUME NEW g \in File \ {f} PROVE Served(g)' /\ EndReported(g)'
      <3>1. listeners'[g] = listeners[g] /\ toTd'[g] = toTd[g]
        BY <1>2, <2>1 DEF DoGetFile
      <3> QED
        BY <2>2, <3>1, OtherFile
    <2> QED
      BY <2>4, <2>5 DEF FilesInv
  <1>3. ASSUME NEW f \in File, DoGetFileClosing(f)
        PROVE  FilesInv'
    <2>1. listeners \in [File -> Seq(Query)]
      BY FileTypes
    <2>2. /\ listeners' = [listeners EXCEPT ![f] = <<>>] /\ started' = started \ {f}
          /\ UNCHANGED <<toTd, fromTd, remote>>
      BY <1>3 DEF DoGetFileClosing
    <2>3. Served(f)' /\ EndReported(f)'
      BY <2>1, <2>2 DEF FilesInv, Served, EndReported
    <2>4. ASSUME NEW g \in File \ {f} PROVE Served(g)' /\ EndReported(g)'
      <3>1. listeners'[g] = listeners[g] /\ (g \in started' <=> g \in started)
        BY <2>1, <2>2
      <3> QED
        BY <2>2, <3>1, OtherFile
    <2> QED
      BY <2>3, <2>4 DEF FilesInv
  <1>4. CASE \E f \in File : OnFile(f) \/ TdFile(f)
    BY <1>4, OnFileServes, TdFileServes
  <1>5. CASE DownloadsClosed
    BY <1>5 DEF DownloadsClosed, FilesInv, Served, EndReported
  <1> QED
    BY <1>1, <1>2, <1>3, <1>4, <1>5 DEF DownloadSteps

\* Whoever listens to a file will hear of it: no order of answers and updates leaves a query
\* without an end (Client::on_update_file, TdOnDownloadFileCallback).
THEOREM ListenersAreServed == Spec => []ListenersServed
  <1>1. Init => FilesInv
    <2> SUFFICES ASSUME Init PROVE FilesInv
      OBVIOUS
    <2>1. \A f \in File : listeners[f] = <<>> /\ DOMAIN fromTd[f] = {}
      BY DEF Init, DownloadsInit
    <2> QED
      BY <2>1 DEF FilesInv, Served, EndReported
  <1>2. HeldInv /\ FilesInv /\ [Next]_vars => FilesInv'
    BY DownloadsStep, FilesStep DEF HeldInv
  <1>3. FilesInv => ListenersServed
    BY DEF FilesInv, Served, Asked, ListenersServed
  <1> QED
    BY <1>1, <1>2, <1>3, PlacesAreInvariant, PTL DEF Spec

-----------------------------------------------------------------------------
(* The usernames.                                                          *)

\* The usernames that a query waits for
NamesOf(q) == {u \in Username : q \in {awaiting[u][i] : i \in DOMAIN awaiting[u]}}

Resolving(q) ==
  /\ pending[q] = [count |-> pending[q].count, buttons |-> pending[q].buttons,
                   cleared |-> pending[q].cleared, then |-> pending[q].then]
  /\ pending[q].count \in Nat \ {0}
  /\ IsFiniteSet(NamesOf(q)) /\ pending[q].count = Cardinality(NamesOf(q))

\* The lists of the usernames keep queries that were answered in the meantime, but no query
\* that is yet to wait.
CountsInv ==
  /\ \A q \in DOMAIN pending : Resolving(q)
  /\ \A q \in Query : NamesOf(q) # {} => q \in DOMAIN pending \/ answers[q] > 0

AnswersStay == \A q \in Query : answers[q] > 0 => answers'[q] > 0

\* A query whose keyboards name unresolved usernames starts to wait for them.
Resolve(q, p, then) ==
  /\ ParsedInv(p) /\ q \notin DOMAIN pending /\ answers[q] = 0
  /\ p.unresolved # {}
  /\ ResolveBotUsernames(q, p, then, Closing)
  /\ ResolveFails(p.unresolved, Closing) => answers'[q] > 0

\* What may become of the maps of usernames in a step
NamesStep ==
  \/ (\E over \in SUBSET Username : IsFiniteSet(over) /\ NamesKept(over)) /\ AnswersStay
  \/ (\E q \in Query : \E p, then : Resolve(q, p, then)) /\ AnswersStay
  \/ \E u \in Username : NotFound(u) /\ AnswersStay /\ \A q \in Query : q \in Waiting(u) => answers'[q] > 0
  \/ \E u \in Username : Found(u) /\ AnswersStay
  \/ /\ pending' = <<>> /\ \A u \in Username : awaiting[u] = <<>>
     /\ UNCHANGED <<awaiting, bot_user_ids, cur_temp_bot_user_id, temp_to_real>>

LEMMA AnswerStays ==
  ASSUME TypeInv, NEW Q, Answer(Q)
  PROVE  AnswersStay
  <1>1. answers \in [Query -> Nat]
    BY DEF TypeInv, HandlerTypes
  <1>2. \A q \in Query : answers'[q] = IF q \in Q THEN answers[q] + 1 ELSE answers[q]
    BY AnswerIs
  <1> QED
    BY <1>1, <1>2 DEF AnswersStay

LEMMA SameNames ==
  ASSUME TypeInv, UNCHANGED nameVars, AnswersStay
  PROVE  NamesStep
  <1>1. PICK over : over = unresolved
    OBVIOUS
  <1>2. over \in SUBSET Username /\ IsFiniteSet(over) /\ NamesKept(over)
    BY <1>1 DEF TypeInv, HandlerTypes, NamesKept, nameVars
  <1> QED
    BY <1>2 DEF NamesStep

LEMMA ContinueNames ==
  ASSUME TypeInv, NEW q \in Query, NEW steps, NEW over \in SUBSET Username, IsFiniteSet(over),
         Continue(q, steps, over), q \notin DOMAIN pending, answers[q] = 0
  PROVE  NamesStep
  <1>1. CASE /\ \/ \E o : SettleOne(q, o)
                \/ Answer({q}) /\ Unhold(q)
                \/ over # {} /\ UNCHANGED <<answers, asking>>
             /\ NamesKept(over)
    <2>1. ASSUME NEW o, SettleOne(q, o) PROVE AnswersStay
      <3>1. \E Q : Answer(Q)
        BY <2>1 DEF SettleOne, Settle
      <3> QED
        BY <3>1, AnswerStays
    <2>2. AnswersStay
      BY <1>1, <2>1, AnswerStays DEF AnswersStay
    <2> QED
      BY <1>1, <2>2 DEF NamesStep
  <1>2. CASE StartsToResolve(q)
    <2>1. PICK p :
            /\ ParsedInv(p) /\ p.unresolved # {}
            /\ \E then : ResolveBotUsernames(q, p, then, Closing)
            /\ Answer(IF ResolveFails(p.unresolved, Closing) THEN {q} ELSE {})
      BY <1>2 DEF StartsToResolve
    <2>2. PICK then : ResolveBotUsernames(q, p, then, Closing)
      BY <2>1
    <2>3. AnswersStay
      BY <2>1, AnswerStays
    <2>4. ResolveFails(p.unresolved, Closing) => answers'[q] > 0
      <3>1. SUFFICES ASSUME ResolveFails(p.unresolved, Closing) PROVE answers'[q] > 0
        OBVIOUS
      <3>2. Answer({q})
        BY <2>1, <3>1
      <3> QED
        BY <3>2, AnswerIs
    <2>5. Resolve(q, p, then)
      BY <2>1, <2>2, <2>4 DEF Resolve
    <2> QED
      BY <2>3, <2>5 DEF NamesStep
  <1>3. CASE ListenToFile(q) /\ NamesKept(over)
    <2>1. \A Q : Answer(Q) => AnswersStay
      BY AnswerStays
    <2>2. AnswersStay
      BY <1>3, <2>1 DEF ListenToFile, AnswersStay
    <2> QED
      BY <1>3, <2>2 DEF NamesStep
  <1> QED
    BY <1>1, <1>2, <1>3, ContinueIs

LEMMA OnCmdNames ==
  ASSUME TypeInv, NEW q \in Query, NEW force, OnCmd(q, force), ~Begun(q)
  PROVE  NamesStep
  <1>1. q \notin DOMAIN pending /\ answers[q] = 0
    BY DEF Begun
  <1>2. CASE Answer({q}) /\ UNCHANGED nameVars
    BY <1>2, AnswerStays, SameNames
  <1>3. CASE UNCHANGED <<answers, nameVars>>
    BY <1>3, SameNames DEF AnswersStay
  <1>4. CASE NamesKept({}) /\ UNCHANGED answers
    BY <1>4, FS_EmptySet DEF AnswersStay, NamesStep
  <1>5. CASE \E steps : Continue(q, steps, {})
    BY <1>1, <1>5, ContinueNames, FS_EmptySet
  <1> QED
    BY <1>2, <1>3, <1>4, <1>5, OnCmdIs

LEMMA NamesSteps ==
  ASSUME HeldInv, [Next]_vars
  PROVE  NamesStep
  <1>1. TypeInv /\ \A r \in Query : OnePlace(r) /\ BegunOnce(r)
    BY DEF HeldInv, OnePlace
  <1>2. ASSUME NEW q \in Query, OnResult(q)
        PROVE  NamesStep
    <2>1. PICK steps, over : steps = Tail(asking[q]) /\ over = unresolved
      OBVIOUS
    <2>2. over \in SUBSET Username /\ IsFiniteSet(over)
      BY <1>1, <2>1 DEF TypeInv, HandlerTypes
    <2>3. q \notin DOMAIN pending /\ answers[q] = 0
      BY <1>1, <1>2 DEF OnResult, BegunOnce
    <2>4. (Answer({q}) /\ UNCHANGED nameVars) \/ Continue(q, steps, over)
      BY <1>2, <2>1 DEF OnResult
    <2> QED
      BY <1>1, <2>2, <2>3, <2>4, ContinueNames, AnswerStays, SameNames
  <1>3. ASSUME NEW q \in Query, Send(q) \/ Wake(q)
        PROVE  NamesStep
    <2>1. ~Begun(q)
      BY <1>1, <1>3 DEF OnePlace, Send, Wake
    <2>2. CASE OnCmd(q, FALSE) \/ OnCmd(q, TRUE)
      BY <1>1, <2>1, <2>2, OnCmdNames
    <2>3. CASE (Answer({q}) \/ UNCHANGED answers) /\ UNCHANGED nameVars
      <3>1. AnswersStay
        BY <1>1, <2>3, AnswerStays DEF AnswersStay
      <3> QED
        BY <1>1, <2>3, <3>1, SameNames
    <2> QED
      BY <1>3, <2>2, <2>3 DEF Send, Wake, Finish
  <1>4. CASE Looping /\ Loop
    <2>1. PICK q : q = Head(cmd_queue)
      OBVIOUS
    <2>2. cmd_queue \in Seq(Query) /\ cmd_queue # <<>>
      BY <1>1, <1>4 DEF TypeInv, Looping
    <2>3. q \in Query /\ InQueue(q)
      BY <2>1, <2>2 DEF InQueue
    <2>4. ~Begun(q)
      BY <1>1, <2>3 DEF OnePlace
    <2> QED
      BY <1>1, <1>4, <2>1, <2>3, <2>4, OnCmdNames DEF Loop
  <1>5. ASSUME NEW u \in Username, OnNameNotFound(u)
        PROVE  NamesStep
    <2>1. Answer(Waiting(u)) /\ NotFound(u)
      BY <1>5 DEF OnNameNotFound
    <2>2. \A q \in Query : q \in Waiting(u) => answers'[q] > 0
      <3>1. \A q \in Query : answers[q] \in Nat
        BY <1>1 DEF TypeInv, HandlerTypes
      <3>2. \A q \in Query : q \in Waiting(u) => answers'[q] = answers[q] + 1
        BY <1>1, <2>1, AnswerIs
      <3> QED
        BY <3>1, <3>2
    <2> QED
      BY <1>1, <2>1, <2>2, AnswerStays DEF NamesStep
  <1>6. ASSUME NEW u \in Username, OnNameFound(u)
        PROVE  NamesStep
    <2>1. Found(u) /\ \E Q : Answer(Q)
      BY <1>6 DEF OnNameFound, Settle
    <2> QED
      BY <1>1, <2>1, AnswerStays DEF NamesStep
  <1>7. CASE OnClosed
    BY <1>7 DEF OnClosed, TdIdle, NamesStep
  <1>8. ASSUME NEW f \in File, OnFile(f) \/ TdFile(f)
        PROVE  NamesStep
    <2>1. UNCHANGED nameVars /\ (UNCHANGED answers \/ \E Q : Answer(Q))
      BY <1>8 DEF OnFile, TdFile, requestVars
    <2>2. AnswersStay
      BY <1>1, <2>1, AnswerStays DEF AnswersStay
    <2> QED
      BY <1>1, <2>1, <2>2, SameNames
  <1>9. CASE TdAuthorizes \/ TdChangesChat \/ TdCloses \/ Stop \/ UNCHANGED vars
    <2>1. UNCHANGED <<answers, nameVars>>
      BY <1>9 DEF TdAuthorizes, TdChangesChat, TdCloses, Stop, vars, requestVars
    <2> QED
      BY <1>1, <2>1, SameNames DEF AnswersStay
  <1> QED
    BY <1>2, <1>3, <1>4, <1>5, <1>6, <1>7, <1>8, <1>9 DEF Next, Progress, Environment

LEMMA NamesSame ==
  ASSUME awaiting' = awaiting
  PROVE  \A q : NamesOf(q)' = NamesOf(q)
  BY DEF NamesOf

\* The lists lose the queries that wait for the username.
LEMMA NamesWithout ==
  ASSUME TypeInv, NEW u \in Username, awaiting' = [awaiting EXCEPT ![u] = <<>>]
  PROVE  \A q : NamesOf(q)' = NamesOf(q) \ {u}
  <1>1. awaiting \in [Username -> Seq(Query)]
    BY DEF TypeInv, HandlerTypes
  <1>2. awaiting'[u] = <<>> /\ \A v \in Username \ {u} : awaiting'[v] = awaiting[v]
    BY <1>1
  <1> QED
    BY <1>2 DEF NamesOf

\* The lists of some usernames get the query.
LEMMA NamesWith ==
  ASSUME TypeInv, NEW q \in Query, NEW found \in SUBSET Username,
         awaiting' = [u \in Username |-> IF u \in found THEN Append(awaiting[u], q) ELSE awaiting[u]]
  PROVE  /\ NamesOf(q)' = NamesOf(q) \cup found
         /\ \A r : r # q => NamesOf(r)' = NamesOf(r)
  <1>1. awaiting \in [Username -> Seq(Query)]
    BY DEF TypeInv, HandlerTypes
  <1>2. ASSUME NEW u \in Username
        PROVE  {awaiting'[u][i] : i \in DOMAIN awaiting'[u]} =
                 {awaiting[u][i] : i \in DOMAIN awaiting[u]} \cup (IF u \in found THEN {q} ELSE {})
    <2>1. CASE u \in found
      <3>1. PICK s \in Seq(Query) : s = awaiting[u]
        BY <1>1
      <3>2. awaiting'[u] = Append(s, q)
        BY <2>1, <3>1
      <3>3. PICK n : n = Len(s)
        OBVIOUS
      <3>4. /\ n \in Nat /\ DOMAIN s = 1..n /\ DOMAIN Append(s, q) = 1..(n + 1)
            /\ Append(s, q)[n + 1] = q /\ \A i \in 1..n : Append(s, q)[i] = s[i]
        BY <3>1, <3>3
      <3>5. 1..(n + 1) = (1..n) \cup {n + 1}
        BY <3>4
      <3> QED
        BY <2>1, <3>1, <3>2, <3>4, <3>5
    <2>2. CASE u \notin found
      BY <2>2
    <2> QED
      BY <2>1, <2>2
  <1> QED
    BY <1>2 DEF NamesOf

LEMMA CountsStep ==
  ASSUME TypeInv, CountsInv, NamesStep
  PROVE  CountsInv'
  <1>1. DOMAIN pending \subseteq Query
    BY DEF TypeInv, HandlerTypes
  <1>2. CASE UNCHANGED <<pending, awaiting>> /\ AnswersStay
    <2>1. \A q : NamesOf(q)' = NamesOf(q)
      BY <1>2, NamesSame
    <2>2. \A q \in DOMAIN pending' : Resolving(q)'
      BY <1>2, <2>1 DEF CountsInv, Resolving
    <2>3. \A q \in Query : NamesOf(q)' # {} => q \in DOMAIN pending' \/ answers'[q] > 0
      BY <1>2, <2>1 DEF CountsInv, AnswersStay
    <2> QED
      BY <2>2, <2>3 DEF CountsInv
  <1>3. ASSUME NEW q \in Query, NEW p, NEW then, Resolve(q, p, then), AnswersStay
        PROVE  CountsInv'
    <2> DEFINE names == p.unresolved
               lost == IF Closing THEN Searched(names) ELSE {}
               entry == [count |-> Cardinality(names), buttons |-> p.buttons, cleared |-> p.cleared,
                         then |-> then]
    <2>1. names \in SUBSET Username /\ IsFiniteSet(names) /\ names # {}
      BY <1>3 DEF Resolve, ParsedInv, ParsedType
    <2>2. /\ awaiting' = [u \in Username |-> IF u \in names \ lost THEN Append(awaiting[u], q) ELSE awaiting[u]]
          /\ pending' = IF lost # {} THEN pending ELSE Put(pending, q, entry)
      BY <1>3 DEF Resolve, ResolveBotUsernames
    <2>3. lost # {} => answers'[q] > 0
      BY <1>3 DEF Resolve, ResolveFails
    <2>4. NamesOf(q) = {} /\ q \notin DOMAIN pending
      BY <1>3 DEF Resolve, CountsInv
    <2> HIDE DEF names, lost
    <2>5. NamesOf(q)' = names \ lost /\ \A r : r # q => NamesOf(r)' = NamesOf(r)
      <3>1. names \ lost \in SUBSET Username
        BY <2>1
      <3> QED
        BY <2>2, <2>4, <3>1, NamesWith
    <2>6. CASE lost # {}
      <3>1. \A r \in DOMAIN pending' : Resolving(r)'
        BY <2>2, <2>4, <2>5, <2>6 DEF CountsInv, Resolving
      <3>2. \A r \in Query : NamesOf(r)' # {} => r \in DOMAIN pending' \/ answers'[r] > 0
        BY <1>3, <2>2, <2>3, <2>5, <2>6 DEF CountsInv, AnswersStay
      <3> QED
        BY <3>1, <3>2 DEF CountsInv
    <2>7. CASE lost = {}
      <3>1. /\ DOMAIN pending' = DOMAIN pending \cup {q} /\ pending'[q] = entry
            /\ \A r \in DOMAIN pending : pending'[r] = pending[r]
        BY <2>2, <2>4, <2>7 DEF Put
      <3>2. NamesOf(q)' = names
        BY <2>5, <2>7
      <3>3. Cardinality(names) \in Nat \ {0}
        BY <2>1, FS_CardinalityType, FS_EmptySet
      <3>4. Resolving(q)'
        BY <2>1, <3>1, <3>2, <3>3 DEF Resolving
      <3>5. ASSUME NEW r \in DOMAIN pending PROVE Resolving(r)'
        <4>1. r # q /\ NamesOf(r)' = NamesOf(r) /\ pending'[r] = pending[r]
          BY <2>4, <2>5, <3>1
        <4> QED
          BY <4>1 DEF CountsInv, Resolving
      <3>6. \A r \in Query : NamesOf(r)' # {} => r \in DOMAIN pending' \/ answers'[r] > 0
        BY <1>3, <2>5, <3>1 DEF CountsInv, AnswersStay
      <3> QED
        BY <3>1, <3>4, <3>5, <3>6 DEF CountsInv
    <2> QED
      BY <2>6, <2>7
  <1>4. ASSUME NEW u \in Username, NotFound(u), AnswersStay,
               \A q \in Query : q \in Waiting(u) => answers'[q] > 0
        PROVE  CountsInv'
    <2>1. /\ awaiting' = [awaiting EXCEPT ![u] = <<>>]
          /\ DOMAIN pending' = DOMAIN pending \ Waiting(u)
          /\ \A q \in DOMAIN pending' : pending'[q] = pending[q]
      BY <1>4 DEF NotFound, Without
    <2>2. \A q : NamesOf(q)' = NamesOf(q) \ {u}
      BY <2>1, NamesWithout
    <2>3. \A q \in DOMAIN pending : u \in NamesOf(q) <=> q \in Waiting(u)
      BY DEF NamesOf, Waiting
    <2>4. ASSUME NEW q \in DOMAIN pending' PROVE Resolving(q)'
      <3>1. NamesOf(q)' = NamesOf(q) /\ pending'[q] = pending[q] /\ q \in DOMAIN pending
        BY <2>1, <2>2, <2>3
      <3> QED
        BY <3>1 DEF CountsInv, Resolving
    <2>5. \A q \in Query : NamesOf(q)' # {} => q \in DOMAIN pending' \/ answers'[q] > 0
      BY <1>4, <2>1, <2>2 DEF CountsInv, AnswersStay
    <2> QED
      BY <2>4, <2>5 DEF CountsInv
  <1>5. ASSUME NEW u \in Username, Found(u), AnswersStay
        PROVE  CountsInv'
    <2>1. /\ awaiting' = [awaiting EXCEPT ![u] = <<>>]
          /\ DOMAIN pending' = DOMAIN pending \ Finished(u)
          /\ \A q \in DOMAIN pending' :
               pending'[q] = IF q \in Waiting(u) THEN [pending[q] EXCEPT !.count = @ - 1] ELSE pending[q]
      BY <1>5 DEF Found
    <2>2. \A q : NamesOf(q)' = NamesOf(q) \ {u}
      BY <2>1, NamesWithout
    <2>3. \A q \in DOMAIN pending : u \in NamesOf(q) <=> q \in Waiting(u)
      BY DEF NamesOf, Waiting
    <2>4. ASSUME NEW q \in DOMAIN pending' PROVE Resolving(q)'
      <3>1. q \in DOMAIN pending /\ q \notin Finished(u) /\ Resolving(q)
        BY <2>1 DEF CountsInv
      <3>2. CASE q \in Waiting(u)
        <4>1. pending[q].count # 1 /\ pending[q].count \in Nat \ {0}
          BY <3>1, <3>2 DEF Finished, Resolving
        <4>2. /\ pending'[q].count = pending[q].count - 1
              /\ pending'[q] = [count |-> pending'[q].count, buttons |-> pending'[q].buttons,
                                cleared |-> pending'[q].cleared, then |-> pending'[q].then]
          <5>1. pending'[q] = [pending[q] EXCEPT !.count = @ - 1]
            BY <2>1, <3>2
          <5> QED
            BY <3>1, <5>1 DEF Resolving
        <4>3. u \in NamesOf(q) /\ IsFiniteSet(NamesOf(q)) /\ pending[q].count = Cardinality(NamesOf(q))
          BY <2>3, <3>1, <3>2 DEF Resolving
        <4>4. IsFiniteSet(NamesOf(q) \ {u}) /\ Cardinality(NamesOf(q) \ {u}) = Cardinality(NamesOf(q)) - 1
          BY <4>3, FS_RemoveElement
        <4>5. pending'[q].count \in Nat \ {0}
          BY <4>1, <4>2
        <4> QED
          BY <2>2, <4>2, <4>3, <4>4, <4>5 DEF Resolving
      <3>3. CASE q \notin Waiting(u)
        <4>1. NamesOf(q)' = NamesOf(q) /\ pending'[q] = pending[q]
          BY <2>1, <2>2, <2>3, <3>1, <3>3
        <4> QED
          BY <3>1, <4>1 DEF Resolving
      <3> QED
        BY <3>2, <3>3
    <2>5. ASSUME NEW q \in Query, NamesOf(q)' # {} PROVE q \in DOMAIN pending' \/ answers'[q] > 0
      <3>1. q \in DOMAIN pending \/ answers[q] > 0
        BY <2>2, <2>5 DEF CountsInv
      <3>2. CASE q \in Finished(u)
        <4>1. q \in DOMAIN pending /\ u \in NamesOf(q) /\ pending[q].count = 1 /\ Resolving(q)
          BY <2>3, <3>2 DEF Finished, Waiting, CountsInv
        <4>2. IsFiniteSet(NamesOf(q)) /\ Cardinality(NamesOf(q)) = 1
          BY <4>1 DEF Resolving
        <4>3. IsFiniteSet(NamesOf(q) \ {u}) /\ Cardinality(NamesOf(q) \ {u}) = 0
          BY <4>1, <4>2, FS_RemoveElement
        <4>4. NamesOf(q) \ {u} = {}
          BY <4>3, FS_EmptySet
        <4> QED
          BY <2>2, <2>5, <4>4
      <3>3. CASE q \notin Finished(u)
        BY <1>5, <2>1, <3>1, <3>3 DEF AnswersStay
      <3> QED
        BY <3>2, <3>3
    <2> QED
      BY <2>4, <2>5 DEF CountsInv
  <1>6. CASE pending' = <<>> /\ awaiting' = awaiting /\ \A u \in Username : awaiting[u] = <<>>
    <2>1. DOMAIN pending' = {} /\ \A q : NamesOf(q)' = {}
      BY <1>6 DEF NamesOf
    <2> QED
      BY <2>1 DEF CountsInv
  <1> QED
    BY <1>2, <1>3, <1>4, <1>5, <1>6 DEF NamesStep, NamesKept

LEMMA CountsAreInvariant == Spec => []CountsInv
  <1>1. Init => CountsInv
    <2> SUFFICES ASSUME Init PROVE CountsInv
      OBVIOUS
    <2>1. DOMAIN pending = {} /\ \A q : NamesOf(q) = {}
      BY DEF Init, NamesInit, NamesOf
    <2> QED
      BY <2>1 DEF CountsInv
  <1>2. HeldInv /\ CountsInv /\ [Next]_vars => CountsInv'
    BY NamesSteps, CountsStep DEF HeldInv
  <1> QED
    BY <1>1, <1>2, PlacesAreInvariant, PTL DEF Spec

\* A query that waits for usernames has a count of the usernames it still waits for, and at
\* least one (Client::resolve_bot_usernames, Client::on_resolve_bot_username).
THEOREM ResolveCountsStayExact == Spec => []ResolveCountsExact
  <1>1. CountsInv => ResolveCountsExact
    <2> SUFFICES ASSUME CountsInv, NEW q \in DOMAIN pending
                 PROVE  /\ pending[q].count > 0
                        /\ pending[q].count = Cardinality({u \in Username : q \in {awaiting[u][i] : i \in DOMAIN awaiting[u]}})
      BY DEF ResolveCountsExact
    <2>1. Resolving(q)
      BY DEF CountsInv
    <2> QED
      BY <2>1 DEF Resolving, NamesOf
  <1> QED
    BY <1>1, CountsAreInvariant, PTL

\* Identifiers that were given to usernames nobody had searched for
Temp(id) == IsTemporary(id) /\ id # 0 /\ id < 1000 * cur_temp_bot_user_id

\* No identifier of a bot was given to another username in the meantime.
NoCollision == \A u \in Username : IsTemporary(RealId[u]) => RealId[u] >= 1000 * cur_temp_bot_user_id

\* An identifier of a username is the real one, or a temporary one that no other username
\* has or had.
IdsInv ==
  /\ DOMAIN temp_to_real \subseteq Nat
  /\ \A u \in Username : bot_user_ids[u] # 0 =>
       bot_user_ids[u] = RealId[u] \/ (Temp(bot_user_ids[u]) /\ bot_user_ids[u] \notin DOMAIN temp_to_real)
  /\ \A u, v \in Username :
       u # v /\ bot_user_ids[u] # 0 /\ bot_user_ids[u] = bot_user_ids[v] => bot_user_ids[u] = RealId[u]
  /\ \A id \in DOMAIN temp_to_real : id = 0 \/ Temp(id) \/ \E u \in Username : id = RealId[u]

\* What a button waits for, unless it has the bot's own identifier or its name was cleared
ButtonInv(q, b) ==
  IsTemporary(b.id) /\ b.name # Own /\ b.name \notin pending[q].cleared =>
    /\ b.id = RealId[b.name] \/ Temp(b.id)
    /\ \/ bot_user_ids[b.name] = b.id /\ b.name \in NamesOf(q)
       \/ b.id \in DOMAIN temp_to_real /\ temp_to_real[b.id] = RealId[b.name]

ButtonsOf(q) ==
  /\ pending[q].buttons \in Seq(Button)
  /\ \A i \in DOMAIN pending[q].buttons : ButtonInv(q, pending[q].buttons[i])

ButtonsInv == \A q \in DOMAIN pending : ButtonsOf(q)

LEMMA Thousands ==
  ASSUME NEW m \in Nat, NEW n \in Nat, m <= n, NEW id \in Nat, id < 1000 * m
  PROVE  id < 1000 * n
  OBVIOUS

LEMMA TempStays ==
  ASSUME cur_temp_bot_user_id \in Nat, cur_temp_bot_user_id' \in Nat,
         cur_temp_bot_user_id <= cur_temp_bot_user_id', NEW id \in Nat, Temp(id)
  PROVE  Temp(id)'
  <1>1. PICK m, n \in Nat : m = cur_temp_bot_user_id /\ n = cur_temp_bot_user_id' /\ m <= n
    OBVIOUS
  <1>2. IsTemporary(id) /\ id # 0 /\ id < 1000 * m
    BY <1>1 DEF Temp
  <1>3. id < 1000 * n
    <2>1. m <= n /\ id < 1000 * m
      BY <1>1, <1>2
    <2>2. 1000 * m <= 1000 * n /\ 1000 * m \in Nat /\ 1000 * n \in Nat
      BY <2>1
    <2> QED
      BY <2>1, <2>2
  <1>4. id < 1000 * cur_temp_bot_user_id'
    BY <1>1, <1>3, Zenon
  <1>5. IsTemporary(id)' <=> IsTemporary(id)
    BY Zenon DEF IsTemporary
  <1>6. Temp(id)' <=> IsTemporary(id)' /\ id # 0 /\ id < 1000 * cur_temp_bot_user_id'
    BY Zenon DEF Temp
  <1> QED
    BY <1>2, <1>4, <1>5, <1>6, Zenon

\* The identifiers after keyboards were parsed, and possibly some were dropped again
LEMMA IdsAfterParsed ==
  ASSUME TypeInv, IdsInv, NoCollision', NEW p, ParsedInv(p),
         bot_user_ids' \in [Username -> Nat],
         \A u \in Username : bot_user_ids'[u] = 0 \/ bot_user_ids'[u] = p.ids[u],
         cur_temp_bot_user_id' = p.next, UNCHANGED temp_to_real
  PROVE  IdsInv' /\ cur_temp_bot_user_id' \in Nat /\ cur_temp_bot_user_id' >= cur_temp_bot_user_id
  <1>1. ParsedInv(p)
    OBVIOUS
  <1>2. PICK cur, next \in Nat : cur = cur_temp_bot_user_id /\ next = cur_temp_bot_user_id' /\ cur # 0
    BY <1>1 DEF ParsedInv, ParsedType, TypeInv, HandlerTypes
  <1>3. /\ next >= cur /\ p.next = next
        /\ p.ids \in [Username -> Nat] /\ bot_user_ids \in [Username -> Nat]
        /\ \A u \in Username : bot_user_ids'[u] \in {0, p.ids[u]}
        /\ \A u \in Username : bot_user_ids[u] # 0 => p.ids[u] = bot_user_ids[u]
    BY <1>1, <1>2 DEF ParsedInv, ParsedType, KeepsIds, TypeInv, HandlerTypes
  <1>4. ASSUME NEW u \in Username, bot_user_ids[u] = 0, p.ids[u] # 0
        PROVE  p.ids[u] >= 1000 * cur /\ p.ids[u] < 1000 * next /\ IsTemporary(p.ids[u])
    <2>1. PICK n \in Nat : n >= cur /\ n < next /\ p.ids[u] = 1000 * n
      BY <1>1, <1>2, <1>3, <1>4 DEF ParsedInv, NewIds
    <2> QED
      BY <1>2, <2>1 DEF IsTemporary
  <1>5. \A u \in Username : RealId[u] \in Nat /\ (IsTemporary(RealId[u]) => RealId[u] >= 1000 * next)
    BY <1>2, BotNamesAssumption DEF NoCollision
  <1>6. \A id : Temp(id) <=> IsTemporary(id) /\ id # 0 /\ id < 1000 * cur
    BY <1>2 DEF Temp
  <1>7. \A id : Temp(id)' <=> IsTemporary(id) /\ id # 0 /\ id < 1000 * next
    BY <1>2 DEF Temp, IsTemporary
  <1>8. \A u \in Username : bot_user_ids[u] # 0 => bot_user_ids[u] = RealId[u] \/ Temp(bot_user_ids[u])
    BY DEF IdsInv
  <1>t. \A id \in Nat : Temp(id) => Temp(id)'
    <2>1. cur_temp_bot_user_id \in Nat /\ cur_temp_bot_user_id' \in Nat /\ cur_temp_bot_user_id <= cur_temp_bot_user_id'
      BY <1>2, <1>3
    <2> QED
      BY <2>1, TempStays
  <1>9. ASSUME NEW u \in Username, NEW id \in Nat, id = bot_user_ids'[u], id # 0
        PROVE  id = RealId[u] \/ (Temp(id)' /\ id \notin DOMAIN temp_to_real')
    <2>1. CASE bot_user_ids[u] # 0
      <3>1. id = bot_user_ids[u]
        BY <1>3, <1>9, <2>1
      <3>2. id = RealId[u] \/ (Temp(id) /\ id \notin DOMAIN temp_to_real)
        BY <2>1, <3>1 DEF IdsInv
      <3> QED
        BY <1>t, <3>2
    <2>2. CASE bot_user_ids[u] = 0
      <3>1. id = p.ids[u]
        BY <1>3, <1>9
      <3>2. id >= 1000 * cur /\ id < 1000 * next /\ IsTemporary(id)
        BY <1>4, <1>9, <2>2, <3>1
      <3>3. id \notin DOMAIN temp_to_real
        <4>1. ~Temp(id)
          BY <1>2, <1>6, <3>2
        <4>2. \A v \in Username : id # RealId[v]
          BY <1>2, <1>5, <3>2
        <4> QED
          BY <1>9, <4>1, <4>2 DEF IdsInv
      <3> QED
        BY <1>7, <1>9, <3>2, <3>3
    <2> QED
      BY <2>1, <2>2
  <1>10. ASSUME NEW u \in Username, NEW v \in Username, u # v,
                bot_user_ids'[u] # 0, bot_user_ids'[u] = bot_user_ids'[v]
         PROVE  bot_user_ids'[u] = RealId[u]
    <2>1. PICK id \in Nat : id = bot_user_ids'[u] /\ id = p.ids[u] /\ id = p.ids[v] /\ id # 0
      BY <1>3, <1>10
    <2>2. CASE bot_user_ids[u] # 0 /\ bot_user_ids[v] # 0
      <3>1. bot_user_ids[u] = id /\ bot_user_ids[v] = id
        BY <1>3, <2>1, <2>2
      <3> QED
        BY <1>10, <2>1, <3>1 DEF IdsInv
    <2>3. CASE bot_user_ids[u] = 0 /\ bot_user_ids[v] = 0
      BY <1>1, <1>10, <2>1, <2>3 DEF ParsedInv, DistinctIds
    <2>4. ASSUME NEW x \in Username, NEW y \in Username, bot_user_ids[x] = 0, bot_user_ids[y] # 0,
                 p.ids[x] = id, p.ids[y] = id
          PROVE  FALSE
      <3>1. id >= 1000 * cur /\ id < 1000 * next /\ IsTemporary(id)
        BY <1>4, <2>1, <2>4
      <3>2. id = RealId[y] \/ Temp(id)
        BY <1>3, <1>8, <2>4
      <3>3. ~Temp(id) /\ id # RealId[y]
        BY <1>2, <1>5, <1>6, <3>1
      <3> QED
        BY <3>2, <3>3
    <2> QED
      BY <2>1, <2>2, <2>3, <2>4
  <1>11. ASSUME NEW id \in DOMAIN temp_to_real
         PROVE  id = 0 \/ Temp(id)' \/ \E u \in Username : id = RealId[u]
    <2>1. id \in Nat /\ (id = 0 \/ Temp(id) \/ \E u \in Username : id = RealId[u])
      BY <1>11 DEF IdsInv
    <2> QED
      BY <1>t, <2>1
  <1>12. \A u \in Username : bot_user_ids'[u] \in Nat
    OBVIOUS
  <1>13. \A u \in Username : bot_user_ids'[u] # 0 =>
           bot_user_ids'[u] = RealId[u] \/ (Temp(bot_user_ids[u])' /\ bot_user_ids'[u] \notin DOMAIN temp_to_real')
    BY <1>9, <1>12
  <1>14. DOMAIN temp_to_real' \subseteq Nat
    BY DEF IdsInv
  <1>15. IdsInv'
    BY <1>10, <1>11, <1>13, <1>14 DEF IdsInv
  <1> QED
    BY <1>2, <1>3, <1>15

\* The identifiers after a search
LEMMA IdsAfterSearch ==
  ASSUME TypeInv, IdsInv, NoCollision, NEW u \in Username, NotFound(u) \/ Found(u)
  PROVE  IdsInv'
  <1>1. /\ bot_user_ids \in [Username -> Nat] /\ RealId \in [Username -> Nat \ {0}]
        /\ cur_temp_bot_user_id \in Nat /\ cur_temp_bot_user_id' = cur_temp_bot_user_id
    BY BotNamesAssumption DEF TypeInv, HandlerTypes, NotFound, Found
  <1>2. \A id : Temp(id)' <=> Temp(id)
    BY <1>1 DEF Temp, IsTemporary
  <1>3. \A v \in Username : v # u => bot_user_ids'[v] = bot_user_ids[v]
    BY <1>1 DEF NotFound, Found
  <1>4. CASE NotFound(u)
    <2>1. bot_user_ids'[u] = 0 /\ temp_to_real' = temp_to_real
      BY <1>1, <1>4 DEF NotFound
    <2>2. \A v \in Username : bot_user_ids'[v] \in {0, bot_user_ids[v]}
      BY <1>3, <2>1
    <2>3. DOMAIN temp_to_real' \subseteq Nat
      BY <2>1 DEF IdsInv
    <2>4. \A v \in Username : bot_user_ids'[v] # 0 =>
            bot_user_ids'[v] = RealId[v] \/ (Temp(bot_user_ids[v])' /\ bot_user_ids'[v] \notin DOMAIN temp_to_real')
      BY <1>2, <2>1, <2>2 DEF IdsInv
    <2>5. \A v, w \in Username :
            v # w /\ bot_user_ids'[v] # 0 /\ bot_user_ids'[v] = bot_user_ids'[w] => bot_user_ids'[v] = RealId[v]
      BY <2>2 DEF IdsInv
    <2>6. \A id \in DOMAIN temp_to_real' : id = 0 \/ Temp(id)' \/ \E v \in Username : id = RealId[v]
      BY <1>2, <2>1 DEF IdsInv
    <2> QED
      BY <2>3, <2>4, <2>5, <2>6 DEF IdsInv
  <1>5. CASE Found(u)
    <2>1. PICK t \in Nat : t = bot_user_ids[u]
      BY <1>1
    <2>2. bot_user_ids'[u] = RealId[u] /\ DOMAIN temp_to_real' = DOMAIN temp_to_real \cup {t}
      BY <1>1, <1>5, <2>1 DEF Found, Put
    <2>3. DOMAIN temp_to_real' \subseteq Nat
      BY <2>2 DEF IdsInv
    <2>4. ASSUME NEW v \in Username, bot_user_ids'[v] # 0
          PROVE  bot_user_ids'[v] = RealId[v] \/ (Temp(bot_user_ids[v])' /\ bot_user_ids'[v] \notin DOMAIN temp_to_real')
      <3>1. CASE v = u
        BY <2>2, <3>1
      <3>2. CASE v # u
        <4>1. bot_user_ids'[v] = bot_user_ids[v]
          BY <1>3, <3>2
        <4>2. bot_user_ids[v] = RealId[v] \/ (Temp(bot_user_ids[v]) /\ bot_user_ids[v] \notin DOMAIN temp_to_real)
          BY <2>4, <4>1 DEF IdsInv
        <4>3. bot_user_ids[v] = t => bot_user_ids[v] = RealId[v]
          BY <2>1, <2>4, <3>2, <4>1 DEF IdsInv
        <4> QED
          BY <1>2, <2>2, <4>1, <4>2, <4>3
      <3> QED
        BY <3>1, <3>2
    <2>5. ASSUME NEW v \in Username, NEW w \in Username, v # w,
                 bot_user_ids'[v] # 0, bot_user_ids'[v] = bot_user_ids'[w]
          PROVE  bot_user_ids'[v] = RealId[v]
      <3>1. CASE v = u
        BY <2>2, <3>1
      <3>2. CASE v # u /\ w = u
        <4>1. bot_user_ids[v] = RealId[u] /\ bot_user_ids[v] # 0 /\ bot_user_ids'[v] = bot_user_ids[v]
          BY <1>3, <2>2, <2>5, <3>2
        <4>2. ~Temp(RealId[u])
          <5>1. RealId[u] \in Nat /\ (IsTemporary(RealId[u]) => RealId[u] >= 1000 * cur_temp_bot_user_id)
            BY <1>1 DEF NoCollision
          <5>2. PICK r, n \in Nat : r = RealId[u] /\ n = 1000 * cur_temp_bot_user_id
            BY <1>1, <5>1
          <5>3. Temp(r) => IsTemporary(r) /\ r < n
            BY <5>2 DEF Temp
          <5>4. IsTemporary(r) => r >= n
            BY <5>1, <5>2
          <5>5. ~Temp(r)
            BY <5>3, <5>4
          <5> QED
            BY <5>2, <5>5
        <4> QED
          BY <4>1, <4>2 DEF IdsInv
      <3>3. CASE v # u /\ w # u
        BY <1>3, <2>5, <3>3 DEF IdsInv
      <3> QED
        BY <3>1, <3>2, <3>3
    <2>6. ASSUME NEW id \in DOMAIN temp_to_real'
          PROVE  id = 0 \/ Temp(id)' \/ \E v \in Username : id = RealId[v]
      <3>1. CASE id \in DOMAIN temp_to_real
        BY <1>2, <3>1 DEF IdsInv
      <3>2. CASE id = t
        BY <1>2, <2>1, <3>2 DEF IdsInv
      <3> QED
        BY <2>2, <3>1, <3>2
    <2> QED
      BY <2>3, <2>4, <2>5, <2>6 DEF IdsInv
  <1> QED
    BY <1>4, <1>5

\* A query that keeps its buttons, its usernames and their identifiers
LEMMA ButtonsStay ==
  ASSUME TypeInv, NEW q \in DOMAIN pending, ButtonsOf(q),
         cur_temp_bot_user_id' \in Nat, cur_temp_bot_user_id <= cur_temp_bot_user_id',
         UNCHANGED temp_to_real,
         pending'[q].buttons = pending[q].buttons, pending'[q].cleared = pending[q].cleared,
         \A u \in NamesOf(q) :
           bot_user_ids[u] # 0 => bot_user_ids'[u] = bot_user_ids[u] /\ u \in NamesOf(q)'
  PROVE  ButtonsOf(q)'
  <1>1. PICK bs : bs = pending[q].buttons
    OBVIOUS
  <1>2. bs \in Seq(Button) /\ \A i \in DOMAIN bs : ButtonInv(q, bs[i])
    BY <1>1 DEF ButtonsOf
  <1>3. \A id \in Nat : Temp(id) => Temp(id)'
    <2>1. cur_temp_bot_user_id \in Nat
      BY DEF TypeInv, HandlerTypes
    <2> QED
      BY <2>1, TempStays
  <1>4. ASSUME NEW i \in DOMAIN bs
        PROVE  ButtonInv(q, bs[i])'
    <2>1. PICK b \in Button : b = bs[i]
      BY <1>2
    <2>2. ButtonInv(q, b) /\ b.id \in Nat \ {0}
      BY <1>2, <2>1 DEF Button
    <2>3. Temp(b.id) => Temp(b.id)'
      BY <1>3, <2>2
    <2>4. ButtonInv(q, b)'
      BY <2>2, <2>3 DEF ButtonInv, IsTemporary
    <2> QED
      BY <2>1, <2>4
  <1> QED
    BY <1>1, <1>2, <1>4 DEF ButtonsOf

\* A query whose keyboard was parsed waits for the usernames in it.
LEMMA ButtonsStart ==
  ASSUME NEW p, NEW q, p.buttons \in Seq(Button), \A i \in DOMAIN p.buttons : ButtonNamed(p, p.buttons[i]),
         IdsInv', bot_user_ids' = p.ids, p.unresolved \subseteq NamesOf(q)',
         pending'[q].buttons = p.buttons, pending'[q].cleared = p.cleared
  PROVE  ButtonsOf(q)'
  <1>1. PICK bs : bs = p.buttons
    OBVIOUS
  <1>2. ASSUME NEW i \in DOMAIN bs
        PROVE  ButtonInv(q, bs[i])'
    <2>1. PICK b \in Button : b = bs[i]
      BY <1>1
    <2>2. ButtonNamed(p, b) /\ b.id # 0 /\ b.name \in Username \cup {Own}
      BY <1>1, <2>1 DEF Button
    <2>3. CASE b.name = Own \/ b.name \in p.cleared
      BY <2>1, <2>3 DEF ButtonInv
    <2>4. CASE b.name # Own /\ b.name \notin p.cleared /\ IsTemporary(b.id)
      <3>1. b.id = bot_user_ids'[b.name] /\ b.name \in NamesOf(q)'
        BY <2>2, <2>4 DEF ButtonNamed
      <3>2. b.id = RealId[b.name] \/ Temp(b.id)'
        BY <2>2, <2>4, <3>1 DEF IdsInv
      <3>3. ButtonInv(q, b)'
        BY <2>4, <3>1, <3>2 DEF ButtonInv, IsTemporary
      <3> QED
        BY <2>1, <3>3
    <2>5. CASE ~IsTemporary(b.id)
      <3>1. ButtonInv(q, b)'
        BY <2>5 DEF ButtonInv, IsTemporary
      <3> QED
        BY <2>1, <3>1
    <2> QED
      BY <2>3, <2>4, <2>5
  <1> QED
    BY <1>1, <1>2 DEF ButtonsOf

\* A button after its username, or another one, was found
LEMMA ButtonAfterFound ==
  ASSUME TypeInv, IdsInv, NoCollision, NEW u \in Username, Found(u),
         NEW q \in DOMAIN pending, pending'[q].cleared = pending[q].cleared,
         NEW b \in Button, ButtonInv(q, b)
  PROVE  ButtonInv(q, b)'
  <1>1. /\ bot_user_ids \in [Username -> Nat] /\ RealId \in [Username -> Nat \ {0}]
        /\ cur_temp_bot_user_id \in Nat /\ cur_temp_bot_user_id' = cur_temp_bot_user_id
        /\ awaiting' = [awaiting EXCEPT ![u] = <<>>]
    BY BotNamesAssumption DEF TypeInv, HandlerTypes, Found
  <1>2. Temp(b.id)' <=> Temp(b.id)
    BY <1>1 DEF Temp, IsTemporary
  <1>3. CASE b.name = Own \/ b.name \in pending[q].cleared \/ ~IsTemporary(b.id)
    BY <1>3 DEF ButtonInv, IsTemporary
  <1>4. CASE b.name # Own /\ b.name \notin pending[q].cleared /\ IsTemporary(b.id)
    <2>1. PICK t \in Nat : t = bot_user_ids[u]
      BY <1>1
    <2>2. /\ \A v \in Username : v # u => bot_user_ids'[v] = bot_user_ids[v]
          /\ DOMAIN temp_to_real' = DOMAIN temp_to_real \cup {t}
          /\ temp_to_real'[t] = RealId[u]
          /\ \A id \in DOMAIN temp_to_real : id # t => temp_to_real'[id] = temp_to_real[id]
      BY <1>1, <2>1 DEF Found, Put
    <2>3. NamesOf(q)' = NamesOf(q) \ {u}
      BY <1>1, NamesWithout
    <2>4. b.name \in Username /\ b.id \in Nat \ {0}
      BY <1>4 DEF Button
    <2>5. /\ b.id = RealId[b.name] \/ Temp(b.id)
          /\ \/ bot_user_ids[b.name] = b.id /\ b.name \in NamesOf(q)
             \/ b.id \in DOMAIN temp_to_real /\ temp_to_real[b.id] = RealId[b.name]
      BY <1>4 DEF ButtonInv
    <2>6. CASE b.id = t
      <3>1. RealId[u] = RealId[b.name]
        <4>1. CASE bot_user_ids[b.name] = b.id /\ b.name # u
          <5>1. bot_user_ids[u] = RealId[u] /\ bot_user_ids[b.name] = RealId[b.name]
            BY <2>1, <2>4, <2>6, <4>1 DEF IdsInv
          <5> QED
            BY <2>1, <2>6, <4>1, <5>1
        <4>2. CASE b.id \in DOMAIN temp_to_real
          <5>1. b.id = RealId[u]
            BY <2>1, <2>4, <2>6, <4>2 DEF IdsInv
          <5>2. ~Temp(b.id)
            <6>1. b.id \in Nat /\ b.id >= 1000 * cur_temp_bot_user_id
              BY <1>4, <2>4, <5>1 DEF NoCollision
            <6>2. PICK r, n \in Nat : r = b.id /\ n = 1000 * cur_temp_bot_user_id
              BY <1>1, <6>1
            <6>3. Temp(r) => r < n
              BY <6>2 DEF Temp
            <6>4. r >= n
              BY <6>1, <6>2
            <6> QED
              BY <6>2, <6>3, <6>4
          <5> QED
            BY <2>5, <5>1, <5>2
        <4> QED
          BY <2>5, <4>1, <4>2
      <3> QED
        BY <1>2, <1>4, <2>2, <2>5, <2>6, <3>1 DEF ButtonInv, IsTemporary
    <2>7. CASE b.id # t
      <3>1. CASE bot_user_ids[b.name] = b.id /\ b.name \in NamesOf(q)
        <4>1. b.name # u /\ b.name \in NamesOf(q)' /\ bot_user_ids'[b.name] = b.id
          BY <2>1, <2>2, <2>3, <2>4, <2>7, <3>1
        <4> QED
          BY <1>2, <1>4, <2>5, <4>1 DEF ButtonInv, IsTemporary
      <3>2. CASE b.id \in DOMAIN temp_to_real /\ temp_to_real[b.id] = RealId[b.name]
        <4>1. b.id \in DOMAIN temp_to_real' /\ temp_to_real'[b.id] = RealId[b.name]
          BY <2>2, <2>7, <3>2
        <4> QED
          BY <1>2, <1>4, <2>5, <4>1 DEF ButtonInv, IsTemporary
      <3> QED
        BY <2>5, <3>1, <3>2
    <2> QED
      BY <2>6, <2>7
  <1> QED
    BY <1>3, <1>4

LEMMA CollidesStill ==
  ASSUME TypeInv, cur_temp_bot_user_id' \in Nat, cur_temp_bot_user_id <= cur_temp_bot_user_id', NoCollision'
  PROVE  NoCollision
  <1> SUFFICES ASSUME NEW u \in Username, IsTemporary(RealId[u])
               PROVE  RealId[u] >= 1000 * cur_temp_bot_user_id
    BY DEF NoCollision
  <1>1. PICK r, m, n \in Nat : r = RealId[u] /\ m = cur_temp_bot_user_id /\ n = cur_temp_bot_user_id' /\ m <= n
    BY BotNamesAssumption DEF TypeInv, HandlerTypes
  <1>2. r >= 1000 * n
    BY <1>1 DEF NoCollision, IsTemporary
  <1>3. r >= 1000 * m
    <2>1. m <= n /\ r >= 1000 * n
      BY <1>1, <1>2
    <2>2. 1000 * m <= 1000 * n /\ 1000 * m \in Nat /\ 1000 * n \in Nat
      BY <2>1
    <2> QED
      BY <2>1, <2>2
  <1> QED
    BY <1>1, <1>3

\* Keyboards were parsed by a handler that does not wait for their names.
LEMMA ButtonsAfterNamesKept ==
  ASSUME TypeInv, NoCollision => IdsInv /\ ButtonsInv, NoCollision',
         NEW over \in SUBSET Username, IsFiniteSet(over), NamesKept(over)
  PROVE  IdsInv' /\ ButtonsInv'
  <1>1. cur_temp_bot_user_id \in Nat /\ bot_user_ids \in [Username -> Nat]
    BY DEF TypeInv, HandlerTypes
  <1>2. CASE UNCHANGED <<bot_user_ids, cur_temp_bot_user_id>>
    <2>1. NoCollision
      BY <1>1, <1>2, CollidesStill
    <2>2. UNCHANGED <<awaiting, temp_to_real, pending>>
      BY DEF NamesKept
    <2>3. IdsInv'
      BY <1>2, <2>1, <2>2 DEF IdsInv, Temp, IsTemporary
    <2>4. ASSUME NEW q \in DOMAIN pending' PROVE ButtonsOf(q)'
      <3>1. q \in DOMAIN pending /\ NamesOf(q)' = NamesOf(q) /\ ButtonsOf(q)
        BY <2>1, <2>2, NamesSame DEF ButtonsInv
      <3> QED
        BY <1>1, <1>2, <2>2, <3>1, ButtonsStay
    <2> QED
      BY <2>3, <2>4 DEF ButtonsInv
  <1>3. ASSUME NEW p, ParsedInv(p), bot_user_ids' = p.ids, cur_temp_bot_user_id' = p.next
        PROVE  IdsInv' /\ ButtonsInv'
    <2>1. ParsedInv(p)
      BY <1>3
    <2>2. cur_temp_bot_user_id' \in Nat /\ cur_temp_bot_user_id <= cur_temp_bot_user_id'
      BY <1>1, <1>3, <2>1 DEF ParsedInv, ParsedType
    <2>3. NoCollision /\ IdsInv /\ ButtonsInv
      BY <2>2, CollidesStill
    <2>4. UNCHANGED <<awaiting, temp_to_real, pending>>
      BY DEF NamesKept
    <2>5. bot_user_ids' \in [Username -> Nat] /\ \A u \in Username : bot_user_ids[u] # 0 => bot_user_ids'[u] = bot_user_ids[u]
      BY <1>3, <2>1 DEF ParsedInv, ParsedType, KeepsIds
    <2>6. IdsInv'
      BY <1>3, <2>3, <2>4, <2>5, IdsAfterParsed
    <2>7. ASSUME NEW q \in DOMAIN pending' PROVE ButtonsOf(q)'
      <3>1. q \in DOMAIN pending /\ NamesOf(q)' = NamesOf(q) /\ ButtonsOf(q) /\ NamesOf(q) \subseteq Username
        BY <2>3, <2>4, NamesSame DEF ButtonsInv, NamesOf
      <3> QED
        BY <2>2, <2>4, <2>5, <3>1, ButtonsStay
    <2> QED
      BY <2>6, <2>7 DEF ButtonsInv
  <1> QED
    BY <1>2, <1>3 DEF NamesKept

LEMMA ButtonsAfterResolve ==
  ASSUME TypeInv, NoCollision => IdsInv /\ ButtonsInv, NoCollision',
         NEW q \in Query, NEW p, NEW then, Resolve(q, p, then)
  PROVE  IdsInv' /\ ButtonsInv'
  <1> DEFINE entry == [count |-> Cardinality(p.unresolved), buttons |-> p.buttons, cleared |-> p.cleared,
                       then |-> then]
  <1>2. ParsedInv(p) /\ p \in ParsedType /\ KeepsIds(p)
    BY DEF Resolve, ParsedInv
  <1>3. PICK lost \in SUBSET p.unresolved : lost = IF Closing THEN Searched(p.unresolved) ELSE {}
    BY DEF Searched
  <1>4. /\ cur_temp_bot_user_id' = p.next
        /\ bot_user_ids' = [u \in Username |-> IF u \in lost THEN 0 ELSE p.ids[u]]
        /\ awaiting' = [u \in Username |-> IF u \in p.unresolved \ lost THEN Append(awaiting[u], q) ELSE awaiting[u]]
        /\ pending' = IF lost # {} THEN pending ELSE Put(pending, q, entry)
        /\ UNCHANGED temp_to_real
        /\ q \notin DOMAIN pending
    BY <1>3 DEF Resolve, ResolveBotUsernames
  <1>5. /\ bot_user_ids \in [Username -> Nat] /\ cur_temp_bot_user_id \in Nat
        /\ p.ids \in [Username -> Nat] /\ p.next \in Nat /\ p.next >= cur_temp_bot_user_id
        /\ p.unresolved \subseteq Username /\ p.buttons \in Seq(Button)
    BY <1>2 DEF TypeInv, HandlerTypes, ParsedInv, ParsedType
  <1>6. cur_temp_bot_user_id' \in Nat /\ cur_temp_bot_user_id <= cur_temp_bot_user_id'
    BY <1>4, <1>5
  <1>7. NoCollision /\ IdsInv /\ ButtonsInv
    BY <1>6, CollidesStill
  <1>8. IdsInv'
    <2>1. \A u \in Username : bot_user_ids'[u] = 0 \/ bot_user_ids'[u] = p.ids[u]
      BY <1>4
    <2>2. bot_user_ids' \in [Username -> Nat]
      BY <1>4, <1>5
    <2> QED
      BY <1>2, <1>4, <1>7, <2>1, <2>2, IdsAfterParsed
  <1>9. NamesOf(q)' = NamesOf(q) \cup (p.unresolved \ lost) /\ \A r : r # q => NamesOf(r)' = NamesOf(r)
    <2>1. p.unresolved \ lost \in SUBSET Username
      BY <1>5
    <2> QED
      BY <1>4, <2>1, NamesWith
  <1>10. ASSUME NEW r \in DOMAIN pending, pending'[r] = pending[r]
         PROVE  ButtonsOf(r)'
    <2>1. r # q /\ NamesOf(r)' = NamesOf(r) /\ ButtonsOf(r)
      BY <1>4, <1>7, <1>9 DEF ButtonsInv
    <2>2. ASSUME NEW u \in NamesOf(r), bot_user_ids[u] # 0
          PROVE  bot_user_ids'[u] = bot_user_ids[u]
      <3>1. u \in Username /\ awaiting[u] # <<>>
        BY DEF NamesOf
      <3>2. u \notin lost
        BY <1>3, <3>1 DEF Searched
      <3> QED
        BY <1>2, <1>4, <2>2, <3>1, <3>2 DEF KeepsIds
    <2> QED
      BY <1>4, <1>6, <1>10, <2>1, <2>2, ButtonsStay
  <1>11. CASE lost # {}
    BY <1>4, <1>8, <1>10, <1>11 DEF ButtonsInv
  <1>12. CASE lost = {}
    <2>2. /\ DOMAIN pending' = DOMAIN pending \cup {q} /\ pending'[q] = entry
          /\ \A r \in DOMAIN pending : pending'[r] = pending[r]
      BY <1>4, <1>12 DEF Put
    <2>3. pending'[q].buttons = p.buttons /\ pending'[q].cleared = p.cleared
      BY <2>2
    <2>4. bot_user_ids' = p.ids
      BY <1>4, <1>5, <1>12
    <2>5. ButtonsOf(q)'
      <3>1. p.unresolved \subseteq NamesOf(q)'
        BY <1>9, <1>12
      <3>2. \A i \in DOMAIN p.buttons : ButtonNamed(p, p.buttons[i])
        BY <1>2 DEF ParsedInv
      <3> QED
        BY <1>5, <1>8, <2>3, <2>4, <3>1, <3>2, ButtonsStart
    <2> QED
      BY <1>8, <1>10, <2>2, <2>5 DEF ButtonsInv
  <1> QED
    BY <1>11, <1>12

LEMMA ButtonsStep ==
  ASSUME TypeInv, NoCollision => IdsInv /\ ButtonsInv, NamesStep, NoCollision'
  PROVE  IdsInv' /\ ButtonsInv'
  <1>1. cur_temp_bot_user_id \in Nat
    BY DEF TypeInv, HandlerTypes
  <1>2. ASSUME NEW u \in Username, NotFound(u)
        PROVE  IdsInv' /\ ButtonsInv'
    <2>1. /\ cur_temp_bot_user_id' = cur_temp_bot_user_id /\ UNCHANGED temp_to_real
          /\ awaiting' = [awaiting EXCEPT ![u] = <<>>]
          /\ DOMAIN pending' = DOMAIN pending \ Waiting(u)
          /\ \A q \in DOMAIN pending' : pending'[q] = pending[q]
      BY <1>2 DEF NotFound, Without
    <2>2. NoCollision /\ IdsInv /\ ButtonsInv
      BY <1>1, <2>1, CollidesStill
    <2>3. IdsInv'
      BY <1>2, <2>2, IdsAfterSearch
    <2>4. \A q : NamesOf(q)' = NamesOf(q) \ {u}
      BY <2>1, NamesWithout
    <2>5. \A v \in Username : v # u => bot_user_ids'[v] = bot_user_ids[v]
      BY <1>2 DEF NotFound, TypeInv, HandlerTypes
    <2>6. ASSUME NEW q \in DOMAIN pending' PROVE ButtonsOf(q)'
      <3>1. q \in DOMAIN pending /\ u \notin NamesOf(q) /\ ButtonsOf(q) /\ NamesOf(q) \subseteq Username
        BY <2>1, <2>2 DEF ButtonsInv, NamesOf, Waiting
      <3>2. \A v \in NamesOf(q) : bot_user_ids'[v] = bot_user_ids[v] /\ v \in NamesOf(q)'
        BY <2>4, <2>5, <3>1
      <3> QED
        BY <1>1, <2>1, <3>1, <3>2, ButtonsStay
    <2> QED
      BY <2>3, <2>6 DEF ButtonsInv
  <1>3. ASSUME NEW u \in Username, Found(u)
        PROVE  IdsInv' /\ ButtonsInv'
    <2>1. cur_temp_bot_user_id' = cur_temp_bot_user_id
      BY <1>3 DEF Found
    <2>2. NoCollision /\ IdsInv /\ ButtonsInv
      BY <1>1, <2>1, CollidesStill
    <2>3. IdsInv'
      BY <1>3, <2>2, IdsAfterSearch
    <2>4. ASSUME NEW q \in DOMAIN pending' PROVE ButtonsOf(q)'
      <3>1. PICK bs : bs = pending[q].buttons
        OBVIOUS
      <3>2. q \in DOMAIN pending /\ pending'[q].buttons = bs /\ pending'[q].cleared = pending[q].cleared
        BY <1>3, <3>1 DEF Found
      <3>3. bs \in Seq(Button) /\ \A i \in DOMAIN bs : ButtonInv(q, bs[i])
        BY <2>2, <3>1, <3>2 DEF ButtonsInv, ButtonsOf
      <3>4. ASSUME NEW i \in DOMAIN bs PROVE ButtonInv(q, bs[i])'
        <4>1. PICK b \in Button : b = bs[i]
          BY <3>3
        <4>2. ButtonInv(q, b)
          BY <3>3, <4>1
        <4>3. ButtonInv(q, b)'
          BY <1>3, <2>2, <3>2, <4>2, ButtonAfterFound
        <4> QED
          BY <4>1, <4>3
      <3> QED
        BY <3>2, <3>3, <3>4 DEF ButtonsOf
    <2> QED
      BY <2>3, <2>4 DEF ButtonsInv
  <1>4. CASE /\ pending' = <<>>
             /\ UNCHANGED <<awaiting, bot_user_ids, cur_temp_bot_user_id, temp_to_real>>
    <2>1. NoCollision /\ IdsInv
      BY <1>1, <1>4, CollidesStill
    <2>2. IdsInv'
      BY <1>4, <2>1 DEF IdsInv, Temp, IsTemporary
    <2>3. DOMAIN pending' = {}
      BY <1>4
    <2> QED
      BY <2>2, <2>3 DEF ButtonsInv
  <1>5. CASE \E over \in SUBSET Username : IsFiniteSet(over) /\ NamesKept(over)
    BY <1>5, ButtonsAfterNamesKept
  <1>6. CASE \E q \in Query : \E p, then : Resolve(q, p, then)
    BY <1>6, ButtonsAfterResolve
  <1> QED
    BY <1>2, <1>3, <1>4, <1>5, <1>6 DEF NamesStep

LEMMA ButtonsAtFirst ==
  ASSUME Init
  PROVE  IdsInv /\ ButtonsInv
  <1>1. /\ \A u \in Username : bot_user_ids[u] = 0
        /\ DOMAIN temp_to_real = {} /\ DOMAIN pending = {}
    BY DEF Init, NamesInit
  <1> QED
    BY <1>1 DEF IdsInv, ButtonsInv

\* As long as no collision happens the identifiers that are handed out are apart.
NamesApart == NoCollision => IdsInv /\ ButtonsInv

LEMMA NamesStayApart == Spec => []NamesApart
  <1>1. Init => NamesApart
    BY ButtonsAtFirst DEF NamesApart
  <1>2. HeldInv /\ NamesApart /\ [Next]_vars => NamesApart'
    <2> SUFFICES ASSUME HeldInv, NamesApart, [Next]_vars, NoCollision'
                 PROVE  IdsInv' /\ ButtonsInv'
      BY DEF NamesApart
    <2>1. TypeInv /\ NamesStep
      BY NamesSteps DEF HeldInv
    <2> QED
      BY <2>1, ButtonsStep DEF NamesApart
  <1> QED
    BY <1>1, <1>2, PlacesAreInvariant, PTL DEF Spec

\* A query that waits has no button with the identifier of another bot, and no temporary one
\* that nobody will replace, whatever keyboards were parsed for it, before it and after it
\* (get_temp_bot_user_id, Client::fix_inline_keyboard_bot_user_ids).  ButtonsResolvable
\* excepts the bot's own identifier and the names that a later keyboard cleared; and as long
\* as no identifier of a bot is both a multiple of 1000 and handed out to another username,
\* the identifiers that are handed out are apart.
THEOREM ButtonsAreResolvable == Spec => [](NoCollision => ButtonsResolvable)
  <1>1. NamesApart => (NoCollision => ButtonsResolvable)
    <2> SUFFICES ASSUME ButtonsInv, NEW q \in DOMAIN pending, NEW i \in DOMAIN pending[q].buttons,
                        NEW b, b = pending[q].buttons[i],
                        IsTemporary(b.id), b.name # Own, b.name \notin pending[q].cleared
                 PROVE  \/ b.name \in Username /\ bot_user_ids[b.name] = b.id
                             /\ q \in {awaiting[b.name][j] : j \in DOMAIN awaiting[b.name]}
                        \/ b.id \in DOMAIN temp_to_real /\ temp_to_real[b.id] = RealId[b.name]
      BY DEF ButtonsResolvable, NamesApart
    <2>1. ButtonInv(q, b)
      BY DEF ButtonsInv, ButtonsOf
    <2> QED
      BY <2>1 DEF ButtonInv, NamesOf
  <1> QED
    BY <1>1, NamesStayApart, PTL

-----------------------------------------------------------------------------
(* What handlers ask for.                                                  *)

Script(steps) == \E S : steps \in Seq(S)

\* No keyboard and no file is left to handle.
Plain(steps) == \A i \in DOMAIN steps : steps[i].op \notin ParsesKeyboards \cup {"download"}

NoKeyboard(steps) == \A i \in DOMAIN steps : steps[i].op \notin ParsesKeyboards

\* rest is what is left of steps after k of them.
Suffix(rest, steps, k) ==
  /\ Script(rest)
  /\ k \in 0..Len(steps)
  /\ DOMAIN rest = 1..(Len(steps) - k)
  /\ \A i \in 1..(Len(steps) - k) : rest[i] = steps[i + k]

LEMMA ScriptIs ==
  ASSUME NEW steps, Script(steps)
  PROVE  /\ Len(steps) \in Nat /\ DOMAIN steps = 1..Len(steps)
         /\ steps # <<>> => Len(steps) > 0 /\ Suffix(Tail(steps), steps, 1)
  <1>1. PICK S : steps \in Seq(S)
    BY DEF Script
  <1>2. Len(steps) \in Nat /\ DOMAIN steps = 1..Len(steps)
    BY <1>1
  <1>3. ASSUME steps # <<>> PROVE Len(steps) > 0 /\ Suffix(Tail(steps), steps, 1)
    <2>1. /\ Tail(steps) \in Seq(S) /\ Len(Tail(steps)) = Len(steps) - 1 /\ Len(steps) > 0
          /\ \A i \in 1..(Len(steps) - 1) : Tail(steps)[i] = steps[i + 1]
      BY <1>1, <1>3
    <2>2. DOMAIN Tail(steps) = 1..(Len(steps) - 1)
      BY <2>1
    <2> QED
      BY <1>2, <2>1, <2>2 DEF Suffix, Script
  <1> QED
    BY <1>2, <1>3

LEMMA SubSeqIsSuffix ==
  ASSUME NEW steps, Script(steps), NEW n \in 0..Len(steps)
  PROVE  Suffix(SubSeq(steps, n + 1, Len(steps)), steps, n)
  <1>1. PICK S : steps \in Seq(S)
    BY DEF Script
  <1>2. Len(steps) \in Nat /\ n \in Nat
    BY <1>1
  <1>3. PICK m : m = Len(steps)
    OBVIOUS
  <1>4. /\ SubSeq(steps, n + 1, m) \in Seq(S)
        /\ Len(SubSeq(steps, n + 1, m)) = m - n
        /\ \A i \in 1..(m - n) : SubSeq(steps, n + 1, m)[i] = steps[i + n]
    BY <1>1, <1>2, <1>3
  <1>5. DOMAIN SubSeq(steps, n + 1, m) = 1..(m - n)
    BY <1>4
  <1> QED
    BY <1>3, <1>4, <1>5 DEF Suffix, Script

\* What a handler goes on with: a rest of its steps.
LEMMA OutcomeIs ==
  ASSUME NEW steps, Script(steps), NEW o \in Outcomes(steps)
  PROVE  \/ o.kind = "answer"
         \/ \E n \in 0..(Len(steps) - 1) :
              /\ \A i \in 1..n : Passes(steps[i])
              /\ \/ /\ o.kind = "ask" /\ steps[n + 1].op \in {"chat", "ask"}
                    /\ Suffix(o.left, steps, n)
                 \/ /\ o.kind \in ParsesKeyboards \cup {"download"} /\ o.kind = steps[n + 1].op
                    /\ Suffix(o.left, steps, n + 1)
  <1>1. Len(steps) \in Nat /\ DOMAIN steps = 1..Len(steps)
    BY ScriptIs
  <1>2. ASSUME NEW rest \in Left(steps) \ {<<>>}
        PROVE  \E n \in 0..(Len(steps) - 1) :
                 /\ \A i \in 1..n : Passes(steps[i])
                 /\ Suffix(rest, steps, n) /\ rest[1] = steps[n + 1]
                 /\ Suffix(Tail(rest), steps, n + 1)
    <2>1. PICK n \in 0..Len(steps) :
            (\A i \in 1..n : Passes(steps[i])) /\ rest = SubSeq(steps, n + 1, Len(steps))
      BY DEF Left
    <2>2. n \in Nat /\ Suffix(rest, steps, n)
      BY <1>1, <2>1, SubSeqIsSuffix
    <2>3. Len(rest) \in Nat /\ DOMAIN rest = 1..Len(rest) /\ Len(rest) > 0 /\ Suffix(Tail(rest), rest, 1)
      BY <2>2, ScriptIs DEF Suffix
    <2>4. Len(rest) = Len(steps) - n
      <3>1. 1..Len(rest) = 1..(Len(steps) - n)
        BY <2>2, <2>3 DEF Suffix
      <3>2. Len(rest) \in 1..Len(rest)
        BY <2>3
      <3>3. Len(rest) \in 1..(Len(steps) - n)
        BY <3>1, <3>2
      <3>4. Len(steps) - n \in 1..(Len(steps) - n)
        BY <1>1, <2>2, <3>3
      <3>5. Len(steps) - n \in 1..Len(rest)
        BY <3>1, <3>4
      <3>6. Len(rest) \in Int /\ Len(steps) - n \in Int /\ Len(rest) <= Len(steps) - n
        BY <1>1, <2>2, <2>3, <3>3
      <3>7. Len(steps) - n <= Len(rest)
        BY <3>5, <3>6
      <3> QED
        BY <3>6, <3>7
    <2>5. n \in 0..(Len(steps) - 1) /\ n + 1 \in 0..Len(steps) /\ 1 \in 1..(Len(steps) - n)
      <3>1. Len(steps) - n > 0 /\ Len(steps) \in Int /\ n \in Int /\ n >= 0
        BY <1>1, <2>2, <2>3, <2>4
      <3> QED
        BY <3>1
    <2>6. rest[1] = steps[n + 1]
      BY <2>2, <2>5 DEF Suffix
    <2>7. Suffix(Tail(rest), steps, n + 1)
      <3>1. DOMAIN Tail(rest) = 1..(Len(steps) - (n + 1))
        <4>1. DOMAIN Tail(rest) = 1..(Len(rest) - 1)
          BY <2>3 DEF Suffix
        <4>2. (Len(steps) - n) - 1 = Len(steps) - (n + 1)
          BY <1>1, <2>2
        <4> QED
          BY <2>4, <4>1, <4>2
      <3>2. ASSUME NEW i \in 1..(Len(steps) - (n + 1)) PROVE Tail(rest)[i] = steps[i + (n + 1)]
        <4>1. i \in 1..(Len(rest) - 1) /\ i + 1 \in 1..(Len(steps) - n) /\ (i + 1) + n = i + (n + 1)
          BY <1>1, <2>2, <2>4
        <4>2. Tail(rest)[i] = rest[i + 1]
          BY <2>3, <4>1 DEF Suffix
        <4>3. rest[i + 1] = steps[(i + 1) + n]
          BY <2>2, <4>1 DEF Suffix
        <4> QED
          BY <4>1, <4>2, <4>3
      <3> QED
        BY <2>3, <2>5, <3>1, <3>2 DEF Suffix
    <2> QED
      BY <2>1, <2>2, <2>5, <2>6, <2>7
  <1>3. CASE \E rest \in Left(steps) : o = [kind |-> "answer", left |-> <<>>]
    BY <1>3
  <1>4. ASSUME NEW rest \in Left(steps) \ {<<>>}, rest[1].op \in {"chat", "ask"},
               o = [kind |-> "ask", left |-> rest]
        PROVE  \E n \in 0..(Len(steps) - 1) :
                 /\ \A i \in 1..n : Passes(steps[i])
                 /\ o.kind = "ask" /\ steps[n + 1].op \in {"chat", "ask"} /\ Suffix(o.left, steps, n)
    <2>1. o.kind = "ask" /\ o.left = rest
      BY <1>4
    <2> QED
      BY <1>2, <1>4, <2>1
  <1>5. ASSUME NEW rest \in Left(steps) \ {<<>>}, rest[1].op \in ParsesKeyboards \cup {"download"},
               o = [kind |-> rest[1].op, left |-> Tail(rest)]
        PROVE  \E n \in 0..(Len(steps) - 1) :
                 /\ \A i \in 1..n : Passes(steps[i])
                 /\ o.kind \in ParsesKeyboards \cup {"download"} /\ o.kind = steps[n + 1].op
                 /\ Suffix(o.left, steps, n + 1)
    <2>1. o.kind = rest[1].op /\ o.left = Tail(rest)
      BY <1>5
    <2> QED
      BY <1>2, <1>5, <2>1
  <1>6. \/ \E rest \in Left(steps) : o = [kind |-> "answer", left |-> <<>>]
        \/ \E rest \in Left(steps) \ {<<>>} : rest[1].op \in {"chat", "ask"} /\ o = [kind |-> "ask", left |-> rest]
        \/ \E rest \in Left(steps) \ {<<>>} :
             rest[1].op \in ParsesKeyboards \cup {"download"} /\ o = [kind |-> rest[1].op, left |-> Tail(rest)]
    BY DEF Outcomes
  <1> QED
    BY <1>3, <1>4, <1>5, <1>6

LEMMA SuffixKeeps ==
  ASSUME NEW steps, Script(steps), NEW rest, NEW k, Suffix(rest, steps, k)
  PROVE  /\ OneKeyboard(steps) => OneKeyboard(rest)
         /\ NoKeyboard(steps) => NoKeyboard(rest)
         /\ Plain(steps) => Plain(rest)
         /\ ChecksFirst(steps) /\ (\A i \in 1..k : ~KeepsOutsidersAway(steps[i])) => ChecksFirst(rest)
         /\ OneKeyboard(steps) /\ (\E i \in 1..k : steps[i].op \in ParsesKeyboards) => Plain(rest)
         /\ KeyboardFirst(steps) /\ (\E i \in 1..k : steps[i].op \notin {"parse", "test"}) => NoKeyboard(rest)
  <1>1. PICK m, n : m = Len(steps) /\ n = m - k
    OBVIOUS
  <1>2. /\ m \in Nat /\ k \in Nat /\ k <= m /\ n \in Nat
        /\ DOMAIN steps = 1..m /\ DOMAIN rest = 1..n /\ \A i \in 1..n : rest[i] = steps[i + k]
    BY <1>1, ScriptIs DEF Suffix
  <1>3. \A i \in 1..n : i \in Nat /\ i + k \in 1..m /\ rest[i] = steps[i + k]
    BY <1>1, <1>2
  <1>4. \A i, j \in 1..n : i < j => i + k < j + k
    BY <1>2
  <1>5. \A i \in 1..k, j \in 1..n : i \in 1..m /\ i < j + k
    BY <1>2
  <1>6. OneKeyboard(steps) => OneKeyboard(rest)
    BY <1>2, <1>3, <1>4 DEF OneKeyboard
  <1>7. (NoKeyboard(steps) => NoKeyboard(rest)) /\ (Plain(steps) => Plain(rest))
    BY <1>2, <1>3 DEF NoKeyboard, Plain
  <1>8. ASSUME ChecksFirst(steps), \A i \in 1..k : ~KeepsOutsidersAway(steps[i])
        PROVE  ChecksFirst(rest)
    <2> SUFFICES ASSUME NEW i \in 1..n, ChangesTheChat(rest[i])
                 PROVE  \E j \in 1..(i - 1) : KeepsOutsidersAway(rest[j])
      BY <1>2 DEF ChecksFirst
    <2>1. PICK j \in 1..((i + k) - 1) : KeepsOutsidersAway(steps[j])
      BY <1>2, <1>3, <1>8 DEF ChecksFirst
    <2>2. j \notin 1..k
      BY <1>8, <2>1
    <2>3. j - k \in 1..(i - 1) /\ j - k \in 1..n /\ (j - k) + k = j
      BY <1>2, <2>1, <2>2
    <2> QED
      BY <1>3, <2>1, <2>3
  <1>9. ASSUME OneKeyboard(steps), NEW i \in 1..k, steps[i].op \in ParsesKeyboards PROVE Plain(rest)
    BY <1>2, <1>3, <1>5, <1>9 DEF OneKeyboard, Plain
  <1>10. ASSUME KeyboardFirst(steps), NEW i \in 1..k, steps[i].op \notin {"parse", "test"}
         PROVE  NoKeyboard(rest)
    <2> SUFFICES ASSUME NEW j \in 1..n, rest[j].op \in ParsesKeyboards PROVE FALSE
      BY <1>2 DEF NoKeyboard
    <2>1. j + k \in 1..m /\ steps[j + k].op \in ParsesKeyboards /\ i \in 1..((j + k) - 1)
      BY <1>2, <1>3
    <2> QED
      BY <1>2, <1>10, <2>1 DEF KeyboardFirst
  <1> QED
    BY <1>6, <1>7, <1>8, <1>9, <1>10

\* A query may go on with the steps: the bot was in the chat, or its standing is yet to be
\* checked.
Allowed(q, steps, I) == q \in I \/ ChecksFirst(steps)

Asks(q, steps, I) == Script(steps) /\ steps # <<>> /\ OneKeyboard(steps) /\ Allowed(q, steps, I)

Waits(q, steps, I) == Script(steps) /\ Plain(steps) /\ Allowed(q, steps, I)

\* Steps may be passed only by a bot in the chat, if they keep others away.
LEMMA OutcomeAllowed ==
  ASSUME NEW q, NEW I, chat \notin Outside => q \in I,
         NEW steps, Script(steps), OneKeyboard(steps), Allowed(q, steps, I),
         NEW o \in Outcomes(steps)
  PROVE  \/ o.kind = "answer"
         \/ /\ o.kind = "ask" /\ Asks(q, o.left, I) /\ (Plain(steps) => Plain(o.left))
            /\ KeyboardFirst(steps) => NoKeyboard(o.left)
            /\ NoKeyboard(steps) => NoKeyboard(o.left)
         \/ /\ o.kind \in ParsesKeyboards /\ ~NoKeyboard(steps) /\ ~Plain(steps) /\ Waits(q, o.left, I)
            /\ KeyboardFirst(steps) => NoKeyboard(o.left)
         \/ o.kind = "download" /\ ~Plain(steps)
  <1> SUFFICES ASSUME o.kind # "answer"
               PROVE  \/ /\ o.kind = "ask" /\ Asks(q, o.left, I) /\ (Plain(steps) => Plain(o.left))
                         /\ KeyboardFirst(steps) => NoKeyboard(o.left)
                         /\ NoKeyboard(steps) => NoKeyboard(o.left)
                      \/ /\ o.kind \in ParsesKeyboards /\ ~NoKeyboard(steps) /\ ~Plain(steps) /\ Waits(q, o.left, I)
                         /\ KeyboardFirst(steps) => NoKeyboard(o.left)
                      \/ o.kind = "download" /\ ~Plain(steps)
    OBVIOUS
  <1>1. PICK n \in 0..(Len(steps) - 1) :
          /\ \A i \in 1..n : Passes(steps[i])
          /\ \/ /\ o.kind = "ask" /\ steps[n + 1].op \in {"chat", "ask"}
                /\ Suffix(o.left, steps, n)
             \/ /\ o.kind \in ParsesKeyboards \cup {"download"} /\ o.kind = steps[n + 1].op
                /\ Suffix(o.left, steps, n + 1)
    BY OutcomeIs
  <1>2. /\ Len(steps) \in Nat /\ DOMAIN steps = 1..Len(steps) /\ n \in Nat
        /\ n + 1 \in 1..Len(steps) /\ n + 1 \in 1..(n + 1)
        /\ \A i \in 1..(n + 1) : i \in 1..n \/ i = n + 1
    BY ScriptIs
  <1>3. \A i \in 1..n : q \in I \/ ~KeepsOutsidersAway(steps[i])
    <2> SUFFICES ASSUME NEW i \in 1..n, KeepsOutsidersAway(steps[i]), chat \in Outside PROVE FALSE
      OBVIOUS
    <2>1. steps[i].op = "chat" /\ chat \in Refused[steps[i].rights]
      BY DEF KeepsOutsidersAway
    <2> QED
      BY <1>1, <2>1 DEF Passes
  <1>4. CASE o.kind = "ask" /\ steps[n + 1].op \in {"chat", "ask"} /\ Suffix(o.left, steps, n)
    <2>1. Allowed(q, o.left, I)
      BY <1>3, <1>4, SuffixKeeps DEF Allowed
    <2>2. 1 \in 1..(Len(steps) - n)
      BY <1>2
    <2>3. 1 \in DOMAIN o.left /\ Script(o.left) /\ o.left[1] = steps[1 + n] /\ 1 + n = n + 1
      BY <1>2, <1>4, <2>2 DEF Suffix
    <2>4. o.left # <<>>
      BY <2>3
    <2>5. OneKeyboard(o.left) /\ (Plain(steps) => Plain(o.left)) /\ (NoKeyboard(steps) => NoKeyboard(o.left))
      BY <1>4, SuffixKeeps
    <2>6. KeyboardFirst(steps) => NoKeyboard(o.left)
      <3> SUFFICES ASSUME KeyboardFirst(steps), NEW j \in DOMAIN o.left, o.left[j].op \in ParsesKeyboards
                   PROVE  FALSE
        BY DEF NoKeyboard
      <3>1. j \in Int /\ j + n \in 1..Len(steps) /\ o.left[j] = steps[j + n] /\ j >= 1
        BY <1>2, <1>4 DEF Suffix
      <3>2. j # 1
        BY <1>4, <2>3 DEF ParsesKeyboards
      <3>3. n + 1 \in 1..((j + n) - 1)
        BY <1>2, <3>1, <3>2
      <3>4. steps[n + 1].op \in {"parse", "test"}
        BY <1>2, <3>1, <3>3 DEF KeyboardFirst
      <3> QED
        BY <1>4, <3>4
    <2> QED
      BY <1>4, <2>1, <2>3, <2>4, <2>5, <2>6 DEF Asks
  <1>5. CASE o.kind \in ParsesKeyboards /\ o.kind = steps[n + 1].op /\ Suffix(o.left, steps, n + 1)
    <2>1. ~NoKeyboard(steps) /\ ~Plain(steps)
      BY <1>2, <1>5 DEF NoKeyboard, Plain
    <2>2. ~KeepsOutsidersAway(steps[n + 1])
      BY <1>5 DEF KeepsOutsidersAway, ParsesKeyboards
    <2>3. Allowed(q, o.left, I)
      BY <1>2, <1>3, <1>5, <2>2, SuffixKeeps DEF Allowed
    <2>4. Plain(o.left) /\ (KeyboardFirst(steps) => NoKeyboard(o.left))
      BY <1>2, <1>5, SuffixKeeps DEF ParsesKeyboards
    <2> QED
      BY <1>5, <2>1, <2>3, <2>4 DEF Waits, Suffix
  <1>6. CASE o.kind = "download" /\ o.kind = steps[n + 1].op
    BY <1>2, <1>6 DEF Plain
  <1> QED
    BY <1>1, <1>4, <1>5, <1>6

\* What the steps are of which a query goes on.
ScriptsChange(q, I, first) ==
  /\ \A r \in DOMAIN asking' :
       \/ r \in DOMAIN asking /\ asking'[r] = asking[r]
       \/ r = q /\ Asks(q, asking'[q], I) /\ (first => NoKeyboard(asking'[q]))
  /\ \A r \in DOMAIN pending' :
       \/ r \in DOMAIN pending /\ pending'[r].then = pending[r].then
       \/ r = q /\ Waits(q, pending'[q].then, I)

LEMMA SettledOne ==
  ASSUME NEW q, NEW o, SettleOne(q, o)
  PROVE  \A r \in DOMAIN asking' :
           \/ r # q /\ r \in DOMAIN asking /\ asking'[r] = asking[r]
           \/ r = q /\ o.kind # "answer" /\ asking'[q] = o.left
  <1> DEFINE outcome == [r \in {q} |-> o]
             done == {r \in DOMAIN outcome : outcome[r].kind = "answer"}
  <1>1. DOMAIN outcome = {q} /\ outcome[q] = o
    OBVIOUS
  <1>2. asking' = [r \in (DOMAIN asking \cup DOMAIN outcome) \ done |->
                     IF r \in DOMAIN outcome THEN outcome[r].left ELSE asking[r]]
    BY DEF SettleOne, Settle
  <1>3. q \in done <=> o.kind = "answer"
    BY <1>1
  <1> HIDE DEF outcome, done
  <1> QED
    BY <1>1, <1>2, <1>3

LEMMA ContinueScripts ==
  ASSUME NEW q, NEW I, NEW first, chat \notin Outside => q \in I,
         NEW steps, Script(steps), OneKeyboard(steps), Allowed(q, steps, I), first => KeyboardFirst(steps),
         NEW over, Continue(q, steps, over)
  PROVE  /\ ScriptsChange(q, I, first)
         /\ over = {} \/ NoKeyboard(steps) => aborted' = aborted
  <1>1. PICK o \in Outcomes(steps) :
          \/ /\ o.kind \in {"answer", "ask"}
             /\ SettleOne(q, o)
             /\ unresolved' = over
             /\ UNCHANGED <<bot_user_ids, cur_temp_bot_user_id, pending, awaiting, temp_to_real,
                            downloadVars, aborted>>
          \/ /\ o.kind \in ParsesKeyboards
             /\ \/ MarkupFails(q, over, Lists(o.kind))
                \/ o.kind = "names" /\ WithoutMarkup(q, over, o.left)
                \/ WithMarkups(q, over, o.left, Lists(o.kind))
             /\ UNCHANGED downloadVars
          \/ /\ o.kind = "download"
             /\ ListenToFile(q)
             /\ Unhold(q)
             /\ unresolved' = over
             /\ UNCHANGED <<bot_user_ids, cur_temp_bot_user_id, pending, awaiting, temp_to_real, aborted>>
    BY DEF Continue
  <1>2. /\ o.kind = "ask" => Asks(q, o.left, I) /\ (KeyboardFirst(steps) => NoKeyboard(o.left))
        /\ o.kind \in ParsesKeyboards =>
             /\ ~NoKeyboard(steps) /\ Waits(q, o.left, I)
             /\ KeyboardFirst(steps) => NoKeyboard(o.left)
    BY OutcomeAllowed DEF ParsesKeyboards
  <1>3. CASE o.kind \in {"answer", "ask"} /\ SettleOne(q, o) /\ UNCHANGED <<pending, aborted>>
    BY <1>2, <1>3, SettledOne DEF ScriptsChange
  <1>4. CASE Unhold(q) /\ UNCHANGED <<pending, aborted>>
    BY <1>4 DEF ScriptsChange, Unhold, Without
  <1>5. ASSUME o.kind \in ParsesKeyboards, NEW p \in Outcomes(o.left), SettleOne(q, p), UNCHANGED <<pending, aborted>>
        PROVE  ScriptsChange(q, I, first)
    <2>1. Script(o.left) /\ Plain(o.left) /\ Allowed(q, o.left, I) /\ (first => NoKeyboard(o.left))
      BY <1>2, <1>5 DEF Waits
    <2>2. OneKeyboard(o.left)
      BY <2>1 DEF Plain, OneKeyboard
    <2>3. p.kind = "answer" \/ (p.kind = "ask" /\ Asks(q, p.left, I) /\ (first => NoKeyboard(p.left)))
      BY <2>1, <2>2, OutcomeAllowed
    <2> QED
      BY <1>5, <2>3, SettledOne DEF ScriptsChange
  <1>6. CASE o.kind \in ParsesKeyboards /\ MarkupFails(q, over, Lists(o.kind))
    BY <1>4, <1>6 DEF MarkupFails, KeepNames
  <1>7. CASE o.kind \in ParsesKeyboards /\ WithoutMarkup(q, over, o.left)
    <2>1. CASE over # {}
      BY <1>2, <1>7, <2>1 DEF WithoutMarkup, ScriptsChange
    <2>2. CASE over = {}
      BY <1>5, <1>7, <2>2 DEF WithoutMarkup
    <2> QED
      BY <2>1, <2>2
  <1>8. CASE o.kind \in ParsesKeyboards /\ WithMarkups(q, over, o.left, Lists(o.kind))
    <2>1. PICK markups \in Lists(o.kind) :
            IF ReplyMarkups(markups, over).unresolved = {}
            THEN /\ KeepNames(ReplyMarkups(markups, over))
                 /\ \E p \in Outcomes(o.left) : SettleOne(q, p)
                 /\ UNCHANGED aborted
            ELSE /\ ResolveBotUsernames(q, ReplyMarkups(markups, over), o.left, Closing)
                 /\ Answer(IF ResolveFails(ReplyMarkups(markups, over).unresolved, Closing) THEN {q} ELSE {})
                 /\ Unhold(q)
                 /\ UNCHANGED aborted
      BY <1>8 DEF WithMarkups
    <2>2. PICK parsed : parsed = ReplyMarkups(markups, over)
      OBVIOUS
    <2>3. CASE parsed.unresolved = {}
      BY <1>5, <1>8, <2>1, <2>2, <2>3 DEF KeepNames
    <2>4. CASE parsed.unresolved # {}
      <3>1. ResolveBotUsernames(q, parsed, o.left, Closing) /\ Unhold(q) /\ UNCHANGED aborted
        BY <2>1, <2>2, <2>4
      <3>2. \A r \in DOMAIN asking' : r \in DOMAIN asking /\ asking'[r] = asking[r]
        BY <3>1 DEF Unhold, Without
      <3>3. \/ pending' = pending
            \/ pending' = Put(pending, q, [count |-> Cardinality(parsed.unresolved), buttons |-> parsed.buttons,
                                           cleared |-> parsed.cleared, then |-> o.left])
        BY <3>1 DEF ResolveBotUsernames
      <3>4. \A r \in DOMAIN pending' :
              \/ r \in DOMAIN pending /\ pending'[r].then = pending[r].then
              \/ r = q /\ pending'[q].then = o.left
        BY <3>3 DEF Put
      <3> QED
        BY <1>2, <1>8, <3>1, <3>2, <3>4 DEF ScriptsChange
    <2> QED
      BY <2>3, <2>4
  <1> QED
    BY <1>1, <1>2, <1>3, <1>4, <1>6, <1>7, <1>8

\* Only a keyboard leaves names unresolved, and no other keyboard follows it.
LEMMA ContinueClean ==
  ASSUME NEW q, NEW I, chat \notin Outside => q \in I,
         NEW steps, Script(steps), OneKeyboard(steps), Allowed(q, steps, I),
         NEW over, Continue(q, steps, over)
  PROVE  /\ NoKeyboard(steps) => unresolved' = over
         /\ q \in DOMAIN asking' => \/ NoKeyboard(asking'[q])
                                    \/ ~NoKeyboard(steps) /\ unresolved' = over
  <1>1. PICK o \in Outcomes(steps) :
          \/ /\ o.kind \in {"answer", "ask"}
             /\ SettleOne(q, o)
             /\ unresolved' = over
          \/ /\ o.kind \in ParsesKeyboards
             /\ \/ MarkupFails(q, over, Lists(o.kind))
                \/ o.kind = "names" /\ WithoutMarkup(q, over, o.left)
                \/ WithMarkups(q, over, o.left, Lists(o.kind))
          \/ /\ o.kind = "download"
             /\ Unhold(q)
             /\ unresolved' = over
    BY DEF Continue
  <1>2. /\ o.kind = "ask" => (NoKeyboard(steps) => NoKeyboard(o.left))
        /\ o.kind \in ParsesKeyboards => ~NoKeyboard(steps) /\ Waits(q, o.left, I)
    BY OutcomeAllowed DEF ParsesKeyboards
  <1>3. CASE o.kind \in {"answer", "ask"} /\ SettleOne(q, o) /\ unresolved' = over
    BY <1>2, <1>3, SettledOne
  <1>4. CASE Unhold(q) /\ (o.kind \in ParsesKeyboards \/ unresolved' = over)
    BY <1>2, <1>4 DEF Unhold, Without
  <1>5. ASSUME o.kind \in ParsesKeyboards, NEW p \in Outcomes(o.left), SettleOne(q, p)
        PROVE  q \in DOMAIN asking' => NoKeyboard(asking'[q])
    <2>1. Script(o.left) /\ Plain(o.left) /\ Allowed(q, o.left, I) /\ NoKeyboard(o.left)
      BY <1>2, <1>5 DEF Waits, Plain, NoKeyboard
    <2>2. OneKeyboard(o.left)
      BY <2>1 DEF Plain, OneKeyboard
    <2>3. p.kind = "answer" \/ (p.kind = "ask" /\ NoKeyboard(p.left))
      BY <2>1, <2>2, OutcomeAllowed
    <2> QED
      BY <1>5, <2>3, SettledOne
  <1>6. CASE o.kind \in ParsesKeyboards /\ MarkupFails(q, over, Lists(o.kind))
    BY <1>4, <1>6 DEF MarkupFails
  <1>7. CASE o.kind \in ParsesKeyboards /\ WithoutMarkup(q, over, o.left)
    <2>1. CASE over # {}
      BY <1>2, <1>7, <2>1 DEF WithoutMarkup
    <2>2. CASE over = {}
      BY <1>2, <1>5, <1>7, <2>2 DEF WithoutMarkup
    <2> QED
      BY <2>1, <2>2
  <1>8. CASE o.kind \in ParsesKeyboards /\ WithMarkups(q, over, o.left, Lists(o.kind))
    <2>1. Unhold(q) \/ \E p \in Outcomes(o.left) : SettleOne(q, p)
      BY <1>8 DEF WithMarkups
    <2> QED
      BY <1>2, <1>4, <1>5, <1>8, <2>1
  <1> QED
    BY <1>1, <1>3, <1>4, <1>6, <1>7, <1>8

\* The query may copy a message.
MayCopy(q) == Loads[load].calls[q] \cap Copying # {}

\* The query may have a keyboard.
MayParse(q) == \E steps \in Handlers[load][q] : ~NoKeyboard(steps)

\* No query with a keyboard runs beside one that copies a message.
CopySafe ==
  \A p, q \in DOMAIN Loads[load].calls : MayCopy(p) /\ q # p => ~MayCopy(q) /\ ~MayParse(q)

ScriptsInv ==
  /\ received \subseteq DOMAIN Loads[load].calls
  /\ chat \notin Outside => received \subseteq inside
  /\ \A q \in DOMAIN asking : Asks(q, asking[q], inside) /\ (~MayCopy(q) => NoKeyboard(asking[q]))
  /\ \A q \in DOMAIN pending : Waits(q, pending[q].then, inside)

\* The tables: a handler checks first what it may do.
LEMMA HandlerScripts ==
  ASSUME load \in DOMAIN Loads, NEW q \in DOMAIN Loads[load].calls, NEW steps \in Handlers[load][q]
  PROVE  /\ Script(steps) /\ ChecksFirst(steps) /\ OneKeyboard(steps)
         /\ ~MayCopy(q) => KeyboardFirst(steps)
  <1>1. Handlers[load][q] = UNION {Methods[m] : m \in Loads[load].calls[q] \ Special}
    BY DEF Handlers
  <1>2. PICK m \in Loads[load].calls[q] \ Special : steps \in Methods[m]
    BY <1>1
  <1>3. m \in DOMAIN Methods
    BY <1>2, RequestsAssumption
  <1>4. /\ steps \in Seq({steps[i] : i \in DOMAIN steps})
        /\ ChecksFirst(steps)
        /\ OneKeyboard(steps)
        /\ m \notin Copying => KeyboardFirst(steps)
    BY <1>2, <1>3, MethodsAssumption
  <1>5. Script(steps)
    BY <1>4 DEF Script
  <1> QED
    BY <1>2, <1>4, <1>5 DEF MayCopy

\* close and logOut do not concern the chat.
LEMMA SpecialScripts ==
  ASSUME NEW q, NEW I, NEW m \in Special
  PROVE  Asks(q, Do(m), I) /\ NoKeyboard(Do(m))
  <1>1. PICK step : Do(m) = <<step>> /\ step.op = "ask" /\ step.does = Does(m)
    <2>1. PICK cb, step : /\ cb = TdOnOkQueryCallback
                          /\ step = [op |-> "ask", err |-> cb.err, ok |-> cb.ok, cached |-> FALSE,
                                     refuse |-> FALSE, does |-> Does(m)]
      OBVIOUS
    <2>2. Do(m) = <<step>>
      BY <2>1 DEF Do, Ask, Request
    <2>3. step.op = "ask" /\ step.does = Does(m)
      BY <2>1
    <2> QED
      BY <2>2, <2>3
  <1>2. Does(m) = "other"
    BY DEF Special, Does, ChangesChat, EditsMessage
  <1>3. <<step>> \in Seq({step}) /\ <<step>> # <<>> /\ DOMAIN <<step>> = {1} /\ <<step>>[1] = step
    OBVIOUS
  <1>4. ~ChangesTheChat(step) /\ step.op \notin ParsesKeyboards
    BY <1>1, <1>2 DEF ChangesTheChat, ParsesKeyboards
  <1>5. Script(<<step>>)
    BY <1>3 DEF Script
  <1>6. ChecksFirst(<<step>>) /\ OneKeyboard(<<step>>) /\ NoKeyboard(<<step>>)
    BY <1>3, <1>4 DEF ChecksFirst, OneKeyboard, NoKeyboard
  <1> QED
    BY <1>1, <1>3, <1>5, <1>6 DEF Asks, Allowed

LEMMA OnCmdScripts ==
  ASSUME load \in DOMAIN Loads, NEW q \in DOMAIN Loads[load].calls,
         NEW I, chat \notin Outside => q \in I, NEW force, OnCmd(q, force)
  PROVE  ScriptsChange(q, I, ~MayCopy(q)) /\ aborted' = aborted
  <1>1. CASE UNCHANGED <<asking, pending, aborted>>
    BY <1>1 DEF ScriptsChange
  <1>2. ASSUME NEW m \in Special, asking' = Put(asking, q, Do(m)), UNCHANGED <<pending, aborted>>
        PROVE  ScriptsChange(q, I, ~MayCopy(q)) /\ aborted' = aborted
    BY <1>2, SpecialScripts DEF ScriptsChange, Put
  <1>3. ASSUME NEW steps \in Handlers[load][q], Continue(q, steps, {})
        PROVE  ScriptsChange(q, I, ~MayCopy(q)) /\ aborted' = aborted
    <2>1. /\ Script(steps) /\ Allowed(q, steps, I) /\ OneKeyboard(steps)
          /\ ~MayCopy(q) => KeyboardFirst(steps)
      BY HandlerScripts DEF Allowed
    <2> QED
      BY <1>3, <2>1, ContinueScripts
  <1>4. \/ Finish(q) \/ FloodControl(q)
        \/ \E m \in Special : OnSpecial(q, m)
        \/ \E steps \in Handlers[load][q] : Continue(q, steps, {})
    BY DEF OnCmd
  <1>5. CASE Finish(q)
    BY <1>1, <1>5 DEF Finish, nameVars
  <1>6. CASE FloodControl(q)
    BY <1>1, <1>5, <1>6 DEF FloodControl
  <1>7. ASSUME NEW m \in Special, OnSpecial(q, m)
        PROVE  ScriptsChange(q, I, ~MayCopy(q)) /\ aborted' = aborted
    BY <1>2, <1>5, <1>7 DEF OnSpecial, nameVars
  <1> QED
    BY <1>3, <1>4, <1>5, <1>6, <1>7

\* A step keeps the invariant of what is asked for.
ScriptsKept ==
  /\ load' = load /\ inside \subseteq inside'
  /\ received' \subseteq DOMAIN Loads[load].calls
  /\ chat' \notin Outside => received' \subseteq inside'
  /\ \A r \in DOMAIN asking' :
       \/ r \in DOMAIN asking /\ asking'[r] = asking[r]
       \/ Asks(r, asking'[r], inside') /\ (~MayCopy(r) => NoKeyboard(asking'[r]))
  /\ \A r \in DOMAIN pending' :
       \/ r \in DOMAIN pending /\ pending'[r].then = pending[r].then
       \/ Waits(r, pending'[r].then, inside')

LEMMA ScriptsStep ==
  ASSUME ScriptsInv, ScriptsKept
  PROVE  ScriptsInv'
  <1>1. \A q, steps : /\ Asks(q, steps, inside) => Asks(q, steps, inside')
                      /\ Waits(q, steps, inside) => Waits(q, steps, inside')
    BY DEF ScriptsKept, Asks, Waits, Allowed
  <1>2. \A q : MayCopy(q)' <=> MayCopy(q)
    BY DEF MayCopy, ScriptsKept
  <1>3. \A q \in DOMAIN asking' : Asks(q, asking'[q], inside') /\ (~MayCopy(q)' => NoKeyboard(asking'[q]))
    BY <1>1, <1>2 DEF ScriptsInv, ScriptsKept
  <1>4. \A q \in DOMAIN pending' : Waits(q, pending'[q].then, inside')
    BY <1>1 DEF ScriptsInv, ScriptsKept
  <1> QED
    BY <1>3, <1>4 DEF ScriptsInv, ScriptsKept

LEMMA OneScript ==
  ASSUME ScriptsInv, NEW q, ScriptsChange(q, inside', ~MayCopy(q)),
         load' = load, inside \subseteq inside', received' \subseteq DOMAIN Loads[load].calls,
         chat' \notin Outside => received' \subseteq inside'
  PROVE  ScriptsInv'
  <1>1. ScriptsKept
    BY DEF ScriptsKept, ScriptsChange
  <1> QED
    BY <1>1, ScriptsStep

\* The names of some queries are found, and they go on.
LEMMA FoundScripts ==
  ASSUME HeldInv, ScriptsInv, NEW u \in Username, OnNameFound(u)
  PROVE  /\ ScriptsInv'
         /\ \A r \in DOMAIN asking' : \/ r \in DOMAIN asking /\ asking'[r] = asking[r]
                                      \/ NoKeyboard(asking'[r])
  <1>1. PICK outcome : /\ DOMAIN outcome = Finished(u)
                       /\ \A q \in Finished(u) : outcome[q] \in Outcomes(pending[q].then)
                       /\ Settle(outcome)
    BY DEF OnNameFound
  <1>2. UNCHANGED <<load, chat, received, inside>>
    BY DEF OnNameFound
  <1>3. DOMAIN pending \subseteq received /\ Finished(u) \subseteq DOMAIN pending
    BY DEF HeldInv, TypeInv, HandlerTypes, OnePlace, Begun, Finished, Waiting
  <1>4. ASSUME NEW r \in Finished(u)
        PROVE  \/ outcome[r].kind = "answer"
               \/ Asks(r, outcome[r].left, inside) /\ NoKeyboard(outcome[r].left)
    <2>1. Waits(r, pending[r].then, inside) /\ (chat \notin Outside => r \in inside)
      BY <1>3 DEF ScriptsInv
    <2>2. PICK steps, o : steps = pending[r].then /\ o = outcome[r]
      OBVIOUS
    <2>3. /\ Script(steps) /\ Plain(steps) /\ Allowed(r, steps, inside) /\ o \in Outcomes(steps)
      BY <1>1, <2>1, <2>2 DEF Waits
    <2>4. OneKeyboard(steps) /\ NoKeyboard(steps)
      BY <2>3 DEF Plain, OneKeyboard, NoKeyboard
    <2>5. PICK I : I = inside
      OBVIOUS
    <2>6. \/ o.kind = "answer"
          \/ o.kind = "ask" /\ Asks(r, o.left, I) /\ (NoKeyboard(steps) => NoKeyboard(o.left))
          \/ ~Plain(steps)
      <3>1. (chat \notin Outside => r \in I) /\ Allowed(r, steps, I)
        BY <2>1, <2>3, <2>5
      <3> QED
        BY <2>3, <2>4, <3>1, OutcomeAllowed
    <2> QED
      BY <2>2, <2>3, <2>4, <2>5, <2>6
  <1>5. ASSUME NEW r \in DOMAIN asking'
        PROVE  \/ r \in DOMAIN asking /\ asking'[r] = asking[r]
               \/ Asks(r, asking'[r], inside') /\ NoKeyboard(asking'[r])
    <2>1. PICK done : /\ done = {q \in DOMAIN outcome : outcome[q].kind = "answer"}
                      /\ asking' = [q \in (DOMAIN asking \cup DOMAIN outcome) \ done |->
                                      IF q \in DOMAIN outcome THEN outcome[q].left ELSE asking[q]]
      BY <1>1 DEF Settle
    <2>2. CASE r \in Finished(u)
      BY <1>1, <1>2, <1>4, <1>5, <2>1, <2>2
    <2>3. CASE r \notin Finished(u)
      BY <1>1, <2>1, <2>3
    <2> QED
      BY <2>2, <2>3
  <1>6. ASSUME NEW r \in DOMAIN pending'
        PROVE  r \in DOMAIN pending /\ pending'[r].then = pending[r].then
    BY DEF OnNameFound, Found
  <1>7. ScriptsKept
    BY <1>2, <1>5, <1>6 DEF ScriptsKept, ScriptsInv
  <1> QED
    BY <1>5, <1>7, ScriptsStep

\* After TDLib answered, a query goes on with the rest of its steps.
LEMMA RestAllowed ==
  ASSUME HeldInv, ScriptsInv, NEW q \in DOMAIN asking, "next" \in Leads(asking[q][1])
  PROVE  /\ Script(Tail(asking[q])) /\ OneKeyboard(Tail(asking[q])) /\ Allowed(q, Tail(asking[q]), inside)
         /\ ~MayCopy(q) => NoKeyboard(Tail(asking[q])) /\ KeyboardFirst(Tail(asking[q]))
         /\ NoKeyboard(asking[q]) => NoKeyboard(Tail(asking[q]))
         /\ chat \notin Outside => q \in inside
  <1>1. PICK steps, rest : steps = asking[q] /\ rest = Tail(steps)
    OBVIOUS
  <1>2. Asks(q, steps, inside) /\ (~MayCopy(q) => NoKeyboard(steps))
    BY <1>1 DEF ScriptsInv
  <1>3. chat \notin Outside => q \in inside
    BY DEF HeldInv, TypeInv, HandlerTypes, OnePlace, Begun, ScriptsInv
  <1>4. Suffix(rest, steps, 1) /\ Script(steps) /\ Script(rest)
    BY <1>1, <1>2, ScriptIs DEF Asks, Suffix
  <1>5. q \in inside \/ ~KeepsOutsidersAway(steps[1])
    <2> SUFFICES ASSUME KeepsOutsidersAway(steps[1]) PROVE chat \notin Outside
      BY <1>3
    <2>1. steps[1].op = "chat" /\ Outside \subseteq Refused[steps[1].rights]
      BY DEF KeepsOutsidersAway
    <2>2. {chat} \ Refused[steps[1].rights] # {}
      BY <1>1, <2>1 DEF Leads
    <2> QED
      BY <2>1, <2>2
  <1>6. OneKeyboard(rest) /\ Allowed(q, rest, inside) /\ (NoKeyboard(steps) => NoKeyboard(rest))
    <2>1. \A i \in 1..1 : i = 1
      OBVIOUS
    <2> QED
      BY <1>2, <1>4, <1>5, <2>1, SuffixKeeps DEF Asks, Allowed
  <1>7. ~MayCopy(q) => NoKeyboard(rest) /\ KeyboardFirst(rest)
    BY <1>2, <1>6 DEF NoKeyboard, KeyboardFirst
  <1> QED
    BY <1>1, <1>3, <1>4, <1>6, <1>7

LEMMA ScriptsNext ==
  ASSUME HeldInv, ScriptsInv, [Next]_vars
  PROVE  ScriptsInv'
  <1>1. load \in DOMAIN Loads
    BY DEF HeldInv, TypeInv
  <1>2. CASE Looping /\ Loop
    <2>1. PICK q : q = Head(cmd_queue)
      OBVIOUS
    <2>2. OnCmd(q, FALSE) /\ UNCHANGED <<load, chat, received, inside>>
      BY <1>2, <2>1 DEF Loop
    <2>3. q \in received
      <3>1. cmd_queue \in Seq(Query) /\ cmd_queue # <<>>
        BY <1>2 DEF HeldInv, TypeInv, Looping
      <3>2. q \in Query /\ InQueue(q)
        BY <2>1, <3>1 DEF InQueue
      <3> QED
        BY <3>2 DEF HeldInv, OnePlace
    <2>4. q \in DOMAIN Loads[load].calls /\ (chat \notin Outside => q \in inside')
      BY <2>2, <2>3 DEF ScriptsInv
    <2>5. ScriptsChange(q, inside', ~MayCopy(q))
      BY <1>1, <2>2, <2>4, OnCmdScripts
    <2> QED
      BY <2>2, <2>5, OneScript DEF ScriptsInv
  <1>3. ASSUME NEW q \in Query, Send(q)
        PROVE  ScriptsInv'
    <2>1. /\ UNCHANGED <<load, chat>> /\ received' = received \cup {q} /\ q \in DOMAIN Loads[load].calls
          /\ inside' = IF chat \in Outside THEN inside ELSE inside \cup {q}
          /\ Finish(q) \/ OnCmd(q, FALSE) \/ UNCHANGED <<asking, nameVars>>
      BY <1>3 DEF Send
    <2>2. chat \notin Outside => q \in inside'
      BY <2>1
    <2>3. CASE OnCmd(q, FALSE)
      <3>1. ScriptsChange(q, inside', ~MayCopy(q))
        BY <1>1, <2>1, <2>2, <2>3, OnCmdScripts
      <3> QED
        BY <2>1, <2>2, <3>1, OneScript DEF ScriptsInv
    <2>4. CASE Finish(q) \/ UNCHANGED <<asking, nameVars>>
      <3>1. ScriptsChange(q, inside', ~MayCopy(q))
        BY <2>4 DEF Finish, nameVars, ScriptsChange
      <3> QED
        BY <2>1, <2>2, <3>1, OneScript DEF ScriptsInv
    <2> QED
      BY <2>1, <2>3, <2>4
  <1>4. ASSUME NEW q \in Query, Wake(q)
        PROVE  ScriptsInv'
    <2>1. /\ UNCHANGED <<load, chat, received, inside>> /\ q \in asleep
          /\ Finish(q) \/ OnCmd(q, TRUE)
      BY <1>4 DEF Wake
    <2>2. q \in received
      BY <2>1 DEF HeldInv, OnePlace
    <2>3. q \in DOMAIN Loads[load].calls /\ (chat \notin Outside => q \in inside')
      BY <2>1, <2>2 DEF ScriptsInv
    <2>4. ScriptsChange(q, inside', ~MayCopy(q))
      BY <1>1, <2>1, <2>3, OnCmdScripts DEF Finish, nameVars, ScriptsChange
    <2> QED
      BY <2>1, <2>4, OneScript DEF ScriptsInv
  <1>5. ASSUME NEW q \in Query, OnResult(q)
        PROVE  ScriptsInv'
    <2>1. PICK steps, rest, over : steps = asking[q] /\ rest = Tail(steps) /\ over = unresolved
      OBVIOUS
    <2>2. /\ UNCHANGED <<load, chat, received, inside>> /\ q \in DOMAIN asking
          /\ (Unhold(q) /\ UNCHANGED nameVars) \/ ("next" \in Leads(steps[1]) /\ Continue(q, rest, over))
      BY <1>5, <2>1 DEF OnResult
    <2>3. q \in received /\ (chat \notin Outside => q \in inside')
      BY <2>2 DEF HeldInv, OnePlace, Begun, ScriptsInv
    <2>4. CASE Unhold(q) /\ UNCHANGED nameVars
      <3>1. ScriptsChange(q, inside', ~MayCopy(q))
        BY <2>4 DEF Unhold, Without, nameVars, ScriptsChange
      <3> QED
        BY <2>2, <3>1, OneScript DEF ScriptsInv
    <2>5. CASE "next" \in Leads(steps[1]) /\ Continue(q, rest, over)
      <3>1. /\ Script(rest) /\ OneKeyboard(rest) /\ Allowed(q, rest, inside)
            /\ ~MayCopy(q) => KeyboardFirst(rest)
        BY <2>1, <2>2, <2>5, RestAllowed
      <3>2. ScriptsChange(q, inside', ~MayCopy(q))
        BY <2>2, <2>3, <2>5, <3>1, ContinueScripts
      <3> QED
        BY <2>2, <3>2, OneScript DEF ScriptsInv
    <2> QED
      BY <2>2, <2>4, <2>5
  <1>6. ASSUME NEW u \in Username, OnNameNotFound(u)
        PROVE  ScriptsInv'
    <2>1. UNCHANGED <<load, chat, received, inside, asking>> /\ pending' = Without(pending, Waiting(u))
      BY <1>6 DEF OnNameNotFound, NotFound
    <2>2. ScriptsKept
      BY <2>1 DEF ScriptsKept, ScriptsInv, Without
    <2> QED
      BY <2>2, ScriptsStep
  <1>7. ASSUME NEW u \in Username, OnNameFound(u)
        PROVE  ScriptsInv'
    BY <1>7, FoundScripts
  <1>8. CASE TdChangesChat
    <2>1. UNCHANGED <<load, received, asking, pending>>
      BY <1>8 DEF TdChangesChat, nameVars
    <2>2. inside \subseteq inside' /\ (chat' \notin Outside => received \subseteq inside')
      BY <1>8 DEF TdChangesChat
    <2>3. ScriptsKept
      BY <2>1, <2>2 DEF ScriptsKept, ScriptsInv
    <2> QED
      BY <2>3, ScriptsStep
  <1>9. CASE UNCHANGED <<load, chat, received, inside, asking>> /\ (pending' = pending \/ pending' = <<>>)
    <2>1. ScriptsKept
      BY <1>9 DEF ScriptsKept, ScriptsInv
    <2> QED
      BY <2>1, ScriptsStep
  <1>10. ASSUME NEW f \in File, OnFile(f) \/ TdFile(f)
         PROVE  ScriptsInv'
    <2>1. UNCHANGED <<load, chat, received, inside, asking>>
      BY <1>10 DEF OnFile, TdFile, requestVars
    <2>2. pending' = pending
      BY <1>10 DEF OnFile, TdFile, nameVars
    <2> QED
      BY <1>9, <2>1, <2>2
  <1>11. CASE OnClosed
    BY <1>9, <1>11 DEF OnClosed
  <1>12. CASE TdAuthorizes \/ TdCloses \/ Stop \/ UNCHANGED vars
    BY <1>9, <1>12 DEF TdAuthorizes, TdCloses, Stop, vars, requestVars, nameVars
  <1> QED
    BY <1>2, <1>3, <1>4, <1>5, <1>6, <1>7, <1>8, <1>10, <1>11, <1>12 DEF Next, Progress, Environment

LEMMA ScriptsStart ==
  ASSUME Init
  PROVE  ScriptsInv
  <1>1. DOMAIN asking = {} /\ DOMAIN pending = {} /\ received = {}
    BY DEF Init, NamesInit
  <1> QED
    BY <1>1 DEF ScriptsInv

LEMMA ScriptsAreInvariant == Spec => []ScriptsInv
  BY ScriptsStart, ScriptsNext, PlacesAreInvariant, PTL DEF Spec

\* What changes a group, a supergroup or a channel is asked of TDLib only for a query during
\* which the bot was in the chat: the chat is checked before, with the rights it takes, and
\* a check that waited for TDLib is made with what is known then (Client::check_chat).
THEOREM ChangesAreMadeInside == Spec => []ActsInside
  <1>1. ScriptsInv => ActsInside
    <2> SUFFICES ASSUME ScriptsInv, NEW q \in DOMAIN asking, NEW steps, steps = asking[q],
                        steps[1].op = "ask", steps[1].does \in {"write", "edit"}
                 PROVE  q \in inside
      BY DEF ActsInside
    <2>1. Asks(q, steps, inside)
      BY DEF ScriptsInv
    <2>2. 1 \in DOMAIN steps
      BY <2>1, ScriptIs DEF Asks
    <2>3. ChangesTheChat(steps[1])
      BY DEF ChangesTheChat
    <2>4. ~ChecksFirst(steps)
      BY <2>2, <2>3 DEF ChecksFirst
    <2> QED
      BY <2>1, <2>4 DEF Asks, Allowed
  <1> QED
    BY <1>1, ScriptsAreInvariant, PTL

-----------------------------------------------------------------------------
(* The CHECKs.                                                             *)

LEMMA SameLoad ==
  ASSUME [Next]_vars
  PROVE  load' = load
  <1>1. CASE UNCHANGED vars
    BY <1>1 DEF vars, requestVars
  <1>2. CASE Progress
    BY <1>2 DEF Progress, Loop, Wake, OnResult, OnNameNotFound, OnNameFound, OnFile, TdFile, TdAuthorizes,
                OnClosed, Stop, requestVars
  <1>3. CASE Environment
    BY <1>3 DEF Environment, Send, TdChangesChat, TdCloses
  <1> QED
    BY <1>1, <1>2, <1>3 DEF Next

\* Temporary identifiers are never taken back.
LEMMA NumbersGrow ==
  ASSUME TypeInv, NamesStep
  PROVE  cur_temp_bot_user_id' \in Nat /\ cur_temp_bot_user_id <= cur_temp_bot_user_id'
  <1>1. cur_temp_bot_user_id \in Nat
    BY DEF TypeInv, HandlerTypes
  <1>2. CASE cur_temp_bot_user_id' = cur_temp_bot_user_id
    BY <1>1, <1>2
  <1>3. ASSUME NEW p, ParsedInv(p), cur_temp_bot_user_id' = p.next
        PROVE  cur_temp_bot_user_id' \in Nat /\ cur_temp_bot_user_id <= cur_temp_bot_user_id'
    BY <1>1, <1>3 DEF ParsedInv, ParsedType
  <1>4. CASE \E over \in SUBSET Username : IsFiniteSet(over) /\ NamesKept(over)
    BY <1>2, <1>3, <1>4 DEF NamesKept
  <1>5. CASE \E q \in Query : \E p, then : Resolve(q, p, then)
    BY <1>3, <1>5 DEF Resolve, ResolveBotUsernames
  <1> QED
    BY <1>2, <1>4, <1>5 DEF NamesStep, NotFound, Found

\* The causes that are excepted
Excepted == {"own identifier", "cleared name"}

\* CHECK(it != temp_to_real_bot_user_id_.end()): the name was the last one of the query.
LEMMA LastNameFixes ==
  ASSUME HeldInv, CountsInv, ButtonsInv, NEW u \in Username, Found(u), NEW q \in Finished(u)
  PROVE  Unfixable(pending[q], temp_to_real') \subseteq Excepted
  <1>1. q \in DOMAIN pending /\ q \in Waiting(u) /\ pending[q].count = 1
    BY DEF Finished, Waiting
  <1>2. u \in NamesOf(q) /\ Resolving(q)
    BY <1>1 DEF NamesOf, Waiting, CountsInv
  <1>3. NamesOf(q) \ {u} = {}
    <2>1. IsFiniteSet(NamesOf(q)) /\ Cardinality(NamesOf(q)) = 1
      BY <1>1, <1>2 DEF Resolving
    <2>2. IsFiniteSet(NamesOf(q) \ {u}) /\ Cardinality(NamesOf(q) \ {u}) = 0
      BY <1>2, <2>1, FS_RemoveElement
    <2> QED
      BY <2>2, FS_EmptySet
  <1>4. DOMAIN temp_to_real' = DOMAIN temp_to_real \cup {bot_user_ids[u]}
    BY DEF Found, Put
  <1>5. PICK bs : bs = pending[q].buttons
    OBVIOUS
  <1>6. ASSUME NEW i \in DOMAIN bs, IsTemporary(bs[i].id), bs[i].name # Own,
               bs[i].name \notin pending[q].cleared
        PROVE  bs[i].id \in DOMAIN temp_to_real'
    <2>1. PICK b : b = bs[i]
      OBVIOUS
    <2>2. ButtonInv(q, b) /\ IsTemporary(b.id) /\ b.name # Own /\ b.name \notin pending[q].cleared
      BY <1>1, <1>5, <1>6, <2>1 DEF ButtonsInv, ButtonsOf
    <2>3. \/ bot_user_ids[b.name] = b.id /\ b.name \in NamesOf(q)
          \/ b.id \in DOMAIN temp_to_real
      BY <2>2 DEF ButtonInv
    <2> QED
      BY <1>3, <1>4, <2>1, <2>3
  <1> QED
    BY <1>5, <1>6 DEF Unfixable, Cause, Excepted

\* A query that is alone with its keyboard finds no names of others before it parses it.
CleanInv == CopySafe => \A q \in DOMAIN asking : ~NoKeyboard(asking[q]) => unresolved = {}

LEMMA SafeStill ==
  ASSUME load' = load
  PROVE  CopySafe' <=> CopySafe
  BY DEF CopySafe, MayCopy, MayParse

\* Whoever waits with a keyboard to parse copies a message.
LEMMA KeyboardOfCopy ==
  ASSUME HeldInv, ScriptsInv, NEW r \in DOMAIN asking
  PROVE  r \in DOMAIN Loads[load].calls /\ (~NoKeyboard(asking[r]) => MayCopy(r))
  <1>1. DOMAIN asking \subseteq received
    BY DEF HeldInv, TypeInv, HandlerTypes, OnePlace, Begun
  <1> QED
    BY <1>1 DEF ScriptsInv

\* Nothing is left by a step after which those that wait are the same, or have no keyboard.
LEMMA CleanKept ==
  ASSUME CleanInv, unresolved' = unresolved, load' = load,
         \A r \in DOMAIN asking' : \/ r \in DOMAIN asking /\ asking'[r] = asking[r]
                                   \/ NoKeyboard(asking'[r])
  PROVE  CleanInv'
  <1> SUFFICES ASSUME CopySafe, NEW r \in DOMAIN asking', ~NoKeyboard(asking'[r])
               PROVE  unresolved' = {}
    BY SafeStill DEF CleanInv
  <1> QED
    BY DEF CleanInv

\* A query goes on, and the others that wait are those that did.
LEMMA ContinuesClean ==
  ASSUME HeldInv, ScriptsInv, CleanInv, NEW q \in DOMAIN Loads[load].calls, load' = load,
         NEW I, chat \notin Outside => q \in I,
         NEW steps, Script(steps), OneKeyboard(steps), Allowed(q, steps, I),
         NEW over, Continue(q, steps, over), over \in {unresolved, {}},
         CopySafe /\ ~NoKeyboard(steps) => over = {},
         CopySafe /\ ~NoKeyboard(steps) => MayParse(q) \/ MayCopy(q)
  PROVE  CleanInv'
  <1> SUFFICES ASSUME CopySafe, NEW r \in DOMAIN asking', ~NoKeyboard(asking'[r])
               PROVE  unresolved' = {}
    BY SafeStill DEF CleanInv
  <1>1. /\ NoKeyboard(steps) => unresolved' = over
        /\ q \in DOMAIN asking' => \/ NoKeyboard(asking'[q])
                                   \/ ~NoKeyboard(steps) /\ unresolved' = over
    BY ContinueClean
  <1>2. \A p \in DOMAIN asking' : p = q \/ (p \in DOMAIN asking /\ asking'[p] = asking[p])
    <2>1. ScriptsChange(q, I, FALSE)
      BY ContinueScripts
    <2> QED
      BY <2>1 DEF ScriptsChange
  <1>3. CASE r \in DOMAIN asking /\ asking'[r] = asking[r] /\ r # q
    <2>1. unresolved = {} /\ MayCopy(r) /\ r \in DOMAIN Loads[load].calls
      BY <1>3, KeyboardOfCopy DEF CleanInv
    <2>2. NoKeyboard(steps)
      BY <1>3, <2>1 DEF CopySafe
    <2> QED
      BY <1>1, <2>1, <2>2
  <1>4. CASE r = q
    BY <1>1, <1>4
  <1> QED
    BY <1>2, <1>3, <1>4

LEMMA OnCmdClean ==
  ASSUME HeldInv, ScriptsInv, CleanInv, load' = load, NEW q \in DOMAIN Loads[load].calls,
         NEW I, chat \notin Outside => q \in I, NEW force, OnCmd(q, force)
  PROVE  CleanInv'
  <1>1. CASE UNCHANGED <<asking, unresolved>>
    BY <1>1, CleanKept
  <1>2. ASSUME NEW m \in Special, OnSpecial(q, m)
        PROVE  CleanInv'
    <2>1. CASE Finish(q)
      BY <1>1, <2>1 DEF Finish, nameVars
    <2>2. CASE asking' = Put(asking, q, Do(m)) /\ UNCHANGED nameVars
      <3>1. NoKeyboard(Do(m))
        BY SpecialScripts
      <3> QED
        BY <2>2, <3>1, CleanKept DEF Put, nameVars
    <2> QED
      BY <1>2, <2>1, <2>2 DEF OnSpecial
  <1>3. ASSUME NEW steps \in Handlers[load][q], Continue(q, steps, {})
        PROVE  CleanInv'
    <2>1. load \in DOMAIN Loads
      BY DEF HeldInv, TypeInv
    <2>2. Script(steps) /\ Allowed(q, steps, I) /\ OneKeyboard(steps)
      BY <2>1, HandlerScripts DEF Allowed
    <2>3. ~NoKeyboard(steps) => MayParse(q)
      BY DEF MayParse
    <2> QED
      BY <1>3, <2>2, <2>3, ContinuesClean
  <1>4. CASE unresolved' = {}
    BY <1>4 DEF CleanInv
  <1>5. CASE FloodControl(q)
    BY <1>1, <1>4, <1>5 DEF FloodControl, Finish, nameVars
  <1>6. CASE Finish(q)
    BY <1>1, <1>6 DEF Finish, nameVars
  <1> QED
    BY <1>2, <1>3, <1>5, <1>6 DEF OnCmd

LEMMA CleanNext ==
  ASSUME HeldInv, ScriptsInv, CleanInv, [Next]_vars
  PROVE  CleanInv'
  <1>1. load' = load
    BY SameLoad
  <1>2. CASE UNCHANGED <<asking, unresolved>>
    BY <1>1, <1>2, CleanKept
  <1>3. ASSUME NEW q \in received, NEW force, OnCmd(q, force)
        PROVE  CleanInv'
    <2>1. q \in DOMAIN Loads[load].calls /\ (chat \notin Outside => q \in inside)
      BY <1>3 DEF ScriptsInv
    <2> QED
      BY <1>1, <1>3, <2>1, OnCmdClean
  <1>4. CASE Looping /\ Loop
    <2>1. PICK q : q = Head(cmd_queue)
      OBVIOUS
    <2>2. cmd_queue \in Seq(Query) /\ cmd_queue # <<>>
      BY <1>4 DEF HeldInv, TypeInv, Looping
    <2>3. q \in received
      BY <2>1, <2>2 DEF InQueue, HeldInv, OnePlace
    <2> QED
      BY <1>3, <1>4, <2>1, <2>3 DEF Loop
  <1>5. ASSUME NEW q \in Query, Send(q)
        PROVE  CleanInv'
    <2>1. CASE OnCmd(q, FALSE)
      <3>1. q \in DOMAIN Loads[load].calls /\ (chat \notin Outside => q \in inside')
        BY <1>5 DEF Send
      <3> QED
        BY <1>1, <2>1, <3>1, OnCmdClean
    <2> QED
      BY <1>2, <1>5, <2>1 DEF Send, Finish, nameVars
  <1>6. ASSUME NEW q \in Query, Wake(q)
        PROVE  CleanInv'
    <2>1. q \in received
      BY <1>6 DEF Wake, HeldInv, OnePlace
    <2> QED
      BY <1>2, <1>3, <1>6, <2>1 DEF Wake, Finish, nameVars
  <1>7. ASSUME NEW q \in Query, OnResult(q)
        PROVE  CleanInv'
    <2>1. PICK rest, over : rest = Tail(asking[q]) /\ over = unresolved
      OBVIOUS
    <2>2. q \in DOMAIN asking /\ q \in DOMAIN Loads[load].calls /\ (~NoKeyboard(asking[q]) => MayCopy(q))
      BY <1>7, KeyboardOfCopy DEF OnResult
    <2>3. CASE Unhold(q) /\ UNCHANGED nameVars
      BY <1>1, <2>3, CleanKept DEF Unhold, Without, nameVars
    <2>4. CASE "next" \in Leads(asking[q][1]) /\ Continue(q, rest, over)
      <3>1. /\ Script(rest) /\ OneKeyboard(rest) /\ Allowed(q, rest, inside)
            /\ NoKeyboard(asking[q]) => NoKeyboard(rest)
            /\ chat \notin Outside => q \in inside
        BY <2>1, <2>2, <2>4, RestAllowed
      <3>2. CopySafe /\ ~NoKeyboard(rest) => over = {} /\ MayCopy(q)
        BY <2>1, <2>2, <3>1 DEF CleanInv
      <3> QED
        BY <1>1, <2>1, <2>2, <2>4, <3>1, <3>2, ContinuesClean
    <2> QED
      BY <1>7, <2>1, <2>3, <2>4 DEF OnResult
  <1>8. ASSUME NEW u \in Username, OnNameNotFound(u)
        PROVE  CleanInv'
    BY <1>2, <1>8 DEF OnNameNotFound, NotFound
  <1>9. ASSUME NEW u \in Username, OnNameFound(u)
        PROVE  CleanInv'
    <2>1. unresolved' = unresolved
      BY <1>9 DEF OnNameFound, Found
    <2> QED
      BY <1>1, <1>9, <2>1, FoundScripts, CleanKept
  <1>10. ASSUME NEW f \in File, OnFile(f) \/ TdFile(f)
         PROVE  CleanInv'
    BY <1>2, <1>10 DEF OnFile, TdFile, requestVars, nameVars
  <1>11. CASE TdAuthorizes \/ TdChangesChat \/ TdCloses \/ OnClosed \/ Stop \/ UNCHANGED vars
    BY <1>2, <1>11 DEF TdAuthorizes, TdChangesChat, TdCloses, OnClosed, Stop, vars, requestVars, nameVars
  <1> QED
    BY <1>4, <1>5, <1>6, <1>7, <1>8, <1>9, <1>10, <1>11 DEF Next, Progress, Environment

LEMMA CleanIsInvariant == Spec => []CleanInv
  <1>1. Init => CleanInv
    BY DEF Init, CleanInv
  <1> QED
    BY <1>1, CleanNext, PlacesAreInvariant, ScriptsAreInvariant, PTL DEF Spec

\* No CHECK fails in a step, but for what is excepted.
LEMMA ChecksHoldStep ==
  ASSUME HeldInv, ScriptsInv, CountsInv, ButtonsInv, CleanInv, CopySafe, [Next]_vars,
         aborted \subseteq Excepted
  PROVE  aborted' \subseteq Excepted
  <1>1. load \in DOMAIN Loads
    BY DEF HeldInv, TypeInv
  <1>2. ASSUME NEW q \in received, NEW force, OnCmd(q, force)
        PROVE  aborted' = aborted
    <2>1. q \in DOMAIN Loads[load].calls /\ (chat \notin Outside => q \in inside)
      BY <1>2 DEF ScriptsInv
    <2> QED
      BY <1>1, <1>2, <2>1, OnCmdScripts
  <1>3. CASE Looping /\ Loop
    <2>1. PICK q : q = Head(cmd_queue)
      OBVIOUS
    <2>2. cmd_queue \in Seq(Query) /\ cmd_queue # <<>>
      BY <1>3 DEF HeldInv, TypeInv, Looping
    <2>3. q \in received
      BY <2>1, <2>2 DEF InQueue, HeldInv, OnePlace
    <2> QED
      BY <1>2, <1>3, <2>1, <2>3 DEF Loop
  <1>4. ASSUME NEW q \in Query, Send(q)
        PROVE  aborted' = aborted
    <2>1. CASE OnCmd(q, FALSE)
      <3>1. q \in DOMAIN Loads[load].calls
        BY <1>4 DEF Send
      <3>2. chat \notin Outside => q \in inside'
        BY <1>4 DEF Send
      <3> QED
        BY <1>1, <2>1, <3>1, <3>2, OnCmdScripts
    <2> QED
      BY <1>4, <2>1 DEF Send, Finish
  <1>5. ASSUME NEW q \in Query, Wake(q)
        PROVE  aborted' = aborted
    <2>1. q \in received
      BY <1>5 DEF Wake, HeldInv, OnePlace
    <2> QED
      BY <1>2, <1>5, <2>1 DEF Wake, Finish
  <1>6. ASSUME NEW q \in Query, OnResult(q)
        PROVE  aborted' = aborted
    <2>1. PICK rest, over : rest = Tail(asking[q]) /\ over = unresolved
      OBVIOUS
    <2>2. CASE "next" \in Leads(asking[q][1]) /\ Continue(q, rest, over)
      <3>1. q \in DOMAIN asking
        BY <1>6 DEF OnResult
      <3>2. /\ Script(rest) /\ OneKeyboard(rest) /\ Allowed(q, rest, inside)
            /\ NoKeyboard(asking[q]) => NoKeyboard(rest)
            /\ chat \notin Outside => q \in inside
        BY <2>1, <2>2, <3>1, RestAllowed
      <3>3. over = {} \/ NoKeyboard(rest)
        BY <2>1, <3>1, <3>2 DEF CleanInv
      <3>4. ScriptsChange(q, inside, FALSE) /\ aborted' = aborted
        BY <2>2, <3>2, <3>3, ContinueScripts
      <3> QED
        BY <3>4
    <2> QED
      BY <1>6, <2>1, <2>2 DEF OnResult
  <1>7. ASSUME NEW u \in Username, OnNameFound(u)
        PROVE  aborted' \subseteq Excepted
    <2>1. /\ Found(u)
          /\ aborted' = aborted \cup UNION {Unfixable(pending[q], temp_to_real') : q \in Finished(u)}
      BY <1>7 DEF OnNameFound
    <2>2. \A q \in Finished(u) : Unfixable(pending[q], temp_to_real') \subseteq Excepted
      BY <2>1, LastNameFixes
    <2> QED
      BY <2>1, <2>2, Zenon
  <1>8. ASSUME NEW u \in Username, OnNameNotFound(u)
        PROVE  aborted' = aborted
    BY <1>8 DEF OnNameNotFound
  <1>9. ASSUME NEW f \in File, OnFile(f) \/ TdFile(f)
        PROVE  aborted' = aborted
    BY <1>9 DEF OnFile, TdFile, requestVars
  <1>10. CASE TdAuthorizes \/ TdChangesChat \/ TdCloses \/ OnClosed \/ Stop \/ UNCHANGED vars
    BY <1>10 DEF TdAuthorizes, TdChangesChat, TdCloses, OnClosed, Stop, vars, requestVars
  <1> QED
    BY <1>3, <1>4, <1>5, <1>6, <1>7, <1>8, <1>9, <1>10 DEF Next, Progress, Environment

\* No CHECK fails, but for what ChecksHold excepts: a handler parses its keyboards when no
\* name is left unresolved, since no other handler parses one between the start and its
\* keyboards, and when the last name of a query is found every temporary identifier in its
\* buttons is known, of whichever of its keyboards it is.  As long as no identifier collides,
\* and no query with a keyboard runs beside one that copies a message: copyMessage parses its
\* keyboard after TDLib told of the message, with the names that others left unresolved
\* (Client::resolve_reply_markup_bot_usernames, Client.cpp:9269;
\* Client::fix_inline_keyboard_bot_user_ids, Client.cpp:9227).
THEOREM NamesAreResolvedInTime == Spec => [](NoCollision /\ CopySafe => ChecksHold)
  <1> DEFINE Inv == NoCollision /\ CopySafe => ChecksHold
  <1>1. Init => Inv
    BY DEF Init, ChecksHold
  <1>2. HeldInv /\ ScriptsInv /\ CleanInv /\ CountsInv /\ NamesApart /\ Inv /\ [Next]_vars => Inv'
    <2> SUFFICES ASSUME HeldInv, ScriptsInv, CleanInv, CountsInv, NamesApart, Inv, [Next]_vars,
                        NoCollision', CopySafe'
                 PROVE  ChecksHold'
      OBVIOUS
    <2>1. TypeInv /\ NamesStep
      BY NamesSteps DEF HeldInv
    <2>2. NoCollision
      BY <2>1, NumbersGrow, CollidesStill
    <2>3. CopySafe
      BY SameLoad, SafeStill
    <2>4. aborted \subseteq Excepted
      BY <2>2, <2>3 DEF ChecksHold, Excepted
    <2>5. aborted' \subseteq Excepted
      BY <2>2, <2>3, <2>4, ChecksHoldStep DEF NamesApart
    <2> QED
      BY <2>5 DEF ChecksHold, Excepted
  <1> HIDE DEF Inv
  <1>3. Spec => []Inv
    BY <1>1, <1>2, PlacesAreInvariant, ScriptsAreInvariant, CleanIsInvariant, CountsAreInvariant, NamesStayApart, PTL DEF Spec
  <1> QED
    BY <1>3 DEF Inv
=============================================================================
