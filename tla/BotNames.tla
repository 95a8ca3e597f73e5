------------------------------ MODULE BotNames ------------------------------
(***************************************************************************)
(* Usernames of bots in login buttons (telegram-bot-api/Client.cpp).       *)
(*                                                                         *)
(* A button that opens a link with the account of the user names the bot   *)
(* to log in to.  While the keyboard is parsed a bot whose identifier is   *)
(* not known gets a temporary one, a multiple of 1000, and its username is *)
(* kept among the unresolved.  Then resolve_bot_usernames makes the query  *)
(* wait until TDLib found every unresolved name, and the temporary         *)
(* identifiers are replaced.  Queries that name the same bot share one     *)
(* search.  The results of an inline query have a keyboard each, and all   *)
(* of these are parsed into the same set of unresolved names.              *)
(*                                                                         *)
(* The module has no Next: Requests calls its operators from the handlers. *)
(* "Fault:" marks variants with a bug the code does not have.              *)
(***************************************************************************)
EXTENDS Integers, Sequences, FiniteSets

CONSTANTS
  Username,    \* usernames of bots
  RealId,      \* the identifier of the bot of each username
  MyId,        \* my_id_, which a button gets that names no bot
  Keyboards,   \* the keyboards that queries may bring: a sequence of usernames, or of Own
  Results      \* the keyboards that the results of an inline query may bring together

Own == "own"

\* inline: the keyboard is an inline one, and no other keyboard wins over it.
Markup == [names : Keyboards, inline : BOOLEAN]

ASSUME BotNamesAssumption ==
  /\ RealId \in [Username -> Nat \ {0}]
  /\ MyId \in Nat \ {0}
  /\ Own \notin Username
  /\ Keyboards \subseteq Seq(Username \cup {Own})
  /\ Results \subseteq Seq(Markup)

VARIABLES
  bot_user_ids,     \* identifier of each username, temporary or real; 0 if there is none
  cur_temp_bot_user_id,
  unresolved,       \* unresolved_bot_usernames_
  pending,          \* pending_bot_resolve_queries_: query -> count, buttons, cleared names, what to do then
  awaiting,         \* awaiting_bot_resolve_queries_: the queries that wait for each username
  temp_to_real      \* temp_to_real_bot_user_id_

nameVars == <<bot_user_ids, cur_temp_bot_user_id, unresolved, pending, awaiting, temp_to_real>>

IsTemporary(id) == id % 1000 = 0

NamesInit ==
  /\ bot_user_ids = [u \in Username |-> 0]
  /\ cur_temp_bot_user_id = 1
  /\ unresolved = {}
  /\ pending = <<>>
  /\ awaiting = [u \in Username |-> <<>>]
  /\ temp_to_real = <<>>

\* Functions are changed at one point or another like this.
Put(f, x, y) == [z \in DOMAIN f \cup {x} |-> IF z = x THEN y ELSE f[z]]
Without(f, S) == [z \in DOMAIN f \ S |-> f[z]]

(***************************************************************************)
(* get_inline_keyboard_button for one button after the others.  What is    *)
(* parsed: the names, the next temporary number, the unresolved, the       *)
(* buttons, and the names that get_reply_markup has cleared since a button *)
(* named them last (a history of the parsing).                             *)
(***************************************************************************)
\* over: names that are unresolved before
Start(over) ==
  [ids |-> bot_user_ids, next |-> cur_temp_bot_user_id, unresolved |-> over,
   buttons |-> <<>>, cleared |-> {}]

LoginButton(parsed, u) ==
  IF u = Own THEN [parsed EXCEPT !.buttons = Append(@, [name |-> u, id |-> MyId])]
  ELSE LET new == parsed.ids[u] = 0
           id == IF new THEN 1000 * parsed.next ELSE parsed.ids[u]
       IN  [ids |-> [parsed.ids EXCEPT ![u] = id],
            next |-> IF new THEN parsed.next + 1 ELSE parsed.next,
            unresolved |-> IF IsTemporary(id) THEN parsed.unresolved \cup {u} ELSE parsed.unresolved,
            buttons |-> Append(parsed.buttons, [name |-> u, id |-> id]),
            cleared |-> parsed.cleared \ {u}]

AfterButtons(parsed, names) ==
  LET after[n \in 0..Len(names)] ==
        IF n = 0 THEN parsed ELSE LoginButton(after[n - 1], names[n])
  IN  after[Len(names)]

\* get_reply_markup.  The buttons of a keyboard that is not inline are dropped, and with
\* them the unresolved names of all the keyboards before.
ReplyMarkup(parsed, markup) ==
  LET after == AfterButtons(parsed, markup.names)
  IN  IF markup.inline THEN after
      ELSE [after EXCEPT !.buttons = parsed.buttons, !.unresolved = {},
                         !.cleared = @ \cup after.unresolved]

\* One keyboard after the other
ReplyMarkups(markups, over) ==
  LET after[n \in 0..Len(markups)] ==
        IF n = 0 THEN Start(over) ELSE ReplyMarkup(after[n - 1], markups[n])
  IN  after[Len(markups)]

\* What was parsed is in the maps, be it used or not.
KeepNames(parsed) ==
  /\ bot_user_ids' = parsed.ids
  /\ cur_temp_bot_user_id' = parsed.next
  /\ unresolved' = parsed.unresolved
  /\ UNCHANGED <<pending, awaiting, temp_to_real>>

(***************************************************************************)
(* resolve_bot_usernames.  If the client is closing, the searches fail at  *)
(* once and with them the query; the names that other queries search for   *)
(* have it in their lists nevertheless.                                    *)
(***************************************************************************)
Searched(names) == {u \in names : awaiting[u] = <<>>}

ResolveFails(names, closing) == closing /\ Searched(names) # {}

\* Fault: a name is counted for each of its buttons.
ResolveBotUsernamesOfButtons(q, parsed, then, closing) ==
  LET names == parsed.unresolved
      lost == IF closing THEN Searched(names) ELSE {}
  IN  /\ unresolved' = {}
      /\ cur_temp_bot_user_id' = parsed.next
      /\ bot_user_ids' = [u \in Username |-> IF u \in lost THEN 0 ELSE parsed.ids[u]]
      /\ awaiting' = [u \in Username |-> IF u \in names \ lost THEN Append(awaiting[u], q) ELSE awaiting[u]]
      /\ pending' = IF lost # {} THEN pending
                    ELSE Put(pending, q, [count |-> Len(parsed.buttons), buttons |-> parsed.buttons,
                                          cleared |-> parsed.cleared, then |-> then])
      /\ UNCHANGED temp_to_real

ResolveBotUsernames(q, parsed, then, closing) ==
  LET names == parsed.unresolved
      lost == IF closing THEN Searched(names) ELSE {}
  IN  /\ unresolved' = {}
      /\ cur_temp_bot_user_id' = parsed.next
      /\ bot_user_ids' = [u \in Username |-> IF u \in lost THEN 0 ELSE parsed.ids[u]]
      /\ awaiting' = [u \in Username |-> IF u \in names \ lost THEN Append(awaiting[u], q) ELSE awaiting[u]]
      /\ pending' = IF lost # {} THEN pending
                    ELSE Put(pending, q, [count |-> Cardinality(names), buttons |-> parsed.buttons,
                                          cleared |-> parsed.cleared, then |-> then])
      /\ UNCHANGED temp_to_real

(***************************************************************************)
(* on_resolve_bot_username: the name belongs to a bot or not.  Finished    *)
(* are the queries for which it was the last name.                         *)
(***************************************************************************)
Waiting(u) == {awaiting[u][i] : i \in DOMAIN awaiting[u]} \cap DOMAIN pending

Finished(u) == {q \in Waiting(u) : pending[q].count = 1}

\* Fault: the queries that waited for the name are answered and still pending.
NotFoundKeepingQueries(u) ==
  /\ awaiting' = [awaiting EXCEPT ![u] = <<>>]
  /\ bot_user_ids' = [bot_user_ids EXCEPT ![u] = 0]
  /\ UNCHANGED <<cur_temp_bot_user_id, unresolved, pending, temp_to_real>>

NotFound(u) ==
  /\ awaiting' = [awaiting EXCEPT ![u] = <<>>]
  /\ bot_user_ids' = [bot_user_ids EXCEPT ![u] = 0]
  /\ pending' = Without(pending, Waiting(u))
  /\ UNCHANGED <<cur_temp_bot_user_id, unresolved, temp_to_real>>

\* Fault: the identifier is replaced before the temporary one is looked up.
FoundTooLate(u) ==
  /\ awaiting' = [awaiting EXCEPT ![u] = <<>>]
  /\ bot_user_ids' = [bot_user_ids EXCEPT ![u] = RealId[u]]
  /\ temp_to_real' = Put(temp_to_real, bot_user_ids'[u], RealId[u])
  /\ pending' = [q \in DOMAIN pending \ Finished(u) |->
                   IF q \in Waiting(u) THEN [pending[q] EXCEPT !.count = @ - 1] ELSE pending[q]]
  /\ UNCHANGED <<cur_temp_bot_user_id, unresolved>>

Found(u) ==
  /\ awaiting' = [awaiting EXCEPT ![u] = <<>>]
  /\ bot_user_ids' = [bot_user_ids EXCEPT ![u] = RealId[u]]
  /\ temp_to_real' = Put(temp_to_real, bot_user_ids[u], RealId[u])
  /\ pending' = [q \in DOMAIN pending \ Finished(u) |->
                   IF q \in Waiting(u) THEN [pending[q] EXCEPT !.count = @ - 1] ELSE pending[q]]
  /\ UNCHANGED <<cur_temp_bot_user_id, unresolved>>

\* Why the identifier of a button stays temporary.  The bot's own may be a multiple of 1000;
\* a name may have been cleared by a keyboard parsed after its own.
Cause(entry, button) ==
  IF button.name = Own THEN "own identifier"
  ELSE IF button.name \in entry.cleared THEN "cleared name" ELSE "name"

\* fix_reply_markup_bot_user_ids: CHECK(it != temp_to_real_bot_user_id_.end()) fails for
\* these causes.
Unfixable(entry, ids) ==
  {Cause(entry, entry.buttons[i]) :
     i \in {j \in DOMAIN entry.buttons :
              IsTemporary(entry.buttons[j].id) /\ entry.buttons[j].id \notin DOMAIN ids}}

(***************************************************************************)
(* Properties.                                                             *)
(***************************************************************************)
\* A query that waits for names has a count of the names it still waits for, and at least
\* one: a count that is too high keeps the query for ever, one that is too low sends a
\* temporary identifier (pending_resolve_count, Client.cpp:9251 and 9322).
ResolveCountsExact ==
  \A q \in DOMAIN pending :
    /\ pending[q].count > 0
    /\ pending[q].count = Cardinality({u \in Username : q \in {awaiting[u][i] : i \in DOMAIN awaiting[u]}})

\* A temporary identifier in the keyboards of a query that waits is either still the one of
\* its name and the name is searched for, or known to stand for the bot with that name: no
\* other bot is ever put into the button, and no temporary identifier is left in it when the
\* names are found (Client.cpp:9224-9231).  Two kinds of buttons are excepted, for which the
\* code breaks it: those with the bot's own identifier, which looks temporary if it is a
\* multiple of 1000 (Client.cpp:10380); and those of an inline result whose name was cleared
\* by the keyboard of a later result (Client.cpp:10495).
ButtonsResolvable ==
  \A q \in DOMAIN pending : \A i \in DOMAIN pending[q].buttons :
    LET b == pending[q].buttons[i]
    IN  IsTemporary(b.id) /\ b.name # Own /\ b.name \notin pending[q].cleared =>
          \/ b.name \in Username /\ bot_user_ids[b.name] = b.id
               /\ q \in {awaiting[b.name][j] : j \in DOMAIN awaiting[b.name]}
          \/ b.id \in DOMAIN temp_to_real /\ temp_to_real[b.id] = RealId[b.name]

=============================================================================
