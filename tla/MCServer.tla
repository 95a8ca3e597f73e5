------------------------------ MODULE MCServer ------------------------------
(***************************************************************************)
(* An instance of Server for TLC: two tokens of one bot and a wrong one.   *)
(***************************************************************************)
EXTENDS Server

MCTQueueOf == [t \in Token |-> "tqueue"]

Call(t, methods) == [token : {t}, method : methods]

\* The clients of one token, and what they leave for the next start of the process
Reopening ==
  [calls |-> "q1" :> Call("a", Method) @@ "q2" :> Call("a", {"other"}),
   webhooks |-> {"a"}, signals |-> 1, starts |-> 1]

\* A process that ends in order or at once, and the next one
Restarting ==
  [calls |-> "q1" :> Call("a", {"setwebhook", "logout"}) , webhooks |-> {"a"}, signals |-> 2, starts |-> 2]

\* Clients of one bot with different tokens
TwoTokens ==
  [calls |-> "q1" :> Call("a", {"other"}) @@ "q2" :> Call("b", {"other"}),
   webhooks |-> {}, signals |-> 0, starts |-> 1]

\* A token without a bot, and one that no Client accepts, beside another client
WrongTokens ==
  [calls |-> "q1" :> Call("wrong", {"close", "other"})
               @@ "q2" :> Call("a", {"setwebhook"}) \cup Call(NoToken, {"other"}),
   webhooks |-> {}, signals |-> 1, starts |-> 1]

MCLoads == [reopening |-> Reopening, restarting |-> Restarting, two |-> TwoTokens, wrong |-> WrongTokens]

=============================================================================
