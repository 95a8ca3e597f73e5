--------------------------- MODULE MCUpdateQueues ---------------------------
(* Small queues for UpdateQueues.                                          *)
EXTENDS UpdateQueues

CONSTANTS callback, business

\* Callback queries pass three states, messages of business accounts one.
TwoKinds == [k \in {callback, business} |-> IF k = callback THEN 3 ELSE 1]
=============================================================================
