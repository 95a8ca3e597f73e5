--------------------------- MODULE MCSendMessage ---------------------------
(* Small batches for SendMessage.                                          *)
EXTENDS SendMessage

CONSTANTS c1, c2

One(c)        == [kind |-> "one", chat |-> c, n |-> 1]
Album(c, n)   == [kind |-> "album", chat |-> c, n |-> n]
Forward(c, n) == [kind |-> "forward", chat |-> c, n |-> n]
Story(c)      == [kind |-> "story", chat |-> c, n |-> 1]

\* Everything, in two chats, with batches of three that fail in any order.
Mixed == {One(c1), One(c2), Album(c1, 3), Forward(c1, 3), Story(c1)}
=============================================================================
