------------------------------- MODULE MCApp -------------------------------
(* An instance of App: one request, one loop, one outbox worker and one    *)
(* dashboard, each of which the others meet at any step; with a queue of   *)
(* two and a channel of one, a message can be dropped between two that are *)
(* sent.                                                                   *)
EXTENDS App
CONSTANTS d1, r1, due, o1
=============================================================================
