----------------------------- MODULE MCOutbox -----------------------------
(* Instances of Outbox.  Two workers are enough to hold the same event with  *)
(* different attempt numbers; all the events belong to one customer.         *)
EXTENDS Outbox
CONSTANTS w1, w2
=============================================================================
