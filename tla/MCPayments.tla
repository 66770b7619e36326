----------------------------- MODULE MCPayments -----------------------------
(* Instances of Payments: two intents of one invoice. *)
EXTENDS Payments, TLC
CONSTANTS i1, p1, p2, c1, c2
AllOfOne == [p \in Intents |-> i1]
=============================================================================
