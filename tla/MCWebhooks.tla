----------------------------- MODULE MCWebhooks -----------------------------
(* Instances of Webhooks: endpoints of one customer, two app instances. *)
EXTENDS Webhooks, TLC
CONSTANTS c1, e1, e2, w1, w2
Interchangeable == Permutations({e1, e2}) \union Permutations({w1, w2})
=============================================================================
