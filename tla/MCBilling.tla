----------------------------- MODULE MCBilling -----------------------------
(* Instances of Billing: the model values of its configurations.  A period *)
(* of two days and a clock of five let a subscription be renewed on time,  *)
(* one day late and after a missed period.                                 *)
EXTENDS Billing
CONSTANTS s1, s2, p1, a1, a2, u1
=============================================================================
