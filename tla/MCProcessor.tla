----------------------------- MODULE MCProcessor -----------------------------
(* Instances of Processor.  With a buffer of one, a message in the sender's  *)
(* hand, one in the buffer and one parked by its worker are the three ways   *)
(* into the dead-letter topic; with two messages one of the three is the     *)
(* empty message of a failed fetch, of which there is no end.                *)
EXTENDS Processor
CONSTANTS w1, w2
=============================================================================
