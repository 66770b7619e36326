-------------------------- MODULE MCVirtualClock --------------------------
(* Instances of VirtualClock.  Two app instances can disagree; three     *)
(* requests let one overtake another and a third find both still on the  *)
(* way.                                                                  *)
EXTENDS VirtualClock
CONSTANTS i1, i2
=============================================================================
