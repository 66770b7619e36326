----------------------------- MODULE Delivery -----------------------------
(***************************************************************************)
(* What the transactional outbox promises its events: at-least-once        *)
(* delivery.  An event is received any number of times once it was         *)
(* submitted; it is complete only after it was received, unless its type   *)
(* is one nobody receives; an event may be given up, and taken up again.   *)
(***************************************************************************)

CONSTANTS Events, Unsupported

VARIABLES
    status,   \* "none", "pending", "complete" or "abandoned"
    received  \* the events that reached every receiver

vars == <<status, received>>

Init ==
    /\ status = [e \in Events |-> "none"]
    /\ received = {}

Submit(S) ==
    /\ \A e \in S : status[e] = "none"
    /\ status' = [e \in Events |-> IF e \in S THEN "pending" ELSE status[e]]
    /\ UNCHANGED received

Receive(e) ==
    /\ status[e] # "none"
    /\ e \notin Unsupported
    /\ received' = received \union {e}
    /\ UNCHANGED status

Complete(e) ==
    /\ status[e] \in {"pending", "abandoned"}
    /\ e \in received \union Unsupported
    /\ status' = [status EXCEPT ![e] = "complete"]
    /\ UNCHANGED received

(* An attempt has failed: one of the last, or not. *)
Reschedule(e) ==
    /\ status[e] \in {"pending", "abandoned"}
    /\ e \notin Unsupported
    /\ \E now \in {"pending", "abandoned"} : status' = [status EXCEPT ![e] = now]
    /\ UNCHANGED received

Next ==
    \/ \E S \in SUBSET Events : Submit(S)
    \/ \E e \in Events : Receive(e) \/ Complete(e) \/ Reschedule(e)

Spec == Init /\ [][Next]_vars
=============================================================================
