---------------------------- MODULE VirtualClock ----------------------------
(***************************************************************************)
(* The virtual clock of several app instances (internal/clock): an offset  *)
(* to real time in each instance's memory, a Redis key that keeps it over  *)
(* restarts, and a Redis channel that carries changes to all instances,    *)
(* the sender included.                                                    *)
(*                                                                         *)
(* A request changes the memory under the mutex and then, without it,      *)
(* saves and publishes the offset it computed: requests overtake each      *)
(* other, and messages arrive whenever they arrive.  Real time itself is   *)
(* the same everywhere and left out.  Nothing registers a listener.        *)
(***************************************************************************)
EXTENDS Integers, Sequences, SequencesExt

CONSTANTS
    Instances,
    MaxRequests, \* bound: calls of Advance, SetTime and Reset
    Durations,   \* arguments of Advance
    Targets,     \* offsets that SetTime may ask for
    MaxFailures, \* bound: Redis calls that fail, connections that drop
    MaxRestarts  \* bound: restarts of instances

ASSUME ConstantsAssumption ==
    /\ MaxRequests \in Nat
    /\ Durations \subseteq Int
    /\ Targets \subseteq Int
    /\ MaxFailures \in Nat
    /\ MaxRestarts \in Nat

Requests == 1..MaxRequests \* numbered as they are made

VARIABLES
    offset,    \* VirtualClock.offset of each instance
    link,      \* the instance's subscription to clock:offset_changed
    inbox,     \* messages on their way to the sync goroutine of each instance
    stored,    \* the key virtual_clock_offset, 0 when absent
    request,
    published, \* history: the offset published last
    stray,     \* history: since then a change was not announced, or a message missed
    wanted,    \* history: the offset that follows from the requests as made
    serial,    \* history: since the last absolute change no request began while
               \* another was under way, or on an instance that lagged, or failed
    failures,
    restarts

vars == <<offset, link, inbox, stored, request, published, stray, wanted,
          serial, failures, restarts>>
redis == <<stored, published>>
bounds == <<failures, restarts>>

-----------------------------------------------------------------------------
(* A request knows the offset it computed, and not those of others. *)
Kinds == {"advance", "set", "reset"}
Change(i, k, o) == [step |-> "save", instance |-> i, kind |-> k, offset |-> o]
NoChange == [step |-> "new"]
Done == [step |-> "done"]

UnderWay == {r \in Requests : request[r].step \in {"save", "publish"}}
Subscribed == {i \in Instances : link[i] = "up"}

(* What the instance's offset will be once its inbox is empty. *)
Heading(i) == IF inbox[i] = <<>> THEN offset[i] ELSE Last(inbox[i])

Init ==
    /\ offset = [i \in Instances |-> 0]
    /\ link = [i \in Instances |-> "up"]
    /\ inbox = [i \in Instances |-> <<>>]
    /\ stored = 0
    /\ request = [r \in Requests |-> NoChange]
    /\ published = 0
    /\ stray = FALSE
    /\ wanted = 0
    /\ serial = TRUE
    /\ failures = 0
    /\ restarts = 0

Fail == failures < MaxFailures /\ failures' = failures + 1 /\ UNCHANGED restarts

-----------------------------------------------------------------------------
(* The critical section of Advance, SetTime and Reset. *)
ChangeMemory(i, r, kind, o) ==
    /\ request[r] = NoChange
    /\ \A q \in 1..(r - 1) : request[q] # NoChange
    /\ offset' = [offset EXCEPT ![i] = o]
    /\ request' = [request EXCEPT ![r] = Change(i, kind, o)]
    /\ UNCHANGED <<link, inbox, redis, stray, bounds>>

Lags(i) == link[i] # "up" \/ inbox[i] # <<>> \/ stray

Advance(i, r) == \E d \in Durations :
    /\ ChangeMemory(i, r, "advance", offset[i] + d)
    /\ wanted' = wanted + d
    /\ serial' = (serial /\ UnderWay = {} /\ ~Lags(i))

SetTime(i, r) == \E t \in Targets :
    /\ ChangeMemory(i, r, "set", t)
    /\ wanted' = t
    /\ serial' = (UnderWay = {})

Reset(i, r) ==
    /\ ChangeMemory(i, r, "reset", 0)
    /\ wanted' = 0
    /\ serial' = (UnderWay = {})

(* SaveOffset *)
Save(r) ==
    /\ request[r].step = "save"
    /\ stored' = request[r].offset
    /\ request' = [request EXCEPT ![r].step = "publish"]
    /\ UNCHANGED <<offset, link, inbox, published, stray, wanted, serial, bounds>>

(* (Slip: the early return leaves the request in a step nobody leaves.) *)
SaveFailsHalfway(r) ==
    /\ request[r].step = "save"
    /\ Fail
    /\ request' = [request EXCEPT ![r].step = "failed"]
    /\ serial' = FALSE
    /\ stray' = TRUE
    /\ UNCHANGED <<offset, link, inbox, redis, wanted>>

(* An error, of a SET that took effect or did not.  Reset only logs it; the *)
(* others answer with it and leave the memory changed.                      *)
SaveFails(r) ==
    /\ request[r].step = "save"
    /\ Fail
    /\ stored' \in {stored, request[r].offset}
    /\ serial' = FALSE
    /\ IF request[r].kind = "reset"
       THEN request' = [request EXCEPT ![r].step = "publish"] /\ UNCHANGED stray
       ELSE request' = [request EXCEPT ![r] = Done] /\ stray' = TRUE
    /\ UNCHANGED <<offset, link, inbox, published, wanted>>

(* PublishOffsetChanged: Redis hands the message to whoever is connected. *)
Announce(o) == inbox' = [i \in Instances |->
    IF link[i] = "up" THEN Append(inbox[i], o) ELSE inbox[i]]

(* (Slip: the instance does not send its change to itself, since its own *)
(* memory has it already.)                                               *)
PublishToOthers(r) ==
    /\ request[r].step = "publish"
    /\ inbox' = [i \in Instances |->
         IF link[i] = "up" /\ i # request[r].instance
         THEN Append(inbox[i], request[r].offset) ELSE inbox[i]]
    /\ published' = request[r].offset
    /\ stray' = FALSE
    /\ request' = [request EXCEPT ![r] = Done]
    /\ UNCHANGED <<offset, link, stored, wanted, serial, bounds>>

Publish(r) ==
    /\ request[r].step = "publish"
    /\ Announce(request[r].offset)
    /\ published' = request[r].offset
    /\ stray' = FALSE
    /\ request' = [request EXCEPT ![r] = Done]
    /\ UNCHANGED <<offset, link, stored, wanted, serial, bounds>>

PublishFails(r) ==
    /\ request[r].step = "publish"
    /\ Fail
    /\ stray' = TRUE
    /\ serial' = FALSE
    /\ request' = [request EXCEPT ![r] = Done]
    /\ UNCHANGED <<offset, link, inbox, redis, wanted>>

-----------------------------------------------------------------------------
(* (Slip: messages that would set the clock back are taken for old ones.) *)
SyncForwardOnly(i) ==
    /\ inbox[i] # <<>>
    /\ offset' = [offset EXCEPT ![i] = IF Head(inbox[i]) > @ THEN Head(inbox[i]) ELSE @]
    /\ inbox' = [inbox EXCEPT ![i] = Tail(@)]
    /\ UNCHANGED <<link, redis, request, stray, wanted, serial, bounds>>

(* The goroutine of StartSync takes the offset that arrives, whatever it is. *)
Sync(i) ==
    /\ inbox[i] # <<>>
    /\ offset' = [offset EXCEPT ![i] = Head(inbox[i])]
    /\ inbox' = [inbox EXCEPT ![i] = Tail(@)]
    /\ UNCHANGED <<link, redis, request, stray, wanted, serial, bounds>>

(* The connection drops, and the client library subscribes again: what was *)
(* published meanwhile is gone.                                            *)
Disconnect(i) ==
    /\ link[i] = "up"
    /\ Fail
    /\ link' = [link EXCEPT ![i] = "down"]
    /\ UNCHANGED <<offset, inbox, redis, request, stray, wanted, serial>>

Connect(i) ==
    /\ link' = [link EXCEPT ![i] = "up"]
    /\ stray' = (stray \/ Heading(i) # published)
    /\ UNCHANGED <<offset, inbox, redis, request, wanted, serial, bounds>>
Reconnect(i) == link[i] = "down" /\ Connect(i)
StartSync(i) == link[i] = "off" /\ Connect(i)

(* The instance dies, its requests with it, and starts again: what it knows *)
(* is the key (NewVirtualClock), until StartSync nothing else.              *)
Restart(i) == LET dead == {r \in UnderWay : request[r].instance = i} IN
    /\ restarts < MaxRestarts
    /\ restarts' = restarts + 1
    /\ offset' = [offset EXCEPT ![i] = stored]
    /\ link' = [link EXCEPT ![i] = "off"]
    /\ inbox' = [inbox EXCEPT ![i] = <<>>]
    /\ request' = [r \in Requests |-> IF r \in dead THEN Done ELSE request[r]]
    /\ stray' = (stray \/ dead # {})
    /\ serial' = (serial /\ dead = {})
    /\ UNCHANGED <<redis, wanted, failures>>

-----------------------------------------------------------------------------
RequestStep(r) == Save(r) \/ SaveFails(r) \/ Publish(r) \/ PublishFails(r)
Next ==
    \/ \E i \in Instances, r \in Requests : Advance(i, r) \/ SetTime(i, r) \/ Reset(i, r)
    \/ \E r \in Requests : RequestStep(r)
    \/ \E i \in Instances :
         Sync(i) \/ Disconnect(i) \/ Reconnect(i) \/ StartSync(i) \/ Restart(i)

Spec == Init /\ [][Next]_vars

(* A request's Redis calls end, if need be by its five-second timeout; the *)
(* sync goroutine runs; the client library reconnects.                     *)
FairSpec == Spec
    /\ \A r \in Requests : WF_vars(RequestStep(r))
    /\ \A i \in Instances : WF_vars(Sync(i)) /\ WF_vars(Reconnect(i)) /\ WF_vars(StartSync(i))

-----------------------------------------------------------------------------
TypeOK ==
    /\ offset \in [Instances -> Int]
    /\ link \in [Instances -> {"off", "up", "down"}]
    /\ inbox \in [Instances -> Seq(Int)]
    /\ stored \in Int /\ published \in Int /\ wanted \in Int
    /\ request \in [Requests -> {NoChange, Done} \union
          [step : {"save", "publish"}, instance : Instances, kind : Kinds, offset : Int]]
    /\ stray \in BOOLEAN /\ serial \in BOOLEAN
    /\ failures \in 0..MaxFailures /\ restarts \in 0..MaxRestarts

(* Requests that do not overlap, do not fail, and reach instances that have *)
(* applied what was announced before, add up: the saved offset, which a     *)
(* restarted instance takes over, and the clocks are where the requests     *)
(* wanted them (clock.go:29-45, 96-145).                                    *)
SerialChangesAddUp ==
    (serial /\ UnderWay = {}) =>
        /\ stored = wanted
        /\ \A i \in Subscribed : ~stray /\ inbox[i] = <<>> => offset[i] = wanted

(* When all changes are over, every clock that is connected stops at one   *)
(* offset, or a change or message went missing (clock.go:57-79).           *)
ClocksConverge == <>[](stray \/ \A i, j \in Instances : offset[i] = offset[j])

-----------------------------------------------------------------------------
(* What SerialChangesAddUp rests on. *)

(* Of requests that do not overlap one is under way at most, with what is *)
(* wanted, and it saves the offset before it publishes it.                *)
OneChangeAtATime == serial =>
    /\ \A q, r \in UnderWay : q = r
    /\ \A r \in UnderWay : request[r].offset = wanted
    /\ (\A r \in UnderWay : request[r].step = "publish") => stored = wanted

(* What is wanted has been published, once nothing is under way. *)
PublishedIsWanted == serial /\ ~stray /\ UnderWay = {} => published = wanted

(* Whoever is connected is heading for what was published last, save an *)
(* instance that has changed its clock and not yet told the others.     *)
HeadingForPublished == ~stray => \A i \in Subscribed :
    \/ Heading(i) = published
    \/ inbox[i] = <<>> /\ \E r \in UnderWay : request[r].instance = i

(* The inductive invariant. *)
IInv == TypeOK /\ OneChangeAtATime /\ PublishedIsWanted /\ HeadingForPublished
=============================================================================
