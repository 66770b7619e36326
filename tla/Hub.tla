-------------------------------- MODULE Hub --------------------------------
(***************************************************************************)
(* The dashboard feed: ws.Hub's goroutine, which owns the set of clients   *)
(* and a queue of broadcasts, and each client's two goroutines: readPump,  *)
(* which notices that the connection is gone, and writePump, which sends   *)
(* what the hub puts in the client's channel.                              *)
(*                                                                         *)
(* Messages are numbered in the order in which the queue accepts them.     *)
(***************************************************************************)
EXTENDS Integers, Sequences, SequencesExt

CONSTANTS
    Clients,      \* dashboards that will ever connect
    MaxMessages,  \* bound: broadcasts accepted
    QueueSize,    \* capacity of Hub.broadcast (256)
    SendBuffer    \* sendBufferSize (64)

ASSUME HubAssumption ==
    MaxMessages \in Nat /\ QueueSize \in Nat \ {0} /\ SendBuffer \in Nat \ {0}

Messages == 1..MaxMessages

VARIABLES
    up,        \* the process runs its goroutines
    accepted,  \* broadcasts accepted so far
    broadcast, \* Hub.broadcast
    clients,   \* Hub.clients
    client     \* the Client structs, their connections and goroutines

hub == <<accepted, broadcast, clients, client>>

-----------------------------------------------------------------------------
Client == [
    conn   : {"none", "open", "broken", "closed"}, \* broken: the peer is gone
    reader : {"none", "register", "reading", "unregister", "close", "returned"},
    writer : {"none", "pumping", "returned"},
    send   : Seq(Messages),   \* Client.send
    sealed : BOOLEAN,         \* close(c.send)
    got    : Seq(Messages),   \* history: what the dashboard received
    missed : SUBSET Messages, \* history: dropped because send was full
    since  : 0..MaxMessages]  \* history: the last message before registering

Unconnected == [
    conn |-> "none", reader |-> "none", writer |-> "none", send |-> <<>>,
    sealed |-> FALSE, got |-> <<>>, missed |-> {}, since |-> 0]

HubInit ==
    /\ accepted = 0 /\ broadcast = <<>> /\ clients = {}
    /\ client = [c \in Clients |-> Unconnected]

HandedOut == accepted - Len(broadcast)

(* Any goroutine's call; a full queue drops the event with a warning. *)
Broadcast ==
    /\ up /\ accepted < MaxMessages
    /\ Len(broadcast) < QueueSize
    /\ accepted' = accepted + 1
    /\ broadcast' = Append(broadcast, accepted')
    /\ UNCHANGED <<up, clients, client>>

(* DashboardHandler.ServeWS up to the send on h.register. *)
ServeWS(c) ==
    /\ up /\ client[c].reader = "none"
    /\ client' = [client EXCEPT ![c].conn = "open", ![c].reader = "register"]
    /\ UNCHANGED <<up, accepted, broadcast, clients>>

(* The hub receives from h.register; Serve goes on to start both pumps. *)
Register(c) ==
    /\ up /\ client[c].reader = "register"
    /\ clients' = clients \union {c}
    /\ client' = [client EXCEPT ![c].reader = "reading", ![c].writer = "pumping",
                               ![c].since = HandedOut]
    /\ UNCHANGED <<up, accepted, broadcast>>

(* The browser closes the page, stops reading or answering pings, or the   *)
(* network loses it.                                                       *)
PeerGoes(c) ==
    /\ up /\ client[c].conn = "open"
    /\ client' = [client EXCEPT ![c].conn = "broken"]
    /\ UNCHANGED <<up, accepted, broadcast, clients>>

(* Slip: readPump returns without h.unregister <- c. *)
ReadFailsSilently(c) ==
    /\ up /\ client[c].reader = "reading"
    /\ client[c].conn \in {"broken", "closed"}
    /\ client' = [client EXCEPT ![c].reader = "close"]
    /\ UNCHANGED <<up, accepted, broadcast, clients>>

(* ReadMessage returns an error: the close frame, the read deadline that   *)
(* no pong has moved, or the connection closed by writePump.               *)
ReadFails(c) ==
    /\ up /\ client[c].reader = "reading"
    /\ client[c].conn \in {"broken", "closed"}
    /\ client' = [client EXCEPT ![c].reader = "unregister"]
    /\ UNCHANGED <<up, accepted, broadcast, clients>>

Unregister(c) ==
    /\ up /\ client[c].reader = "unregister"
    /\ clients' = clients \ {c}
    /\ client' = [client EXCEPT ![c].reader = "close", ![c].sealed = TRUE]
    /\ UNCHANGED <<up, accepted, broadcast>>

ReaderCloses(c) ==
    /\ up /\ client[c].reader = "close"
    /\ client' = [client EXCEPT ![c].reader = "returned", ![c].conn = "closed"]
    /\ UNCHANGED <<up, accepted, broadcast, clients>>

Offer(k, m) ==
    IF Len(k.send) < SendBuffer
    THEN [k EXCEPT !.send = Append(@, m)]
    ELSE [k EXCEPT !.missed = @ \union {m}]

(* Slip: an event that found a channel full goes back into the queue. *)
HandOutAgain ==
    /\ up /\ broadcast # <<>>
    /\ LET m == Head(broadcast)
           full == {c \in clients : Len(client[c].send) = SendBuffer}
       IN  /\ broadcast' = IF full = {} THEN Tail(broadcast) ELSE Append(Tail(broadcast), m)
           /\ client' = [c \in Clients |->
                  IF c \in clients \ full THEN Offer(client[c], m) ELSE client[c]]
    /\ UNCHANGED <<up, accepted, clients>>

HandOut ==
    /\ up /\ broadcast # <<>>
    /\ broadcast' = Tail(broadcast)
    /\ client' = [c \in Clients |->
           IF c \in clients THEN Offer(client[c], Head(broadcast)) ELSE client[c]]
    /\ UNCHANGED <<up, accepted, clients>>

Write(c) ==
    /\ up /\ client[c].writer = "pumping" /\ client[c].conn = "open"
    /\ client[c].send # <<>>
    /\ client' = [client EXCEPT ![c].got = Append(@, Head(client[c].send)),
                               ![c].send = Tail(client[c].send)]
    /\ UNCHANGED <<up, accepted, broadcast, clients>>

(* A write that reaches nobody and reports no error yet. *)
WriteIsLost(c) ==
    /\ up /\ client[c].writer = "pumping" /\ client[c].conn = "broken"
    /\ client[c].send # <<>>
    /\ client' = [client EXCEPT ![c].send = Tail(client[c].send)]
    /\ UNCHANGED <<up, accepted, broadcast, clients>>

(* A message or a ping: the deadline passes or the connection is closed. *)
WriteFails(c) ==
    /\ up /\ client[c].writer = "pumping"
    /\ client[c].conn \in {"broken", "closed"}
    /\ \E rest \in {client[c].send} \union {Tail(s) : s \in {client[c].send} \ {<<>>}} :
           client' = [client EXCEPT ![c].writer = "returned", ![c].conn = "closed", ![c].send = rest]
    /\ UNCHANGED <<up, accepted, broadcast, clients>>

(* send is closed and empty: the close frame is written. *)
SendClosed(c) ==
    /\ up /\ client[c].writer = "pumping"
    /\ client[c].sealed /\ client[c].send = <<>>
    /\ client' = [client EXCEPT ![c].writer = "returned", ![c].conn = "closed"]
    /\ UNCHANGED <<up, accepted, broadcast, clients>>

HubStep ==
    \/ HandOut
    \/ \E c \in Clients :
        \/ Register(c) \/ Unregister(c)
        \/ PeerGoes(c) \/ ReadFails(c) \/ ReaderCloses(c)
        \/ Write(c) \/ WriteIsLost(c) \/ WriteFails(c) \/ SendClosed(c)

-----------------------------------------------------------------------------
HubTypeOK ==
    /\ accepted \in 0..MaxMessages
    /\ broadcast \in Seq(Messages) /\ Len(broadcast) <= QueueSize
    /\ clients \subseteq Clients
    /\ client \in [Clients -> Client]
    /\ \A c \in Clients : Len(client[c].send) <= SendBuffer

(* Run never sends on a channel it has closed (that would panic and take   *)
(* the process down), and what a dashboard sees while its connection is up *)
(* is every message handed out since it was registered, in order, except   *)
(* those that found its channel full: none is repeated, none overtakes     *)
(* another (hub.go:46-78, client.go:36-93).                                *)
FeedIsComplete ==
    \A c \in clients :
        LET seen == client[c].got \o client[c].send
        IN  /\ ~client[c].sealed
            /\ client[c].conn = "open" =>
                  /\ \A i, j \in 1..Len(seen) : i < j => seen[i] < seen[j]
                  /\ Range(seen) \union client[c].missed = (client[c].since + 1)..HandedOut

(* What makes it inductive: the queue holds the numbers that follow those *)
(* handed out, and a client has seen nothing before it is registered.     *)
(* Checked as a part of App's IInv.                                       *)
HubInv ==
    /\ Len(broadcast) <= accepted
    /\ \A i \in 1..Len(broadcast) : broadcast[i] = HandedOut + i
    /\ \A c \in Clients :
        /\ client[c].since <= HandedOut
        /\ client[c].reader \in {"none", "register"} =>
              /\ client[c].got = <<>> /\ client[c].send = <<>>
              /\ client[c].missed = {} /\ ~client[c].sealed
        /\ c \in clients => client[c].reader \in {"reading", "unregister"}
    /\ FeedIsComplete

(* A dashboard whose peer is gone leaves the hub and both its goroutines   *)
(* return, however the reader's, the writer's and the hub's steps fall.    *)
GoneAreReleased ==
    \A c \in Clients :
        client[c].conn = "broken" ~>
            \/ ~up
            \/ c \notin clients /\ client[c].reader = "returned" /\ client[c].writer = "returned"
=============================================================================
