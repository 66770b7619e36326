----------------------------- MODULE AppProofs -----------------------------
(***************************************************************************)
(* App and Hub, for any numbers of dashboards, requests and goroutines and *)
(* any capacities.  The hub's invariant is one of each client, which a     *)
(* step of another client cannot touch; the shutdown's says, for each      *)
(* stage main has reached, what has ended or outlasted its deadline.       *)
(***************************************************************************)
EXTENDS App, SequenceTheorems, TLAPS

LEMMA RangeOfAppend ==
  ASSUME NEW S, NEW seq \in Seq(S), NEW e \in S
  PROVE  Range(Append(seq, e)) = Range(seq) \union {e}
  <1>1. /\ Append(seq, e) \in Seq(S)
        /\ Len(Append(seq, e)) = Len(seq) + 1
        /\ \A i \in 1..Len(seq) : Append(seq, e)[i] = seq[i]
        /\ Append(seq, e)[Len(seq) + 1] = e
    BY AppendProperties
  <1>2. /\ Len(seq) \in Nat /\ DOMAIN seq = 1..Len(seq)
        /\ DOMAIN Append(seq, e) = 1..(Len(seq) + 1)
    BY <1>1, LenProperties
  <1>3. ASSUME NEW x \in Range(Append(seq, e)) PROVE x \in Range(seq) \union {e}
    BY <1>1, <1>2 DEF Range
  <1>4. ASSUME NEW x \in Range(seq) \union {e} PROVE x \in Range(Append(seq, e))
    <2>1. CASE x = e
      BY <1>1, <1>2, <2>1 DEF Range
    <2>2. CASE x \in Range(seq)
      <3>1. PICK i \in 1..Len(seq) : seq[i] = x
        BY <1>2, <2>2 DEF Range
      <3> QED BY <1>1, <1>2, <3>1 DEF Range
    <2> QED BY <2>1, <2>2
  <1> QED BY <1>3, <1>4

LEMMA SequenceElements ==
  ASSUME NEW S, NEW seq \in Seq(S)
  PROVE  /\ Len(seq) \in Nat
         /\ \A i \in 1..Len(seq) : seq[i] \in S /\ seq[i] \in Range(seq)
         /\ \A x \in Range(seq) : \E i \in 1..Len(seq) : seq[i] = x
  <1>1. Len(seq) \in Nat /\ DOMAIN seq = 1..Len(seq) /\ seq \in [1..Len(seq) -> S]
    BY LenProperties
  <1> QED BY <1>1 DEF Range

LEMMA RangeOfEmpty == ASSUME NEW seq, seq = <<>> PROVE Range(seq) = {}
  BY DEF Range

(* Reading the next element. *)
LEMMA ReadOn ==
  ASSUME NEW S, NEW s \in Seq(S), NEW t \in Seq(S), t # <<>>
  PROVE  Append(s, Head(t)) \o Tail(t) = s \o t
  <1> DEFINE e == Head(t)
  <1>1. /\ e \in S /\ Tail(t) \in Seq(S) /\ Len(Tail(t)) = Len(t) - 1 /\ e = t[1]
        /\ \A i \in 1..Len(Tail(t)) : Tail(t)[i] = t[i + 1]
    BY HeadTailProperties
  <1> HIDE DEF e
  <1>2. /\ Append(s, e) \in Seq(S) /\ Len(Append(s, e)) = Len(s) + 1
        /\ \A i \in 1..Len(s) : Append(s, e)[i] = s[i]
        /\ Append(s, e)[Len(s) + 1] = e
    BY <1>1, AppendProperties
  <1>3. Len(s) \in Nat /\ Len(t) \in Nat /\ Len(t) >= 1
    BY LenProperties, EmptySeq
  <1> DEFINE l == Append(s, e) \o Tail(t)
             r == s \o t
  <1>4. /\ l \in Seq(S) /\ Len(l) = Len(s) + Len(t)
        /\ \A i \in 1..(Len(s) + Len(t)) :
              l[i] = IF i <= Len(s) + 1 THEN Append(s, e)[i] ELSE Tail(t)[i - (Len(s) + 1)]
    <2>1. /\ l \in Seq(S) /\ Len(l) = Len(Append(s, e)) + Len(Tail(t))
          /\ \A i \in 1..(Len(Append(s, e)) + Len(Tail(t))) :
                l[i] = IF i <= Len(Append(s, e)) THEN Append(s, e)[i]
                       ELSE Tail(t)[i - Len(Append(s, e))]
      BY <1>1, <1>2, ConcatProperties
    <2> QED BY <1>1, <1>2, <1>3, <2>1
  <1>5. /\ r \in Seq(S) /\ Len(r) = Len(s) + Len(t)
        /\ \A i \in 1..(Len(s) + Len(t)) :
              r[i] = IF i <= Len(s) THEN s[i] ELSE t[i - Len(s)]
    BY ConcatProperties
  <1> HIDE DEF l, r
  <1>6. ASSUME NEW i \in 1..(Len(s) + Len(t)) PROVE l[i] = r[i]
    <2>1. CASE i <= Len(s)
      BY <1>2, <1>3, <1>4, <1>5, <2>1
    <2>2. CASE i = Len(s) + 1
      BY <1>1, <1>2, <1>3, <1>4, <1>5, <2>2
    <2>3. CASE i > Len(s) + 1
      <3>1. i - (Len(s) + 1) \in 1..Len(Tail(t)) /\ (i - (Len(s) + 1)) + 1 = i - Len(s)
        BY <1>1, <1>3, <2>3
      <3>2. Tail(t)[i - (Len(s) + 1)] = t[i - Len(s)]
        BY <1>1, <3>1
      <3> QED BY <1>3, <1>4, <1>5, <2>3, <3>2
    <2> QED BY <1>3, <2>1, <2>2, <2>3
  <1>7. l = r
    BY <1>3, <1>4, <1>5, <1>6, SeqEqual
  <1> QED BY <1>7 DEF l, r, e

(* Writing one more element. *)
LEMMA AppendToLast ==
  ASSUME NEW S, NEW s \in Seq(S), NEW t \in Seq(S), NEW e \in S
  PROVE  s \o Append(t, e) = Append(s \o t, e)
  <1> DEFINE u == <<e>>
  <1>1. u \in Seq(S)
    OBVIOUS
  <1>2. s \o t \in Seq(S)
    BY ConcatProperties
  <1>3. Append(t, e) = t \o u /\ Append(s \o t, e) = (s \o t) \o u
    BY <1>2, AppendIsConcat
  <1> HIDE DEF u
  <1>4. (s \o t) \o u = s \o (t \o u)
    BY <1>1, ConcatAssociative
  <1> QED BY <1>3, <1>4

-----------------------------------------------------------------------------
(* The hub: one client at a time. *)

Increasing(seen) == \A i, j \in 1..Len(seen) : i < j => seen[i] < seen[j]
Feed(k, n) ==
    /\ Increasing(k.got \o k.send)
    /\ Range(k.got \o k.send) \union k.missed = (k.since + 1)..n
ClientOK(k, isIn, n) ==
    /\ k.since <= n /\ Len(k.send) <= SendBuffer
    /\ k.reader \in {"none", "register"} =>
          k.got = <<>> /\ k.send = <<>> /\ k.missed = {} /\ ~k.sealed
    /\ isIn => /\ k.reader \in {"reading", "unregister"} /\ ~k.sealed
               /\ k.conn = "open" => Feed(k, n)
QueueOK ==
    /\ accepted \in 0..MaxMessages
    /\ broadcast \in Seq(Messages) /\ Len(broadcast) <= QueueSize
    /\ Len(broadcast) <= accepted
    /\ \A i \in 1..Len(broadcast) : broadcast[i] = HandedOut + i
ClientsOK ==
    /\ clients \subseteq Clients /\ client \in [Clients -> Client]
    /\ \A c \in Clients : ClientOK(client[c], c \in clients, HandedOut)

LEMMA HubByClient == HubTypeOK /\ HubInv <=> QueueOK /\ ClientsOK
  BY DEF HubTypeOK, HubInv, FeedIsComplete, QueueOK, ClientsOK, ClientOK, Feed, Increasing

LEMMA QueueFacts ==
  ASSUME QueueOK
  PROVE  accepted \in Nat /\ Len(broadcast) \in Nat /\ HandedOut \in Nat
  BY LenProperties, HubAssumption DEF QueueOK, HandedOut

LEMMA NewClient ==
  Unconnected \in Client /\ \A n \in Nat : ClientOK(Unconnected, FALSE, n)
  <1>1. <<>> \in Seq(Messages) /\ Len(<<>>) = 0
    BY EmptySeq
  <1> QED BY <1>1, HubAssumption DEF Unconnected, Client, ClientOK

(* A step of one client. *)
LEMMA OneClientKeeps ==
  ASSUME QueueOK, ClientsOK, NEW c \in Clients, NEW k \in Client,
         client' = [client EXCEPT ![c] = k], UNCHANGED <<accepted, broadcast>>,
         clients' \subseteq Clients, \A d \in Clients \ {c} : d \in clients' <=> d \in clients,
         ClientOK(k, c \in clients', HandedOut)
  PROVE  QueueOK' /\ ClientsOK'
  <1>1. HandedOut' = HandedOut
    BY DEF HandedOut
  <1>2. QueueOK'
    BY <1>1 DEF QueueOK
  <1>3. /\ client' \in [Clients -> Client] /\ client'[c] = k
        /\ \A d \in Clients \ {c} : client'[d] = client[d]
    BY DEF ClientsOK
  <1>4. ASSUME NEW d \in Clients PROVE ClientOK(client'[d], d \in clients', HandedOut')
    <2>1. CASE d = c
      BY <1>1, <1>3, <2>1
    <2>2. CASE d # c
      <3>1. ClientOK(client[d], d \in clients, HandedOut) /\ client'[d] = client[d]
        BY <1>3, <2>2 DEF ClientsOK
      <3>2. d \in clients' <=> d \in clients
        BY <2>2
      <3> QED BY <1>1, <3>1, <3>2 DEF ClientOK
    <2> QED BY <2>1, <2>2
  <1> QED BY <1>2, <1>3, <1>4 DEF ClientsOK

LEMMA ClientBefore ==
  ASSUME ClientsOK, NEW c \in Clients
  PROVE  /\ client[c] \in Client /\ ClientOK(client[c], c \in clients, HandedOut)
         /\ client \in [Clients -> Client] /\ clients \subseteq Clients
  BY DEF ClientsOK

LEMMA BroadcastKeeps ==
  ASSUME QueueOK, ClientsOK, Broadcast
  PROVE  QueueOK' /\ ClientsOK'
  <1>1. /\ accepted < MaxMessages /\ Len(broadcast) < QueueSize
        /\ accepted' = accepted + 1 /\ broadcast' = Append(broadcast, accepted + 1)
        /\ UNCHANGED <<clients, client>>
    BY DEF Broadcast
  <1>2. accepted \in Nat /\ Len(broadcast) \in Nat /\ broadcast \in Seq(Messages)
    BY QueueFacts DEF QueueOK
  <1>3. accepted + 1 \in Messages
    BY <1>1, <1>2, HubAssumption DEF Messages
  <1>4. /\ broadcast' \in Seq(Messages) /\ Len(broadcast') = Len(broadcast) + 1
        /\ \A i \in 1..Len(broadcast) : broadcast'[i] = broadcast[i]
        /\ broadcast'[Len(broadcast) + 1] = accepted + 1
    BY <1>1, <1>2, <1>3, AppendProperties
  <1>5. HandedOut' = HandedOut /\ HandedOut = accepted - Len(broadcast)
    BY <1>1, <1>2, <1>4 DEF HandedOut
  <1>6. ASSUME NEW i \in 1..Len(broadcast') PROVE broadcast'[i] = HandedOut' + i
    <2>1. CASE i \in 1..Len(broadcast)
      BY <1>4, <1>5, <2>1 DEF QueueOK
    <2>2. CASE i = Len(broadcast) + 1
      BY <1>2, <1>4, <1>5, <2>2
    <2> QED BY <1>2, <1>4, <2>1, <2>2
  <1>7. QueueOK'
    BY <1>1, <1>2, <1>4, <1>6, HubAssumption DEF QueueOK
  <1>8. ClientsOK'
    BY <1>1, <1>5 DEF ClientsOK
  <1> QED BY <1>7, <1>8

LEMMA ServeWSKeeps ==
  ASSUME QueueOK, ClientsOK, NEW c \in Clients, ServeWS(c)
  PROVE  QueueOK' /\ ClientsOK'
  <1> DEFINE k == [client[c] EXCEPT !.conn = "open", !.reader = "register"]
  <1>1. /\ client' = [client EXCEPT ![c] = k] /\ UNCHANGED <<accepted, broadcast, clients>>
        /\ client[c].reader = "none"
    BY ClientBefore DEF ServeWS
  <1>2. /\ k \in Client /\ k.send = client[c].send /\ k.got = client[c].got
        /\ k.missed = client[c].missed /\ k.sealed = client[c].sealed
        /\ k.since = client[c].since /\ k.reader = "register"
    BY ClientBefore DEF Client
  <1> HIDE DEF k
  <1>3. c \notin clients /\ c \notin clients'
    BY <1>1, ClientBefore DEF ClientOK
  <1>4. ClientOK(k, c \in clients', HandedOut)
    BY <1>1, <1>2, <1>3, ClientBefore DEF ClientOK
  <1> QED BY <1>1, <1>2, <1>4, ClientBefore, OneClientKeeps

(* The step of a client that is registered or that has left. *)
LEMMA RegisterKeeps ==
  ASSUME QueueOK, ClientsOK, NEW c \in Clients, Register(c)
  PROVE  QueueOK' /\ ClientsOK'
  <1> DEFINE k == [client[c] EXCEPT !.reader = "reading", !.writer = "pumping",
                                    !.since = HandedOut]
  <1>1. /\ client' = [client EXCEPT ![c] = k] /\ UNCHANGED <<accepted, broadcast>>
        /\ client[c].reader = "register" /\ clients' = clients \union {c}
    BY ClientBefore DEF Register
  <1>2. HandedOut \in 0..MaxMessages
    BY QueueFacts, HubAssumption DEF QueueOK, HandedOut
  <1>3. /\ k \in Client /\ k.since = HandedOut /\ k.send = client[c].send
        /\ k.got = client[c].got /\ k.missed = client[c].missed
        /\ k.sealed = client[c].sealed /\ k.reader = "reading"
    BY <1>2, ClientBefore DEF Client
  <1>4. k.got = <<>> /\ k.send = <<>> /\ k.missed = {} /\ ~k.sealed
    BY <1>1, <1>3, ClientBefore DEF ClientOK
  <1> HIDE DEF k
  <1>5. k.got \o k.send = <<>> /\ Len(<<>>) = 0
    <2>1. <<>> \in Seq(Messages) /\ Len(<<>>) = 0
      BY EmptySeq
    <2>2. <<>> \o <<>> = <<>>
      BY <2>1, ConcatEmptySeq
    <2> QED BY <1>4, <2>1, <2>2
  <1>6. Feed(k, HandedOut)
    <2>1. Range(k.got \o k.send) = {}
      BY <1>5, RangeOfEmpty
    <2>2. (k.since + 1)..HandedOut = {}
      BY <1>2, <1>3
    <2>3. Increasing(k.got \o k.send)
      BY <1>5 DEF Increasing
    <2> QED BY <1>4, <2>1, <2>2, <2>3 DEF Feed
  <1>7. ClientOK(k, c \in clients', HandedOut)
    BY <1>2, <1>3, <1>4, <1>5, <1>6, HubAssumption DEF ClientOK
  <1> QED BY <1>1, <1>3, <1>7, ClientBefore, OneClientKeeps

(* A step after which the client is no longer connected, or has not moved *)
(* in what it has seen.                                                   *)
LEMMA QuietStepKeeps ==
  ASSUME QueueOK, ClientsOK, NEW c \in Clients, NEW k \in Client,
         client' = [client EXCEPT ![c] = k], UNCHANGED <<accepted, broadcast>>,
         clients' \in {clients, clients \ {c}},
         k.since = client[c].since, k.missed = client[c].missed,
         k.got = client[c].got, Len(k.send) <= SendBuffer,
         k.conn = "open" => client[c].conn = "open" /\ k.send = client[c].send,
         client[c].reader \in {"none", "register"} => k.send = client[c].send,
         k.reader \in {"none", "register"} =>
            client[c].reader \in {"none", "register"} /\ k.sealed = client[c].sealed,
         c \in clients' => k.reader \in {"reading", "unregister"} /\ k.sealed = client[c].sealed
  PROVE  QueueOK' /\ ClientsOK'
  <1>1. ClientOK(client[c], c \in clients, HandedOut) /\ clients \subseteq Clients
    BY ClientBefore
  <1>2. k.conn = "open" /\ Feed(client[c], HandedOut) => Feed(k, HandedOut)
    BY DEF Feed
  <1>3. ClientOK(k, c \in clients', HandedOut)
    BY <1>1, <1>2 DEF ClientOK
  <1> QED BY <1>1, <1>3, OneClientKeeps

LEMMA PeerGoesKeeps ==
  ASSUME QueueOK, ClientsOK, NEW c \in Clients, PeerGoes(c)
  PROVE  QueueOK' /\ ClientsOK'
  <1> DEFINE k == [client[c] EXCEPT !.conn = "broken"]
  <1>1. /\ client' = [client EXCEPT ![c] = k] /\ UNCHANGED <<accepted, broadcast, clients>>
    BY ClientBefore DEF PeerGoes
  <1>2. /\ k \in Client /\ k.send = client[c].send /\ k.got = client[c].got
        /\ k.missed = client[c].missed /\ k.sealed = client[c].sealed
        /\ k.since = client[c].since /\ k.reader = client[c].reader /\ k.conn = "broken"
    BY ClientBefore DEF Client
  <1> HIDE DEF k
  <1> QED BY <1>1, <1>2, ClientBefore, QuietStepKeeps DEF ClientOK

LEMMA ReadFailsKeeps ==
  ASSUME QueueOK, ClientsOK, NEW c \in Clients, ReadFails(c)
  PROVE  QueueOK' /\ ClientsOK'
  <1> DEFINE k == [client[c] EXCEPT !.reader = "unregister"]
  <1>1. /\ client' = [client EXCEPT ![c] = k] /\ UNCHANGED <<accepted, broadcast, clients>>
        /\ client[c].reader = "reading"
    BY ClientBefore DEF ReadFails
  <1>2. /\ k \in Client /\ k.send = client[c].send /\ k.got = client[c].got
        /\ k.missed = client[c].missed /\ k.sealed = client[c].sealed
        /\ k.since = client[c].since /\ k.reader = "unregister" /\ k.conn = client[c].conn
    BY ClientBefore DEF Client
  <1> HIDE DEF k
  <1> QED BY <1>1, <1>2, ClientBefore, QuietStepKeeps DEF ClientOK

LEMMA UnregisterKeeps ==
  ASSUME QueueOK, ClientsOK, NEW c \in Clients, Unregister(c)
  PROVE  QueueOK' /\ ClientsOK'
  <1> DEFINE k == [client[c] EXCEPT !.reader = "close", !.sealed = TRUE]
  <1>1. /\ client' = [client EXCEPT ![c] = k] /\ UNCHANGED <<accepted, broadcast>>
        /\ clients' = clients \ {c} /\ client[c].reader = "unregister"
    BY ClientBefore DEF Unregister
  <1>2. /\ k \in Client /\ k.send = client[c].send /\ k.got = client[c].got
        /\ k.missed = client[c].missed
        /\ k.since = client[c].since /\ k.reader = "close" /\ k.conn = client[c].conn
    BY ClientBefore DEF Client
  <1> HIDE DEF k
  <1> QED BY <1>1, <1>2, ClientBefore, QuietStepKeeps DEF ClientOK

LEMMA ReaderClosesKeeps ==
  ASSUME QueueOK, ClientsOK, NEW c \in Clients, ReaderCloses(c)
  PROVE  QueueOK' /\ ClientsOK'
  <1> DEFINE k == [client[c] EXCEPT !.reader = "returned", !.conn = "closed"]
  <1>1. /\ client' = [client EXCEPT ![c] = k] /\ UNCHANGED <<accepted, broadcast, clients>>
        /\ client[c].reader = "close"
    BY ClientBefore DEF ReaderCloses
  <1>2. /\ k \in Client /\ k.send = client[c].send /\ k.got = client[c].got
        /\ k.missed = client[c].missed /\ k.sealed = client[c].sealed
        /\ k.since = client[c].since /\ k.reader = "returned" /\ k.conn = "closed"
    BY ClientBefore DEF Client
  <1> HIDE DEF k
  <1>3. c \notin clients'
    BY <1>1, ClientBefore DEF ClientOK
  <1> QED BY <1>1, <1>2, <1>3, ClientBefore, QuietStepKeeps DEF ClientOK

LEMMA TailFits ==
  ASSUME NEW s \in Seq(Messages), s # <<>>, Len(s) <= SendBuffer
  PROVE  Head(s) \in Messages /\ Tail(s) \in Seq(Messages) /\ Len(Tail(s)) <= SendBuffer
  <1>1. /\ Head(s) \in Messages /\ Tail(s) \in Seq(Messages) /\ Len(Tail(s)) = Len(s) - 1
    BY HeadTailProperties
  <1>2. Len(s) \in Nat
    BY LenProperties
  <1> QED BY <1>1, <1>2, HubAssumption

LEMMA WriteKeeps ==
  ASSUME QueueOK, ClientsOK, NEW c \in Clients, Write(c)
  PROVE  QueueOK' /\ ClientsOK'
  <1> DEFINE s == client[c].send
             k == [client[c] EXCEPT !.got = Append(client[c].got, Head(s)), !.send = Tail(s)]
  <1>1. /\ client' = [client EXCEPT ![c] = k] /\ UNCHANGED <<accepted, broadcast, clients>>
        /\ s # <<>>
    BY ClientBefore DEF Write
  <1>2. /\ s \in Seq(Messages) /\ client[c].got \in Seq(Messages) /\ Len(s) <= SendBuffer
    BY ClientBefore DEF Client, ClientOK
  <1>3. Head(s) \in Messages /\ Tail(s) \in Seq(Messages) /\ Len(Tail(s)) <= SendBuffer
    BY <1>1, <1>2, TailFits
  <1>4. Append(client[c].got, Head(s)) \in Seq(Messages)
    BY <1>2, <1>3, AppendProperties
  <1>5. Append(client[c].got, Head(s)) \o Tail(s) = client[c].got \o s
    BY <1>1, <1>2, ReadOn
  <1>6. /\ k \in Client /\ k.send = Tail(s) /\ k.got = Append(client[c].got, Head(s))
        /\ k.missed = client[c].missed /\ k.sealed = client[c].sealed
        /\ k.since = client[c].since /\ k.reader = client[c].reader /\ k.conn = client[c].conn
    BY <1>3, <1>4, ClientBefore DEF Client
  <1> HIDE DEF k
  <1>7. client[c].reader \notin {"none", "register"}
    BY <1>1, ClientBefore DEF ClientOK
  <1>8. Feed(client[c], HandedOut) => Feed(k, HandedOut)
    BY <1>5, <1>6 DEF Feed
  <1>9. ClientOK(k, c \in clients', HandedOut)
    BY <1>1, <1>3, <1>6, <1>7, <1>8, ClientBefore DEF ClientOK
  <1> QED BY <1>1, <1>6, <1>9, ClientBefore, OneClientKeeps

LEMMA WriteIsLostKeeps ==
  ASSUME QueueOK, ClientsOK, NEW c \in Clients, WriteIsLost(c)
  PROVE  QueueOK' /\ ClientsOK'
  <1> DEFINE k == [client[c] EXCEPT !.send = Tail(client[c].send)]
  <1>1. /\ client' = [client EXCEPT ![c] = k] /\ UNCHANGED <<accepted, broadcast, clients>>
        /\ client[c].send # <<>> /\ client[c].conn = "broken"
    BY ClientBefore DEF WriteIsLost
  <1>2. client[c].send \in Seq(Messages) /\ Len(client[c].send) <= SendBuffer
    BY ClientBefore DEF Client, ClientOK
  <1>3. Tail(client[c].send) \in Seq(Messages) /\ Len(Tail(client[c].send)) <= SendBuffer
    BY <1>1, <1>2, TailFits
  <1>4. /\ k \in Client /\ k.send = Tail(client[c].send) /\ k.got = client[c].got
        /\ k.missed = client[c].missed /\ k.sealed = client[c].sealed
        /\ k.since = client[c].since /\ k.reader = client[c].reader /\ k.conn = "broken"
    BY <1>1, <1>3, ClientBefore DEF Client
  <1> HIDE DEF k
  <1>5. client[c].reader \notin {"none", "register"}
    BY <1>1, ClientBefore DEF ClientOK
  <1> QED BY <1>1, <1>3, <1>4, <1>5, ClientBefore, QuietStepKeeps DEF ClientOK

(* The writer returns, whatever of the channel it has read: WriteFails and *)
(* SendClosed.                                                             *)
LEMMA WriterReturnsKeeps ==
  ASSUME QueueOK, ClientsOK, NEW c \in Clients, NEW rest \in Seq(Messages),
         rest = client[c].send \/ (client[c].send # <<>> /\ rest = Tail(client[c].send)),
         client' = [client EXCEPT ![c].writer = "returned", ![c].conn = "closed", ![c].send = rest],
         UNCHANGED <<accepted, broadcast, clients>>
  PROVE  QueueOK' /\ ClientsOK'
  <1> DEFINE k == [client[c] EXCEPT !.writer = "returned", !.conn = "closed", !.send = rest]
  <1>1. client' = [client EXCEPT ![c] = k]
    BY ClientBefore
  <1>2. client[c].send \in Seq(Messages) /\ Len(client[c].send) <= SendBuffer
    BY ClientBefore DEF Client, ClientOK
  <1>3. Len(rest) <= SendBuffer
    BY <1>2, TailFits
  <1>4. /\ k \in Client /\ k.send = rest /\ k.got = client[c].got
        /\ k.missed = client[c].missed /\ k.sealed = client[c].sealed
        /\ k.since = client[c].since /\ k.reader = client[c].reader /\ k.conn = "closed"
    BY ClientBefore DEF Client
  <1> HIDE DEF k
  <1>5. client[c].reader \in {"none", "register"} => k.send = client[c].send
    BY <1>4, ClientBefore DEF ClientOK
  <1>6. c \in clients' => k.reader \in {"reading", "unregister"} /\ k.sealed = client[c].sealed
    BY <1>4, ClientBefore DEF ClientOK
  <1>7. Len(k.send) <= SendBuffer
    BY <1>3, <1>4
  <1>8. UNCHANGED <<accepted, broadcast>> /\ clients' \in {clients, clients \ {c}}
    OBVIOUS
  <1> QED BY <1>1, <1>4, <1>5, <1>6, <1>7, <1>8, QuietStepKeeps

LEMMA WriteFailsKeeps ==
  ASSUME QueueOK, ClientsOK, NEW c \in Clients, WriteFails(c)
  PROVE  QueueOK' /\ ClientsOK'
  <1>1. client[c].send \in Seq(Messages) /\ Len(client[c].send) <= SendBuffer
    BY ClientBefore DEF Client, ClientOK
  <1>2. PICK rest \in {client[c].send} \union {Tail(s) : s \in {client[c].send} \ {<<>>}} :
           client' = [client EXCEPT ![c].writer = "returned", ![c].conn = "closed",
                                    ![c].send = rest]
    BY DEF WriteFails
  <1>3. rest = client[c].send \/ (client[c].send # <<>> /\ rest = Tail(client[c].send))
    BY <1>2
  <1>4. rest \in Seq(Messages)
    BY <1>1, <1>3, TailFits
  <1>5. UNCHANGED <<accepted, broadcast, clients>>
    BY DEF WriteFails
  <1> QED BY <1>2, <1>3, <1>4, <1>5, WriterReturnsKeeps

LEMMA SendClosedKeeps ==
  ASSUME QueueOK, ClientsOK, NEW c \in Clients, SendClosed(c)
  PROVE  QueueOK' /\ ClientsOK'
  <1>1. client[c].send \in Seq(Messages)
    BY ClientBefore DEF Client
  <1>2. client' = [client EXCEPT ![c].writer = "returned", ![c].conn = "closed",
                                 ![c].send = client[c].send]
    BY ClientBefore DEF SendClosed, Client
  <1>3. UNCHANGED <<accepted, broadcast, clients>>
    BY DEF SendClosed
  <1> QED BY <1>1, <1>2, <1>3, WriterReturnsKeeps

(* One more message: whoever has room has seen it, the others have missed it. *)
LEMMA OfferContinues ==
  ASSUME NEW k \in Client, NEW n \in Nat, n + 1 \in Messages, ClientOK(k, TRUE, n)
  PROVE  Offer(k, n + 1) \in Client /\ ClientOK(Offer(k, n + 1), TRUE, n + 1)
  <1> DEFINE m == n + 1
             seen == k.got \o k.send
  <1>1. /\ k.got \in Seq(Messages) /\ k.send \in Seq(Messages) /\ k.missed \subseteq Messages
        /\ k.since \in Nat /\ k.since <= n /\ Len(k.send) <= SendBuffer
        /\ k.reader \in {"reading", "unregister"} /\ ~k.sealed
        /\ k.conn = "open" => Feed(k, n)
    BY HubAssumption DEF Client, ClientOK
  <1>2. (k.since + 1)..m = ((k.since + 1)..n) \union {m}
    BY <1>1
  <1>3. CASE Len(k.send) < SendBuffer
    <2> DEFINE x == [k EXCEPT !.send = Append(k.send, m)]
    <2>1. /\ Offer(k, m) = x
      BY <1>3 DEF Offer
    <2>2. /\ Append(k.send, m) \in Seq(Messages) /\ Len(Append(k.send, m)) = Len(k.send) + 1
      BY <1>1, AppendProperties
    <2>3. /\ x \in Client /\ x.send = Append(k.send, m) /\ x.got = k.got
          /\ x.missed = k.missed /\ x.since = k.since /\ x.reader = k.reader
          /\ x.sealed = k.sealed /\ x.conn = k.conn
      BY <2>2 DEF Client
    <2> HIDE DEF x
    <2>4. Len(x.send) <= SendBuffer
      BY <1>1, <1>3, <2>2, <2>3, LenProperties, HubAssumption
    <2>5. ASSUME k.conn = "open" PROVE Feed(x, m)
      <3>1. seen \in Seq(Messages)
        BY <1>1, ConcatProperties
      <3>2. x.got \o x.send = Append(seen, m)
        <4>1. m \in Messages
          OBVIOUS
        <4> HIDE DEF m
        <4>2. k.got \o Append(k.send, m) = Append(seen, m)
          <5> DEFINE s == k.got
                     t == k.send
          <5>1. s \in Seq(Messages) /\ t \in Seq(Messages)
            BY <1>1
          <5> HIDE DEF s, t
          <5>2. s \o Append(t, m) = Append(s \o t, m)
            BY <4>1, <5>1, AppendToLast
          <5> QED BY <5>2 DEF s, t
        <4>3. x.got \o x.send = k.got \o Append(k.send, m)
          BY <2>3
        <4> QED BY <4>2, <4>3
      <3> HIDE DEF seen
      <3>3. Increasing(seen) /\ Range(seen) \union k.missed = (k.since + 1)..n
        BY <1>1, <2>5 DEF Feed, seen
      <3>4. Range(Append(seen, m)) = Range(seen) \union {m}
        BY <3>1, RangeOfAppend
      <3>5. \A i \in 1..Len(seen) : seen[i] \in Nat /\ seen[i] < m
        <4>1. \A i \in 1..Len(seen) : seen[i] \in Range(seen)
          BY <3>1, SequenceElements
        <4>2. \A y \in Range(seen) : y \in (k.since + 1)..n
          BY <3>3
        <4> QED BY <1>1, <4>1, <4>2
      <3>6. Increasing(Append(seen, m))
        <4>1. /\ Len(seen) \in Nat /\ Len(Append(seen, m)) = Len(seen) + 1
              /\ \A i \in 1..Len(seen) : Append(seen, m)[i] = seen[i]
              /\ Append(seen, m)[Len(seen) + 1] = m
          BY <3>1, AppendProperties, LenProperties
        <4> SUFFICES ASSUME NEW i \in 1..(Len(seen) + 1), NEW j \in 1..(Len(seen) + 1), i < j
                     PROVE  Append(seen, m)[i] < Append(seen, m)[j]
          BY <4>1 DEF Increasing
        <4>2. i \in 1..Len(seen) /\ Append(seen, m)[i] = seen[i]
          BY <4>1
        <4>3. CASE j \in 1..Len(seen)
          BY <3>3, <4>1, <4>2, <4>3 DEF Increasing
        <4>4. CASE j = Len(seen) + 1
          BY <3>5, <4>1, <4>2, <4>4
        <4> QED BY <4>1, <4>3, <4>4
      <3>7. Range(Append(seen, m)) \union k.missed = (k.since + 1)..m
        BY <1>2, <3>3, <3>4
      <3> QED BY <2>3, <3>2, <3>6, <3>7 DEF Feed
    <2>6. ClientOK(x, TRUE, m)
      BY <1>1, <2>3, <2>4, <2>5 DEF ClientOK
    <2> QED BY <2>1, <2>3, <2>6
  <1>4. CASE ~(Len(k.send) < SendBuffer)
    <2> DEFINE x == [k EXCEPT !.missed = k.missed \union {m}]
    <2>1. Offer(k, m) = x
      BY <1>4 DEF Offer
    <2>2. /\ x \in Client /\ x.send = k.send /\ x.got = k.got
          /\ x.missed = k.missed \union {m} /\ x.since = k.since /\ x.reader = k.reader
          /\ x.sealed = k.sealed /\ x.conn = k.conn
      BY DEF Client
    <2> HIDE DEF x
    <2>3. k.conn = "open" => Feed(x, m)
      BY <1>1, <1>2, <2>2 DEF Feed
    <2>4. ClientOK(x, TRUE, m)
      BY <1>1, <2>2, <2>3 DEF ClientOK
    <2> QED BY <2>1, <2>2, <2>4
  <1> QED BY <1>3, <1>4

LEMMA HandOutKeeps ==
  ASSUME QueueOK, ClientsOK, HandOut
  PROVE  QueueOK' /\ ClientsOK'
  <1> DEFINE n == HandedOut
  <1>1. /\ broadcast # <<>> /\ broadcast' = Tail(broadcast) /\ UNCHANGED <<accepted, clients>>
        /\ client' = [c \in Clients |->
              IF c \in clients THEN Offer(client[c], Head(broadcast)) ELSE client[c]]
    BY DEF HandOut
  <1>2. /\ broadcast \in Seq(Messages) /\ accepted \in Nat /\ Len(broadcast) \in Nat
        /\ n \in Nat /\ n = accepted - Len(broadcast) /\ Len(broadcast) >= 1
    BY <1>1, QueueFacts, EmptySeq DEF QueueOK, HandedOut
  <1>3. /\ Head(broadcast) \in Messages /\ Head(broadcast) = broadcast[1]
        /\ broadcast' \in Seq(Messages) /\ Len(broadcast') = Len(broadcast) - 1
        /\ \A i \in 1..Len(broadcast') : broadcast'[i] = broadcast[i + 1]
    BY <1>1, <1>2, HeadTailProperties
  <1>4. HandedOut' = n + 1
    BY <1>1, <1>2, <1>3 DEF HandedOut
  <1>5. Head(broadcast) = n + 1
    BY <1>2, <1>3 DEF QueueOK
  <1> HIDE DEF n
  <1>6. ASSUME NEW i \in 1..Len(broadcast') PROVE broadcast'[i] = HandedOut' + i
    <2>1. i + 1 \in 1..Len(broadcast)
      BY <1>2, <1>3
    <2>2. broadcast[i + 1] = n + (i + 1)
      BY <2>1 DEF QueueOK, n
    <2> QED BY <1>2, <1>3, <1>4, <2>2
  <1>7. QueueOK'
    <2>1. Len(broadcast') <= QueueSize /\ Len(broadcast') <= accepted
      BY <1>2, <1>3, HubAssumption DEF QueueOK
    <2> QED BY <1>1, <1>3, <1>6, <2>1 DEF QueueOK
  <1>8. ASSUME NEW c \in Clients
        PROVE  client'[c] \in Client /\ ClientOK(client'[c], c \in clients', n + 1)
    <2>1. client[c] \in Client /\ ClientOK(client[c], c \in clients, n)
      BY ClientBefore DEF n
    <2>2. CASE c \in clients
      <3>1. client'[c] = Offer(client[c], n + 1)
        BY <1>1, <1>5, <2>2
      <3>2. ClientOK(client[c], TRUE, n)
        BY <2>1, <2>2
      <3>3. Offer(client[c], n + 1) \in Client /\ ClientOK(Offer(client[c], n + 1), TRUE, n + 1)
        BY <1>2, <1>3, <1>5, <2>1, <3>2, OfferContinues
      <3> QED BY <1>1, <2>2, <3>1, <3>3
    <2>3. CASE c \notin clients
      <3>1. client'[c] = client[c] /\ c \notin clients'
        BY <1>1, <2>3
      <3>2. client[c].since \in Nat
        BY <2>1, HubAssumption DEF Client
      <3> QED BY <1>2, <2>1, <2>3, <3>1, <3>2 DEF ClientOK
    <2> QED BY <2>2, <2>3
  <1>9. ClientsOK'
    <2>1. client' \in [Clients -> Client]
      BY <1>1, <1>8
    <2> QED BY <1>1, <1>4, <1>8, <2>1 DEF ClientsOK
  <1> QED BY <1>7, <1>9

(* HubStep, Broadcast and ServeWS. *)
LEMMA DashboardKeeps ==
  ASSUME HubTypeOK, HubInv, Dashboard
  PROVE  HubTypeOK' /\ HubInv'
  <1>1. QueueOK /\ ClientsOK
    BY HubByClient
  <1>2. QueueOK' /\ ClientsOK'
    BY <1>1, HandOutKeeps, RegisterKeeps, UnregisterKeeps, PeerGoesKeeps, ReadFailsKeeps,
       ReaderClosesKeeps, WriteKeeps, WriteIsLostKeeps, WriteFailsKeeps, SendClosedKeeps,
       BroadcastKeeps, ServeWSKeeps DEF Dashboard, HubStep
  <1>3. HubTypeOK' /\ HubInv' <=> QueueOK' /\ ClientsOK'
    BY HubByClient, PTL
  <1> QED BY <1>2, <1>3

-----------------------------------------------------------------------------
(* The process. *)

AppTypes ==
    /\ up = (main \notin {"postgres", "redis", "clock", "exited"})
    /\ main \in {"postgres", "redis", "clock", "run", "stop_http", "stop_outbox",
                 "close_dlq", "close_kafka", "exited"}
    /\ attempt \in Nat /\ lastErr \in BOOLEAN
    /\ main = "postgres" => attempt \in 1..PostgresAttempts
    /\ main = "redis" => attempt \in 1..RedisAttempts
    /\ canceled \in BOOLEAN
    /\ http \in {"off", "serving", "failed", "draining", "stopped"}
    /\ request \in [Requests -> {"none", "active", "answered"}]
    /\ task \in [Tasks -> {"off", "idle", "busy", "ended"}]
    /\ dlq \in {"open", "closed"} /\ kafka \in {"open", "closed"}
    /\ deadlines \subseteq {"drain", "http", "outbox"}
Shutdown ==
    /\ kafka = "closed" => main = "exited"
    /\ http = "stopped" => InFlight = {} \/ "drain" \in deadlines
    /\ After({"stop_http", "stop_outbox", "close_dlq", "close_kafka"}) =>
          http = "stopped" /\ \A t \in Loops : task[t] = "ended"
    /\ After({"stop_outbox", "close_dlq", "close_kafka"}) =>
          InFlight = {} \/ "http" \in deadlines
    /\ After({"close_dlq", "close_kafka"}) =>
          (\A t \in OutboxWorkers : task[t] = "ended") \/ "outbox" \in deadlines
    /\ After({"close_kafka"}) => dlq = "closed"

LEMMA Parts == IInv <=> HubTypeOK /\ HubInv /\ AppTypes /\ Shutdown
  BY DEF IInv, TypeOK, AppTypes, Shutdown

LEMMA InitIInv == Init => IInv
  <1> SUFFICES ASSUME Init PROVE IInv
    OBVIOUS
  <1>1. AppTypes
    <2>1. /\ request \in [Requests -> {"none", "active", "answered"}]
          /\ task \in [Tasks -> {"off", "idle", "busy", "ended"}]
      BY DEF Init
    <2>2. attempt \in Nat /\ attempt \in 1..PostgresAttempts
      BY AppAssumption DEF Init
    <2> QED BY <2>1, <2>2 DEF Init, AppTypes
  <1>2. Shutdown
    BY DEF Init, Shutdown, After
  <1>3. <<>> \in Seq(Messages) /\ Len(<<>>) = 0
    BY EmptySeq
  <1>4. QueueOK /\ HandedOut = 0
    <2>1. accepted = 0 /\ broadcast = <<>> /\ Len(broadcast) = 0
      BY <1>3 DEF Init, HubInit
    <2>2. broadcast \in Seq(Messages)
      BY <1>3, <2>1
    <2>3. HandedOut = 0
      <3>1. HandedOut = accepted - Len(broadcast)
        BY DEF HandedOut
      <3>2. accepted = 0 /\ Len(broadcast) = 0
        BY <2>1
      <3> QED BY <3>1, <3>2
    <2>4. accepted \in 0..MaxMessages /\ Len(broadcast) <= QueueSize /\ Len(broadcast) <= accepted
      BY <2>1, HubAssumption
    <2>5. \A i \in 1..Len(broadcast) : broadcast[i] = HandedOut + i
      BY <2>1
    <2> QED BY <2>2, <2>3, <2>4, <2>5 DEF QueueOK
  <1>5. ClientsOK
    <2>1. /\ clients = {} /\ client = [c \in Clients |-> Unconnected]
      BY DEF Init, HubInit
    <2>2. ASSUME NEW c \in Clients PROVE ClientOK(client[c], c \in clients, HandedOut)
      <3>1. ClientOK(Unconnected, FALSE, 0)
        BY NewClient
      <3>2. client[c] = Unconnected /\ (c \in clients <=> FALSE)
        BY <2>1
      <3> QED BY <1>4, <3>1, <3>2 DEF ClientOK
    <2> QED BY <2>1, <2>2, NewClient DEF ClientsOK
  <1> QED BY <1>1, <1>2, <1>4, <1>5, HubByClient, Parts

LEMMA HubUnchanged ==
  ASSUME HubTypeOK, HubInv, UNCHANGED hub
  PROVE  HubTypeOK' /\ HubInv'
  <1>1. UNCHANGED <<accepted, broadcast, clients, client>> /\ HandedOut' = HandedOut
    BY DEF hub, HandedOut
  <1>2. HubTypeOK'
    BY <1>1 DEF HubTypeOK
  <1>3. FeedIsComplete'
    <2> DEFINE seen(c) == client[c].got \o client[c].send
    <2>1. ASSUME NEW c \in clients PROVE seen(c)' = seen(c)
      BY <1>1
    <2> HIDE DEF seen
    <2>2. FeedIsComplete <=> \A c \in clients :
              /\ ~client[c].sealed
              /\ client[c].conn = "open" =>
                    /\ \A i, j \in 1..Len(seen(c)) : i < j => seen(c)[i] < seen(c)[j]
                    /\ Range(seen(c)) \union client[c].missed = (client[c].since + 1)..HandedOut
      BY DEF FeedIsComplete, seen
    <2>3. FeedIsComplete' <=> \A c \in clients' :
              /\ ~client'[c].sealed
              /\ client'[c].conn = "open" =>
                    /\ \A i, j \in 1..Len(seen(c)') : i < j => seen(c)'[i] < seen(c)'[j]
                    /\ Range(seen(c)') \union client'[c].missed
                          = (client'[c].since + 1)..HandedOut'
      BY DEF FeedIsComplete, seen
    <2> HIDE DEF FeedIsComplete
    <2> QED BY <1>1, <2>1, <2>2, <2>3 DEF HubInv
  <1>4. HubInv'
    BY <1>1, <1>3 DEF HubInv
  <1> QED BY <1>2, <1>4

LEMMA StartupKeeps ==
  ASSUME AppTypes, Shutdown,
         \/ ConnectPostgres \/ PostgresFails \/ PingRedis \/ RedisFails \/ Start \/ NoOffset
         \/ Signal
  PROVE  AppTypes' /\ Shutdown'
  <1> USE DEF AppTypes, Shutdown, After, startup, closers, InFlight
  <1>1. CASE ConnectPostgres
    <2>1. main' = "redis" /\ attempt' = 1 /\ UNCHANGED lastErr
      BY <1>1 DEF ConnectPostgres, GoOn
    <2>2. AppTypes'
      BY <1>1, <2>1, AppAssumption DEF ConnectPostgres, GoOn
    <2> QED BY <1>1, <2>2 DEF ConnectPostgres, GoOn
  <1>2. CASE PostgresFails
    <2>1. /\ attempt \in 1..PostgresAttempts /\ attempt' = attempt + 1 /\ UNCHANGED lastErr
          /\ main' = IF attempt < PostgresAttempts THEN "postgres" ELSE "exited"
      BY <1>2 DEF PostgresFails, GoOn
    <2>2. /\ attempt' \in Nat /\ main' \in {"postgres", "exited"}
          /\ main' = "postgres" => attempt' \in 1..PostgresAttempts
      BY <2>1, AppAssumption
    <2>3. AppTypes'
      BY <1>2, <2>1, <2>2 DEF PostgresFails, GoOn
    <2> QED BY <1>2, <2>2, <2>3 DEF PostgresFails, GoOn
  <1>3. CASE PingRedis
    <2>1. AppTypes'
      BY <1>3 DEF PingRedis, GoOn
    <2> QED BY <1>3, <2>1 DEF PingRedis, GoOn
  <1>4. CASE RedisFails
    <2>1. /\ attempt \in 1..RedisAttempts /\ attempt' = attempt + 1 /\ lastErr' = TRUE
          /\ main' = IF attempt < RedisAttempts THEN "redis" ELSE "exited"
      BY <1>4 DEF RedisFails, GoOn
    <2>2. /\ attempt' \in Nat /\ main' \in {"redis", "exited"}
          /\ main' = "redis" => attempt' \in 1..RedisAttempts
      BY <2>1, AppAssumption
    <2>3. AppTypes'
      BY <1>4, <2>1, <2>2 DEF RedisFails, GoOn
    <2> QED BY <1>4, <2>2, <2>3 DEF RedisFails, GoOn
  <1>5. CASE Start
    BY <1>5 DEF Start
  <1>6. CASE NoOffset
    BY <1>6 DEF NoOffset, GoOn
  <1>7. CASE Signal
    BY <1>7 DEF Signal
  <1> QED BY <1>1, <1>2, <1>3, <1>4, <1>5, <1>6, <1>7

LEMMA ServerKeeps ==
  ASSUME AppTypes, Shutdown,
         (\E r \in Requests : Accept(r) \/ Answer(r)) \/ ListenFails \/ StopListening \/ HTTPStopped
  PROVE  AppTypes' /\ Shutdown'
  <1> USE DEF AppTypes, Shutdown, After, startup, closers
  <1>1. ASSUME NEW r \in Requests, Accept(r) PROVE AppTypes' /\ Shutdown'
    BY <1>1 DEF Accept
  <1>2. ASSUME NEW r \in Requests, Answer(r) PROVE AppTypes' /\ Shutdown'
    <2>1. InFlight' \subseteq InFlight
      BY <1>2 DEF Answer, InFlight
    <2>2. InFlight = {} => InFlight' = {}
      BY <2>1
    <2> QED BY <1>2, <2>2 DEF Answer
  <1>3. CASE ListenFails
    BY <1>3 DEF ListenFails, InFlight
  <1>4. CASE StopListening
    BY <1>4 DEF StopListening, InFlight
  <1>5. CASE HTTPStopped
    BY <1>5 DEF HTTPStopped, InFlight
  <1> QED BY <1>1, <1>2, <1>3, <1>4, <1>5

LEMMA TasksKeep ==
  ASSUME AppTypes, Shutdown, \E t \in Tasks : Tick(t) \/ Finish(t) \/ TaskStops(t)
  PROVE  AppTypes' /\ Shutdown'
  <1>1. PICK t \in Tasks, s \in {"idle", "busy", "ended"} :
           task[t] # "ended" /\ Become(t, s)
    BY DEF Tick, Finish, TaskStops
  <1>2. /\ task' \in [Tasks -> {"off", "idle", "busy", "ended"}]
        /\ \A u \in Tasks : task[u] = "ended" => task'[u] = "ended"
    BY <1>1 DEF Become, AppTypes
  <1>3. InFlight' = InFlight
    BY <1>1 DEF Become, InFlight
  <1>4. AppTypes'
    BY <1>1, <1>2 DEF Become, AppTypes, startup, closers
  <1>5. Shutdown'
    BY <1>1, <1>2, <1>3 DEF Become, Shutdown, After, startup, closers, Tasks
  <1> QED BY <1>4, <1>5

LEMMA ShutdownKeeps ==
  ASSUME AppTypes, Shutdown, RunReturns \/ StopHTTP \/ StopOutbox \/ CloseDLQ \/ CloseProducer
  PROVE  AppTypes' /\ Shutdown'
  <1> USE DEF AppTypes, Shutdown, After, startup, closers, InFlight
  <1>1. CASE RunReturns
    BY <1>1 DEF RunReturns, GoOn
  <1>2. CASE StopHTTP
    BY <1>2 DEF StopHTTP
  <1>3. CASE StopOutbox
    BY <1>3 DEF StopOutbox
  <1>4. CASE CloseDLQ
    BY <1>4 DEF CloseDLQ
  <1>5. CASE CloseProducer
    BY <1>5 DEF CloseProducer
  <1> QED BY <1>1, <1>2, <1>3, <1>4, <1>5

LEMMA NextKeeps == IInv /\ [Next]_vars => IInv'
  <1> SUFFICES ASSUME IInv, [Next]_vars PROVE IInv'
    OBVIOUS
  <1>1. HubTypeOK /\ HubInv /\ AppTypes /\ Shutdown
    BY Parts
  <1>2. CASE Dashboard
    <2>1. HubTypeOK' /\ HubInv'
      BY <1>1, <1>2, DashboardKeeps
    <2>2. UNCHANGED app /\ UNCHANGED up
      BY <1>2 DEF Dashboard, HubStep, HandOut, Register, Unregister, PeerGoes, ReadFails,
         ReaderCloses, Write, WriteIsLost, WriteFails, SendClosed, Broadcast, ServeWS
    <2>3. AppTypes' /\ Shutdown'
      BY <1>1, <2>2 DEF AppTypes, Shutdown, After, InFlight, app, startup, closers
    <2> QED BY <2>1, <2>3 DEF IInv, TypeOK, AppTypes, Shutdown
  <1>3. CASE UNCHANGED vars
    <2>1. HubTypeOK' /\ HubInv'
      BY <1>1, <1>3, HubUnchanged DEF vars
    <2>2. AppTypes' /\ Shutdown'
      BY <1>1, <1>3 DEF vars, AppTypes, Shutdown, After, InFlight, startup, closers
    <2> QED BY <2>1, <2>2 DEF IInv, TypeOK, AppTypes, Shutdown
  <1>4. CASE ~Dashboard /\ Next
    <2>1. UNCHANGED hub
      BY <1>4 DEF Next, Signal, ConnectPostgres, PostgresFails, PingRedis, RedisFails, Start,
         NoOffset, GoOn, Accept, Answer, ListenFails, StopListening, HTTPStopped, Tick, Finish,
         TaskStops, Become, RunReturns, StopHTTP, StopOutbox, CloseDLQ, CloseProducer
    <2>2. HubTypeOK' /\ HubInv'
      BY <1>1, <2>1, HubUnchanged
    <2>3. AppTypes' /\ Shutdown'
      BY <1>1, <1>4, StartupKeeps, ServerKeeps, TasksKeep, ShutdownKeeps DEF Next
    <2> QED BY <2>2, <2>3 DEF IInv, TypeOK, AppTypes, Shutdown
  <1> QED BY <1>2, <1>3, <1>4

(* IInv holds in every state of every behaviour of the process and its *)
(* dashboard feed (app.go:50-205, hub.go:46-78).                       *)
THEOREM Inductive == Spec => []IInv
  BY InitIInv, NextKeeps, PTL DEF Spec

(* Kafka's producer is closed last, and under nobody but an outbox worker *)
(* that outlasted its deadline (app.go:183-201).                          *)
THEOREM ShutdownOrder == Spec => []NothingIsCutOff
  <1>1. IInv => NothingIsCutOff
    BY DEF IInv, NothingIsCutOff, After, Tasks
  <1> QED BY <1>1, Inductive, PTL

(* No send on a closed channel, and a feed in order, without repetitions *)
(* and with no gaps but full channels (hub.go:46-78, client.go:36-93).   *)
THEOREM CompleteFeed == Spec => []FeedIsComplete
  <1>1. IInv => FeedIsComplete
    BY DEF IInv, HubInv
  <1> QED BY <1>1, Inductive, PTL
=============================================================================
