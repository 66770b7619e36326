---------------------------- MODULE RedisProofs ----------------------------
(***************************************************************************)
(* The two things the app instances share through Redis, each for every    *)
(* value of its bounds: the virtual clock, of any number of instances,     *)
(* requests, failures and restarts (VirtualClock), and the lease lock, of  *)
(* any number of clients, keys and acquisitions (RedisLock).  They use     *)
(* different keys and share no variable, so each is proved on its own.     *)
(***************************************************************************)
EXTENDS VirtualClock, RedisLock, SequenceTheorems, TLAPS

-----------------------------------------------------------------------------
(* The virtual clock. *)

Active == [step : {"save", "publish"}, instance : Instances, kind : Kinds, offset : Int]
Records == {NoChange, Done} \union Active

LEMMA ClockTypes ==
  TypeOK <=> /\ offset \in [Instances -> Int]
             /\ link \in [Instances -> {"off", "up", "down"}]
             /\ inbox \in [Instances -> Seq(Int)]
             /\ stored \in Int /\ published \in Int /\ wanted \in Int
             /\ request \in [Requests -> Records]
             /\ stray \in BOOLEAN /\ serial \in BOOLEAN
             /\ failures \in 0..MaxFailures /\ restarts \in 0..MaxRestarts
  BY DEF TypeOK, Records, Active

LEMMA ClockTypesNext ==
  TypeOK' <=> /\ offset' \in [Instances -> Int]
              /\ link' \in [Instances -> {"off", "up", "down"}]
              /\ inbox' \in [Instances -> Seq(Int)]
              /\ stored' \in Int /\ published' \in Int /\ wanted' \in Int
              /\ request' \in [Requests -> Records]
              /\ stray' \in BOOLEAN /\ serial' \in BOOLEAN
              /\ failures' \in 0..MaxFailures /\ restarts' \in 0..MaxRestarts
  BY DEF TypeOK, Records, Active

LEMMA UnderWayIsActive ==
  ASSUME request \in [Requests -> Records], NEW r \in Requests,
         request[r].step \in {"save", "publish"}
  PROVE  r \in UnderWay /\ request[r] \in Active
  BY DEF Records, NoChange, Done, UnderWay

(* One request's record becomes q. *)
LEMMA RecordReplaced ==
  ASSUME request \in [Requests -> Records], NEW r \in Requests, NEW q \in Records,
         request' = [request EXCEPT ![r] = q]
  PROVE  /\ request' \in [Requests -> Records] /\ request'[r] = q
         /\ \A p \in Requests \ {r} : request'[p] = request[p]
         /\ UnderWay' = IF q.step \in {"save", "publish"} THEN UnderWay \union {r} ELSE UnderWay \ {r}
  BY DEF UnderWay

(* The step of a request that is under way becomes s. *)
LEMMA StepReplaced ==
  ASSUME request \in [Requests -> Records], NEW r \in UnderWay,
         request' = [request EXCEPT ![r].step = "publish"]
  PROVE  /\ request' \in [Requests -> Records] /\ UnderWay' = UnderWay
         /\ \A p \in Requests : /\ request'[p].offset = request[p].offset
                                /\ request'[p].instance = request[p].instance
                                /\ p # r => request'[p] = request[p]
         /\ request'[r].step = "publish"
  <1> DEFINE q == [request[r] EXCEPT !.step = "publish"]
  <1>1. r \in Requests /\ request[r] \in Active
    BY UnderWayIsActive DEF UnderWay
  <1>2. request' = [request EXCEPT ![r] = q]
    OBVIOUS
  <1>3. /\ q \in Records /\ q.step = "publish"
        /\ q.offset = request[r].offset /\ q.instance = request[r].instance
    BY <1>1 DEF Active, Records
  <1> HIDE DEF q
  <1>4. /\ request' \in [Requests -> Records] /\ request'[r] = q
        /\ \A p \in Requests \ {r} : request'[p] = request[p]
        /\ UnderWay' = UnderWay \union {r}
    BY <1>1, <1>2, <1>3, RecordReplaced
  <1> QED BY <1>1, <1>3, <1>4

(* Where an instance is heading when a message is added to its inbox, and *)
(* when it takes the first one out.                                       *)
LEMMA LastOfAppend ==
  ASSUME NEW s \in Seq(Int), NEW o \in Int
  PROVE  Append(s, o) \in Seq(Int) /\ Append(s, o) # <<>> /\ Last(Append(s, o)) = o
  <1>1. /\ Append(s, o) \in Seq(Int) /\ Len(Append(s, o)) = Len(s) + 1
        /\ Append(s, o)[Len(s) + 1] = o
    BY AppendProperties
  <1>2. Append(s, o) # <<>>
    BY <1>1, LenProperties, EmptySeq
  <1> QED BY <1>1, <1>2 DEF Last

LEMMA LastOfTail ==
  ASSUME NEW s \in Seq(Int), s # <<>>
  PROVE  /\ Head(s) \in Int /\ Tail(s) \in Seq(Int)
         /\ Last(s) = IF Tail(s) = <<>> THEN Head(s) ELSE Last(Tail(s))
  <1> DEFINE t == Tail(s)
  <1>1. /\ Len(s) \in Nat /\ Len(s) > 0 /\ Head(s) = s[1] /\ Head(s) \in Int
        /\ t \in Seq(Int) /\ Len(t) = Len(s) - 1 /\ Len(t) \in Nat
        /\ \A i \in 1..Len(t) : t[i] = s[i + 1]
    BY LenProperties, EmptySeq, HeadTailProperties
  <1> HIDE DEF t
  <1>2. t = <<>> <=> Len(t) = 0
    BY <1>1, EmptySeq
  <1>3. Last(s) = IF t = <<>> THEN s[1] ELSE Last(t)
    BY <1>1, <1>2 DEF Last
  <1> QED BY <1>1, <1>3 DEF t

-----------------------------------------------------------------------------
LEMMA ClockInit == Init => IInv
  <1> SUFFICES ASSUME Init PROVE IInv
    OBVIOUS
  <1>1. UnderWay = {}
    BY DEF Init, UnderWay, NoChange
  <1>2. TypeOK
    <2>1. /\ offset \in [Instances -> Int] /\ link \in [Instances -> {"off", "up", "down"}]
          /\ inbox \in [Instances -> Seq(Int)]
      BY DEF Init
    <2>2. request \in [Requests -> Records]
      BY DEF Init, Records
    <2>3. failures \in 0..MaxFailures /\ restarts \in 0..MaxRestarts
      BY ConstantsAssumption DEF Init
    <2>4. stored \in Int /\ published \in Int /\ wanted \in Int
      BY DEF Init
    <2>5. stray \in BOOLEAN /\ serial \in BOOLEAN
      BY Zenon DEF Init
    <2> QED BY <2>1, <2>2, <2>3, <2>4, <2>5, ClockTypes
  <1>3. HeadingForPublished
    BY DEF Init, HeadingForPublished, Heading, Subscribed
  <1> QED BY <1>1, <1>2, <1>3 DEF IInv, OneChangeAtATime, PublishedIsWanted, Init

(* An instance changes its clock. *)
LEMMA KeepsChange ==
  ASSUME IInv, NEW i \in Instances, NEW r \in Requests, NEW kind \in Kinds, NEW o \in Int,
         ChangeMemory(i, r, kind, o), wanted' \in Int, serial' \in BOOLEAN,
         serial' => UnderWay = {} /\ wanted' = o
  PROVE  IInv'
  <1> DEFINE q == Change(i, kind, o)
  <1>1. TypeOK
    BY DEF IInv
  <1>2. /\ q \in Records /\ q.step = "save" /\ q.instance = i /\ q.offset = o
    BY DEF Change, Records, Active
  <1>3. /\ request' = [request EXCEPT ![r] = q] /\ offset' = [offset EXCEPT ![i] = o]
        /\ link' = link /\ inbox' = inbox /\ stored' = stored /\ published' = published
        /\ stray' = stray /\ failures' = failures /\ restarts' = restarts
        /\ r \notin UnderWay
    BY DEF ChangeMemory, redis, bounds, UnderWay, NoChange
  <1> HIDE DEF q
  <1>4. /\ request' \in [Requests -> Records] /\ request'[r] = q
        /\ \A p \in Requests \ {r} : request'[p] = request[p]
        /\ UnderWay' = UnderWay \union {r}
    BY <1>1, <1>2, <1>3, ClockTypes, RecordReplaced
  <1>5. TypeOK'
    BY <1>1, <1>3, <1>4, ClockTypes, ClockTypesNext
  <1>6. OneChangeAtATime'
    BY <1>2, <1>4 DEF OneChangeAtATime
  <1>7. PublishedIsWanted'
    BY <1>4 DEF PublishedIsWanted
  <1>8. HeadingForPublished'
    <2> SUFFICES ASSUME ~stray, NEW j \in Subscribed
                 PROVE  \/ Heading(j)' = published
                        \/ inbox[j] = <<>> /\ \E p \in UnderWay' : request'[p].instance = j
      BY <1>3 DEF HeadingForPublished, Subscribed
    <2>1. \/ Heading(j) = published
          \/ inbox[j] = <<>> /\ \E p \in UnderWay : request[p].instance = j
      BY DEF IInv, HeadingForPublished
    <2>2. CASE inbox[j] = <<>> /\ j = i
      BY <1>2, <1>4, <2>2
    <2>3. CASE inbox[j] # <<>> \/ j # i
      <3>1. Heading(j)' = Heading(j)
        BY <1>1, <1>3, <2>3, ClockTypes DEF Heading, Subscribed
      <3>2. \A p \in UnderWay : p \in UnderWay' /\ request'[p] = request[p]
        BY <1>3, <1>4 DEF UnderWay
      <3> QED BY <2>1, <3>1, <3>2
    <2> QED BY <2>2, <2>3
  <1> QED BY <1>5, <1>6, <1>7, <1>8 DEF IInv

LEMMA KeepsRequest ==
  ASSUME IInv, NEW i \in Instances, NEW r \in Requests,
         Advance(i, r) \/ SetTime(i, r) \/ Reset(i, r)
  PROVE  IInv'
  <1>1. TypeOK /\ serial \in BOOLEAN /\ wanted \in Int /\ offset[i] \in Int
    BY ClockTypes DEF IInv
  <1>2. CASE Advance(i, r)
    <2>1. PICK d \in Durations : /\ ChangeMemory(i, r, "advance", offset[i] + d)
                                 /\ wanted' = wanted + d
                                 /\ serial' = (serial /\ UnderWay = {} /\ ~Lags(i))
      BY <1>2 DEF Advance
    <2>2. d \in Int /\ offset[i] + d \in Int /\ wanted + d \in Int
      BY <1>1, ConstantsAssumption
    <2>3. ASSUME serial, UnderWay = {}, ~Lags(i)
          PROVE  offset[i] = wanted
      <3>1. i \in Subscribed /\ inbox[i] = <<>> /\ ~stray
        BY <2>3 DEF Lags, Subscribed
      <3>2. Heading(i) = published /\ published = wanted
        BY <2>3, <3>1 DEF IInv, HeadingForPublished, PublishedIsWanted
      <3> QED BY <3>1, <3>2 DEF Heading
    <2>4. serial' => UnderWay = {} /\ wanted' = offset[i] + d
      BY <2>1, <2>3
    <2>5. serial' \in BOOLEAN /\ "advance" \in Kinds
      BY <2>1 DEF Kinds
    <2> QED BY <2>1, <2>2, <2>4, <2>5, KeepsChange
  <1>3. CASE SetTime(i, r)
    <2>1. PICK t \in Targets :
             ChangeMemory(i, r, "set", t) /\ wanted' = t /\ serial' = (UnderWay = {})
      BY <1>3 DEF SetTime
    <2>2. t \in Int /\ "set" \in Kinds
      BY ConstantsAssumption DEF Kinds
    <2> QED BY <2>1, <2>2, KeepsChange
  <1>4. CASE Reset(i, r)
    <2>1. ChangeMemory(i, r, "reset", 0) /\ wanted' = 0 /\ serial' = (UnderWay = {})
      BY <1>4 DEF Reset
    <2>2. 0 \in Int /\ "reset" \in Kinds
      BY DEF Kinds
    <2> QED BY <2>1, <2>2, KeepsChange
  <1> QED BY <1>2, <1>3, <1>4

(* The offset of a request is in the key, or that is not known. *)
LEMMA KeepsSaved ==
  ASSUME IInv, NEW r \in UnderWay, request' = [request EXCEPT ![r].step = "publish"],
         stored' \in Int, serial' \in BOOLEAN, serial' => serial /\ stored' = request[r].offset,
         UNCHANGED <<offset, link, inbox, published, stray, wanted, restarts>>,
         failures' \in 0..MaxFailures
  PROVE  IInv'
  <1>1. TypeOK
    BY DEF IInv
  <1>2. /\ request' \in [Requests -> Records] /\ UnderWay' = UnderWay
        /\ \A p \in Requests : /\ request'[p].offset = request[p].offset
                               /\ request'[p].instance = request[p].instance
        /\ UnderWay \subseteq Requests
    BY <1>1, ClockTypes, StepReplaced DEF UnderWay
  <1>3. TypeOK'
    BY <1>1, <1>2, ClockTypes, ClockTypesNext
  <1>4. OneChangeAtATime'
    <2> SUFFICES ASSUME serial'
                 PROVE  /\ \A p, q \in UnderWay : p = q
                        /\ \A p \in UnderWay : request'[p].offset = wanted
                        /\ stored' = wanted
      BY <1>2 DEF OneChangeAtATime
    <2> QED BY <1>2 DEF IInv, OneChangeAtATime
  <1>5. PublishedIsWanted'
    BY <1>2 DEF IInv, PublishedIsWanted
  <1>6. HeadingForPublished'
    BY <1>2 DEF IInv, HeadingForPublished, Heading, Subscribed
  <1> QED BY <1>3, <1>4, <1>5, <1>6 DEF IInv

(* A request ends without having been announced. *)
LEMMA KeepsGivenUp ==
  ASSUME IInv, NEW r \in UnderWay, request' = [request EXCEPT ![r] = Done],
         stored' \in Int, serial' = FALSE, stray' = TRUE,
         UNCHANGED <<offset, link, inbox, published, wanted, restarts>>,
         failures' \in 0..MaxFailures
  PROVE  IInv'
  <1>1. TypeOK /\ Done \in Records /\ r \in Requests
    BY DEF IInv, Records, UnderWay
  <1>2. request' \in [Requests -> Records]
    BY <1>1, ClockTypes, RecordReplaced
  <1>3. TypeOK'
    BY <1>1, <1>2, ClockTypes, ClockTypesNext
  <1> QED BY <1>3 DEF IInv, OneChangeAtATime, PublishedIsWanted, HeadingForPublished

LEMMA KeepsPublish ==
  ASSUME IInv, NEW r \in Requests, Publish(r)
  PROVE  IInv'
  <1> DEFINE o == request[r].offset
  <1>1. TypeOK /\ request[r].step = "publish"
    BY DEF IInv, Publish
  <1>2. r \in UnderWay /\ o \in Int /\ Done \in Records /\ Done.step = "done"
    BY <1>1, ClockTypes, UnderWayIsActive DEF Active, Records, Done
  <1>3. /\ inbox' = [i \in Instances |-> IF link[i] = "up" THEN Append(inbox[i], o) ELSE inbox[i]]
        /\ published' = o /\ stray' = FALSE /\ request' = [request EXCEPT ![r] = Done]
        /\ offset' = offset /\ link' = link /\ stored' = stored /\ wanted' = wanted
        /\ serial' = serial /\ failures' = failures /\ restarts' = restarts
    BY DEF Publish, Announce, bounds
  <1>4. /\ request' \in [Requests -> Records]
        /\ \A p \in Requests \ {r} : request'[p] = request[p]
        /\ UnderWay' = UnderWay \ {r} /\ UnderWay \subseteq Requests
    BY <1>1, <1>2, <1>3, ClockTypes, RecordReplaced DEF UnderWay
  <1> HIDE DEF o
  <1>5. TypeOK'
    <2>1. \A i \in Instances : Append(inbox[i], o) \in Seq(Int)
      BY <1>1, <1>2, ClockTypes, LastOfAppend
    <2>2. inbox' \in [Instances -> Seq(Int)]
      BY <1>1, <1>3, <2>1, ClockTypes
    <2> QED BY <1>1, <1>2, <1>3, <1>4, <2>2, ClockTypes, ClockTypesNext
  <1>6. serial => /\ UnderWay = {r} /\ o = wanted /\ stored = wanted
    BY <1>1, <1>2 DEF IInv, OneChangeAtATime, o
  <1>7. OneChangeAtATime' /\ PublishedIsWanted'
    BY <1>3, <1>4, <1>6 DEF OneChangeAtATime, PublishedIsWanted
  <1>8. HeadingForPublished'
    <2> SUFFICES ASSUME NEW j \in Subscribed PROVE Heading(j)' = o
      BY <1>3 DEF HeadingForPublished, Subscribed
    <2>1. j \in Instances /\ link[j] = "up"
      BY DEF Subscribed
    <2>2. inbox'[j] = Append(inbox[j], o)
      BY <1>3, <2>1
    <2>3. inbox[j] \in Seq(Int)
      BY <1>1, <2>1, ClockTypes
    <2>4. Append(inbox[j], o) # <<>> /\ Last(Append(inbox[j], o)) = o
      BY <1>2, <2>3, LastOfAppend
    <2>5. Heading(j)' = IF inbox'[j] = <<>> THEN offset'[j] ELSE Last(inbox'[j])
      BY DEF Heading
    <2> QED BY <2>2, <2>4, <2>5
  <1> QED BY <1>5, <1>7, <1>8 DEF IInv

LEMMA KeepsRequestStep ==
  ASSUME IInv, NEW r \in Requests, RequestStep(r)
  PROVE  IInv'
  <1>1. /\ request \in [Requests -> Records] /\ stored \in Int /\ serial \in BOOLEAN
        /\ failures \in 0..MaxFailures /\ MaxFailures \in Nat
    BY ClockTypes, ConstantsAssumption DEF IInv
  <1>2. r \in UnderWay /\ request[r].offset \in Int
    BY <1>1, UnderWayIsActive DEF RequestStep, Save, SaveFails, Publish, PublishFails, Active
  <1>3. Fail => failures' \in 0..MaxFailures /\ restarts' = restarts
    BY <1>1 DEF Fail
  <1>4. CASE Save(r)
    BY <1>1, <1>2, <1>4, KeepsSaved DEF Save, bounds
  <1>5. CASE SaveFails(r)
    <2>1. /\ Fail /\ stored' \in Int /\ serial' = FALSE
          /\ UNCHANGED <<offset, link, inbox, published, wanted>>
      BY <1>1, <1>2, <1>5 DEF SaveFails
    <2>2. CASE request' = [request EXCEPT ![r].step = "publish"] /\ UNCHANGED stray
      BY <1>2, <1>3, <2>1, <2>2, KeepsSaved
    <2>3. CASE request' = [request EXCEPT ![r] = Done] /\ stray' = TRUE
      BY <1>2, <1>3, <2>1, <2>3, KeepsGivenUp
    <2> QED BY <1>5, <2>2, <2>3 DEF SaveFails
  <1>6. CASE Publish(r)
    BY <1>6, KeepsPublish
  <1>7. CASE PublishFails(r)
    BY <1>1, <1>2, <1>3, <1>7, KeepsGivenUp DEF PublishFails, redis
  <1> QED BY <1>4, <1>5, <1>6, <1>7 DEF RequestStep

LEMMA KeepsSync ==
  ASSUME IInv, NEW i \in Instances, Sync(i)
  PROVE  IInv'
  <1>1. TypeOK
    BY DEF IInv
  <1>2. /\ inbox[i] # <<>> /\ inbox[i] \in Seq(Int)
        /\ offset' = [offset EXCEPT ![i] = Head(inbox[i])]
        /\ inbox' = [inbox EXCEPT ![i] = Tail(inbox[i])]
        /\ link' = link /\ stored' = stored /\ published' = published /\ request' = request
        /\ stray' = stray /\ wanted' = wanted /\ serial' = serial
        /\ failures' = failures /\ restarts' = restarts
    BY <1>1, ClockTypes DEF Sync, redis, bounds
  <1>3. /\ Head(inbox[i]) \in Int /\ Tail(inbox[i]) \in Seq(Int)
        /\ Last(inbox[i]) = IF Tail(inbox[i]) = <<>> THEN Head(inbox[i]) ELSE Last(Tail(inbox[i]))
    BY <1>2, LastOfTail
  <1>4. TypeOK'
    BY <1>1, <1>2, <1>3, ClockTypes, ClockTypesNext
  <1>5. OneChangeAtATime' /\ PublishedIsWanted'
    BY <1>2 DEF IInv, OneChangeAtATime, PublishedIsWanted, UnderWay
  <1>6. \A j \in Instances : Heading(j)' = Heading(j)
    BY <1>1, <1>2, <1>3, ClockTypes DEF Heading
  <1>7. HeadingForPublished'
    <2>1. \A j \in Instances : inbox[j] = <<>> => inbox'[j] = <<>>
      BY <1>1, <1>2, ClockTypes
    <2> QED BY <1>2, <1>6, <2>1 DEF IInv, HeadingForPublished, Subscribed, UnderWay
  <1> QED BY <1>4, <1>5, <1>7 DEF IInv

(* An instance is no longer subscribed, or is so again. *)
LEMMA KeepsLink ==
  ASSUME IInv, NEW i \in Instances, Disconnect(i) \/ Reconnect(i) \/ StartSync(i)
  PROVE  IInv'
  <1>1. TypeOK
    BY DEF IInv
  <1>2. /\ offset' = offset /\ inbox' = inbox /\ stored' = stored /\ published' = published
        /\ request' = request /\ wanted' = wanted /\ serial' = serial
    BY DEF Disconnect, Reconnect, StartSync, Connect, redis
  <1>3. /\ UnderWay' = UnderWay /\ \A j \in Instances : Heading(j)' = Heading(j)
    BY <1>2 DEF UnderWay, Heading
  <1>4. CASE Disconnect(i)
    <2>1. /\ link' = [link EXCEPT ![i] = "down"] /\ stray' = stray
          /\ failures' \in 0..MaxFailures /\ restarts' = restarts
      BY <1>1, <1>4, ClockTypes, ConstantsAssumption DEF Disconnect, Fail
    <2>2. TypeOK'
      BY <1>1, <1>2, <2>1, ClockTypes, ClockTypesNext
    <2>3. Subscribed' \subseteq Subscribed
      BY <1>1, <2>1, ClockTypes DEF Subscribed
    <2> QED BY <1>2, <1>3, <2>1, <2>2, <2>3
            DEF IInv, OneChangeAtATime, PublishedIsWanted, HeadingForPublished, Subscribed
  <1>5. CASE Connect(i)
    <2>1. /\ link' = [link EXCEPT ![i] = "up"] /\ stray' = (stray \/ Heading(i) # published)
          /\ failures' = failures /\ restarts' = restarts
      BY <1>5 DEF Connect, bounds
    <2>2. TypeOK'
      BY <1>1, <1>2, <2>1, ClockTypes, ClockTypesNext
    <2>3. Subscribed' = Subscribed \union {i}
      BY <1>1, <2>1, ClockTypes DEF Subscribed
    <2>4. ~stray' => ~stray /\ Heading(i) = published
      BY <2>1
    <2>5. OneChangeAtATime' /\ PublishedIsWanted'
      BY <1>2, <1>3, <2>4 DEF IInv, OneChangeAtATime, PublishedIsWanted
    <2>6. HeadingForPublished'
      BY <1>2, <1>3, <2>3, <2>4 DEF IInv, HeadingForPublished, Subscribed
    <2> QED BY <2>2, <2>5, <2>6 DEF IInv
  <1> QED BY <1>4, <1>5 DEF Reconnect, StartSync

LEMMA KeepsRestart ==
  ASSUME IInv, NEW i \in Instances, Restart(i)
  PROVE  IInv'
  <1> DEFINE dead == {r \in UnderWay : request[r].instance = i}
  <1>1. TypeOK /\ <<>> \in Seq(Int)
    BY DEF IInv
  <1>2. /\ restarts' \in 0..MaxRestarts
        /\ offset' = [offset EXCEPT ![i] = stored] /\ link' = [link EXCEPT ![i] = "off"]
        /\ inbox' = [inbox EXCEPT ![i] = <<>>]
        /\ request' = [r \in Requests |-> IF r \in dead THEN Done ELSE request[r]]
        /\ stray' = (stray \/ dead # {}) /\ serial' = (serial /\ dead = {})
        /\ stored' = stored /\ published' = published /\ wanted' = wanted /\ failures' = failures
    BY <1>1, ClockTypes, ConstantsAssumption DEF Restart, redis
  <1>3. ASSUME dead = {} PROVE \A r \in Requests : request'[r] = request[r]
    BY <1>2, <1>3
  <1>4. ASSUME dead = {} PROVE UnderWay' = UnderWay
    BY <1>3, <1>4 DEF UnderWay
  <1> HIDE DEF dead
  <1>5. TypeOK'
    <2>1. request' \in [Requests -> Records]
      BY <1>1, <1>2, ClockTypes DEF Records
    <2>2. offset' \in [Instances -> Int] /\ link' \in [Instances -> {"off", "up", "down"}]
          /\ inbox' \in [Instances -> Seq(Int)]
      BY <1>1, <1>2, ClockTypes
    <2> QED BY <1>1, <1>2, <2>1, <2>2, ClockTypes, ClockTypesNext
  <1>6. serial' => serial /\ dead = {}
    BY <1>2
  <1>7. ~stray' => ~stray /\ dead = {}
    BY <1>2
  <1>8. OneChangeAtATime' /\ PublishedIsWanted'
    <2>1. UnderWay \subseteq Requests
      BY DEF UnderWay
    <2>2. OneChangeAtATime'
      BY <1>2, <1>3, <1>4, <1>6, <2>1 DEF IInv, OneChangeAtATime
    <2>3. PublishedIsWanted'
      BY <1>2, <1>4, <1>6, <1>7 DEF IInv, PublishedIsWanted
    <2> QED BY <2>2, <2>3
  <1>9. HeadingForPublished'
    <2> SUFFICES ASSUME ~stray', NEW j \in Subscribed'
                 PROVE  (\/ Heading(j) = published
                         \/ inbox[j] = <<>> /\ \E r \in UnderWay : request[r].instance = j)'
      BY DEF HeadingForPublished
    <2>1. j \in Subscribed /\ j # i
      BY <1>1, <1>2, ClockTypes DEF Subscribed
    <2>2. Heading(j)' = Heading(j) /\ inbox'[j] = inbox[j]
      BY <1>1, <1>2, <2>1, ClockTypes DEF Heading, Subscribed
    <2>3. UnderWay' = UnderWay /\ \A r \in UnderWay : request'[r] = request[r]
      BY <1>3, <1>4, <1>7 DEF UnderWay
    <2>4. \/ Heading(j) = published
          \/ inbox[j] = <<>> /\ \E r \in UnderWay : request[r].instance = j
      BY <1>7, <2>1 DEF IInv, HeadingForPublished
    <2> QED BY <1>2, <2>2, <2>3, <2>4
  <1> QED BY <1>5, <1>8, <1>9 DEF IInv

LEMMA ClockNext == IInv /\ [Next]_vars => IInv'
  <1> SUFFICES ASSUME IInv, [Next]_vars PROVE IInv'
    OBVIOUS
  <1>1. ASSUME NEW i \in Instances, NEW r \in Requests,
               Advance(i, r) \/ SetTime(i, r) \/ Reset(i, r)
        PROVE  IInv'
    BY <1>1, KeepsRequest
  <1>2. ASSUME NEW r \in Requests, RequestStep(r) PROVE IInv'
    BY <1>2, KeepsRequestStep
  <1>3. ASSUME NEW i \in Instances,
               Sync(i) \/ Disconnect(i) \/ Reconnect(i) \/ StartSync(i) \/ Restart(i)
        PROVE  IInv'
    BY <1>3, KeepsSync, KeepsLink, KeepsRestart
  <1>4. CASE UNCHANGED vars
    BY <1>4 DEF IInv, TypeOK, OneChangeAtATime, PublishedIsWanted, HeadingForPublished,
                UnderWay, Subscribed, Heading, vars
  <1> QED BY <1>1, <1>2, <1>3, <1>4 DEF Next

(* The inductive invariant of the clock: a request under way alone carries *)
(* what is wanted from memory to the key and to the channel, and whoever   *)
(* is subscribed is heading for what was published last                    *)
(* (clock.go:29-45, 57-79, 96-145).                                        *)
THEOREM ClockInductive == Spec => []IInv
  BY ClockInit, ClockNext, PTL DEF Spec

(* The variables of the clock have their types. *)
THEOREM ClockTypeCorrect == Spec => []TypeOK
  <1>1. IInv => TypeOK
    BY DEF IInv
  <1> QED BY <1>1, ClockInductive, PTL

(* Requests that do not overlap and do not fail add up, for every number of *)
(* instances and requests, whatever restarts and drops of connections come  *)
(* between (clock.go:29-45, 96-145).                                        *)
THEOREM ClockAddsUp == Spec => []SerialChangesAddUp
  <1>1. IInv => SerialChangesAddUp
    BY DEF IInv, OneChangeAtATime, PublishedIsWanted, HeadingForPublished, SerialChangesAddUp,
           Heading
  <1> QED BY <1>1, ClockInductive, PTL

-----------------------------------------------------------------------------
(* The lease lock. *)

LEMMA LockInitially == LockInit => LockInv
  BY MaxTokenAssumption
  DEF LockInit, LockInv, LockTypeOK, TokensFresh, TokensDistinct, HolderOwnsKey, Holders,
      Idle, Release, Tokens, NoToken

LEMMA LockStep == LockInv /\ [LockNext]_lockVars => LockInv'
  <1> SUFFICES ASSUME LockInv, [LockNext]_lockVars PROVE LockInv'
    OBVIOUS
  <1> USE MaxTokenAssumption DEF Holders, Idle, Release, Tokens, NoToken
  <1>1. ASSUME NEW c \in Clients, NEW k \in Keys, Acquire(c, k) PROVE LockInv'
    <2>1. LockTypeOK' BY <1>1 DEF LockInv, LockTypeOK, Acquire
    <2>2. TokensFresh' BY <1>1 DEF LockInv, LockTypeOK, TokensFresh, Acquire
    <2>3. TokensDistinct' BY <1>1 DEF LockInv, LockTypeOK, TokensFresh, TokensDistinct, Acquire
    <2>4. HolderOwnsKey' BY <1>1 DEF LockInv, LockTypeOK, TokensFresh, HolderOwnsKey, Acquire
    <2> QED BY <2>1, <2>2, <2>3, <2>4 DEF LockInv
  <1>2. ASSUME NEW c \in Clients, NEW k \in Keys, AcquireReplyLost(c, k) PROVE LockInv'
    <2>1. LockTypeOK' BY <1>2 DEF LockInv, LockTypeOK, AcquireReplyLost
    <2>2. TokensFresh' BY <1>2 DEF LockInv, LockTypeOK, TokensFresh, AcquireReplyLost
    <2>3. TokensDistinct' BY <1>2 DEF LockInv, LockTypeOK, TokensDistinct, AcquireReplyLost
    <2>4. HolderOwnsKey' BY <1>2 DEF LockInv, LockTypeOK, TokensFresh, HolderOwnsKey, AcquireReplyLost
    <2> QED BY <2>1, <2>2, <2>3, <2>4 DEF LockInv
  <1>3. ASSUME NEW c \in Clients, Unlock(c) PROVE LockInv'
    <2>1. LockTypeOK' BY <1>3 DEF LockInv, LockTypeOK, Unlock
    <2>2. TokensFresh' BY <1>3 DEF LockInv, LockTypeOK, TokensFresh, Unlock
    <2>3. TokensDistinct' BY <1>3 DEF LockInv, LockTypeOK, TokensDistinct, Unlock
    <2>4. HolderOwnsKey' BY <1>3 DEF LockInv, LockTypeOK, HolderOwnsKey, Unlock
    <2> QED BY <2>1, <2>2, <2>3, <2>4 DEF LockInv
  <1>4. ASSUME NEW c \in Clients, Crash(c) PROVE LockInv'
    <2>1. LockTypeOK' BY <1>4 DEF LockInv, LockTypeOK, Crash
    <2>2. TokensFresh' BY <1>4 DEF LockInv, LockTypeOK, TokensFresh, Crash
    <2>3. TokensDistinct' BY <1>4 DEF LockInv, LockTypeOK, TokensDistinct, Crash
    <2>4. HolderOwnsKey' BY <1>4 DEF LockInv, LockTypeOK, HolderOwnsKey, Crash
    <2> QED BY <2>1, <2>2, <2>3, <2>4 DEF LockInv
  <1>5. ASSUME NEW r \in wire, RunRelease(r) PROVE LockInv'
    <2>1. LockTypeOK' BY <1>5 DEF LockInv, LockTypeOK, RunRelease, AfterRelease
    <2>2. TokensFresh' BY <1>5 DEF LockInv, LockTypeOK, TokensFresh, RunRelease, AfterRelease
    <2>3. TokensDistinct' BY <1>5 DEF LockInv, LockTypeOK, TokensDistinct, RunRelease
    <2>4. HolderOwnsKey'
      BY <1>5 DEF LockInv, LockTypeOK, TokensDistinct, HolderOwnsKey, RunRelease, AfterRelease
    <2> QED BY <2>1, <2>2, <2>3, <2>4 DEF LockInv
  <1>6. ASSUME NEW r \in wire, LoseRelease(r) PROVE LockInv'
    BY <1>6 DEF LockInv, LockTypeOK, TokensFresh, TokensDistinct, HolderOwnsKey, LoseRelease
  <1>7. ASSUME NEW k \in Keys, Expire(k) PROVE LockInv'
    <2>1. LockTypeOK' BY <1>7 DEF LockInv, LockTypeOK, Expire
    <2>2. TokensFresh' BY <1>7 DEF LockInv, LockTypeOK, TokensFresh, Expire
    <2>3. TokensDistinct' BY <1>7 DEF LockInv, LockTypeOK, TokensDistinct, Expire
    <2>4. HolderOwnsKey' BY <1>7 DEF LockInv, LockTypeOK, HolderOwnsKey, Expire
    <2> QED BY <2>1, <2>2, <2>3, <2>4 DEF LockInv
  <1>8. CASE UNCHANGED lockVars
    BY <1>8 DEF LockInv, LockTypeOK, TokensFresh, TokensDistinct, HolderOwnsKey, lockVars
  <1> QED BY <1>1, <1>2, <1>3, <1>4, <1>5, <1>6, <1>7, <1>8 DEF LockNext

(* The inductive invariant holds of every behaviour of the lock. *)
THEOREM LockInductive == LockSpec => []LockInv
  BY LockInitially, LockStep, PTL DEF LockSpec

(* Redis' keys, the sessions and the release scripts keep their types. *)
THEOREM LockTypeCorrect == LockSpec => []LockTypeOK
  <1>1. LockInv => LockTypeOK BY DEF LockInv
  <1> QED BY <1>1, LockInductive, PTL

(* cache.go:125-133: however late a release script runs, and however often *)
(* leases lapse, it frees no lock that is in use.                          *)
THEOREM LockReleaseIsSafe == LockSpec => []HolderOwnsKey
  <1>1. LockInv => HolderOwnsKey BY DEF LockInv
  <1> QED BY <1>1, LockInductive, PTL

(* time.go:121-134: two renewals of one subscription run under the lock at *)
(* the same time only if a lease lapsed while its holder was working.      *)
THEOREM LockExcludes == LockSpec => []MutualExclusion
  <1>1. LockInv => MutualExclusion
    BY DEF LockInv, TokensDistinct, HolderOwnsKey, MutualExclusion
  <1> QED BY <1>1, LockInductive, PTL
=============================================================================
