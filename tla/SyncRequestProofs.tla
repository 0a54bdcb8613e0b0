-------------------------- MODULE SyncRequestProofs --------------------------
(* Proofs about SyncRequest, for any number of actors, requests and instances: *)
(* the channel never holds two answers, a request returns its own answer only, *)
(* an awaited answer is never dropped as stale, nobody is kept alive by what   *)
(* it does not owe, and while an actor waits somebody has its request or the   *)
(* answer, unless one of the drops that leave a line in the log took it.       *)
EXTENDS SyncRequest, FiniteSetTheorems, TLAPS

(* A request in the network has the fields of one, and so has a response.      *)
LEMMA Kinds ==
  ASSUME NEW m \in Requests \union Responses
  PROVE  /\ m.kind = "request" <=> m \in Requests
         /\ m.kind = "response" <=> m \in Responses
         /\ m.to \in Actors
BY DEF Requests, Responses

(* The envelopes the code makes. *)
LEMMA MadeEnvelopes ==
  ASSUME TypeOK, NEW a \in Actors, NEW b \in Actors
  PROVE  /\ RequestTo(b, a) \in Requests
         /\ Unsigned(a) \in Requests
         /\ \A r \in Requests : r.from # Nobody => Answers(r, b) \subseteq Responses
<1>1. instance[a] \in Nat /\ requestIdBase[a] \in Nat  BY DEF TypeOK
<1>2. RequestTo(b, a) \in Requests /\ Unsigned(a) \in Requests
  BY <1>1 DEF Requests, RequestTo, Unsigned
<1>3. ASSUME NEW r \in Requests, r.from # Nobody PROVE Answers(r, b) \subseteq Responses
  <2>1. \A p \in BOOLEAN : ResponseTo(r, b, p) \in Responses
    BY <1>3 DEF Requests, Responses, ResponseTo
  <2> QED  BY <2>1 DEF Answers
<1> QED  BY <1>2, <1>3

(* What an answer says of the request. *)
LEMMA AnswerFields ==
  ASSUME NEW r, NEW b, NEW m \in Answers(r, b)
  PROVE  /\ m.kind = "response" /\ m.to = r.from /\ m.id = r.id /\ m.asker = r.address
         /\ Legacy = {} => m.address = r.address
<1>1. PICK p \in BOOLEAN : m = ResponseTo(r, b, p)  BY DEF Answers
<1> QED  BY <1>1 DEF ResponseTo

(* What the group drops leaves the network; nothing else but the history tells. *)
LEMMA DropMoves ==
  ASSUME TypeOK, NEW m \in network, DropRequest(m) \/ DropEmpty(m)
  PROVE  /\ UNCHANGED <<instances, instance, running, requestIdBase, waiting, outcome,
                        syncRspChan, lastSyncRsp, delivering, mailbox, serving, pending, count>>
         /\ network \ {m} \subseteq network' /\ network' \subseteq network
         /\ m.kind = "request" \/ ~m.payload
         /\ forsaken' \in [Actors -> BOOLEAN]
         /\ \A a \in Actors : forsaken'[a] <=> forsaken[a] \/ Concerns(m, a)
<1>1. Forsake({m})  BY DEF DropRequest, DropEmpty
<1>2. /\ forsaken' \in [Actors -> BOOLEAN]
      /\ \A a \in Actors : forsaken'[a] <=> forsaken[a] \/ Concerns(m, a)
  BY <1>1 DEF Forsake, TypeOK
<1> QED
  BY <1>2 DEF DropRequest, DropEmpty, Arrives, instanceVars, channelVars, serverVars

(* What follows the first n envelopes. *)
LEMMA AfterBatch ==
  ASSUME NEW q \in Seq(Requests), NEW n \in 1 .. Len(q)
  PROVE  /\ SubSeq(q, n + 1, Len(q)) \in Seq(Requests)
         /\ Len(SubSeq(q, n + 1, Len(q))) = Len(q) - n
         /\ \A i \in 1 .. Len(q) - n : SubSeq(q, n + 1, Len(q))[i] = q[n + i]
OBVIOUS

(* What is lost of a batch is in nobody's hands then, and the history tells.    *)
LEMMA LoseMoves ==
  ASSUME TypeOK, NEW a \in Actors, LoseBatch(a)
  PROVE  /\ UNCHANGED <<instances, instance, running, requestIdBase, waiting, outcome,
                        syncRspChan, lastSyncRsp, delivering, serving, pending, count, network>>
         /\ mailbox' \in [Actors -> Seq(Requests)]
         /\ forsaken' \in [Actors -> BOOLEAN]
         /\ \E n \in 1 .. Len(mailbox[a]) :
              /\ mailbox' = [mailbox EXCEPT ![a] = SubSeq(mailbox[a], n + 1, Len(mailbox[a]))]
              /\ \A x \in Actors : forsaken'[x]
                   <=> forsaken[x] \/ \E i \in 1 .. n : Concerns(mailbox[a][i], x)
<1>1. PICK n \in 1 .. Len(mailbox[a]) :
        /\ mailbox' = [mailbox EXCEPT ![a] = SubSeq(mailbox[a], n + 1, Len(mailbox[a]))]
        /\ Forsake({mailbox[a][i] : i \in 1 .. n})
  BY DEF LoseBatch
<1>2. SubSeq(mailbox[a], n + 1, Len(mailbox[a])) \in Seq(Requests)
  BY AfterBatch DEF TypeOK
<1>3. mailbox' \in [Actors -> Seq(Requests)]  BY <1>1, <1>2 DEF TypeOK
<1>4. /\ forsaken' \in [Actors -> BOOLEAN]
      /\ \A x \in Actors : forsaken'[x]
           <=> forsaken[x] \/ \E i \in 1 .. n : Concerns(mailbox[a][i], x)
  BY <1>1 DEF Forsake, TypeOK
<1>5. UNCHANGED <<instances, instance, running, requestIdBase, waiting, outcome,
                  syncRspChan, lastSyncRsp, delivering, serving, pending, count, network>>
  BY DEF LoseBatch, instanceVars, channelVars
<1> QED  BY <1>1, <1>3, <1>4, <1>5

(* A mailbox has nothing new after a loss. *)
LEMMA LoseShortens ==
  ASSUME TypeOK, NEW a \in Actors, LoseBatch(a), NEW b \in Actors
  PROVE  \A i \in 1 .. Len(mailbox'[b]) :
           \E j \in 1 .. Len(mailbox[b]) : mailbox'[b][i] = mailbox[b][j]
<1>1. PICK n \in 1 .. Len(mailbox[a]) :
        mailbox' = [mailbox EXCEPT ![a] = SubSeq(mailbox[a], n + 1, Len(mailbox[a]))]
  BY LoseMoves
<1>2. CASE b = a
  <2>1. PICK q \in Seq(Requests) : q = mailbox[a]  BY DEF TypeOK
  <2>2. PICK l \in Nat : l = Len(q)  BY <2>1
  <2>3. PICK t : t = SubSeq(q, n + 1, Len(q))  OBVIOUS
  <2>4. n \in 1 .. l /\ Len(t) = l - n /\ \A i \in 1 .. l - n : t[i] = q[n + i]
    BY <2>1, <2>2, <2>3, AfterBatch
  <2>5. \A i \in 1 .. l - n : n + i \in 1 .. l  BY <2>2, <2>4
  <2>6. mailbox'[b] = t  BY <1>1, <1>2, <2>1, <2>3 DEF TypeOK
  <2> QED  BY <1>2, <2>1, <2>2, <2>4, <2>5, <2>6
<1>3. CASE b # a
  <2>1. mailbox'[b] = mailbox[b]  BY <1>1, <1>3 DEF TypeOK
  <2> QED  BY <2>1
<1> QED  BY <1>2, <1>3

(* A new context keeps the types. *)
LEMMA CreateTypes ==
  ASSUME TypeOK, NEW a \in Actors, Create(a)
  PROVE  /\ instances' \in Nat
         /\ instance' \in [Actors -> 0 .. instances']
         /\ running' \in [Actors -> BOOLEAN]
         /\ requestIdBase' \in [Actors -> Nat]
         /\ waiting' \in [Actors -> Nat]
         /\ \A x \in Actors : waiting'[x] \in {0, requestIdBase'[x]}
         /\ syncRspChan' \in [Actors -> Seq(Responses)]
         /\ \A x \in Actors : Len(syncRspChan'[x]) <= 1
         /\ lastSyncRsp' \in [Actors -> Nat]
         /\ serving' \in [Actors -> Requests \union {NoEnvelope}]
         /\ DOMAIN pending' = Actors /\ \A x \in Actors : pending'[x] \subseteq Requests
         /\ count' \in [Actors -> Int]
         /\ outcome' \in [Actors -> Responses \union {NoEnvelope}]
         /\ forsaken' \in [Actors -> BOOLEAN]
<1>1. /\ instances' \in Nat
      /\ instance' \in [Actors -> 0 .. instances']
  <2>1. instances' = instances + 1 /\ instances \in Nat  BY DEF Create, TypeOK
  <2>2. \A x \in Actors : instance[x] \in 0 .. instances + 1  BY DEF TypeOK
  <2> QED  BY <2>1, <2>2 DEF Create, TypeOK
<1>2. /\ running' \in [Actors -> BOOLEAN]
      /\ requestIdBase' \in [Actors -> Nat]
      /\ waiting' \in [Actors -> Nat]
      /\ \A x \in Actors : waiting'[x] \in {0, requestIdBase'[x]}
      /\ lastSyncRsp' \in [Actors -> Nat]
      /\ forsaken' \in [Actors -> BOOLEAN]
  BY DEF Create, TypeOK
<1>3. /\ syncRspChan' \in [Actors -> Seq(Responses)]
      /\ \A x \in Actors : Len(syncRspChan'[x]) <= 1
  BY DEF Create, TypeOK
<1>4. /\ serving' \in [Actors -> Requests \union {NoEnvelope}]
      /\ DOMAIN pending' = Actors /\ \A x \in Actors : pending'[x] \subseteq Requests
      /\ count' \in [Actors -> Int]
      /\ outcome' \in [Actors -> Responses \union {NoEnvelope}]
  BY DEF Create, TypeOK
<1> QED  BY <1>1, <1>2, <1>3, <1>4

(* An answer keeps the types. *)
LEMMA ResponseTypes ==
  ASSUME TypeOK, NEW a \in Actors, NEW r \in Requests, Response(a, r)
  PROVE  /\ count' \in [Actors -> Int]
         /\ DOMAIN pending' = Actors /\ \A x \in Actors : pending'[x] \subseteq Requests
         /\ network' \subseteq Requests \union Responses
<1>1. count' \in [Actors -> Int]  BY DEF Response, TypeOK
<1>2. DOMAIN pending' = Actors /\ \A x \in Actors : pending'[x] \subseteq Requests
  BY DEF Response, TypeOK
<1>3. network' \subseteq Requests \union Responses
  BY MadeEnvelopes DEF Response, TypeOK
<1> QED  BY <1>1, <1>2, <1>3

(* What the group goroutine of an actor does keeps the types. *)
LEMMA GroupTypes ==
  ASSUME TypeOK, NEW a \in Actors, GroupStep(a)
  PROVE  TypeOK'
<1>1. CASE Activate(a)
  <2>1. Create(a) /\ UNCHANGED <<delivering, mailbox, network>>  BY <1>1 DEF Activate
  <2> QED  BY <2>1, CreateTypes DEF TypeOK
<1>2. CASE DrainChannel(a)
  BY <1>2 DEF DrainChannel, instanceVars, callerVars, serverVars, TypeOK
<1>3. CASE HandOver(a)
  <2>1. delivering[a] \in Responses  BY <1>3 DEF HandOver, TypeOK
  <2>2. delivering[a].id \in Nat  BY <2>1 DEF Responses
  <2>3. <<delivering[a]>> \in Seq(Responses) /\ Len(<<delivering[a]>>) = 1  BY <2>1
  <2>4. /\ syncRspChan' = [syncRspChan EXCEPT ![a] = <<delivering[a]>>]
        /\ lastSyncRsp' = [lastSyncRsp EXCEPT ![a] = delivering[a].id]
        /\ delivering' = [delivering EXCEPT ![a] = NoEnvelope]
        /\ UNCHANGED <<instanceVars, callerVars, serverVars, network>>
    BY <1>3 DEF HandOver
  <2>5. /\ syncRspChan' \in [Actors -> Seq(Responses)]
        /\ \A x \in Actors : Len(syncRspChan'[x]) <= 1
    BY <2>3, <2>4 DEF TypeOK
  <2>6. lastSyncRsp' \in [Actors -> Nat] /\ delivering' \in [Actors -> Responses \union {NoEnvelope}]
    BY <2>2, <2>4 DEF TypeOK
  <2> QED  BY <2>4, <2>5, <2>6 DEF instanceVars, callerVars, serverVars, TypeOK
<1>4. CASE StopReported(a)
  <2>1. CASE mailbox[a] = <<>>
    <3>1. instance' = [instance EXCEPT ![a] = 0]  BY <1>4, <2>1 DEF StopReported
    <3>2. 0 \in 0 .. instances  BY DEF TypeOK
    <3>3. instance' \in [Actors -> 0 .. instances]  BY <3>1, <3>2 DEF TypeOK
    <3> QED  BY <1>4, <2>1, <3>3 DEF StopReported, callerVars, TypeOK
  <2>2. CASE mailbox[a] # <<>>
    <3>1. Create(a) /\ UNCHANGED <<delivering, mailbox, network>>
      BY <1>4, <2>2 DEF StopReported
    <3> QED  BY <3>1, CreateTypes DEF TypeOK
  <2> QED  BY <2>1, <2>2
<1>5. ASSUME NEW m \in network, m.to = a, DeliverRequest(m)
      PROVE  TypeOK'
  <2>1. m \in Requests /\ m.to \in Actors  BY <1>5, Kinds DEF DeliverRequest, TypeOK
  <2>2. mailbox' \in [Actors -> Seq(Requests)]
    <3>1. Append(mailbox[a], m) \in Seq(Requests)  BY <2>1 DEF TypeOK
    <3> QED  BY <1>5, <3>1 DEF DeliverRequest, TypeOK
  <2>3. network' \subseteq Requests \union Responses  BY <1>5 DEF DeliverRequest, TypeOK
  <2>4. CASE instance[a] = 0
    <3>1. Create(a) /\ UNCHANGED delivering  BY <1>5, <2>4 DEF DeliverRequest
    <3> QED  BY <2>2, <2>3, <3>1, CreateTypes DEF TypeOK
  <2>5. CASE instance[a] # 0
    <3>1. UNCHANGED <<instanceVars, callerVars, channelVars, serving, pending, count>>
      BY <1>5, <2>5 DEF DeliverRequest
    <3> QED  BY <2>2, <2>3, <3>1 DEF instanceVars, callerVars, channelVars, TypeOK
  <2> QED  BY <2>4, <2>5
<1>6. ASSUME NEW m \in network, m.to = a, DropResponse(m)
      PROVE  TypeOK'
  <2>1. network' \subseteq Requests \union Responses
    BY <1>6 DEF DropResponse, Arrives, TypeOK
  <2> QED
    BY <1>6, <2>1 DEF DropResponse, instanceVars, callerVars, channelVars, serverVars, TypeOK
<1>7. ASSUME NEW m \in network, m.to = a, AcceptResponse(m)
      PROVE  TypeOK'
  <2>1. network' \subseteq Requests \union Responses
    BY <1>7 DEF AcceptResponse, Arrives, TypeOK
  <2>2. m \in Responses  BY <1>7, Kinds DEF AcceptResponse, Arrives, TypeOK
  <2>3. delivering' \in [Actors -> Responses \union {NoEnvelope}]
    BY <1>7, <2>2 DEF AcceptResponse, TypeOK
  <2> QED
    BY <1>7, <2>1, <2>3 DEF AcceptResponse, instanceVars, callerVars, serverVars, TypeOK
<1>8. ASSUME NEW m \in network, DropRequest(m) \/ DropEmpty(m)
      PROVE  TypeOK'
  <2>1. network' \subseteq Requests \union Responses  BY <1>8, DropMoves DEF TypeOK
  <2> QED  BY <1>8, <2>1, DropMoves DEF TypeOK
<1> QED  BY <1>1, <1>2, <1>3, <1>4, <1>5, <1>6, <1>7, <1>8 DEF GroupStep, Takes

(* What the goroutine of an actor does keeps the types. *)
LEMMA ActorTypes ==
  ASSUME TypeOK, NEW a \in Actors, ActorStep(a)
  PROVE  TypeOK'
<1>1. ASSUME NEW b \in Actors, Request(a, b) PROVE TypeOK'
  <2>1. /\ requestIdBase' = [requestIdBase EXCEPT ![a] = @ + 1]
        /\ waiting' = [waiting EXCEPT ![a] = requestIdBase[a] + 1]
        /\ network' = network \union {RequestTo(b, a)}
        /\ outcome' = [outcome EXCEPT ![a] = NoEnvelope]
        /\ UNCHANGED <<instanceVars, channelVars, serverVars>>
    BY <1>1 DEF Request
  <2>2. /\ requestIdBase' \in [Actors -> Nat] /\ waiting' \in [Actors -> Nat]
        /\ \A x \in Actors : waiting'[x] \in {0, requestIdBase'[x]}
    BY <2>1 DEF TypeOK
  <2>3. network' \subseteq Requests \union Responses  BY <2>1, MadeEnvelopes DEF TypeOK
  <2>4. outcome' \in [Actors -> Responses \union {NoEnvelope}]  BY <2>1 DEF TypeOK
  <2>5. forsaken' \in [Actors -> BOOLEAN]  BY <1>1 DEF Request, TypeOK
  <2> QED  BY <2>1, <2>2, <2>3, <2>4, <2>5 DEF instanceVars, channelVars, serverVars, TypeOK
<1>2. ASSUME NEW b \in Actors, RequestRefused(a, b) PROVE TypeOK'
  <2>1. /\ requestIdBase' = [requestIdBase EXCEPT ![a] = @ + 1] /\ waiting[a] = 0
        /\ outcome' = [outcome EXCEPT ![a] = NoEnvelope]
        /\ UNCHANGED <<instanceVars, waiting, forsaken, channelVars, serverVars, network>>
    BY <1>2 DEF RequestRefused, InHandler
  <2>2. /\ requestIdBase' \in [Actors -> Nat]
        /\ \A x \in Actors : waiting'[x] \in {0, requestIdBase'[x]}
    BY <2>1 DEF TypeOK
  <2>3. outcome' \in [Actors -> Responses \union {NoEnvelope}]  BY <2>1 DEF TypeOK
  <2> QED  BY <2>1, <2>2, <2>3 DEF instanceVars, channelVars, serverVars, TypeOK
<1>3. CASE Receive(a)
  <2>1. Head(syncRspChan[a]) \in Responses  BY <1>3 DEF Receive, TypeOK
  <2>2. /\ waiting' \in [Actors -> Nat] /\ outcome' \in [Actors -> Responses \union {NoEnvelope}]
        /\ \A x \in Actors : waiting'[x] \in {0, requestIdBase[x]}
    <3> DEFINE h == Head(syncRspChan[a])
    <3>1. \/ UNCHANGED <<waiting, outcome>>
          \/ /\ waiting' = [waiting EXCEPT ![a] = 0]
             /\ outcome' = [outcome EXCEPT ![a] = h]
      BY <1>3 DEF Receive
    <3> HIDE DEF h
    <3>2. h \in Responses  BY <2>1 DEF h
    <3>3. CASE UNCHANGED <<waiting, outcome>>  BY <3>3 DEF TypeOK
    <3>4. CASE waiting' = [waiting EXCEPT ![a] = 0] /\ outcome' = [outcome EXCEPT ![a] = h]
      <4>1. waiting' \in [Actors -> Nat] /\ \A x \in Actors : waiting'[x] \in {0, requestIdBase[x]}
        BY <3>4 DEF TypeOK
      <4>2. outcome' \in [Actors -> Responses \union {NoEnvelope}]
        BY <3>2, <3>4 DEF TypeOK
      <4> QED  BY <4>1, <4>2
    <3> QED  BY <3>1, <3>3, <3>4
  <2>3. /\ syncRspChan' \in [Actors -> Seq(Responses)]
        /\ \A x \in Actors : Len(syncRspChan'[x]) <= 1
    BY <1>3 DEF Receive, TypeOK
  <2> QED  BY <1>3, <2>2, <2>3 DEF Receive, instanceVars, serverVars, TypeOK
<1>4. CASE Timeout(a)
  BY <1>4 DEF Timeout, instanceVars, channelVars, serverVars, TypeOK
<1>5. CASE Serve(a)
  <2>1. Head(mailbox[a]) \in Requests /\ Tail(mailbox[a]) \in Seq(Requests)
    BY <1>5 DEF Serve, TypeOK
  <2>2. /\ mailbox' \in [Actors -> Seq(Requests)]
        /\ serving' \in [Actors -> Requests \union {NoEnvelope}]
        /\ DOMAIN pending' = Actors /\ \A x \in Actors : pending'[x] \subseteq Requests
        /\ count' \in [Actors -> Int]
    BY <1>5, <2>1 DEF Serve, TypeOK
  <2> QED  BY <1>5, <2>2 DEF Serve, instanceVars, callerVars, channelVars, TypeOK
<1>6. CASE Answer(a)
  <2>1. PICK r \in Requests : Response(a, r)
    BY <1>6, MadeEnvelopes DEF Answer, TypeOK
  <2> QED
    BY <1>6, <2>1, ResponseTypes DEF Answer, instanceVars, callerVars, channelVars, TypeOK
<1>7. CASE HandlerReturns(a)
  BY <1>7 DEF HandlerReturns, instanceVars, callerVars, channelVars, TypeOK
<1>8. CASE HandlerPanics(a)
  <2>1. serving' \in [Actors -> Requests \union {NoEnvelope}] /\ serving[a] \in Requests
    BY <1>8 DEF HandlerPanics, TypeOK
  <2>2. /\ count' \in [Actors -> Int]
        /\ DOMAIN pending' = Actors /\ \A x \in Actors : pending'[x] \subseteq Requests
        /\ network' \subseteq Requests \union Responses
    <3>1. CASE Response(a, serving[a])  BY <2>1, <3>1, ResponseTypes
    <3>2. CASE UNCHANGED <<pending, count, network>>  BY <3>2 DEF TypeOK
    <3> QED  BY <1>8, <3>1, <3>2 DEF HandlerPanics
  <2> QED
    BY <1>8, <2>1, <2>2 DEF HandlerPanics, instanceVars, callerVars, channelVars, TypeOK
<1>9. CASE Retire(a)
  BY <1>9 DEF Retire, callerVars, channelVars, serverVars, TypeOK
<1>10. CASE LoseBatch(a)
  BY <1>10, LoseMoves DEF TypeOK
<1> QED  BY <1>1, <1>2, <1>3, <1>4, <1>5, <1>6, <1>7, <1>8, <1>9, <1>10 DEF ActorStep

(* Every step keeps the types. *)
LEMMA TypesStep == TypeOK /\ [Next]_vars => TypeOK'
<1> SUFFICES ASSUME TypeOK, [Next]_vars PROVE TypeOK'
  OBVIOUS
<1>1. CASE UNCHANGED vars
  BY <1>1 DEF vars, instanceVars, callerVars, channelVars, serverVars, TypeOK
<1>2. ASSUME NEW a \in Actors, StrangerAsks(a) PROVE TypeOK'
  <2>1. network' \subseteq Requests \union Responses
    BY <1>2, MadeEnvelopes DEF StrangerAsks, TypeOK
  <2> QED
    BY <1>2, <2>1 DEF StrangerAsks, instanceVars, callerVars, channelVars, serverVars, TypeOK
<1> QED  BY <1>1, <1>2, GroupTypes, ActorTypes DEF Next

(* The types are right, and the channel, of capacity one, never overflows: the  *)
(* branch of the group that finds it full is dead code.                         *)
THEOREM TypeCorrect == Spec => []TypeOK
<1>1. Init => TypeOK
  BY DEF Init, TypeOK
<1> QED  BY <1>1, TypesStep, PTL DEF Spec

-----------------------------------------------------------------------------
(* What envelopes say *)

(* The envelope is somewhere in the system. *)
Held(m) ==
  \/ m \in network
  \/ \E b \in Actors : \/ m \in pending[b]
                       \/ m = delivering[b]
                       \/ \E i \in 1 .. Len(mailbox[b]) : mailbox[b][i] = m
                       \/ \E i \in 1 .. Len(syncRspChan[b]) : syncRspChan[b][i] = m

(* An instance that existed, and a request number that it used if it still is   *)
(* the instance of its actor.                                                   *)
Issued(a, i, n) == /\ i \in 1 .. instances
                   /\ i = instance[a] => n <= requestIdBase[a]

(* The envelope names a request that was made; where no peer is a legacy one, a *)
(* response carries the address of its asker.                                   *)
Sound(m) ==
  /\ m.kind = "request" /\ m.from # Nobody => Issued(m.from, m.address, m.id)
  /\ m.kind = "response" => Issued(m.to, m.asker, m.id) /\ m.address = m.asker

AllSound == \A m \in Requests \union Responses : Held(m) => Sound(m)

(* Only the goroutine of a registered context runs, and only one that runs      *)
(* waits.                                                                       *)
Alive == \A a \in Actors : /\ running[a] => instance[a] # 0
                           /\ waiting[a] # 0 => running[a]

(* How instances and their request numbers may change in a step. *)
Aging ==
  /\ instances' >= instances
  /\ \A a \in Actors : \/ instance'[a] = instance[a] /\ requestIdBase'[a] >= requestIdBase[a]
                       \/ instance'[a] = 0
                       \/ instance'[a] > instances

(* What was issued stays issued. *)
LEMMA IssuedKept ==
  ASSUME TypeOK, TypeOK', Aging, NEW a \in Actors, NEW i \in Nat, NEW n \in Nat, Issued(a, i, n)
  PROVE  Issued(a, i, n)'
<1>1. PICK k : k = instances'  OBVIOUS
<1>2. PICK j : j = instance'[a]  OBVIOUS
<1>3. PICK b : b = requestIdBase'[a]  OBVIOUS
<1>4. k \in Nat /\ instances \in Nat /\ k >= instances /\ b \in Nat /\ j \in Nat
  BY <1>1, <1>2, <1>3 DEF TypeOK, Aging
<1>5. i \in 1 .. instances /\ (i = instance[a] => n <= requestIdBase[a])
  BY DEF Issued
<1>6. \/ j = instance[a] /\ b >= requestIdBase[a]
      \/ j = 0
      \/ j > instances
  BY <1>2, <1>3 DEF Aging
<1>7. requestIdBase[a] \in Nat  BY DEF TypeOK
<1>8. i \in 1 .. k /\ (i = j => n <= b)  BY <1>4, <1>5, <1>6, <1>7
<1> QED  BY <1>1, <1>2, <1>3, <1>8 DEF Issued

(* What is said of an envelope stays true. *)
LEMMA SoundKept ==
  ASSUME TypeOK, TypeOK', Aging, NEW m \in Requests \union Responses, Sound(m)
  PROVE  Sound(m)'
<1>1. ASSUME m.kind = "request", m.from # Nobody PROVE Issued(m.from, m.address, m.id)'
  <2>1. m \in Requests  BY <1>1, Kinds
  <2>2. m.from \in Actors /\ m.address \in Nat /\ m.id \in Nat  BY <1>1, <2>1 DEF Requests
  <2> QED  BY <1>1, <2>2, IssuedKept DEF Sound
<1>2. ASSUME m.kind = "response" PROVE Issued(m.to, m.asker, m.id)' /\ m.address = m.asker
  <2>1. m \in Responses  BY <1>2, Kinds
  <2>2. m.to \in Actors /\ m.asker \in Nat /\ m.id \in Nat  BY <2>1 DEF Responses
  <2> QED  BY <1>2, <2>2, IssuedKept DEF Sound
<1> QED  BY <1>1, <1>2 DEF Sound

(* A new context is a new instance. *)
LEMMA CreateAges ==
  ASSUME TypeOK, NEW a \in Actors, Create(a)
  PROVE  Aging
<1>1. instances' = instances + 1 /\ instances \in Nat  BY DEF Create, TypeOK
<1>2. ASSUME NEW x \in Actors
      PROVE  \/ instance'[x] = instance[x] /\ requestIdBase'[x] >= requestIdBase[x]
             \/ instance'[x] > instances
  <2>1. CASE x = a  BY <1>1, <2>1 DEF Create, TypeOK
  <2>2. CASE x # a  BY <2>2 DEF Create, TypeOK
  <2> QED  BY <2>1, <2>2
<1> QED  BY <1>1, <1>2 DEF Aging

(* Every step ages instances only. *)
LEMMA StepAges ==
  ASSUME TypeOK, [Next]_vars
  PROVE  Aging
<1>1. UNCHANGED <<instances, instance, requestIdBase>> => Aging  BY DEF TypeOK, Aging
<1>2. CASE UNCHANGED vars  BY <1>1, <1>2 DEF vars, instanceVars, callerVars
<1>3. ASSUME NEW a \in Actors, GroupStep(a) PROVE Aging
  <2>1. CASE Activate(a)  BY <2>1, CreateAges DEF Activate
  <2>2. CASE DrainChannel(a) \/ HandOver(a)
    BY <1>1, <2>2 DEF DrainChannel, HandOver, instanceVars, callerVars
  <2>3. CASE StopReported(a)
    <3>1. CASE mailbox[a] = <<>>
      <4>1. instance' = [instance EXCEPT ![a] = 0] /\ UNCHANGED <<instances, requestIdBase>>
        BY <2>3, <3>1 DEF StopReported, callerVars
      <4> QED  BY <4>1 DEF TypeOK, Aging
    <3>2. CASE mailbox[a] # <<>>  BY <2>3, <3>2, CreateAges DEF StopReported
    <3> QED  BY <3>1, <3>2
  <2>4. ASSUME NEW m \in network, m.to = a, DeliverRequest(m) PROVE Aging
    <3>1. Create(a) \/ UNCHANGED <<instanceVars, callerVars>>
      BY <2>4 DEF DeliverRequest
    <3> QED  BY <1>1, <3>1, CreateAges DEF instanceVars, callerVars
  <2>5. ASSUME NEW m \in network, DropResponse(m) \/ AcceptResponse(m) PROVE Aging
    BY <1>1, <2>5 DEF DropResponse, AcceptResponse, instanceVars, callerVars
  <2>6. ASSUME NEW m \in network, DropRequest(m) \/ DropEmpty(m) PROVE Aging
    BY <1>1, <2>6, DropMoves
  <2> QED  BY <1>3, <2>1, <2>2, <2>3, <2>4, <2>5, <2>6 DEF GroupStep, Takes
<1>4. ASSUME NEW a \in Actors, ActorStep(a) PROVE Aging
  <2>1. ASSUME NEW b \in Actors, Request(a, b) \/ RequestRefused(a, b) PROVE Aging
    <3>1. requestIdBase' = [requestIdBase EXCEPT ![a] = @ + 1] /\ UNCHANGED <<instances, instance>>
      BY <2>1 DEF Request, RequestRefused, instanceVars
    <3>2. ASSUME NEW x \in Actors PROVE requestIdBase'[x] >= requestIdBase[x]
      <4>1. requestIdBase[x] \in Nat  BY DEF TypeOK
      <4>2. requestIdBase'[x] = requestIdBase[x] \/ requestIdBase'[x] = requestIdBase[x] + 1
        BY <3>1 DEF TypeOK
      <4> QED  BY <4>1, <4>2
    <3> QED  BY <3>1, <3>2 DEF TypeOK, Aging
  <2>2. CASE Receive(a) \/ Timeout(a) \/ Serve(a) \/ Answer(a) \/ HandlerReturns(a)
             \/ HandlerPanics(a) \/ Retire(a)
    BY <1>1, <2>2 DEF Receive, Timeout, Serve, Answer, HandlerReturns, HandlerPanics, Retire,
                      instanceVars, callerVars
  <2>3. CASE LoseBatch(a)  BY <1>1, <2>3, LoseMoves
  <2> QED  BY <1>4, <2>1, <2>2, <2>3 DEF ActorStep
<1>5. ASSUME NEW a \in Actors, StrangerAsks(a) PROVE Aging
  BY <1>1, <1>5 DEF StrangerAsks, instanceVars, callerVars
<1> QED  BY <1>2, <1>3, <1>4, <1>5 DEF Next

(* A new context runs, and does not wait. *)
LEMMA CreateAlive ==
  ASSUME TypeOK, Alive, NEW a \in Actors, Create(a)
  PROVE  Alive'
<1>1. instances + 1 # 0  BY DEF TypeOK
<1> QED  BY <1>1 DEF Create, TypeOK, Alive

(* Every step keeps what runs registered. *)
LEMMA AliveStep ==
  ASSUME TypeOK, Alive, [Next]_vars
  PROVE  Alive'
<1>1. UNCHANGED <<instance, running, waiting>> => Alive'  BY DEF Alive
<1>2. CASE UNCHANGED vars  BY <1>1, <1>2 DEF vars, instanceVars, callerVars
<1>3. ASSUME NEW a \in Actors, GroupStep(a) PROVE Alive'
  <2>1. CASE Activate(a)  BY <2>1, CreateAlive DEF Activate
  <2>2. CASE DrainChannel(a) \/ HandOver(a)
    BY <1>1, <2>2 DEF DrainChannel, HandOver, instanceVars, callerVars
  <2>3. CASE StopReported(a)
    <3>1. CASE mailbox[a] = <<>>
      <4>1. /\ instance' = [instance EXCEPT ![a] = 0] /\ ~running[a]
            /\ UNCHANGED <<running, waiting>>
        BY <2>3, <3>1 DEF StopReported, callerVars
      <4> QED  BY <4>1 DEF TypeOK, Alive
    <3>2. CASE mailbox[a] # <<>>  BY <2>3, <3>2, CreateAlive DEF StopReported
    <3> QED  BY <3>1, <3>2
  <2>4. ASSUME NEW m \in network, m.to = a, DeliverRequest(m) PROVE Alive'
    <3>1. Create(a) \/ UNCHANGED <<instanceVars, callerVars>>
      BY <2>4 DEF DeliverRequest
    <3> QED  BY <1>1, <3>1, CreateAlive DEF instanceVars, callerVars
  <2>5. ASSUME NEW m \in network, DropResponse(m) \/ AcceptResponse(m) PROVE Alive'
    BY <1>1, <2>5 DEF DropResponse, AcceptResponse, instanceVars, callerVars
  <2>6. ASSUME NEW m \in network, DropRequest(m) \/ DropEmpty(m) PROVE Alive'
    BY <1>1, <2>6, DropMoves
  <2> QED  BY <1>3, <2>1, <2>2, <2>3, <2>4, <2>5, <2>6 DEF GroupStep, Takes
<1>4. ASSUME NEW a \in Actors, ActorStep(a) PROVE Alive'
  <2>1. ASSUME NEW b \in Actors, Request(a, b) PROVE Alive'
    BY <2>1 DEF Request, InHandler, instanceVars, TypeOK, Alive
  <2>2. ASSUME NEW b \in Actors, RequestRefused(a, b) PROVE Alive'
    BY <1>1, <2>2 DEF RequestRefused, instanceVars
  <2>3. CASE Receive(a) \/ Timeout(a)
    <3>1. /\ UNCHANGED <<instance, running>>
          /\ UNCHANGED waiting \/ waiting' = [waiting EXCEPT ![a] = 0]
      BY <2>3 DEF Receive, Timeout, instanceVars
    <3> QED  BY <3>1 DEF TypeOK, Alive
  <2>4. CASE Serve(a) \/ Answer(a) \/ HandlerReturns(a) \/ HandlerPanics(a)
    BY <1>1, <2>4 DEF Serve, Answer, HandlerReturns, HandlerPanics, instanceVars, callerVars
  <2>5. CASE Retire(a)
    BY <2>5 DEF Retire, MayRetire, InHandler, callerVars, TypeOK, Alive
  <2>6. CASE LoseBatch(a)  BY <1>1, <2>6, LoseMoves
  <2> QED  BY <1>4, <2>1, <2>2, <2>3, <2>4, <2>5, <2>6 DEF ActorStep
<1>5. ASSUME NEW a \in Actors, StrangerAsks(a) PROVE Alive'
  BY <1>1, <1>5 DEF StrangerAsks, instanceVars, callerVars
<1> QED  BY <1>2, <1>3, <1>4, <1>5 DEF Next

(* Where new envelopes come from. *)
MadeRequest(m) == \E a, b \in Actors : Request(a, b) /\ m = RequestTo(b, a)
MadeResponse(m) == \E b \in Actors : \E r \in Requests :
                     Held(r) /\ r.from # Nobody /\ m \in Answers(r, b)
MadeByHand(m) == \E a \in Actors : StrangerAsks(a) /\ m = Unsigned(a)

(* A new context takes nothing from anywhere. *)
LEMMA CreateHolds ==
  ASSUME TypeOK, NEW a \in Actors, Create(a)
  PROVE  /\ \A b \in Actors : pending'[b] \subseteq pending[b]
         /\ \A b \in Actors : syncRspChan'[b] = syncRspChan[b] \/ syncRspChan'[b] = <<>>
BY DEF Create, TypeOK

(* Answering moves nothing but the answer. *)
LEMMA ResponseHolds ==
  ASSUME TypeOK, NEW a \in Actors, NEW r \in Requests, Held(r), Response(a, r)
  PROVE  /\ \A b \in Actors : pending'[b] \subseteq pending[b]
         /\ \A m \in network' : m \in network \/ MadeResponse(m)
<1>1. \A b \in Actors : pending'[b] \subseteq pending[b]  BY DEF Response, TypeOK
<1>2. ASSUME NEW m \in network', m \notin network PROVE MadeResponse(m)
  <2>1. r.from # Nobody /\ m \in Answers(r, a)  BY <1>2 DEF Response
  <2> QED  BY <2>1 DEF MadeResponse
<1> QED  BY <1>1, <1>2

(* Appending to a mailbox adds one envelope to it, taking its head removes it.  *)
LEMMA MailboxElements ==
  ASSUME NEW q \in Seq(Requests), NEW m
  PROVE  /\ m \in Requests => \A i \in 1 .. Len(Append(q, m)) :
              \/ Append(q, m)[i] = m
              \/ \E j \in 1 .. Len(q) : Append(q, m)[i] = q[j]
         /\ q # <<>> => /\ \E j \in 1 .. Len(q) : Head(q) = q[j]
                        /\ \A i \in 1 .. Len(Tail(q)) : \E j \in 1 .. Len(q) : Tail(q)[i] = q[j]
<1>1. ASSUME m \in Requests, NEW i \in 1 .. Len(Append(q, m))
      PROVE  \/ Append(q, m)[i] = m
             \/ \E j \in 1 .. Len(q) : Append(q, m)[i] = q[j]
  <2>1. CASE i = Len(q) + 1  BY <1>1, <2>1
  <2>2. CASE i \in 1 .. Len(q)  BY <1>1, <2>2
  <2> QED  BY <1>1, <2>1, <2>2
<1>2. ASSUME q # <<>> PROVE \E j \in 1 .. Len(q) : Head(q) = q[j]
  <2>1. 1 \in 1 .. Len(q) /\ Head(q) = q[1]  BY <1>2
  <2> QED  BY <2>1
<1>3. ASSUME q # <<>>, NEW i \in 1 .. Len(Tail(q))
      PROVE  \E j \in 1 .. Len(q) : Tail(q)[i] = q[j]
  <2>1. i + 1 \in 1 .. Len(q) /\ Tail(q)[i] = q[i + 1]  BY <1>3
  <2> QED  BY <2>1
<1> QED  BY <1>1, <1>2, <1>3

(* No envelope comes from nowhere. *)
LEMMA HeldStep ==
  ASSUME TypeOK, [Next]_vars, NEW m \in Requests \union Responses, Held(m)'
  PROVE  Held(m) \/ MadeRequest(m) \/ MadeResponse(m) \/ MadeByHand(m)
<1> DEFINE Goal == Held(m) \/ MadeRequest(m) \/ MadeResponse(m) \/ MadeByHand(m)
<1> SUFFICES ASSUME ~Goal PROVE FALSE
  OBVIOUS
<1>0. NoEnvelope \notin Requests \union Responses  BY NobodyAssumption
<1> DEFINE Shrinks == /\ \A b \in Actors : pending'[b] \subseteq pending[b]
                      /\ \A b \in Actors : delivering'[b] = m => Held(m)
                      /\ \A b \in Actors : \A i \in 1 .. Len(mailbox'[b]) :
                           mailbox'[b][i] = m => Held(m)
                      /\ \A b \in Actors : \A i \in 1 .. Len(syncRspChan'[b]) :
                           syncRspChan'[b][i] = m => Held(m)
                      /\ m \in network' => Goal
<1>1. Shrinks => FALSE
  BY DEF Held
<1> HIDE DEF Shrinks, Goal
<1>2. UNCHANGED <<pending, delivering, mailbox, syncRspChan>> /\ network' \subseteq network => Shrinks
  BY DEF Shrinks, Held, Goal
<1>3. CASE UNCHANGED vars
  BY <1>1, <1>2, <1>3 DEF vars, channelVars, serverVars
<1>4. ASSUME NEW a \in Actors, GroupStep(a) PROVE FALSE
  <2>1. ASSUME Create(a), UNCHANGED <<delivering, mailbox, network>> PROVE Shrinks
    <3>1. /\ \A b \in Actors : pending'[b] \subseteq pending[b]
          /\ \A b \in Actors : syncRspChan'[b] = syncRspChan[b] \/ syncRspChan'[b] = <<>>
      BY <2>1, CreateHolds
    <3>2. \A b \in Actors : \A i \in 1 .. Len(syncRspChan'[b]) : syncRspChan'[b][i] = m => Held(m)
      BY <3>1 DEF Held
    <3> QED  BY <2>1, <3>1, <3>2 DEF Shrinks, Held, Goal
  <2>2. CASE Activate(a)  BY <1>1, <2>1, <2>2 DEF Activate
  <2>3. CASE DrainChannel(a)
    <3>1. \A b \in Actors : syncRspChan'[b] = syncRspChan[b] \/ syncRspChan'[b] = <<>>
      BY <2>3 DEF DrainChannel, TypeOK
    <3>2. \A b \in Actors : \A i \in 1 .. Len(syncRspChan'[b]) : syncRspChan'[b][i] = m => Held(m)
      BY <3>1 DEF Held
    <3>3. UNCHANGED <<pending, delivering, mailbox, network>>
      BY <2>3 DEF DrainChannel, serverVars
    <3> QED  BY <1>1, <3>2, <3>3 DEF Shrinks, Held, Goal
  <2>4. CASE HandOver(a)
    <3>1. /\ syncRspChan' = [syncRspChan EXCEPT ![a] = <<delivering[a]>>]
          /\ delivering' = [delivering EXCEPT ![a] = NoEnvelope]
          /\ UNCHANGED <<pending, mailbox, network>>
      BY <2>4 DEF HandOver, serverVars
    <3>2. ASSUME NEW b \in Actors, NEW i \in 1 .. Len(syncRspChan'[b]), syncRspChan'[b][i] = m
          PROVE  Held(m)
      <4>1. CASE b = a
        <5>1. syncRspChan'[b] = <<delivering[a]>>  BY <3>1, <4>1 DEF TypeOK
        <5>2. m = delivering[a]  BY <3>2, <5>1
        <5> QED  BY <5>2 DEF Held
      <4>2. CASE b # a
        <5>1. syncRspChan'[b] = syncRspChan[b]  BY <3>1, <4>2 DEF TypeOK
        <5> QED  BY <3>2, <5>1 DEF Held
      <4> QED  BY <4>1, <4>2
    <3>3. \A b \in Actors : delivering'[b] = m => Held(m)
      BY <1>0, <3>1 DEF TypeOK, Held
    <3> QED  BY <1>1, <3>1, <3>2, <3>3 DEF Shrinks, Held, Goal
  <2>5. CASE StopReported(a)
    <3>1. CASE mailbox[a] = <<>>
      BY <1>1, <1>2, <2>5, <3>1 DEF StopReported
    <3>2. CASE mailbox[a] # <<>>
      BY <1>1, <2>1, <2>5, <3>2 DEF StopReported
    <3> QED  BY <3>1, <3>2
  <2>6. ASSUME NEW n \in network, n.to = a, DeliverRequest(n) PROVE FALSE
    <3>1. n \in Requests  BY <2>6, Kinds DEF DeliverRequest, TypeOK
    <3>2. /\ mailbox' = [mailbox EXCEPT ![a] = Append(mailbox[a], n)]
          /\ network' \subseteq network /\ delivering' = delivering
          /\ \/ Create(a)
             \/ UNCHANGED <<syncRspChan, pending>>
      BY <2>6 DEF DeliverRequest, channelVars
    <3>3. ASSUME NEW b \in Actors, NEW i \in 1 .. Len(mailbox'[b]), mailbox'[b][i] = m
          PROVE  Held(m)
      <4>1. CASE b = a
        <5>1. mailbox'[b] = Append(mailbox[a], n) /\ mailbox[a] \in Seq(Requests)
          BY <3>2, <4>1 DEF TypeOK
        <5>2. m = n \/ \E j \in 1 .. Len(mailbox[a]) : m = mailbox[a][j]
          BY <3>1, <3>3, <5>1, MailboxElements
        <5> QED  BY <5>2 DEF Held
      <4>2. CASE b # a
        <5>1. mailbox'[b] = mailbox[b]  BY <3>2, <4>2 DEF TypeOK
        <5> QED  BY <3>3, <5>1 DEF Held
      <4> QED  BY <4>1, <4>2
    <3>4. /\ \A b \in Actors : pending'[b] \subseteq pending[b]
          /\ \A b \in Actors : syncRspChan'[b] = syncRspChan[b] \/ syncRspChan'[b] = <<>>
      BY <3>2, CreateHolds
    <3>5. \A b \in Actors : \A i \in 1 .. Len(syncRspChan'[b]) : syncRspChan'[b][i] = m => Held(m)
      BY <3>4 DEF Held
    <3> QED  BY <1>1, <3>2, <3>3, <3>4, <3>5 DEF Shrinks, Held, Goal
  <2>7. ASSUME NEW n \in network, DropResponse(n) PROVE FALSE
    BY <1>1, <1>2, <2>7 DEF DropResponse, Arrives, channelVars, serverVars
  <2>8. ASSUME NEW n \in network, n.to = a, AcceptResponse(n) PROVE FALSE
    <3>1. /\ delivering' = [delivering EXCEPT ![a] = n]
          /\ network' \subseteq network /\ UNCHANGED <<syncRspChan, pending, mailbox>>
      BY <2>8 DEF AcceptResponse, Arrives, serverVars
    <3>2. \A b \in Actors : delivering'[b] = m => Held(m)
      BY <3>1 DEF TypeOK, Held
    <3> QED  BY <1>1, <3>1, <3>2 DEF Shrinks, Held, Goal
  <2>9. ASSUME NEW n \in network, DropRequest(n) \/ DropEmpty(n) PROVE FALSE
    BY <1>1, <1>2, <2>9, DropMoves
  <2> QED  BY <1>4, <2>2, <2>3, <2>4, <2>5, <2>6, <2>7, <2>8, <2>9 DEF GroupStep, Takes
<1>5. ASSUME NEW a \in Actors, ActorStep(a) PROVE FALSE
  <2>1. ASSUME NEW b \in Actors, Request(a, b) PROVE FALSE
    <3>1. network' = network \union {RequestTo(b, a)}
          /\ UNCHANGED <<pending, delivering, mailbox, syncRspChan>>
      BY <2>1 DEF Request, channelVars, serverVars
    <3>2. m \in network' => Goal  BY <2>1, <3>1 DEF Goal, Held, MadeRequest
    <3> QED  BY <1>1, <3>1, <3>2 DEF Shrinks, Held
  <2>2. ASSUME NEW b \in Actors, RequestRefused(a, b) PROVE FALSE
    BY <1>1, <1>2, <2>2 DEF RequestRefused, channelVars, serverVars
  <2>3. CASE Receive(a)
    <3>1. syncRspChan' = [syncRspChan EXCEPT ![a] = <<>>]
          /\ UNCHANGED <<pending, delivering, mailbox, network>>
      BY <2>3 DEF Receive, serverVars
    <3>2. \A b \in Actors : syncRspChan'[b] = syncRspChan[b] \/ syncRspChan'[b] = <<>>
      BY <3>1 DEF TypeOK
    <3>3. \A b \in Actors : \A i \in 1 .. Len(syncRspChan'[b]) : syncRspChan'[b][i] = m => Held(m)
      BY <3>2 DEF Held
    <3> QED  BY <1>1, <3>1, <3>3 DEF Shrinks, Held, Goal
  <2>4. CASE Timeout(a) \/ HandlerReturns(a) \/ Retire(a)
    BY <1>1, <1>2, <2>4 DEF Timeout, HandlerReturns, Retire, channelVars, serverVars
  <2>5. CASE Serve(a)
    <3>1. /\ mailbox' = [mailbox EXCEPT ![a] = Tail(mailbox[a])] /\ mailbox[a] # <<>>
          /\ pending' = [pending EXCEPT ![a] = pending[a] \union {Head(mailbox[a])}]
          /\ UNCHANGED <<delivering, network, syncRspChan>>
      BY <2>5 DEF Serve, channelVars
    <3>2. /\ mailbox[a] \in Seq(Requests)
          /\ \E j \in 1 .. Len(mailbox[a]) : Head(mailbox[a]) = mailbox[a][j]
          /\ \A i \in 1 .. Len(Tail(mailbox[a])) :
               \E j \in 1 .. Len(mailbox[a]) : Tail(mailbox[a])[i] = mailbox[a][j]
      BY <3>1, MailboxElements DEF TypeOK
    <3>3. \A b \in Actors : m \in pending'[b] => Held(m)
      BY <3>1, <3>2 DEF TypeOK, Held
    <3>4. ASSUME NEW b \in Actors, NEW i \in 1 .. Len(mailbox'[b]), mailbox'[b][i] = m
          PROVE  Held(m)
      <4>1. CASE b = a
        <5>1. mailbox'[b] = Tail(mailbox[a])  BY <3>1, <4>1 DEF TypeOK
        <5> QED  BY <3>2, <3>4, <5>1 DEF Held
      <4>2. CASE b # a
        <5>1. mailbox'[b] = mailbox[b]  BY <3>1, <4>2 DEF TypeOK
        <5> QED  BY <3>4, <5>1 DEF Held
      <4> QED  BY <4>1, <4>2
    <3> QED  BY <3>1, <3>3, <3>4 DEF Held, Goal
  <2>6. ASSUME NEW r \in Requests, Held(r), Response(a, r),
               UNCHANGED <<delivering, mailbox, syncRspChan>>
        PROVE  FALSE
    <3>1. /\ \A b \in Actors : pending'[b] \subseteq pending[b]
          /\ \A n \in network' : n \in network \/ MadeResponse(n)
      BY <2>6, ResponseHolds
    <3>2. m \in network' => Goal  BY <3>1 DEF Goal, Held
    <3> QED  BY <1>1, <2>6, <3>1, <3>2 DEF Shrinks, Held
  <2>7. ASSUME Response(a, Unsigned(a)), UNCHANGED <<delivering, mailbox, syncRspChan>>
        PROVE  FALSE
    <3>1. network' = network /\ \A b \in Actors : pending'[b] \subseteq pending[b]
      BY <2>7 DEF Response, Unsigned, TypeOK
    <3> QED  BY <1>1, <2>7, <3>1 DEF Shrinks, Held, Goal
  <2>8. CASE Answer(a)
    <3>1. UNCHANGED <<delivering, mailbox, syncRspChan>>
      BY <2>8 DEF Answer, channelVars
    <3>2. (\E r \in pending[a] : Response(a, r)) \/ Response(a, Unsigned(a))
      BY <2>8 DEF Answer
    <3>3. ASSUME NEW r \in pending[a], Response(a, r) PROVE FALSE
      <4>1. r \in Requests /\ Held(r)  BY DEF TypeOK, Held
      <4> QED  BY <2>6, <3>1, <3>3, <4>1
    <3> QED  BY <2>7, <3>1, <3>2, <3>3
  <2>9. CASE HandlerPanics(a)
    <3>1. UNCHANGED <<delivering, mailbox, syncRspChan>>
      BY <2>9 DEF HandlerPanics, channelVars
    <3>2. CASE serving[a] \in pending[a] /\ Response(a, serving[a])
      <4>1. serving[a] \in Requests /\ Held(serving[a])  BY <3>2 DEF TypeOK, Held
      <4> QED  BY <2>6, <3>1, <3>2, <4>1
    <3>3. CASE serving[a] = Unsigned(a) /\ Response(a, serving[a])
      BY <2>7, <3>1, <3>3
    <3>4. CASE UNCHANGED <<pending, count, network>>
      BY <1>1, <1>2, <3>1, <3>4
    <3> QED  BY <2>9, <3>2, <3>3, <3>4 DEF HandlerPanics
  <2>10. CASE LoseBatch(a)
    <3>1. \A b \in Actors : \A i \in 1 .. Len(mailbox'[b]) : mailbox'[b][i] = m => Held(m)
      BY <2>10, LoseShortens DEF Held
    <3>2. UNCHANGED <<pending, delivering, network, syncRspChan>>  BY <2>10, LoseMoves
    <3> QED  BY <1>1, <3>1, <3>2 DEF Shrinks, Held, Goal
  <2> QED  BY <1>5, <2>1, <2>2, <2>3, <2>4, <2>5, <2>8, <2>9, <2>10 DEF ActorStep
<1>6. ASSUME NEW a \in Actors, StrangerAsks(a) PROVE FALSE
  <2>1. network' = network \union {Unsigned(a)}
        /\ UNCHANGED <<pending, delivering, mailbox, syncRspChan>>
    BY <1>6 DEF StrangerAsks, channelVars, serverVars
  <2>2. m \in network' => Goal  BY <1>6, <2>1 DEF Goal, Held, MadeByHand
  <2> QED  BY <1>1, <2>1, <2>2 DEF Shrinks, Held
<1> QED  BY <1>3, <1>4, <1>5, <1>6 DEF Next

(* A request that is made names the instance of its caller and its new number. *)
LEMMA MadeIsIssued ==
  ASSUME TypeOK, TypeOK', Alive, NEW a \in Actors, NEW b \in Actors, Request(a, b),
         NEW m, m = RequestTo(b, a)
  PROVE  /\ m.from = a /\ m.to = b
         /\ Issued(m.from, m.address, m.id)'
<1>1. /\ m.from = a /\ m.address = instance[a] /\ m.to = b
      /\ m.id = requestIdBase[a] + 1
  BY DEF RequestTo
<1>2. /\ requestIdBase'[a] = requestIdBase[a] + 1
      /\ instances' = instances /\ instance' = instance
  BY DEF Request, instanceVars, TypeOK
<1>3. instance[a] \in 1 .. instances /\ requestIdBase[a] \in Nat
  <2>1. running[a]  BY DEF Request, InHandler
  <2>2. instance[a] # 0  BY <2>1 DEF Alive
  <2>3. instances \in Nat /\ instance[a] \in 0 .. instances /\ requestIdBase[a] \in Nat
    BY DEF TypeOK
  <2> QED  BY <2>2, <2>3
<1> QED  BY <1>1, <1>2, <1>3 DEF Issued

(* Every step keeps what envelopes say right. *)
LEMMA SoundStep ==
  ASSUME Legacy = {}, TypeOK, TypeOK', Alive, AllSound, [Next]_vars
  PROVE  AllSound'
<1>1. Aging  BY StepAges
<1> SUFFICES ASSUME NEW m \in Requests \union Responses, Held(m)'
             PROVE  Sound(m)'
  BY DEF AllSound
<1>2. CASE Held(m)
  BY <1>1, <1>2, SoundKept DEF AllSound
<1>3. CASE MadeRequest(m)
  <2>1. PICK a \in Actors, b \in Actors : Request(a, b) /\ m = RequestTo(b, a)
    BY <1>3 DEF MadeRequest
  <2>2. m.kind = "request" /\ m.from = a /\ Issued(m.from, m.address, m.id)'
    BY <2>1, MadeIsIssued DEF RequestTo
  <2> QED  BY <2>2 DEF Sound
<1>4. CASE MadeResponse(m)
  <2>1. PICK b \in Actors, r \in Requests : Held(r) /\ r.from # Nobody /\ m \in Answers(r, b)
    BY <1>4 DEF MadeResponse
  <2>2. /\ m.kind = "response" /\ m.to = r.from /\ m.asker = r.address
        /\ m.address = r.address /\ m.id = r.id
    BY <2>1, AnswerFields
  <2>3. r.kind = "request" /\ r.from \in Actors /\ r.address \in Nat /\ r.id \in Nat
    BY <2>1 DEF Requests
  <2>4. Issued(r.from, r.address, r.id)  BY <2>1, <2>3 DEF AllSound, Sound
  <2>5. Issued(r.from, r.address, r.id)'  BY <1>1, <2>3, <2>4, IssuedKept
  <2> QED  BY <2>2, <2>5 DEF Sound
<1>5. CASE MadeByHand(m)
  BY <1>5 DEF MadeByHand, Unsigned, Sound
<1> QED  BY <1>2, <1>3, <1>4, <1>5, HeldStep

(* What is in the channel is held. *)
LEMMA ChannelHeld ==
  ASSUME TypeOK, NEW a \in Actors, syncRspChan[a] # <<>>
  PROVE  /\ Head(syncRspChan[a]) \in Responses /\ Held(Head(syncRspChan[a]))
         /\ Head(syncRspChan[a]) = syncRspChan[a][1] /\ Len(syncRspChan[a]) = 1
<1>1. syncRspChan[a] \in Seq(Responses) /\ Len(syncRspChan[a]) <= 1  BY DEF TypeOK
<1>2. 1 \in 1 .. Len(syncRspChan[a]) /\ Head(syncRspChan[a]) = syncRspChan[a][1]
      /\ Len(syncRspChan[a]) = 1
  <2> DEFINE q == syncRspChan[a]
  <2> HIDE DEF q
  <2>1. q \in Seq(Responses) /\ Len(q) <= 1 /\ q # <<>>  BY <1>1 DEF q
  <2>2. Len(q) \in Nat  BY <2>1
  <2>3. Len(q) # 0  BY <2>1
  <2>4. Head(q) = q[1]  BY <2>1
  <2>5. PICK n \in Nat : n = Len(q)  BY <2>2
  <2>6. n <= 1 /\ n # 0  BY <2>1, <2>3, <2>5
  <2>7. n = 1 /\ 1 \in 1 .. n  BY <2>6
  <2> QED  BY <2>4, <2>5, <2>7 DEF q
<1> QED  BY <1>1, <1>2 DEF Held

(* An actor of which nothing but its outcome was forgotten returns what it did.  *)
LEMMA OwnKept ==
  ASSUME OwnAnswer, NEW a \in Actors,
         \/ ~running'[a]
         \/ outcome'[a] = NoEnvelope
         \/ /\ running'[a] = running[a] /\ outcome'[a] = outcome[a]
            /\ instance'[a] = instance[a] /\ requestIdBase'[a] = requestIdBase[a]
  PROVE  running'[a] /\ outcome'[a] # NoEnvelope
           => outcome'[a].asker = instance'[a] /\ outcome'[a].id = requestIdBase'[a]
BY DEF OwnAnswer

(* Every step returns own answers only. *)
LEMMA OwnAnswerStep ==
  ASSUME TypeOK, Alive, AllSound, OwnAnswer, [Next]_vars
  PROVE  OwnAnswer'
<1> DEFINE Kept(x) == \/ ~running'[x]
                      \/ outcome'[x] = NoEnvelope
                      \/ /\ running'[x] = running[x] /\ outcome'[x] = outcome[x]
                         /\ instance'[x] = instance[x] /\ requestIdBase'[x] = requestIdBase[x]
<1>1. (\A x \in Actors : Kept(x)) => OwnAnswer'
  BY OwnKept DEF OwnAnswer
<1>2. CASE UNCHANGED <<running, outcome, instance, requestIdBase>>
  BY <1>1, <1>2
<1>3. ASSUME NEW a \in Actors, Create(a) PROVE OwnAnswer'
  <2>1. ASSUME NEW x \in Actors PROVE Kept(x)
    <3>1. CASE x = a  BY <1>3, <3>1 DEF Create, TypeOK
    <3>2. CASE x # a  BY <1>3, <3>2 DEF Create, TypeOK
    <3> QED  BY <3>1, <3>2
  <2> QED  BY <1>1, <2>1
<1>4. CASE UNCHANGED vars  BY <1>2, <1>4 DEF vars, instanceVars, callerVars
<1>5. ASSUME NEW a \in Actors, GroupStep(a) PROVE OwnAnswer'
  <2>1. CASE Activate(a)  BY <1>3, <2>1 DEF Activate
  <2>2. CASE DrainChannel(a) \/ HandOver(a)
    BY <1>2, <2>2 DEF DrainChannel, HandOver, instanceVars, callerVars
  <2>3. CASE StopReported(a)
    <3>1. CASE mailbox[a] = <<>>
      <4>1. /\ instance' = [instance EXCEPT ![a] = 0] /\ ~running[a]
            /\ UNCHANGED <<running, outcome, requestIdBase>>
        BY <2>3, <3>1 DEF StopReported, callerVars
      <4>2. \A x \in Actors : Kept(x)  BY <4>1 DEF TypeOK
      <4> QED  BY <1>1, <4>2
    <3>2. CASE mailbox[a] # <<>>  BY <1>3, <2>3, <3>2 DEF StopReported
    <3> QED  BY <3>1, <3>2
  <2>4. ASSUME NEW m \in network, m.to = a, DeliverRequest(m) PROVE OwnAnswer'
    <3>1. Create(a) \/ UNCHANGED <<instanceVars, callerVars>>
      BY <2>4 DEF DeliverRequest
    <3> QED  BY <1>2, <1>3, <3>1 DEF instanceVars, callerVars
  <2>5. ASSUME NEW m \in network, DropResponse(m) \/ AcceptResponse(m) PROVE OwnAnswer'
    BY <1>2, <2>5 DEF DropResponse, AcceptResponse, instanceVars, callerVars
  <2>6. ASSUME NEW m \in network, DropRequest(m) \/ DropEmpty(m) PROVE OwnAnswer'
    BY <1>2, <2>6, DropMoves
  <2> QED  BY <1>5, <2>1, <2>2, <2>3, <2>4, <2>5, <2>6 DEF GroupStep, Takes
<1>6. ASSUME NEW a \in Actors, ActorStep(a) PROVE OwnAnswer'
  <2>1. ASSUME NEW b \in Actors, Request(a, b) \/ RequestRefused(a, b) PROVE OwnAnswer'
    <3>1. /\ outcome' = [outcome EXCEPT ![a] = NoEnvelope]
          /\ requestIdBase' = [requestIdBase EXCEPT ![a] = @ + 1]
          /\ UNCHANGED <<running, instance>>
      BY <2>1 DEF Request, RequestRefused, instanceVars
    <3>2. \A x \in Actors : Kept(x)  BY <3>1 DEF TypeOK
    <3> QED  BY <1>1, <3>2
  <2>2. CASE Receive(a)
    <3> DEFINE h == Head(syncRspChan[a])
    <3>1. /\ waiting[a] # 0 /\ syncRspChan[a] # <<>>
          /\ UNCHANGED <<running, instance, requestIdBase>>
          /\ \/ Matches(a, h) /\ outcome' = [outcome EXCEPT ![a] = h]
             \/ outcome' = outcome
      BY <2>2 DEF Receive, instanceVars
    <3>2. h \in Responses /\ Sound(h)
      BY <3>1, ChannelHeld DEF AllSound
    <3> HIDE DEF h
    <3>3. CASE outcome' = outcome  BY <1>2, <3>1, <3>3
    <3>4. CASE Matches(a, h) /\ outcome' = [outcome EXCEPT ![a] = h]
      <4>1. h.address = h.asker /\ h.asker \in 1 .. instances
        BY <3>2, Kinds DEF Sound, Issued
      <4>2. h.address # 0  BY <4>1
      <4>3. h.id = waiting[a] /\ h.address = instance[a]
        BY <3>4, <4>2 DEF Matches
      <4>4. waiting[a] = requestIdBase[a]  BY <3>1 DEF TypeOK
      <4>5. outcome'[a] = h  BY <3>4 DEF TypeOK
      <4>6. \A x \in Actors : x # a => outcome'[x] = outcome[x]  BY <3>4 DEF TypeOK
      <4> QED  BY <3>1, <4>1, <4>3, <4>4, <4>5, <4>6 DEF OwnAnswer
    <3> QED  BY <3>1, <3>3, <3>4
  <2>3. CASE Timeout(a) \/ Serve(a) \/ Answer(a) \/ HandlerReturns(a) \/ HandlerPanics(a)
    BY <1>2, <2>3
    DEF Timeout, Serve, Answer, HandlerReturns, HandlerPanics, instanceVars, callerVars
  <2>4. CASE Retire(a)
    <3>1. /\ running' = [running EXCEPT ![a] = FALSE]
          /\ UNCHANGED <<outcome, instance, requestIdBase>>
      BY <2>4 DEF Retire, callerVars
    <3>2. \A x \in Actors : Kept(x)  BY <3>1 DEF TypeOK
    <3> QED  BY <1>1, <3>2
  <2>5. CASE LoseBatch(a)  BY <1>2, <2>5, LoseMoves
  <2> QED  BY <1>6, <2>1, <2>2, <2>3, <2>4, <2>5 DEF ActorStep
<1>7. ASSUME NEW a \in Actors, StrangerAsks(a) PROVE OwnAnswer'
  BY <1>2, <1>7 DEF StrangerAsks, instanceVars, callerVars
<1> QED  BY <1>4, <1>5, <1>6, <1>7 DEF Next

(* At the start nothing is held, runs or waits. *)
LEMMA InitSound == Init => Alive /\ AllSound /\ OwnAnswer
<1> SUFFICES ASSUME Init PROVE Alive /\ AllSound /\ OwnAnswer
  OBVIOUS
<1>1. Alive /\ OwnAnswer  BY DEF Init, Alive, OwnAnswer
<1>2. ASSUME NEW m \in Requests \union Responses, Held(m) PROVE FALSE
  BY <1>2, NobodyAssumption DEF Init, Held
<1> QED  BY <1>1, <1>2 DEF AllSound

(* Without legacy peers a request returns its own answer or none: neither the   *)
(* late answer to an earlier request of the same instance, nor that to a        *)
(* request of an earlier instance with the same number, whatever the order in   *)
(* which answers come and however often.                                        *)
THEOREM OwnAnswerOnly ==
  ASSUME Legacy = {}
  PROVE  Spec => []OwnAnswer
<1> DEFINE IInv == TypeOK /\ Alive /\ AllSound /\ OwnAnswer
<1>1. Init /\ TypeOK => IInv  BY InitSound
<1>2. IInv /\ TypeOK' /\ [Next]_vars => IInv'
  BY AliveStep, SoundStep, OwnAnswerStep
<1>3. IInv => OwnAnswer  OBVIOUS
<1> QED  BY <1>1, <1>2, <1>3, TypeCorrect, PTL DEF Spec

-----------------------------------------------------------------------------
(* The channel *)

(* What the group is about to put into the channel is for the registered        *)
(* context, and newer than all that was put there before; what is in the        *)
(* channel is the last that was; and what the actor waits for, once put there,  *)
(* is still there.                                                              *)
Fits(a) ==
  /\ delivering[a] # NoEnvelope =>
       /\ instance[a] # 0
       /\ delivering[a].to = a /\ delivering[a].asker = instance[a]
       /\ lastSyncRsp[a] < delivering[a].id
  /\ instance[a] # 0 => lastSyncRsp[a] <= requestIdBase[a]
  /\ syncRspChan[a] # <<>> => Head(syncRspChan[a]).to = a
  /\ instance[a] # 0 /\ syncRspChan[a] # <<>> =>
       /\ Head(syncRspChan[a]).asker = instance[a]
       /\ Head(syncRspChan[a]).id = lastSyncRsp[a]
  /\ waiting[a] # 0 /\ lastSyncRsp[a] = waiting[a] => syncRspChan[a] # <<>>

Channelled == \A a \in Actors : Fits(a)

(* A step that touches nothing of the channel of an actor, nor its context.     *)
SameChannel(a) ==
  /\ delivering'[a] = delivering[a] /\ syncRspChan'[a] = syncRspChan[a]
  /\ lastSyncRsp'[a] = lastSyncRsp[a] /\ instance'[a] = instance[a]
  /\ requestIdBase'[a] = requestIdBase[a] /\ waiting'[a] = waiting[a]

LEMMA FitsKept ==
  ASSUME NEW a \in Actors, Fits(a), SameChannel(a)
  PROVE  Fits(a)'
BY DEF Fits, SameChannel

(* A new context has an empty channel and waits for nothing. *)
LEMMA CreateFits ==
  ASSUME TypeOK, Channelled, NEW a \in Actors, Create(a), delivering[a] = NoEnvelope,
         UNCHANGED delivering
  PROVE  Channelled'
<1>1. ASSUME NEW x \in Actors, x # a PROVE Fits(x)'
  <2>1. SameChannel(x)  BY <1>1 DEF Create, TypeOK, SameChannel
  <2> QED  BY <2>1, FitsKept DEF Channelled
<1>2. Fits(a)'
  <2>1. /\ delivering'[a] = NoEnvelope /\ syncRspChan'[a] = <<>> /\ waiting'[a] = 0
        /\ lastSyncRsp'[a] = 0 /\ requestIdBase'[a] = 0
    BY DEF Create, TypeOK
  <2> QED  BY <2>1 DEF Fits
<1> QED  BY <1>1, <1>2 DEF Channelled

(* No answer has a number that its actor did not use yet. *)
LEMMA DeliveredWasIssued ==
  ASSUME TypeOK, AllSound, Channelled, NEW a \in Actors, delivering[a] # NoEnvelope
  PROVE  /\ delivering[a] \in Responses /\ delivering[a].id \in Nat
         /\ delivering[a].id <= requestIdBase[a]
<1>1. delivering[a] \in Responses /\ Held(delivering[a])  BY DEF TypeOK, Held
<1>2. delivering[a].kind = "response" /\ Sound(delivering[a]) /\ delivering[a].id \in Nat
  BY <1>1 DEF Responses, AllSound
<1>3. delivering[a].to = a /\ delivering[a].asker = instance[a]
  BY DEF Channelled, Fits
<1> QED  BY <1>1, <1>2, <1>3 DEF Sound, Issued

(* The group of an actor keeps its channel in order. *)
LEMMA GroupFits ==
  ASSUME TypeOK, Alive, AllSound, Channelled, NEW a \in Actors, GroupStep(a)
  PROVE  Channelled'
<1> DEFINE Frame == \A x \in Actors : x # a => SameChannel(x)
<1>0. Frame /\ Fits(a)' => Channelled'
  BY FitsKept DEF Channelled
<1>n. /\ instances \in Nat /\ instance[a] \in Nat /\ requestIdBase[a] \in Nat
      /\ lastSyncRsp[a] \in Nat /\ waiting[a] \in {0, requestIdBase[a]}
  BY DEF TypeOK
<1>d. delivering[a] # NoEnvelope =>
        /\ delivering[a] \in Responses /\ delivering[a].id \in Nat
        /\ delivering[a].id <= requestIdBase[a]
  BY DeliveredWasIssued
<1>1. CASE Activate(a)
  BY <1>1, CreateFits DEF Activate
<1>2. CASE DrainChannel(a)
  <2>1. /\ delivering[a] # NoEnvelope
        /\ syncRspChan' = [syncRspChan EXCEPT ![a] = <<>>]
        /\ UNCHANGED <<instance, requestIdBase, waiting, lastSyncRsp, delivering>>
    BY <1>2 DEF DrainChannel, instanceVars, callerVars
  <2>2. Frame  BY <2>1 DEF SameChannel, TypeOK
  <2>3. syncRspChan'[a] = <<>>  BY <2>1 DEF TypeOK
  <2>4. Fits(a) /\ lastSyncRsp[a] < delivering[a].id  BY <2>1 DEF Channelled, Fits
  <2>5. ~ (waiting[a] # 0 /\ lastSyncRsp[a] = waiting[a])  BY <1>n, <1>d, <2>1, <2>4
  <2> QED  BY <1>0, <2>1, <2>2, <2>3, <2>4, <2>5 DEF Fits
<1>3. CASE HandOver(a)
  <2>1. /\ delivering[a] # NoEnvelope
        /\ syncRspChan' = [syncRspChan EXCEPT ![a] = <<delivering[a]>>]
        /\ lastSyncRsp' = [lastSyncRsp EXCEPT ![a] = delivering[a].id]
        /\ delivering' = [delivering EXCEPT ![a] = NoEnvelope]
        /\ UNCHANGED <<instance, requestIdBase, waiting>>
    BY <1>3 DEF HandOver, instanceVars, callerVars
  <2>2. Frame  BY <2>1 DEF SameChannel, TypeOK
  <2>3. /\ syncRspChan'[a] = <<delivering[a]>> /\ lastSyncRsp'[a] = delivering[a].id
        /\ delivering'[a] = NoEnvelope
    BY <2>1 DEF TypeOK
  <2>4. Head(<<delivering[a]>>) = delivering[a] /\ <<delivering[a]>> # <<>>  OBVIOUS
  <2>5. delivering[a].to = a /\ delivering[a].asker = instance[a]
    BY <2>1 DEF Channelled, Fits
  <2>6. Head(syncRspChan'[a]) = delivering[a] /\ syncRspChan'[a] # <<>>  BY <2>3, <2>4
  <2>7. delivering[a].id <= requestIdBase[a]  BY <1>d, <2>1
  <2>8. Fits(a)'  BY <2>1, <2>3, <2>5, <2>6, <2>7 DEF Fits
  <2> QED  BY <1>0, <2>2, <2>8
<1>4. CASE StopReported(a)
  <2>1. CASE mailbox[a] = <<>>
    <3>1. /\ instance' = [instance EXCEPT ![a] = 0] /\ ~running[a] /\ delivering[a] = NoEnvelope
          /\ UNCHANGED <<requestIdBase, waiting, syncRspChan, lastSyncRsp, delivering>>
      BY <1>4, <2>1 DEF StopReported, callerVars
    <3>2. Frame  BY <3>1 DEF SameChannel, TypeOK
    <3>3. instance'[a] = 0 /\ waiting[a] = 0  BY <3>1 DEF TypeOK, Alive
    <3>4. Fits(a)'
      <4>1. Fits(a)  BY DEF Channelled
      <4> QED  BY <3>1, <3>3, <4>1 DEF Fits
    <3> QED  BY <1>0, <3>2, <3>4
  <2>2. CASE mailbox[a] # <<>>  BY <1>4, <2>2, CreateFits DEF StopReported
  <2> QED  BY <2>1, <2>2
<1>5. ASSUME NEW m \in network, m.to = a, DeliverRequest(m) PROVE Channelled'
  <2>1. CASE instance[a] = 0  BY <1>5, <2>1, CreateFits DEF DeliverRequest
  <2>2. CASE instance[a] # 0
    <3>1. UNCHANGED <<instance, requestIdBase, waiting, syncRspChan, lastSyncRsp, delivering>>
      BY <1>5, <2>2 DEF DeliverRequest, instanceVars, callerVars, channelVars
    <3>2. \A x \in Actors : SameChannel(x)  BY <3>1 DEF SameChannel
    <3> QED  BY <3>2, FitsKept DEF Channelled
  <2> QED  BY <2>1, <2>2
<1>6. ASSUME NEW m \in network, m.to = a, DropResponse(m) PROVE Channelled'
  <2>1. \A x \in Actors : SameChannel(x)
    BY <1>6 DEF DropResponse, instanceVars, callerVars, channelVars, SameChannel
  <2> QED  BY <2>1, FitsKept DEF Channelled
<1>7. ASSUME NEW m \in network, m.to = a, AcceptResponse(m) PROVE Channelled'
  <2>1. /\ m.kind = "response" /\ ~IsStale(m)
        /\ delivering' = [delivering EXCEPT ![a] = m]
        /\ UNCHANGED <<instance, requestIdBase, waiting, syncRspChan, lastSyncRsp>>
    BY <1>7 DEF AcceptResponse, Arrives, instanceVars, callerVars
  <2>2. Frame  BY <2>1 DEF SameChannel, TypeOK
  <2>3. delivering'[a] = m  BY <2>1 DEF TypeOK
  <2>4. m \in Responses /\ m.id \in Nat /\ Sound(m)
    <3>1. m \in Responses /\ Held(m)  BY <2>1, Kinds DEF TypeOK, Held
    <3> QED  BY <3>1 DEF Responses, AllSound
  <2>5. m.asker \in 1 .. instances /\ m.address = m.asker
    BY <1>7, <2>1, <2>4 DEF Sound, Issued
  <2>6. m.address # 0  BY <1>n, <2>5
  <2>7. instance[a] # 0 /\ m.asker = instance[a] /\ ~(m.id <= lastSyncRsp[a])
    BY <1>7, <2>1, <2>5, <2>6 DEF IsStale
  <2>8. lastSyncRsp[a] < m.id  BY <1>n, <2>4, <2>7
  <2>9. Fits(a)  BY DEF Channelled
  <2>10. Fits(a)'  BY <1>7, <2>1, <2>3, <2>7, <2>8, <2>9 DEF Fits
  <2> QED  BY <1>0, <2>2, <2>10
<1>8. ASSUME NEW m \in network, DropRequest(m) \/ DropEmpty(m) PROVE Channelled'
  <2>1. \A x \in Actors : SameChannel(x)  BY <1>8, DropMoves DEF SameChannel
  <2> QED  BY <2>1, FitsKept DEF Channelled
<1> QED  BY <1>1, <1>2, <1>3, <1>4, <1>5, <1>6, <1>7, <1>8 DEF GroupStep, Takes

(* A response that matches is the one that was put into the channel last. *)
LEMMA LastMatches ==
  ASSUME TypeOK, Alive, AllSound, Channelled, NEW a \in Actors,
         waiting[a] # 0, syncRspChan[a] # <<>>, lastSyncRsp[a] = waiting[a]
  PROVE  Matches(a, Head(syncRspChan[a]))
<1> DEFINE h == Head(syncRspChan[a])
<1>1. instance[a] # 0  BY DEF Alive
<1>2. h \in Responses /\ Sound(h)  BY ChannelHeld DEF AllSound
<1>3. h.kind = "response"  BY <1>2 DEF Responses
<1>4. h.asker = instance[a] /\ h.id = lastSyncRsp[a]
  BY <1>1 DEF Channelled, Fits
<1>5. h.address = h.asker  BY <1>2, <1>3 DEF Sound
<1> QED  BY <1>4, <1>5 DEF Matches

(* An actor keeps the order of its channel. *)
LEMMA ActorFits ==
  ASSUME TypeOK, Alive, AllSound, Channelled, NEW a \in Actors, ActorStep(a)
  PROVE  Channelled'
<1> DEFINE Frame == \A x \in Actors : x # a => SameChannel(x)
<1>0. Frame /\ Fits(a)' => Channelled'
  BY FitsKept DEF Channelled
<1>n. /\ requestIdBase[a] \in Nat /\ lastSyncRsp[a] \in Nat
      /\ delivering[a] \in Responses \union {NoEnvelope}
  BY DEF TypeOK
<1>f. Fits(a)  BY DEF Channelled
<1>1. ASSUME NEW b \in Actors, Request(a, b) \/ RequestRefused(a, b) PROVE Channelled'
  <2>1. /\ requestIdBase' = [requestIdBase EXCEPT ![a] = @ + 1] /\ InHandler(a)
        /\ UNCHANGED <<instance, syncRspChan, lastSyncRsp, delivering>>
        /\ \/ waiting' = [waiting EXCEPT ![a] = requestIdBase[a] + 1]
           \/ waiting' = waiting /\ waiting[a] = 0
    BY <1>1 DEF Request, RequestRefused, InHandler, instanceVars, channelVars
  <2>2. Frame  BY <2>1 DEF SameChannel, TypeOK
  <2>3. requestIdBase'[a] = requestIdBase[a] + 1  BY <2>1 DEF TypeOK
  <2>4. waiting'[a] = requestIdBase[a] + 1 \/ waiting'[a] = 0  BY <2>1 DEF TypeOK
  <2>5. instance[a] # 0  BY <2>1 DEF InHandler, Alive
  <2>6. lastSyncRsp[a] <= requestIdBase[a]  BY <1>f, <2>5 DEF Fits
  <2>7. lastSyncRsp[a] # requestIdBase[a] + 1 /\ lastSyncRsp[a] <= requestIdBase[a] + 1
    BY <1>n, <2>6
  <2> QED  BY <1>0, <1>f, <2>1, <2>2, <2>3, <2>4, <2>7 DEF Fits
<1>2. CASE Receive(a)
  <2> DEFINE h == Head(syncRspChan[a])
  <2>1. /\ waiting[a] # 0 /\ syncRspChan[a] # <<>>
        /\ syncRspChan' = [syncRspChan EXCEPT ![a] = <<>>]
        /\ \/ Matches(a, h) /\ waiting' = [waiting EXCEPT ![a] = 0]
           \/ ~Matches(a, h) /\ waiting' = waiting
        /\ UNCHANGED <<instance, requestIdBase, lastSyncRsp, delivering>>
    BY <1>2 DEF Receive, instanceVars
  <2>2. Frame  BY <2>1 DEF SameChannel, TypeOK
  <2>3. syncRspChan'[a] = <<>>  BY <2>1 DEF TypeOK
  <2>4. waiting'[a] = 0 \/ (waiting'[a] = waiting[a] /\ lastSyncRsp[a] # waiting[a])
    <3>1. CASE Matches(a, h) /\ waiting' = [waiting EXCEPT ![a] = 0]
      <4>1. waiting'[a] = 0  BY <3>1 DEF TypeOK
      <4> QED  BY <4>1
    <3>2. CASE ~Matches(a, h) /\ waiting' = waiting
      BY <2>1, <3>2, LastMatches
    <3> QED  BY <2>1, <3>1, <3>2
  <2> QED  BY <1>0, <1>f, <2>1, <2>2, <2>3, <2>4 DEF Fits
<1>3. CASE Timeout(a)
  <2>1. /\ waiting' = [waiting EXCEPT ![a] = 0]
        /\ UNCHANGED <<instance, requestIdBase, syncRspChan, lastSyncRsp, delivering>>
    BY <1>3 DEF Timeout, instanceVars, channelVars
  <2>2. Frame /\ waiting'[a] = 0  BY <2>1 DEF SameChannel, TypeOK
  <2> QED  BY <1>0, <1>f, <2>1, <2>2 DEF Fits
<1>4. CASE Serve(a) \/ Answer(a) \/ HandlerReturns(a) \/ HandlerPanics(a) \/ Retire(a)
  <2>1. UNCHANGED <<instance, requestIdBase, waiting, syncRspChan, lastSyncRsp, delivering>>
    BY <1>4 DEF Serve, Answer, HandlerReturns, HandlerPanics, Retire,
                instanceVars, callerVars, channelVars
  <2>2. \A x \in Actors : SameChannel(x)  BY <2>1 DEF SameChannel
  <2> QED  BY <2>2, FitsKept DEF Channelled
<1>5. CASE LoseBatch(a)
  <2>1. \A x \in Actors : SameChannel(x)  BY <1>5, LoseMoves DEF SameChannel
  <2> QED  BY <2>1, FitsKept DEF Channelled
<1> QED  BY <1>1, <1>2, <1>3, <1>4, <1>5 DEF ActorStep

(* Every step keeps the order of the channels. *)
LEMMA ChannelStep ==
  ASSUME TypeOK, Alive, AllSound, Channelled, [Next]_vars
  PROVE  Channelled'
<1>1. ASSUME UNCHANGED <<instance, requestIdBase, waiting, syncRspChan, lastSyncRsp, delivering>>
      PROVE  Channelled'
  <2>1. \A x \in Actors : SameChannel(x)  BY <1>1 DEF SameChannel
  <2> QED  BY <2>1, FitsKept DEF Channelled
<1>2. CASE UNCHANGED vars
  BY <1>1, <1>2 DEF vars, instanceVars, callerVars, channelVars
<1>3. ASSUME NEW a \in Actors, StrangerAsks(a) PROVE Channelled'
  BY <1>1, <1>3 DEF StrangerAsks, instanceVars, callerVars, channelVars
<1> QED  BY <1>2, <1>3, GroupFits, ActorFits DEF Next

LEMMA InitChannelled == Init => Channelled
BY DEF Init, Channelled, Fits

(* What a step does to a response that it takes out of the network and drops:   *)
(* the actor that waits for it has it in its channel.                           *)
LEMMA DroppedIsThere ==
  ASSUME TypeOK, Alive, AllSound, Channelled,
         NEW r \in network, DropResponse(r), waiting[r.to] # 0, Concerns(r, r.to)
  PROVE  syncRspChan[r.to] # <<>> /\ Concerns(Head(syncRspChan[r.to]), r.to)
<1>1. r.kind = "response" /\ IsStale(r)  BY DEF DropResponse, Arrives
<1>2. r \in Responses /\ Held(r)  BY <1>1, Kinds DEF TypeOK, Held
<1>3. r.to \in Actors /\ r.id \in Nat /\ Sound(r)  BY <1>2 DEF Responses, AllSound
<1> DEFINE a == r.to
<1>4. instance[a] # 0  BY <1>3 DEF Alive
<1>5. r.id = waiting[a] /\ r.asker = instance[a]  BY <1>1 DEF Concerns
<1>6. r.address = r.asker  BY <1>1, <1>3 DEF Sound
<1>7. r.id <= lastSyncRsp[a]  BY <1>1, <1>4, <1>5, <1>6 DEF IsStale
<1>8. /\ lastSyncRsp[a] \in Nat /\ requestIdBase[a] \in Nat
      /\ waiting[a] = requestIdBase[a]
  BY <1>3 DEF TypeOK
<1>9. lastSyncRsp[a] <= requestIdBase[a]  BY <1>3, <1>4 DEF Channelled, Fits
<1>10. lastSyncRsp[a] = waiting[a]  BY <1>5, <1>7, <1>8, <1>9
<1>11. syncRspChan[a] # <<>>  BY <1>3, <1>10 DEF Channelled, Fits
<1>12. /\ Head(syncRspChan[a]).to = a /\ Head(syncRspChan[a]).asker = instance[a]
       /\ Head(syncRspChan[a]).id = waiting[a]
  BY <1>3, <1>4, <1>10, <1>11 DEF Channelled, Fits
<1>13. Head(syncRspChan[a]).kind = "response"
  BY <1>3, <1>11, ChannelHeld DEF Responses
<1> QED  BY <1>11, <1>12, <1>13 DEF Concerns

(* What AwaitedIsKept says of one step. *)
KeepsAwaited ==
  \A r \in network \ network' :
    r.kind = "response" /\ r.payload /\ waiting[r.to] # 0 /\ Concerns(r, r.to)
      => \/ delivering'[r.to] = r
         \/ syncRspChan[r.to] # <<>> /\ Concerns(Head(syncRspChan[r.to]), r.to)

LEMMA AwaitedStep ==
  ASSUME TypeOK, Alive, AllSound, Channelled, [Next]_vars
  PROVE  KeepsAwaited
<1>1. network \subseteq network' => KeepsAwaited
  BY DEF KeepsAwaited
<1>2. CASE UNCHANGED vars  BY <1>1, <1>2 DEF vars
<1>3. ASSUME NEW a \in Actors, GroupStep(a) PROVE KeepsAwaited
  <2>1. CASE Activate(a) \/ DrainChannel(a) \/ HandOver(a) \/ StopReported(a)
    BY <1>1, <2>1 DEF Activate, DrainChannel, HandOver, StopReported
  <2>2. ASSUME NEW m \in network, DeliverRequest(m) PROVE KeepsAwaited
    BY <2>2 DEF DeliverRequest, KeepsAwaited
  <2>3. ASSUME NEW m \in network, DropResponse(m) PROVE KeepsAwaited
    <3>1. network \ network' \subseteq {m}  BY <2>3 DEF DropResponse, Arrives
    <3> QED  BY <2>3, <3>1, DroppedIsThere DEF KeepsAwaited
  <2>4. ASSUME NEW m \in network, AcceptResponse(m) PROVE KeepsAwaited
    <3>1. network \ network' \subseteq {m} /\ delivering' = [delivering EXCEPT ![m.to] = m]
      BY <2>4 DEF AcceptResponse, Arrives
    <3>2. delivering'[m.to] = m  BY <3>1, Kinds DEF TypeOK
    <3> QED  BY <3>1, <3>2 DEF KeepsAwaited
  <2>5. ASSUME NEW m \in network, DropRequest(m) \/ DropEmpty(m) PROVE KeepsAwaited
    <3>1. network \ network' \subseteq {m} /\ (m.kind = "request" \/ ~m.payload)
      BY <2>5, DropMoves
    <3> QED  BY <3>1 DEF KeepsAwaited
  <2> QED  BY <1>3, <2>1, <2>2, <2>3, <2>4, <2>5 DEF GroupStep, Takes
<1>4. ASSUME NEW a \in Actors, ActorStep(a) PROVE KeepsAwaited
  <2>1. ASSUME NEW r, Response(a, r) PROVE network \subseteq network'
    BY <2>1 DEF Response
  <2>2. network \subseteq network'
    BY <1>4, <2>1 DEF ActorStep, Request, RequestRefused, Receive, Timeout, Serve, Answer,
                      HandlerReturns, HandlerPanics, Retire, LoseBatch
  <2> QED  BY <1>1, <2>2
<1>5. ASSUME NEW a \in Actors, StrangerAsks(a) PROVE KeepsAwaited
  BY <1>1, <1>5 DEF StrangerAsks
<1> QED  BY <1>2, <1>3, <1>4, <1>5 DEF Next

(* The inductive invariant of the callers' side, without legacy peers. *)
LEMMA CallerInv ==
  ASSUME Legacy = {}
  PROVE  Spec => [](TypeOK /\ Alive /\ AllSound /\ Channelled)
<1> DEFINE IInv == TypeOK /\ Alive /\ AllSound /\ Channelled
<1>1. Init /\ TypeOK => IInv  BY InitSound, InitChannelled
<1>2. IInv /\ TypeOK' /\ [Next]_vars => IInv'
  BY AliveStep, SoundStep, ChannelStep
<1> QED  BY <1>1, <1>2, TypeCorrect, PTL DEF Spec

(* Without legacy peers an answer with a payload that an actor waits for is     *)
(* handed to it by its group, unless the same answer is in the channel already: *)
(* what IsStale takes for old is old, however requests, timeouts, late answers, *)
(* duplicates and recycled instances follow each other.  An answer without      *)
(* payload is dropped whether it is awaited or not (DropEmpty).                 *)
THEOREM AwaitedNeverDropped ==
  ASSUME Legacy = {}
  PROVE  Spec => AwaitedIsKept
<1>1. TypeOK /\ Alive /\ AllSound /\ Channelled /\ [Next]_vars => [KeepsAwaited]_vars
  BY AwaitedStep
<1>2. [KeepsAwaited]_vars
        => [\A r \in network \ network' :
              r.kind = "response" /\ r.payload /\ waiting[r.to] # 0 /\ Concerns(r, r.to)
                => \/ delivering'[r.to] = r
                   \/ syncRspChan[r.to] # <<>> /\ Concerns(Head(syncRspChan[r.to]), r.to)]_vars
  BY DEF KeepsAwaited
<1> QED  BY <1>1, <1>2, CallerInv, PTL DEF Spec, AwaitedIsKept

-----------------------------------------------------------------------------
(* What an actor owes *)

(* A request with a sender was made, by a caller of the actor it is for. *)
AllAsked ==
  \A m \in Requests : Held(m) /\ m.from # Nobody =>
    Issued(m.from, m.address, m.id) /\ <<m.from, m.to>> \in Calls

LEMMA AskedStep ==
  ASSUME TypeOK, TypeOK', Alive, AllAsked, [Next]_vars
  PROVE  AllAsked'
<1>1. Aging  BY StepAges
<1> SUFFICES ASSUME NEW m \in Requests, Held(m)', m.from # Nobody
             PROVE  Issued(m.from, m.address, m.id)' /\ <<m.from, m.to>> \in Calls
  BY DEF AllAsked
<1>2. m.from \in Actors /\ m.address \in Nat /\ m.id \in Nat /\ m.kind = "request"
  BY DEF Requests
<1>3. CASE Held(m)
  BY <1>1, <1>2, <1>3, IssuedKept DEF AllAsked
<1>4. CASE MadeRequest(m)
  <2>1. PICK a \in Actors, b \in Actors : Request(a, b) /\ m = RequestTo(b, a)
    BY <1>4 DEF MadeRequest
  <2>2. <<a, b>> \in Calls  BY <2>1 DEF Request
  <2> QED  BY <2>1, <2>2, MadeIsIssued
<1>5. CASE MadeResponse(m)
  BY <1>2, <1>5, AnswerFields DEF MadeResponse
<1>6. CASE MadeByHand(m)
  BY <1>6 DEF MadeByHand, Unsigned
<1> QED  BY <1>3, <1>4, <1>5, <1>6, HeldStep

(* A request is new when it is made. *)
LEMMA MadeIsNew ==
  ASSUME TypeOK, AllAsked, NEW a \in Actors, NEW b \in Actors
  PROVE  ~Held(RequestTo(b, a))
<1> SUFFICES ASSUME Held(RequestTo(b, a)) PROVE FALSE
  OBVIOUS
<1>1. PICK m : m = RequestTo(b, a)  OBVIOUS
<1>2. m \in Requests  BY <1>1, MadeEnvelopes
<1>3. m.from = a /\ m.address = instance[a] /\ m.id = requestIdBase[a] + 1
  BY <1>1 DEF RequestTo
<1>4. a # Nobody  BY NobodyAssumption
<1>5. Issued(a, instance[a], requestIdBase[a] + 1)  BY <1>1, <1>2, <1>3, <1>4 DEF AllAsked
<1>6. requestIdBase[a] \in Nat  BY DEF TypeOK
<1> QED  BY <1>5, <1>6 DEF Issued

(* A request is for the actor whose mailbox or whose list of unanswered requests *)
(* it is in, and in one place at a time.                                         *)
Single(b) ==
  /\ \A r \in pending[b] : r.to = b /\ r \notin network
  /\ \A i \in 1 .. Len(mailbox[b]) :
       /\ mailbox[b][i].to = b
       /\ mailbox[b][i] \notin network /\ mailbox[b][i] \notin pending[b]
  /\ \A i, j \in 1 .. Len(mailbox[b]) : mailbox[b][i] = mailbox[b][j] => i = j

AllSingle == \A b \in Actors : Single(b)

(* The request is not in the hands of b. *)
Foreign(m, b) == m \notin pending[b] /\ \A i \in 1 .. Len(mailbox[b]) : mailbox[b][i] # m

LEMMA SingleKept ==
  ASSUME NEW b \in Actors, Single(b),
         mailbox'[b] = mailbox[b], pending'[b] \subseteq pending[b],
         \A m \in network' : m \in network \/ Foreign(m, b)
  PROVE  Single(b)'
BY DEF Single, Foreign

(* What a mailbox holds after one more request, and after its first was taken.  *)
LEMMA MailboxPositions ==
  ASSUME NEW q \in Seq(Requests)
  PROVE  /\ \A m \in Requests :
              /\ Len(Append(q, m)) = Len(q) + 1
              /\ \A i \in 1 .. Len(q) : Append(q, m)[i] = q[i]
              /\ Append(q, m)[Len(q) + 1] = m
         /\ q # <<>> => /\ Head(q) = q[1] /\ 1 \in 1 .. Len(q)
                        /\ \A i \in 1 .. Len(Tail(q)) :
                             i + 1 \in 1 .. Len(q) /\ Tail(q)[i] = q[i + 1]
OBVIOUS

LEMMA SingleDelivered ==
  ASSUME TypeOK, NEW b \in Actors, Single(b), NEW m \in network, m \in Requests, m.to = b,
         mailbox'[b] = Append(mailbox[b], m), pending'[b] \subseteq pending[b],
         network' = network \ {m}
  PROVE  Single(b)'
<1>1. PICK q \in Seq(Requests) : q = mailbox[b]  BY DEF TypeOK
<1>2. PICK n \in Nat : n = Len(q)  BY <1>1
<1>3. PICK p : p = Append(q, m)  OBVIOUS
<1>4. Len(p) = n + 1 /\ p[n + 1] = m /\ \A i \in 1 .. n : p[i] = q[i]
  BY <1>2, <1>3, MailboxPositions
<1>5. \A i \in 1 .. n + 1 : i \in 1 .. n \/ i = n + 1  BY <1>2
<1>6. \A i \in 1 .. n : q[i].to = b /\ q[i] \notin network /\ q[i] \notin pending[b] /\ q[i] # m
  BY <1>1, <1>2 DEF Single
<1>7. \A i, j \in 1 .. n : q[i] = q[j] => i = j  BY <1>1, <1>2 DEF Single
<1>8. m \notin pending[b]  BY DEF Single
<1>9. ASSUME NEW i \in 1 .. n + 1
      PROVE  p[i].to = b /\ p[i] \notin network' /\ p[i] \notin pending'[b]
  <2>1. CASE i \in 1 .. n  BY <1>4, <1>6, <2>1
  <2>2. CASE i = n + 1  BY <1>4, <1>8, <2>2
  <2> QED  BY <1>5, <2>1, <2>2
<1>10. ASSUME NEW i \in 1 .. n + 1, NEW j \in 1 .. n + 1, p[i] = p[j]
       PROVE  i = j
  <2>1. CASE i \in 1 .. n /\ j \in 1 .. n  BY <1>4, <1>7, <1>10, <2>1
  <2>2. CASE i \in 1 .. n /\ j = n + 1  BY <1>4, <1>6, <1>10, <2>2
  <2>3. CASE i = n + 1 /\ j \in 1 .. n  BY <1>4, <1>6, <1>10, <2>3
  <2>4. CASE i = n + 1 /\ j = n + 1  BY <2>4
  <2> QED  BY <1>5, <2>1, <2>2, <2>3, <2>4
<1>11. mailbox'[b] = p  BY <1>1, <1>3
<1>12. \A r \in pending'[b] : r.to = b /\ r \notin network'  BY DEF Single
<1> QED  BY <1>4, <1>9, <1>10, <1>11, <1>12 DEF Single

LEMMA SingleServed ==
  ASSUME TypeOK, NEW b \in Actors, Single(b), mailbox[b] # <<>>,
         mailbox'[b] = Tail(mailbox[b]), pending'[b] = pending[b] \union {Head(mailbox[b])},
         network' = network
  PROVE  /\ Single(b)'
         /\ Head(mailbox[b]) \notin pending[b]
<1>1. PICK q \in Seq(Requests) : q = mailbox[b]  BY DEF TypeOK
<1>2. PICK n \in Nat : n = Len(q)  BY <1>1
<1>3. PICK t : t = Tail(q)  OBVIOUS
<1>4. /\ Head(q) = q[1] /\ 1 \in 1 .. n
      /\ \A i \in 1 .. Len(t) : i + 1 \in 1 .. n /\ t[i] = q[i + 1]
  <2>1. q # <<>>  BY <1>1
  <2>2. /\ Head(q) = q[1] /\ 1 \in 1 .. Len(q)
        /\ \A i \in 1 .. Len(Tail(q)) : i + 1 \in 1 .. Len(q) /\ Tail(q)[i] = q[i + 1]
    BY <2>1, MailboxPositions
  <2> QED  BY <1>2, <1>3, <2>2
<1>5. \A i \in 1 .. n : q[i].to = b /\ q[i] \notin network /\ q[i] \notin pending[b]
  BY <1>1, <1>2 DEF Single
<1>6. \A i, j \in 1 .. n : q[i] = q[j] => i = j  BY <1>1, <1>2 DEF Single
<1>7. PICK l \in Nat : l = Len(t)
  <2>1. q # <<>>  BY <1>1
  <2>2. t \in Seq(Requests)  BY <1>3, <2>1
  <2> QED  BY <2>2
<1>8. ASSUME NEW i \in 1 .. l
      PROVE  t[i].to = b /\ t[i] \notin network' /\ t[i] \notin pending'[b]
  <2>1. i + 1 \in 1 .. n /\ t[i] = q[i + 1] /\ i + 1 # 1  BY <1>4, <1>7
  <2>2. q[i + 1] # q[1]  BY <1>4, <1>6, <2>1
  <2> QED  BY <1>1, <1>4, <1>5, <2>1, <2>2
<1>9. ASSUME NEW i \in 1 .. l, NEW j \in 1 .. l, t[i] = t[j]
      PROVE  i = j
  <2>1. /\ i + 1 \in 1 .. n /\ t[i] = q[i + 1] /\ j + 1 \in 1 .. n /\ t[j] = q[j + 1]
    BY <1>4, <1>7
  <2>2. i + 1 = j + 1  BY <1>6, <1>9, <2>1
  <2> QED  BY <2>2
<1>10. \A r \in pending'[b] : r.to = b /\ r \notin network'
  BY <1>1, <1>4, <1>5 DEF Single
<1>11. mailbox'[b] = t  BY <1>1, <1>3
<1>12. Single(b)'  BY <1>7, <1>8, <1>9, <1>10, <1>11 DEF Single
<1> QED  BY <1>1, <1>4, <1>5, <1>12

LEMMA SingleLost ==
  ASSUME TypeOK, NEW b \in Actors, Single(b), NEW n \in 1 .. Len(mailbox[b]),
         mailbox'[b] = SubSeq(mailbox[b], n + 1, Len(mailbox[b])), pending'[b] = pending[b],
         network' = network
  PROVE  Single(b)'
<1>1. PICK q \in Seq(Requests) : q = mailbox[b]  BY DEF TypeOK
<1>2. PICK l \in Nat : l = Len(q)  BY <1>1
<1>3. PICK t : t = SubSeq(q, n + 1, Len(q))  OBVIOUS
<1>4. n \in 1 .. l /\ Len(t) = l - n /\ \A i \in 1 .. l - n : t[i] = q[n + i]
  BY <1>1, <1>2, <1>3, AfterBatch
<1>5. \A i \in 1 .. l - n : n + i \in 1 .. l  BY <1>2, <1>4
<1>6. \A i \in 1 .. l : q[i].to = b /\ q[i] \notin network /\ q[i] \notin pending[b]
  BY <1>1, <1>2 DEF Single
<1>7. \A i, j \in 1 .. l : q[i] = q[j] => i = j  BY <1>1, <1>2 DEF Single
<1>8. \A i \in 1 .. l - n : t[i].to = b /\ t[i] \notin network' /\ t[i] \notin pending'[b]
  BY <1>4, <1>5, <1>6
<1>9. ASSUME NEW i \in 1 .. l - n, NEW j \in 1 .. l - n, t[i] = t[j]
      PROVE  i = j
  <2>1. n + i = n + j  BY <1>4, <1>5, <1>7, <1>9
  <2> QED  BY <1>2, <1>4, <2>1
<1>10. \A r \in pending'[b] : r.to = b /\ r \notin network'  BY DEF Single
<1>11. mailbox'[b] = t  BY <1>1, <1>3
<1> QED  BY <1>4, <1>8, <1>9, <1>10, <1>11 DEF Single

(* A step that neither moves a request nor makes one. *)
LEMMA SingleStays ==
  ASSUME AllSingle, mailbox' = mailbox, \A b \in Actors : pending'[b] \subseteq pending[b],
         \A m \in network' : m \in network \/ (\A b \in Actors : Foreign(m, b))
  PROVE  AllSingle'
<1> SUFFICES ASSUME NEW b \in Actors PROVE Single(b)'
  BY DEF AllSingle
<1> QED  BY SingleKept DEF AllSingle

(* A response is in nobody's hands as a request. *)
LEMMA ResponsesForeign ==
  ASSUME TypeOK, NEW m \in Responses, NEW b \in Actors
  PROVE  Foreign(m, b)
<1>1. m \notin Requests  BY Kinds DEF Requests, Responses
<1>2. pending[b] \subseteq Requests /\ mailbox[b] \in Seq(Requests)  BY DEF TypeOK
<1>3. \A i \in 1 .. Len(mailbox[b]) : mailbox[b][i] \in Requests  BY <1>2
<1> QED  BY <1>1, <1>2, <1>3 DEF Foreign

(* What an actor answers leaves its list, and no request is made. *)
LEMMA SingleAnswered ==
  ASSUME TypeOK, AllSingle, NEW a \in Actors, NEW r \in Requests, Response(a, r),
         mailbox' = mailbox
  PROVE  AllSingle'
<1>1. \A b \in Actors : pending'[b] \subseteq pending[b]  BY DEF Response, TypeOK
<1>2. ASSUME NEW m \in network', m \notin network, NEW b \in Actors PROVE Foreign(m, b)
  <2>1. m \in Answers(r, a) /\ r.from # Nobody  BY <1>2 DEF Response
  <2>2. m \in Responses  BY <2>1, MadeEnvelopes
  <2> QED  BY <2>2, ResponsesForeign
<1> QED  BY <1>1, <1>2, SingleStays

(* Every step keeps every request in one place. *)
LEMMA SingleStep ==
  ASSUME TypeOK, AllAsked, AllSingle, [Next]_vars
  PROVE  AllSingle'
<1>1. UNCHANGED <<mailbox, pending>> /\ network' \subseteq network => AllSingle'
  BY SingleStays
<1>2. CASE UNCHANGED vars  BY <1>1, <1>2 DEF vars, serverVars
<1>3. ASSUME NEW a \in Actors, GroupStep(a) PROVE AllSingle'
  <2>1. ASSUME Create(a), UNCHANGED <<mailbox, network>> PROVE AllSingle'
    BY <2>1, CreateHolds, SingleStays
  <2>2. CASE Activate(a)  BY <2>1, <2>2 DEF Activate
  <2>3. CASE DrainChannel(a) \/ HandOver(a)
    BY <1>1, <2>3 DEF DrainChannel, HandOver, serverVars
  <2>4. CASE StopReported(a)
    BY <1>1, <2>1, <2>4 DEF StopReported
  <2>5. ASSUME NEW m \in network, m.to = a, DeliverRequest(m) PROVE AllSingle'
    <3>1. m \in Requests  BY <2>5, Kinds DEF DeliverRequest, TypeOK
    <3>2. /\ network' = network \ {m}
          /\ mailbox' = [mailbox EXCEPT ![a] = Append(mailbox[a], m)]
          /\ Create(a) \/ pending' = pending
      BY <2>5 DEF DeliverRequest
    <3>3. \A b \in Actors : pending'[b] \subseteq pending[b]  BY <3>2, CreateHolds
    <3>4. ASSUME NEW b \in Actors, b # a PROVE Single(b)'
      <4>1. mailbox'[b] = mailbox[b]  BY <3>2, <3>4 DEF TypeOK
      <4> QED  BY <3>2, <3>3, <4>1, SingleKept DEF AllSingle
    <3>5. Single(a)'
      <4>1. mailbox'[a] = Append(mailbox[a], m)  BY <3>2 DEF TypeOK
      <4> QED  BY <2>5, <3>1, <3>2, <3>3, <4>1, SingleDelivered DEF AllSingle
    <3> QED  BY <3>4, <3>5 DEF AllSingle
  <2>6. ASSUME NEW m \in network, DropResponse(m) \/ AcceptResponse(m) PROVE AllSingle'
    BY <1>1, <2>6 DEF DropResponse, AcceptResponse, Arrives, serverVars
  <2>7. ASSUME NEW m \in network, DropRequest(m) \/ DropEmpty(m) PROVE AllSingle'
    BY <1>1, <2>7, DropMoves
  <2> QED  BY <1>3, <2>2, <2>3, <2>4, <2>5, <2>6, <2>7 DEF GroupStep, Takes
<1>4. ASSUME NEW a \in Actors, ActorStep(a) PROVE AllSingle'
  <2>1. ASSUME NEW b \in Actors, Request(a, b) PROVE AllSingle'
    <3>1. network' = network \union {RequestTo(b, a)} /\ UNCHANGED <<mailbox, pending>>
      BY <2>1 DEF Request, serverVars
    <3>2. \A x \in Actors : Foreign(RequestTo(b, a), x)
      BY MadeIsNew DEF Held, Foreign
    <3> QED  BY <3>1, <3>2, SingleStays
  <2>2. ASSUME NEW b \in Actors, RequestRefused(a, b) PROVE AllSingle'
    BY <1>1, <2>2 DEF RequestRefused, serverVars
  <2>3. CASE Receive(a) \/ Timeout(a) \/ HandlerReturns(a) \/ Retire(a)
    BY <1>1, <2>3 DEF Receive, Timeout, HandlerReturns, Retire, serverVars
  <2>4. CASE Serve(a)
    <3>1. /\ mailbox' = [mailbox EXCEPT ![a] = Tail(mailbox[a])] /\ mailbox[a] # <<>>
          /\ pending' = [pending EXCEPT ![a] = pending[a] \union {Head(mailbox[a])}]
          /\ network' = network
      BY <2>4 DEF Serve
    <3>2. ASSUME NEW b \in Actors, b # a PROVE Single(b)'
      <4>1. mailbox'[b] = mailbox[b] /\ pending'[b] = pending[b]  BY <3>1, <3>2 DEF TypeOK
      <4> QED  BY <3>1, <4>1, SingleKept DEF AllSingle
    <3>3. Single(a)'
      <4>1. mailbox'[a] = Tail(mailbox[a])  BY <3>1 DEF TypeOK
      <4>2. pending'[a] = pending[a] \union {Head(mailbox[a])}  BY <3>1 DEF TypeOK
      <4> QED  BY <3>1, <4>1, <4>2, SingleServed DEF AllSingle
    <3> QED  BY <3>2, <3>3 DEF AllSingle
  <2>5. CASE Answer(a)
    <3>1. PICK r \in Requests : Response(a, r)
      BY <2>5, MadeEnvelopes DEF Answer, TypeOK
    <3> QED  BY <2>5, <3>1, SingleAnswered DEF Answer
  <2>6. CASE HandlerPanics(a)
    <3>1. serving[a] \in Requests /\ mailbox' = mailbox
      BY <2>6 DEF HandlerPanics, TypeOK
    <3>2. CASE Response(a, serving[a])  BY <3>1, <3>2, SingleAnswered
    <3>3. CASE UNCHANGED <<pending, count, network>>  BY <1>1, <3>1, <3>3
    <3> QED  BY <2>6, <3>2, <3>3 DEF HandlerPanics
  <2>7. CASE LoseBatch(a)
    <3>1. PICK n \in 1 .. Len(mailbox[a]) :
            mailbox' = [mailbox EXCEPT ![a] = SubSeq(mailbox[a], n + 1, Len(mailbox[a]))]
      BY <2>7, LoseMoves
    <3>2. pending' = pending /\ network' = network  BY <2>7, LoseMoves
    <3>3. mailbox'[a] = SubSeq(mailbox[a], n + 1, Len(mailbox[a]))  BY <3>1 DEF TypeOK
    <3>4. Single(a)'  BY <3>2, <3>3, SingleLost DEF AllSingle
    <3>5. ASSUME NEW b \in Actors, b # a PROVE Single(b)'
      <4>1. mailbox'[b] = mailbox[b]  BY <3>1, <3>5 DEF TypeOK
      <4> QED  BY <3>2, <4>1, SingleKept DEF AllSingle
    <3> QED  BY <3>4, <3>5 DEF AllSingle
  <2> QED  BY <1>4, <2>1, <2>2, <2>3, <2>4, <2>5, <2>6, <2>7 DEF ActorStep
<1>5. ASSUME NEW a \in Actors, StrangerAsks(a) PROVE AllSingle'
  <2>1. /\ network' = network \union {Unsigned(a)} /\ UNCHANGED <<mailbox, pending>>
        /\ Unsigned(a) \notin pending[a]
        /\ \A i \in 1 .. Len(mailbox[a]) : mailbox[a][i] # Unsigned(a)
    BY <1>5 DEF StrangerAsks, serverVars
  <2>2. Unsigned(a).to = a  BY DEF Unsigned
  <2>3. ASSUME NEW b \in Actors PROVE Foreign(Unsigned(a), b)
    <3>1. CASE b = a  BY <2>1, <3>1 DEF Foreign
    <3>2. CASE b # a  BY <2>2, <3>2 DEF AllSingle, Single, Foreign
    <3> QED  BY <3>1, <3>2
  <2> QED  BY <2>1, <2>3, SingleStays
<1> QED  BY <1>2, <1>3, <1>4, <1>5 DEF Next

(* What an actor counts as owed is on its list of unanswered requests. *)
Counted(b) == IsFiniteSet(pending[b]) /\ count[b] <= Cardinality(pending[b])

AllCounted == \A b \in Actors : Counted(b)

(* One request more, or one less, or an answer to none on the list. *)
LEMMA CountMoves ==
  ASSUME NEW P, IsFiniteSet(P), NEW r
  PROVE  /\ Cardinality(P) \in Nat
         /\ IsFiniteSet(P \union {r}) /\ IsFiniteSet(P \ {r})
         /\ r \notin P => /\ Cardinality(P \union {r}) = Cardinality(P) + 1
                         /\ Cardinality(P \ {r}) = Cardinality(P)
         /\ r \in P => Cardinality(P \ {r}) = Cardinality(P) - 1
<1>1. Cardinality(P) \in Nat  BY FS_CardinalityType
<1>2. IsFiniteSet(P \union {r}) /\ (r \notin P => Cardinality(P \union {r}) = Cardinality(P) + 1)
  BY FS_AddElement
<1>3. IsFiniteSet(P \ {r}) /\ (r \in P => Cardinality(P \ {r}) = Cardinality(P) - 1)
  BY FS_RemoveElement
<1>4. r \notin P => P \ {r} = P  OBVIOUS
<1> QED  BY <1>1, <1>2, <1>3, <1>4

(* Only the actor itself, and a new context, count. *)
LEMMA CountStep ==
  ASSUME TypeOK, AllAsked, AllSingle, AllCounted, [Next]_vars
  PROVE  AllCounted'
<1>1. UNCHANGED <<pending, count>> => AllCounted'
  BY DEF AllCounted, Counted
<1>2. CASE UNCHANGED vars  BY <1>1, <1>2 DEF vars, serverVars
<1>3. ASSUME NEW a \in Actors, Create(a) PROVE AllCounted'
  <2>1. pending'[a] = {} /\ count'[a] = 0  BY <1>3 DEF Create, TypeOK
  <2>2. Counted(a)'  BY <2>1, FS_EmptySet DEF Counted
  <2>3. \A b \in Actors : b # a => pending'[b] = pending[b] /\ count'[b] = count[b]
    BY <1>3 DEF Create, TypeOK
  <2> QED  BY <2>2, <2>3 DEF AllCounted, Counted
<1>4. ASSUME NEW a \in Actors, NEW r, Response(a, r) PROVE AllCounted'
  <2>1. pending'[a] = pending[a] \ {r} /\ count'[a] = count[a] - 1 /\ count[a] \in Int
    BY <1>4 DEF Response, TypeOK
  <2>2. IsFiniteSet(pending[a]) /\ count[a] <= Cardinality(pending[a])
    BY DEF AllCounted, Counted
  <2>3. /\ IsFiniteSet(pending[a] \ {r}) /\ Cardinality(pending[a]) \in Nat
        /\ \/ Cardinality(pending[a] \ {r}) = Cardinality(pending[a]) - 1
           \/ Cardinality(pending[a] \ {r}) = Cardinality(pending[a])
    BY <2>2, CountMoves
  <2>4. count[a] - 1 <= Cardinality(pending[a] \ {r})  BY <2>1, <2>2, <2>3
  <2>5. Counted(a)'  BY <2>1, <2>3, <2>4 DEF Counted
  <2>6. \A b \in Actors : b # a => pending'[b] = pending[b] /\ count'[b] = count[b]
    BY <1>4 DEF Response, TypeOK
  <2> QED  BY <2>5, <2>6 DEF AllCounted, Counted
<1>5. ASSUME NEW a \in Actors, GroupStep(a) PROVE AllCounted'
  <2>1. CASE Activate(a)  BY <1>3, <2>1 DEF Activate
  <2>2. CASE DrainChannel(a) \/ HandOver(a)
    BY <1>1, <2>2 DEF DrainChannel, HandOver, serverVars
  <2>3. CASE StopReported(a)  BY <1>1, <1>3, <2>3 DEF StopReported
  <2>4. ASSUME NEW m \in network, m.to = a, DeliverRequest(m) PROVE AllCounted'
    BY <1>1, <1>3, <2>4 DEF DeliverRequest
  <2>5. ASSUME NEW m \in network, DropResponse(m) \/ AcceptResponse(m) PROVE AllCounted'
    BY <1>1, <2>5 DEF DropResponse, AcceptResponse, serverVars
  <2>6. ASSUME NEW m \in network, DropRequest(m) \/ DropEmpty(m) PROVE AllCounted'
    BY <1>1, <2>6, DropMoves
  <2> QED  BY <1>5, <2>1, <2>2, <2>3, <2>4, <2>5, <2>6 DEF GroupStep, Takes
<1>6. ASSUME NEW a \in Actors, ActorStep(a) PROVE AllCounted'
  <2>1. CASE (\E b \in Actors : Request(a, b) \/ RequestRefused(a, b)) \/ Receive(a) \/ Timeout(a)
             \/ HandlerReturns(a) \/ Retire(a)
    BY <1>1, <2>1 DEF Request, RequestRefused, Receive, Timeout, HandlerReturns, Retire, serverVars
  <2>2. CASE Serve(a)
    <3>1. /\ mailbox' = [mailbox EXCEPT ![a] = Tail(mailbox[a])] /\ mailbox[a] # <<>>
          /\ pending' = [pending EXCEPT ![a] = pending[a] \union {Head(mailbox[a])}]
          /\ count' = [count EXCEPT ![a] = count[a] + 1]
          /\ network' = network
      BY <2>2 DEF Serve
    <3>2. /\ mailbox'[a] = Tail(mailbox[a])
          /\ pending'[a] = pending[a] \union {Head(mailbox[a])}
          /\ count'[a] = count[a] + 1 /\ count[a] \in Int
      BY <3>1 DEF TypeOK
    <3>3. Head(mailbox[a]) \notin pending[a]
      BY <3>1, <3>2, SingleServed DEF AllSingle
    <3>4. IsFiniteSet(pending[a]) /\ count[a] <= Cardinality(pending[a])
      BY DEF AllCounted, Counted
    <3>5. /\ IsFiniteSet(pending'[a]) /\ Cardinality(pending[a]) \in Nat
          /\ Cardinality(pending'[a]) = Cardinality(pending[a]) + 1
      BY <3>2, <3>3, <3>4, CountMoves
    <3>6. Counted(a)'  BY <3>2, <3>4, <3>5 DEF Counted
    <3>7. \A b \in Actors : b # a => pending'[b] = pending[b] /\ count'[b] = count[b]
      BY <3>1 DEF TypeOK
    <3> QED  BY <3>6, <3>7 DEF AllCounted, Counted
  <2>3. CASE Answer(a)  BY <1>4, <2>3 DEF Answer
  <2>4. CASE HandlerPanics(a)  BY <1>1, <1>4, <2>4 DEF HandlerPanics
  <2>5. CASE LoseBatch(a)  BY <1>1, <2>5, LoseMoves
  <2> QED  BY <1>6, <2>1, <2>2, <2>3, <2>4, <2>5 DEF ActorStep
<1>7. ASSUME NEW a \in Actors, StrangerAsks(a) PROVE AllCounted'
  BY <1>1, <1>7 DEF StrangerAsks, serverVars
<1> QED  BY <1>2, <1>5, <1>6, <1>7 DEF Next

(* At the start there is no request. *)
LEMMA InitOwes == Init => AllAsked /\ AllSingle /\ AllCounted
<1> SUFFICES ASSUME Init PROVE AllAsked /\ AllSingle /\ AllCounted
  OBVIOUS
<1>1. ASSUME NEW m \in Requests, Held(m) PROVE FALSE
  BY <1>1, NobodyAssumption DEF Init, Held
<1>2. AllSingle  BY DEF Init, AllSingle, Single
<1>3. AllCounted  BY FS_EmptySet DEF Init, AllCounted, Counted
<1> QED  BY <1>1, <1>2, <1>3 DEF AllAsked

LEMMA ServerInv == Spec => [](TypeOK /\ Alive /\ AllAsked /\ AllSingle /\ AllCounted)
<1> DEFINE IInv == TypeOK /\ Alive /\ AllAsked /\ AllSingle /\ AllCounted
<1>1. Init /\ TypeOK => IInv  BY InitSound, InitOwes
<1>2. IInv /\ TypeOK' /\ [Next]_vars => IInv'
  BY AliveStep, AskedStep, SingleStep, CountStep
<1> QED  BY <1>1, <1>2, TypeCorrect, PTL DEF Spec

(* What processingRequestCount counts is on the list of unanswered requests:    *)
(* no request that was answered, by whichever of Response, a panic or a second  *)
(* answer to a request by hand, keeps its actor from being recycled.            *)
THEOREM NothingStaysPinned == Spec => []NothingPinned
<1>1. AllCounted => NothingPinned  BY DEF AllCounted, Counted, NothingPinned
<1> QED  BY <1>1, ServerInv, PTL

-----------------------------------------------------------------------------
(* In whose custody a request is *)

(* No request by hand is sent to b. *)
Unasked(b) == ~Held(Unsigned(b)) /\ serving[b] # Unsigned(b)

(* Then b counts all that it owes, and does not leave before it gave it.        *)
Trusted(b) == /\ Unasked(b)
              /\ count[b] >= Cardinality(pending[b])
              /\ running[b] \/ pending[b] = {}

AllTrusted == \A b \in Actors \ Strangers : Trusted(b)

(* Who is not sent one by hand is not called with one. *)
LEMMA UnaskedStep ==
  ASSUME TypeOK, [Next]_vars, NEW b \in Actors, b \notin Strangers, Unasked(b)
  PROVE  Unasked(b)'
<1>0. Unsigned(b) \in Requests /\ NoEnvelope # Unsigned(b)
  BY MadeEnvelopes, NobodyAssumption
<1>1. ~Held(Unsigned(b))'
  <2> SUFFICES ASSUME Held(Unsigned(b))' PROVE FALSE
    OBVIOUS
  <2>1. PICK m \in Requests : m = Unsigned(b)  BY <1>0
  <2>2. m.from = Nobody /\ m.to = b /\ m.kind = "request"  BY <2>1 DEF Unsigned
  <2>3. ~Held(m) /\ Held(m)'  BY <2>1 DEF Unasked
  <2>4. ~MadeRequest(m)  BY <2>2, NobodyAssumption DEF MadeRequest, RequestTo
  <2>5. ~MadeResponse(m)  BY <2>2, AnswerFields DEF MadeResponse
  <2>6. ~MadeByHand(m)
    <3>1. ASSUME NEW a \in Actors, StrangerAsks(a), m = Unsigned(a) PROVE FALSE
      <4>1. a = b  BY <2>2, <3>1 DEF Unsigned
      <4> QED  BY <3>1, <4>1 DEF StrangerAsks
    <3> QED  BY <3>1 DEF MadeByHand
  <2> QED  BY <2>3, <2>4, <2>5, <2>6, HeldStep
<1>2. serving'[b] # Unsigned(b)
  <2>1. serving' = serving => serving'[b] # Unsigned(b)  BY DEF Unasked
  <2>2. ASSUME NEW a \in Actors, Create(a) PROVE serving'[b] # Unsigned(b)
    <3>1. serving'[b] = serving[b] \/ serving'[b] = NoEnvelope  BY <2>2 DEF Create, TypeOK
    <3> QED  BY <1>0, <3>1 DEF Unasked
  <2>3. CASE UNCHANGED vars  BY <2>1, <2>3 DEF vars, serverVars
  <2>4. ASSUME NEW a \in Actors, GroupStep(a) PROVE serving'[b] # Unsigned(b)
    <3>1. Create(a) \/ serving' = serving \/ \E m \in network : m.to = a /\ Create(m.to)
      BY <2>4 DEF GroupStep, Activate, DrainChannel, HandOver, StopReported, DeliverRequest,
                  Takes, DropRequest, DropEmpty, DropResponse, AcceptResponse, serverVars
    <3> QED  BY <2>1, <2>2, <3>1
  <2>5. ASSUME NEW a \in Actors, Serve(a) PROVE serving'[b] # Unsigned(b)
    <3>1. /\ serving' = [serving EXCEPT ![a] = Head(mailbox[a])] /\ mailbox[a] # <<>>
      BY <2>5 DEF Serve
    <3>2. CASE a = b
      <4>1. serving'[b] = Head(mailbox[b])  BY <3>1, <3>2 DEF TypeOK
      <4>2. \E j \in 1 .. Len(mailbox[b]) : Head(mailbox[b]) = mailbox[b][j]
        BY <3>1, <3>2, MailboxElements DEF TypeOK
      <4>3. Held(Head(mailbox[b]))  BY <4>2 DEF Held
      <4> QED  BY <4>1, <4>3 DEF Unasked
    <3>3. CASE a # b
      <4>1. serving'[b] = serving[b]  BY <3>1, <3>3 DEF TypeOK
      <4> QED  BY <4>1 DEF Unasked
    <3> QED  BY <3>2, <3>3
  <2>6. ASSUME NEW a \in Actors, HandlerReturns(a) \/ HandlerPanics(a)
        PROVE  serving'[b] # Unsigned(b)
    <3>1. serving' = [serving EXCEPT ![a] = NoEnvelope]
      BY <2>6 DEF HandlerReturns, HandlerPanics
    <3>2. serving'[b] = serving[b] \/ serving'[b] = NoEnvelope  BY <3>1 DEF TypeOK
    <3> QED  BY <1>0, <3>2 DEF Unasked
  <2>7. ASSUME NEW a \in Actors, ActorStep(a), ~Serve(a), ~HandlerReturns(a), ~HandlerPanics(a)
        PROVE  serving' = serving
    BY <2>7 DEF ActorStep, Request, RequestRefused, Receive, Timeout, Answer, Retire, LoseBatch,
                   serverVars
  <2>8. ASSUME NEW a \in Actors, StrangerAsks(a) PROVE serving' = serving
    BY <2>8 DEF StrangerAsks, serverVars
  <2> QED  BY <2>1, <2>3, <2>4, <2>5, <2>6, <2>7, <2>8 DEF Next
<1> QED  BY <1>1, <1>2 DEF Unasked

(* Who counts all that it owes goes on to do so. *)
LEMMA TrustedStep ==
  ASSUME TypeOK, Alive, AllAsked, AllSingle, AllCounted, AllTrusted, [Next]_vars
  PROVE  AllTrusted'
<1> SUFFICES ASSUME NEW b \in Actors, b \notin Strangers PROVE Trusted(b)'
  BY DEF AllTrusted
<1>0. Trusted(b) /\ IsFiniteSet(pending[b]) /\ count[b] \in Int /\ Cardinality(pending[b]) \in Nat
  <2>1. IsFiniteSet(pending[b])  BY DEF AllCounted, Counted
  <2> QED  BY <2>1, FS_CardinalityType DEF AllTrusted, TypeOK
<1>1. Unasked(b)'  BY <1>0, UnaskedStep DEF Trusted
<1> DEFINE Good == /\ count'[b] >= Cardinality(pending'[b])
                   /\ running'[b] \/ pending'[b] = {}
<1>2. Good => Trusted(b)'  BY <1>1 DEF Trusted
<1>3. pending'[b] = pending[b] /\ count'[b] = count[b] /\ (running'[b] = running[b] \/ running'[b])
        => Good
  BY <1>0 DEF Trusted
<1> HIDE DEF Good
<1>4. ASSUME NEW a \in Actors, Create(a) PROVE Good
  <2>1. CASE a = b
    <3>1. pending'[b] = {} /\ count'[b] = 0  BY <1>4, <2>1 DEF Create, TypeOK
    <3>2. Cardinality({}) = 0  BY FS_EmptySet
    <3> QED  BY <3>1, <3>2 DEF Good
  <2>2. CASE a # b
    <3>1. pending'[b] = pending[b] /\ count'[b] = count[b] /\ running'[b] = running[b]
      BY <1>4, <2>2 DEF Create, TypeOK
    <3> QED  BY <1>3, <3>1
  <2> QED  BY <2>1, <2>2
<1>5. CASE UNCHANGED vars
  BY <1>2, <1>3, <1>5 DEF vars, instanceVars, serverVars
<1>6. ASSUME NEW a \in Actors, GroupStep(a) PROVE Good
  <2>1. CASE Activate(a)  BY <1>4, <2>1 DEF Activate
  <2>2. CASE DrainChannel(a) \/ HandOver(a)
    BY <1>3, <2>2 DEF DrainChannel, HandOver, instanceVars, serverVars
  <2>3. CASE StopReported(a)  BY <1>3, <1>4, <2>3 DEF StopReported
  <2>4. ASSUME NEW m \in network, m.to = a, DeliverRequest(m) PROVE Good
    BY <1>3, <1>4, <2>4 DEF DeliverRequest, instanceVars
  <2>5. ASSUME NEW m \in network, DropResponse(m) \/ AcceptResponse(m) PROVE Good
    BY <1>3, <2>5 DEF DropResponse, AcceptResponse, instanceVars, serverVars
  <2>6. ASSUME NEW m \in network, DropRequest(m) \/ DropEmpty(m) PROVE Good
    BY <1>3, <2>6, DropMoves
  <2> QED  BY <1>6, <2>1, <2>2, <2>3, <2>4, <2>5, <2>6 DEF GroupStep, Takes
<1>7. ASSUME NEW a \in Actors, ActorStep(a) PROVE Good
  <2>1. CASE (\E x \in Actors : Request(a, x) \/ RequestRefused(a, x)) \/ Receive(a) \/ Timeout(a)
             \/ HandlerReturns(a)
    BY <1>3, <2>1 DEF Request, RequestRefused, Receive, Timeout, HandlerReturns,
                      instanceVars, serverVars
  <2>2. CASE Serve(a)
    <3>1. /\ mailbox' = [mailbox EXCEPT ![a] = Tail(mailbox[a])] /\ mailbox[a] # <<>>
          /\ pending' = [pending EXCEPT ![a] = pending[a] \union {Head(mailbox[a])}]
          /\ count' = [count EXCEPT ![a] = count[a] + 1]
          /\ network' = network /\ running[a] /\ running' = running
      BY <2>2 DEF Serve, InHandler, instanceVars
    <3>2. CASE a = b
      <4>1. /\ mailbox'[b] = Tail(mailbox[b]) /\ running'[b]
            /\ pending'[b] = pending[b] \union {Head(mailbox[b])}
            /\ count'[b] = count[b] + 1
        BY <3>1, <3>2 DEF TypeOK
      <4>2. Head(mailbox[b]) \notin pending[b]
        BY <3>1, <3>2, <4>1, SingleServed DEF AllSingle
      <4>3. Cardinality(pending'[b]) = Cardinality(pending[b]) + 1
        BY <1>0, <4>1, <4>2, CountMoves
      <4>4. count[b] >= Cardinality(pending[b])  BY <1>0 DEF Trusted
      <4>5. count'[b] >= Cardinality(pending'[b])  BY <1>0, <4>1, <4>3, <4>4
      <4> QED  BY <4>1, <4>5 DEF Good
    <3>3. CASE a # b
      <4>1. pending'[b] = pending[b] /\ count'[b] = count[b]  BY <3>1, <3>3 DEF TypeOK
      <4> QED  BY <1>3, <3>1, <4>1
    <3> QED  BY <3>2, <3>3
  <2>3. ASSUME NEW r, Response(a, r), a = b => r \in pending[b], UNCHANGED running
        PROVE  Good
    <3>1. CASE a = b
      <4>1. pending'[b] = pending[b] \ {r} /\ count'[b] = count[b] - 1
        BY <2>3, <3>1 DEF Response, TypeOK
      <4>2. Cardinality(pending'[b]) = Cardinality(pending[b]) - 1
        BY <1>0, <2>3, <3>1, <4>1, CountMoves
      <4>3. count[b] >= Cardinality(pending[b]) /\ (running[b] \/ pending[b] = {})
        BY <1>0 DEF Trusted
      <4>4. count'[b] >= Cardinality(pending'[b])  BY <1>0, <4>1, <4>2, <4>3
      <4> QED  BY <2>3, <4>1, <4>3, <4>4 DEF Good
    <3>2. CASE a # b
      <4>1. pending'[b] = pending[b] /\ count'[b] = count[b]
        BY <2>3, <3>2 DEF Response, TypeOK
      <4> QED  BY <1>3, <2>3, <4>1
    <3> QED  BY <3>1, <3>2
  <2>4. CASE Answer(a)
    <3>1. running' = running  BY <2>4 DEF Answer, instanceVars
    <3>2. PICK r : Response(a, r) /\ (r \in pending[a] \/ (r = serving[a] /\ serving[a] = Unsigned(a)))
      BY <2>4 DEF Answer
    <3>3. a = b => r \in pending[b]  BY <1>0, <3>2 DEF Trusted, Unasked
    <3> QED  BY <2>3, <3>1, <3>2, <3>3
  <2>5. CASE HandlerPanics(a)
    <3>1. running' = running  BY <2>5 DEF HandlerPanics, instanceVars
    <3>2. CASE /\ Response(a, serving[a])
               /\ serving[a] \in pending[a] \/ serving[a] = Unsigned(a)
      <4>1. a = b => serving[a] \in pending[b]  BY <1>0, <3>2 DEF Trusted, Unasked
      <4> QED  BY <2>3, <3>1, <3>2, <4>1
    <3>3. CASE UNCHANGED <<pending, count, network>>  BY <1>3, <3>1, <3>3
    <3> QED  BY <2>5, <3>2, <3>3 DEF HandlerPanics
  <2>6. CASE Retire(a)
    <3>1. /\ running' = [running EXCEPT ![a] = FALSE] /\ count[a] <= 0
          /\ pending' = pending /\ count' = count
      BY <2>6 DEF Retire, MayRetire, serverVars
    <3>2. CASE a = b
      <4>1. count[b] >= Cardinality(pending[b])  BY <1>0 DEF Trusted
      <4>2. Cardinality(pending[b]) = 0  BY <1>0, <3>1, <3>2, <4>1
      <4>3. pending[b] = {}  BY <1>0, <4>2, FS_EmptySet
      <4> QED  BY <3>1, <4>1, <4>3 DEF Good
    <3>3. CASE a # b
      <4>1. running'[b] = running[b]  BY <3>1, <3>3 DEF TypeOK
      <4> QED  BY <1>3, <3>1, <4>1
    <3> QED  BY <3>2, <3>3
  <2>7. CASE LoseBatch(a)  BY <1>3, <2>7, LoseMoves
  <2> QED  BY <1>7, <2>1, <2>2, <2>4, <2>5, <2>6, <2>7 DEF ActorStep
<1>8. ASSUME NEW a \in Actors, StrangerAsks(a) PROVE Good
  BY <1>3, <1>8 DEF StrangerAsks, instanceVars, serverVars
<1> QED  BY <1>2, <1>5, <1>6, <1>7, <1>8 DEF Next

LEMMA InitTrusted == Init => AllTrusted
<1> SUFFICES ASSUME Init, NEW b \in Actors PROVE Trusted(b)
  BY DEF AllTrusted
<1>1. Unsigned(b) \in Requests /\ NoEnvelope # Unsigned(b)
  <2>1. TypeOK  BY DEF Init, TypeOK
  <2> QED  BY <2>1, MadeEnvelopes, NobodyAssumption
<1>2. Unasked(b)  BY <1>1 DEF Init, Held, Unasked
<1>3. count[b] = 0 /\ pending[b] = {} /\ Cardinality({}) = 0  BY FS_EmptySet DEF Init
<1> QED  BY <1>2, <1>3 DEF Trusted

(* The ways in which an envelope leaves the system: the request was answered,   *)
(* the response dropped, taken out of the channel, either was forgotten with    *)
(* the context that had it, or it was dropped with a line in the log, and who   *)
(* waited for it was forsaken.                                                  *)
Answered(m) == \E b \in Actors : m \in pending[b] /\ Response(b, m)
Dropped(m) == m \in network /\ DropResponse(m)
Stored(m, b) == syncRspChan[b] # <<>> /\ m = Head(syncRspChan[b])
Taken(m) == \E b \in Actors : (DrainChannel(b) \/ Receive(b)) /\ Stored(m, b)
Wiped(m) == \E b \in Actors : Create(b) /\ ~running[b] /\ (m \in pending[b] \/ Stored(m, b))

Lost(m) == \A a \in Actors : Concerns(m, a) => forsaken'[a]

(* b has the envelope. *)
HeldBy(m, b) == \/ m \in pending[b]
                \/ m = delivering[b]
                \/ \E i \in 1 .. Len(mailbox[b]) : mailbox[b][i] = m
                \/ Stored(m, b)

(* A channel that is not empty holds its head. *)
LEMMA OnlyElement ==
  ASSUME NEW q \in Seq(Responses), Len(q) <= 1, NEW m
  PROVE  (q # <<>> /\ m = Head(q)) <=> \E i \in 1 .. Len(q) : q[i] = m
<1>1. CASE q = <<>>  BY <1>1
<1>2. CASE q # <<>>
  <2>1. PICK n \in Nat : n = Len(q)  OBVIOUS
  <2>2. n <= 1 /\ n # 0 /\ Head(q) = q[1]  BY <1>2, <2>1
  <2>3. n = 1 /\ 1 \in 1 .. n /\ \A i \in 1 .. n : i = 1  BY <2>2
  <2> QED  BY <1>2, <2>1, <2>2, <2>3
<1> QED  BY <1>1, <1>2

LEMMA HeldSomewhere ==
  ASSUME TypeOK, TypeOK', NEW m
  PROVE  /\ Held(m) <=> m \in network \/ \E b \in Actors : HeldBy(m, b)
         /\ Held(m)' <=> m \in network' \/ \E b \in Actors : HeldBy(m, b)'
<1>1. ASSUME NEW b \in Actors
      PROVE  Stored(m, b) <=> \E i \in 1 .. Len(syncRspChan[b]) : syncRspChan[b][i] = m
  <2>1. syncRspChan[b] \in Seq(Responses) /\ Len(syncRspChan[b]) <= 1  BY DEF TypeOK
  <2> QED  BY <2>1, OnlyElement DEF Stored
<1>2. ASSUME NEW b \in Actors
      PROVE  Stored(m, b)' <=> \E i \in 1 .. Len(syncRspChan'[b]) : syncRspChan'[b][i] = m
  <2>1. syncRspChan'[b] \in Seq(Responses) /\ Len(syncRspChan'[b]) <= 1  BY DEF TypeOK
  <2> QED  BY <2>1, OnlyElement DEF Stored
<1> QED  BY <1>1, <1>2 DEF Held, HeldBy

(* What one actor's step leaves in the hands of the others. *)
SameHands(b) == /\ pending[b] \subseteq pending'[b] /\ delivering'[b] = delivering[b]
                /\ mailbox'[b] = mailbox[b] /\ syncRspChan'[b] = syncRspChan[b]

LEMMA HandsKeep ==
  ASSUME NEW m, NEW b \in Actors, SameHands(b), HeldBy(m, b)
  PROVE  HeldBy(m, b)'
BY DEF SameHands, HeldBy, Stored

(* No envelope is lost otherwise. *)
LEMMA HeldKept ==
  ASSUME TypeOK, TypeOK', Alive, [Next]_vars, NEW m \in Requests \union Responses, Held(m)
  PROVE  Held(m)' \/ Answered(m) \/ Dropped(m) \/ Taken(m) \/ Wiped(m) \/ Lost(m)
<1> DEFINE Goal == Held(m)' \/ Answered(m) \/ Dropped(m) \/ Taken(m) \/ Wiped(m) \/ Lost(m)
<1>0. m # NoEnvelope  BY NobodyAssumption
<1>1. m \in network \/ \E b \in Actors : HeldBy(m, b)  BY HeldSomewhere
<1>2. Held(m)' <=> m \in network' \/ \E b \in Actors : HeldBy(m, b)'
  BY HeldSomewhere
<1>3. m \in network' => Goal  BY <1>2
<1>4. \A b \in Actors : HeldBy(m, b)' => Goal  BY <1>2
<1>5. Answered(m) \/ Dropped(m) \/ Taken(m) \/ Wiped(m) \/ Lost(m) => Goal  OBVIOUS
<1> HIDE DEF Goal
<1> SUFFICES Goal
  BY DEF Goal
<1>6. ASSUME \A b \in Actors : SameHands(b), network \subseteq network' PROVE Goal
  BY <1>1, <1>3, <1>4, <1>6, HandsKeep
<1>7. ASSUME NEW a \in Actors, \A b \in Actors : b # a => SameHands(b),
             HeldBy(m, a) => Goal, m \in network => Goal
      PROVE  Goal
  BY <1>1, <1>4, <1>7, HandsKeep
<1>8. CASE UNCHANGED vars
  BY <1>6, <1>8 DEF vars, channelVars, serverVars, SameHands
<1>9. ASSUME NEW a \in Actors, GroupStep(a) PROVE Goal
  <2>1. ASSUME Create(a), ~running[a], UNCHANGED <<delivering, mailbox, network>> PROVE Goal
    <3>1. ASSUME NEW b \in Actors, b # a PROVE SameHands(b)
      BY <2>1, <3>1 DEF Create, TypeOK, SameHands
    <3>2. m \in pending[a] \/ Stored(m, a) => Goal  BY <1>5, <2>1 DEF Wiped
    <3>3. m = delivering[a] => Goal  BY <1>4, <2>1 DEF HeldBy
    <3>4. (\E i \in 1 .. Len(mailbox[a]) : mailbox[a][i] = m) => Goal  BY <1>4, <2>1 DEF HeldBy
    <3>5. HeldBy(m, a) => Goal  BY <3>2, <3>3, <3>4 DEF HeldBy
    <3> QED  BY <1>3, <1>7, <2>1, <3>1, <3>5
  <2>2. CASE Activate(a)
    <3>1. ~running[a]  BY <2>2 DEF Activate, Alive
    <3> QED  BY <2>1, <2>2, <3>1 DEF Activate
  <2>3. CASE DrainChannel(a)
    <3>1. /\ syncRspChan' = [syncRspChan EXCEPT ![a] = <<>>]
          /\ UNCHANGED <<pending, delivering, mailbox, network>>
      BY <2>3 DEF DrainChannel, serverVars
    <3>2. ASSUME NEW b \in Actors, b # a PROVE SameHands(b)
      BY <3>1, <3>2 DEF TypeOK, SameHands
    <3>3. Stored(m, a) => Goal  BY <1>5, <2>3 DEF Taken
    <3>4. HeldBy(m, a) => HeldBy(m, a)' \/ Stored(m, a)  BY <3>1 DEF HeldBy
    <3> QED  BY <1>3, <1>4, <1>7, <3>1, <3>2, <3>3, <3>4
  <2>4. CASE HandOver(a)
    <3>1. /\ syncRspChan[a] = <<>>
          /\ syncRspChan' = [syncRspChan EXCEPT ![a] = <<delivering[a]>>]
          /\ delivering' = [delivering EXCEPT ![a] = NoEnvelope]
          /\ UNCHANGED <<pending, mailbox, network>>
      BY <2>4 DEF HandOver, serverVars
    <3>2. ASSUME NEW b \in Actors, b # a PROVE SameHands(b)
      BY <3>1, <3>2 DEF TypeOK, SameHands
    <3>3. syncRspChan'[a] = <<delivering[a]>>  BY <3>1 DEF TypeOK
    <3>4. m = delivering[a] => Stored(m, a)'  BY <3>3 DEF Stored
    <3>5. ~Stored(m, a)  BY <3>1 DEF Stored
    <3>6. HeldBy(m, a) => HeldBy(m, a)'  BY <3>1, <3>4, <3>5 DEF HeldBy
    <3> QED  BY <1>3, <1>4, <1>7, <3>1, <3>2, <3>6
  <2>5. CASE StopReported(a)
    <3>1. CASE mailbox[a] = <<>>
      <4>1. UNCHANGED <<syncRspChan, pending, delivering, mailbox, network>>
        BY <2>5, <3>1 DEF StopReported
      <4> QED  BY <1>6, <4>1 DEF SameHands
    <3>2. CASE mailbox[a] # <<>>  BY <2>1, <2>5, <3>2 DEF StopReported
    <3> QED  BY <3>1, <3>2
  <2>6. ASSUME NEW n \in network, n.to = a, DeliverRequest(n) PROVE Goal
    <3>1. n \in Requests  BY <2>6, Kinds DEF DeliverRequest, TypeOK
    <3>2. /\ network' = network \ {n}
          /\ mailbox' = [mailbox EXCEPT ![a] = Append(mailbox[a], n)]
          /\ delivering' = delivering
          /\ \/ Create(a) /\ ~running[a]
             \/ pending' = pending /\ syncRspChan' = syncRspChan
      BY <2>6 DEF DeliverRequest, Alive, channelVars
    <3>3. ASSUME NEW b \in Actors, b # a PROVE SameHands(b)
      <4>1. mailbox'[b] = mailbox[b]  BY <3>2, <3>3 DEF TypeOK
      <4>2. pending'[b] = pending[b] /\ syncRspChan'[b] = syncRspChan[b]
        <5>1. CASE Create(a)  BY <3>3, <5>1 DEF Create, TypeOK
        <5>2. CASE pending' = pending /\ syncRspChan' = syncRspChan  BY <5>2
        <5> QED  BY <3>2, <5>1, <5>2
      <4> QED  BY <3>2, <4>1, <4>2 DEF SameHands
    <3>4. /\ mailbox'[a] = Append(mailbox[a], n) /\ mailbox[a] \in Seq(Requests)
      BY <3>2 DEF TypeOK
    <3>5. \A i \in 1 .. Len(mailbox[a]) :
            i \in 1 .. Len(mailbox'[a]) /\ mailbox'[a][i] = mailbox[a][i]
      BY <3>1, <3>4
    <3>6. \E i \in 1 .. Len(mailbox'[a]) : mailbox'[a][i] = n
      <4>1. PICK k \in Nat : k = Len(mailbox[a])  BY <3>4
      <4>2. k + 1 \in 1 .. k + 1 /\ Len(mailbox'[a]) = k + 1 /\ mailbox'[a][k + 1] = n
        BY <3>1, <3>4, <4>1
      <4> QED  BY <4>2
    <3>7. m \in network => Goal
      <4>1. m = n => HeldBy(m, a)'  BY <3>6 DEF HeldBy
      <4> QED  BY <1>3, <1>4, <3>2, <4>1
    <3>8. (\E i \in 1 .. Len(mailbox[a]) : mailbox[a][i] = m) => HeldBy(m, a)'
      BY <3>5 DEF HeldBy
    <3>9. m = delivering[a] => HeldBy(m, a)'  BY <3>2 DEF HeldBy
    <3>10. m \in pending[a] \/ Stored(m, a) => Goal
      <4>1. CASE Create(a) /\ ~running[a]  BY <1>5, <4>1 DEF Wiped
      <4>2. CASE pending' = pending /\ syncRspChan' = syncRspChan
        BY <1>4, <4>2 DEF HeldBy, Stored
      <4> QED  BY <3>2, <4>1, <4>2
    <3>11. HeldBy(m, a) => Goal  BY <1>4, <3>8, <3>9, <3>10 DEF HeldBy
    <3> QED  BY <1>7, <3>3, <3>7, <3>11
  <2>7. ASSUME NEW n \in network, n.to = a, DropResponse(n) PROVE Goal
    <3>1. /\ network \ {n} \subseteq network'
          /\ UNCHANGED <<syncRspChan, pending, delivering, mailbox>>
      BY <2>7 DEF DropResponse, Arrives, channelVars, serverVars
    <3>2. \A b \in Actors : SameHands(b)  BY <3>1 DEF SameHands
    <3>3. m = n => Goal  BY <1>5, <2>7 DEF Dropped
    <3>4. m \in network => Goal  BY <1>3, <3>1, <3>3
    <3>5. HeldBy(m, a) => Goal  BY <1>4, <3>2, HandsKeep
    <3> QED  BY <1>7, <3>2, <3>4, <3>5
  <2>8. ASSUME NEW n \in network, n.to = a, AcceptResponse(n) PROVE Goal
    <3>1. /\ network \ {n} \subseteq network' /\ delivering[a] = NoEnvelope
          /\ delivering' = [delivering EXCEPT ![a] = n]
          /\ UNCHANGED <<syncRspChan, pending, mailbox>>
      BY <2>8 DEF AcceptResponse, Arrives, serverVars
    <3>2. ASSUME NEW b \in Actors, b # a PROVE SameHands(b)
      BY <3>1, <3>2 DEF TypeOK, SameHands
    <3>3. delivering'[a] = n  BY <3>1 DEF TypeOK
    <3>4. m = n => HeldBy(m, a)'  BY <3>3 DEF HeldBy
    <3>5. HeldBy(m, a) => HeldBy(m, a)'  BY <1>0, <3>1 DEF HeldBy, Stored
    <3> QED  BY <1>3, <1>4, <1>7, <3>1, <3>2, <3>4, <3>5
  <2>9. ASSUME NEW n \in network, DropRequest(n) \/ DropEmpty(n) PROVE Goal
    <3>1. /\ network \ {n} \subseteq network'
          /\ UNCHANGED <<syncRspChan, pending, delivering, mailbox>>
          /\ \A b \in Actors : Concerns(n, b) => forsaken'[b]
      BY <2>9, DropMoves
    <3>2. \A b \in Actors : SameHands(b)  BY <3>1 DEF SameHands
    <3>3. m = n => Goal  BY <1>5, <3>1 DEF Lost
    <3>4. m \in network => Goal  BY <1>3, <3>1, <3>3
    <3>5. HeldBy(m, a) => Goal  BY <1>4, <3>2, HandsKeep
    <3> QED  BY <1>7, <3>2, <3>4, <3>5
  <2> QED  BY <1>9, <2>2, <2>3, <2>4, <2>5, <2>6, <2>7, <2>8, <2>9 DEF GroupStep, Takes
<1>10. ASSUME NEW a \in Actors, ActorStep(a) PROVE Goal
  <2>1. CASE (\E b \in Actors : Request(a, b) \/ RequestRefused(a, b)) \/ Timeout(a)
             \/ HandlerReturns(a) \/ Retire(a)
    <3>1. network \subseteq network' /\ UNCHANGED <<syncRspChan, pending, delivering, mailbox>>
      BY <2>1 DEF Request, RequestRefused, Timeout, HandlerReturns, Retire, channelVars, serverVars
    <3> QED  BY <1>6, <3>1 DEF SameHands
  <2>2. CASE Receive(a)
    <3>1. /\ syncRspChan' = [syncRspChan EXCEPT ![a] = <<>>]
          /\ UNCHANGED <<pending, delivering, mailbox, network>>
      BY <2>2 DEF Receive, serverVars
    <3>2. ASSUME NEW b \in Actors, b # a PROVE SameHands(b)
      BY <3>1, <3>2 DEF TypeOK, SameHands
    <3>3. Stored(m, a) => Goal  BY <1>5, <2>2 DEF Taken
    <3>4. HeldBy(m, a) => HeldBy(m, a)' \/ Stored(m, a)  BY <3>1 DEF HeldBy
    <3> QED  BY <1>3, <1>4, <1>7, <3>1, <3>2, <3>3, <3>4
  <2>3. CASE Serve(a)
    <3>1. /\ mailbox[a] # <<>>
          /\ mailbox' = [mailbox EXCEPT ![a] = Tail(mailbox[a])]
          /\ pending' = [pending EXCEPT ![a] = pending[a] \union {Head(mailbox[a])}]
          /\ UNCHANGED <<network, delivering, syncRspChan>>
      BY <2>3 DEF Serve, channelVars
    <3>2. ASSUME NEW b \in Actors, b # a PROVE SameHands(b)
      BY <3>1, <3>2 DEF TypeOK, SameHands
    <3>3. /\ mailbox'[a] = Tail(mailbox[a])
          /\ pending'[a] = pending[a] \union {Head(mailbox[a])}
          /\ mailbox[a] \in Seq(Requests)
      BY <3>1 DEF TypeOK
    <3>4. ASSUME NEW i \in 1 .. Len(mailbox[a]), mailbox[a][i] = m PROVE HeldBy(m, a)'
      <4>1. PICK q \in Seq(Requests) : q = mailbox[a] /\ q # <<>>  BY <3>1, <3>3
      <4>2. PICK n \in Nat : n = Len(q)  BY <4>1
      <4>3. CASE i = 1
        <5>1. m = Head(mailbox[a])  BY <3>4, <4>1, <4>3
        <5> QED  BY <3>3, <5>1 DEF HeldBy
      <4>4. CASE i # 1
        <5>1. i \in 1 .. n  BY <4>1, <4>2
        <5>2. i - 1 \in 1 .. n - 1 /\ (i - 1) + 1 = i  BY <4>4, <5>1
        <5>3. Len(Tail(q)) = n - 1 /\ Tail(q)[i - 1] = q[i]  BY <4>1, <4>2, <5>2
        <5>4. i - 1 \in 1 .. Len(mailbox'[a]) /\ mailbox'[a][i - 1] = m
          BY <3>3, <3>4, <4>1, <5>2, <5>3
        <5> QED  BY <5>4 DEF HeldBy
      <4> QED  BY <4>3, <4>4
    <3>5. HeldBy(m, a) => HeldBy(m, a)'
      BY <3>1, <3>3, <3>4 DEF HeldBy, Stored
    <3> QED  BY <1>3, <1>4, <1>7, <3>1, <3>2, <3>5
  <2>4. ASSUME NEW r, Response(a, r), UNCHANGED <<mailbox, delivering, syncRspChan>> PROVE Goal
    <3>1. network \subseteq network' /\ pending' = [pending EXCEPT ![a] = pending[a] \ {r}]
      BY <2>4 DEF Response
    <3>2. ASSUME NEW b \in Actors, b # a PROVE SameHands(b)
      BY <2>4, <3>1, <3>2 DEF TypeOK, SameHands
    <3>3. pending'[a] = pending[a] \ {r}  BY <3>1 DEF TypeOK
    <3>4. m \in pending[a] /\ m = r => Goal  BY <1>5, <2>4 DEF Answered
    <3>5. HeldBy(m, a) => HeldBy(m, a)' \/ (m \in pending[a] /\ m = r)
      BY <2>4, <3>3 DEF HeldBy, Stored
    <3> QED  BY <1>3, <1>4, <1>7, <3>1, <3>2, <3>4, <3>5
  <2>5. CASE Answer(a)  BY <2>4, <2>5 DEF Answer, channelVars
  <2>6. CASE HandlerPanics(a)
    <3>1. UNCHANGED <<mailbox, delivering, syncRspChan>>
      BY <2>6 DEF HandlerPanics, channelVars
    <3>2. CASE Response(a, serving[a])  BY <2>4, <3>1, <3>2
    <3>3. CASE UNCHANGED <<pending, count, network>>  BY <1>6, <3>1, <3>3 DEF SameHands
    <3> QED  BY <2>6, <3>2, <3>3 DEF HandlerPanics
  <2>7. CASE LoseBatch(a)
    <3>1. PICK n \in 1 .. Len(mailbox[a]) :
            /\ mailbox' = [mailbox EXCEPT ![a] = SubSeq(mailbox[a], n + 1, Len(mailbox[a]))]
            /\ \A x \in Actors : forsaken'[x]
                 <=> forsaken[x] \/ \E i \in 1 .. n : Concerns(mailbox[a][i], x)
      BY <2>7, LoseMoves
    <3>2. UNCHANGED <<syncRspChan, pending, delivering, network>>  BY <2>7, LoseMoves
    <3>3. ASSUME NEW b \in Actors, b # a PROVE SameHands(b)
      BY <3>1, <3>2, <3>3 DEF TypeOK, SameHands
    <3>4. ASSUME NEW i \in 1 .. Len(mailbox[a]), mailbox[a][i] = m PROVE Lost(m) \/ HeldBy(m, a)'
      <4>1. PICK q \in Seq(Requests) : q = mailbox[a]  BY DEF TypeOK
      <4>2. PICK l \in Nat : l = Len(q)  BY <4>1
      <4>3. n \in 1 .. l /\ i \in 1 .. l  BY <4>1, <4>2
      <4>4. CASE i \in 1 .. n  BY <3>1, <3>4, <4>4 DEF Lost
      <4>5. CASE i \notin 1 .. n
        <5>1. PICK t : t = SubSeq(q, n + 1, Len(q))  OBVIOUS
        <5>2. Len(t) = l - n /\ \A j \in 1 .. l - n : t[j] = q[n + j]
          BY <4>1, <4>2, <4>3, <5>1, AfterBatch
        <5>3. i - n \in 1 .. l - n /\ n + (i - n) = i  BY <4>2, <4>3, <4>5
        <5>4. mailbox'[a] = t  BY <3>1, <4>1, <5>1 DEF TypeOK
        <5>5. i - n \in 1 .. Len(mailbox'[a]) /\ mailbox'[a][i - n] = m
          BY <3>4, <4>1, <5>2, <5>3, <5>4
        <5> QED  BY <5>5 DEF HeldBy
      <4> QED  BY <4>4, <4>5
    <3>5. HeldBy(m, a) => HeldBy(m, a)' \/ Lost(m)
      BY <3>2, <3>4 DEF HeldBy, Stored
    <3> QED  BY <1>3, <1>4, <1>5, <1>7, <3>2, <3>3, <3>5
  <2> QED  BY <1>10, <2>1, <2>2, <2>3, <2>5, <2>6, <2>7 DEF ActorStep
<1>11. ASSUME NEW a \in Actors, StrangerAsks(a) PROVE Goal
  BY <1>6, <1>11 DEF StrangerAsks, channelVars, serverVars, SameHands
<1> QED  BY <1>8, <1>9, <1>10, <1>11 DEF Next

(* Who waits goes on to wait for the same, unless it has just asked. *)
LEMMA WaitsOn ==
  ASSUME TypeOK, Alive, [Next]_vars, NEW a \in Actors, waiting'[a] # 0
  PROVE  \/ \E b \in Actors : Request(a, b)
         \/ /\ waiting'[a] = waiting[a] /\ instance'[a] = instance[a]
            /\ forsaken[a] => forsaken'[a]
<1> DEFINE Same == /\ waiting'[a] = waiting[a] /\ instance'[a] = instance[a]
                   /\ forsaken[a] => forsaken'[a]
           Goal == (\E b \in Actors : Request(a, b)) \/ Same
<1> SUFFICES Goal
  OBVIOUS
<1>1. UNCHANGED <<waiting, instance, forsaken>> => Goal  OBVIOUS
<1> HIDE DEF Same
<1>2. ASSUME NEW x \in Actors, Create(x) PROVE Goal
  <2>1. CASE x = a  BY <1>2, <2>1 DEF Create, TypeOK
  <2>2. CASE x # a  BY <1>2, <2>2 DEF Create, TypeOK, Same
  <2> QED  BY <2>1, <2>2
<1>3. ASSUME NEW x \in Actors, waiting' = [waiting EXCEPT ![x] = 0], instance' = instance,
             forsaken' = forsaken
      PROVE  Goal
  <2>1. CASE x = a  BY <1>3, <2>1 DEF TypeOK
  <2>2. CASE x # a  BY <1>3, <2>2 DEF TypeOK, Same
  <2> QED  BY <2>1, <2>2
<1>4. CASE UNCHANGED vars  BY <1>1, <1>4 DEF vars, instanceVars, callerVars
<1>5. ASSUME NEW x \in Actors, GroupStep(x) PROVE Goal
  <2>1. CASE Activate(x)  BY <1>2, <2>1 DEF Activate
  <2>2. CASE DrainChannel(x) \/ HandOver(x)
    BY <1>1, <2>2 DEF DrainChannel, HandOver, instanceVars, callerVars
  <2>3. CASE StopReported(x)
    <3>1. CASE mailbox[x] = <<>>
      <4>1. instance' = [instance EXCEPT ![x] = 0] /\ ~running[x] /\ UNCHANGED <<waiting, forsaken>>
        BY <2>3, <3>1 DEF StopReported, callerVars
      <4>2. x # a  BY <4>1 DEF Alive
      <4> QED  BY <4>1, <4>2 DEF TypeOK, Same
    <3>2. CASE mailbox[x] # <<>>  BY <1>2, <2>3, <3>2 DEF StopReported
    <3> QED  BY <3>1, <3>2
  <2>4. ASSUME NEW m \in network, m.to = x, DeliverRequest(m) PROVE Goal
    BY <1>1, <1>2, <2>4 DEF DeliverRequest, instanceVars, callerVars
  <2>5. ASSUME NEW m \in network, DropResponse(m) \/ AcceptResponse(m) PROVE Goal
    BY <1>1, <2>5 DEF DropResponse, AcceptResponse, instanceVars, callerVars
  <2>6. ASSUME NEW m \in network, DropRequest(m) \/ DropEmpty(m) PROVE Goal
    BY <2>6, DropMoves DEF Same
  <2> QED  BY <1>5, <2>1, <2>2, <2>3, <2>4, <2>5, <2>6 DEF GroupStep, Takes
<1>6. ASSUME NEW x \in Actors, ActorStep(x) PROVE Goal
  <2>1. ASSUME NEW b \in Actors, Request(x, b) PROVE Goal
    <3>1. CASE x = a  BY <2>1, <3>1
    <3>2. CASE x # a
      <4>1. /\ waiting' = [waiting EXCEPT ![x] = requestIdBase[x] + 1]
            /\ forsaken' = [forsaken EXCEPT ![x] = FALSE] /\ instance' = instance
        BY <2>1 DEF Request, instanceVars
      <4> QED  BY <3>2, <4>1 DEF TypeOK, Same
    <3> QED  BY <3>1, <3>2
  <2>2. ASSUME NEW b \in Actors, RequestRefused(x, b) PROVE Goal
    BY <1>1, <2>2 DEF RequestRefused, instanceVars
  <2>3. CASE Receive(x)
    BY <1>1, <1>3, <2>3 DEF Receive, instanceVars
  <2>4. CASE Timeout(x)
    BY <1>3, <2>4 DEF Timeout, instanceVars
  <2>5. CASE Serve(x) \/ Answer(x) \/ HandlerReturns(x) \/ HandlerPanics(x) \/ Retire(x)
    BY <1>1, <2>5 DEF Serve, Answer, HandlerReturns, HandlerPanics, Retire, instanceVars, callerVars
  <2>6. CASE LoseBatch(x)  BY <2>6, LoseMoves DEF Same
  <2> QED  BY <1>6, <2>1, <2>2, <2>3, <2>4, <2>5, <2>6 DEF ActorStep
<1>7. ASSUME NEW x \in Actors, StrangerAsks(x) PROVE Goal
  BY <1>1, <1>7 DEF StrangerAsks, instanceVars, callerVars
<1> QED  BY <1>4, <1>5, <1>6, <1>7 DEF Next

(* Something of what a waits for is in the system. *)
Attended(a) == \E m \in Requests \union Responses : Held(m) /\ Concerns(m, a)

AllAttended == \A a \in Actors : waiting[a] # 0 => forsaken[a] \/ Attended(a)

(* A response is taken out of the channel of an actor that waits for it by the  *)
(* actor itself, and its wait is over.                                          *)
LEMMA TakenEndsWait ==
  ASSUME TypeOK, Alive, AllSound, Channelled, NEW a \in Actors, waiting[a] # 0,
         NEW m \in Requests \union Responses, Concerns(m, a), Taken(m)
  PROVE  waiting'[a] = 0
<1>1. PICK b \in Actors : (DrainChannel(b) \/ Receive(b)) /\ syncRspChan[b] # <<>>
                        /\ m = Head(syncRspChan[b])
  BY DEF Taken, Stored
<1>2. m \in Responses /\ m.to = b
  BY <1>1, ChannelHeld DEF Channelled, Fits
<1>3. m.kind = "response"  BY <1>2 DEF Responses
<1>4. m.id = waiting[a] /\ a = b /\ instance[a] # 0  BY <1>2, <1>3 DEF Concerns, Alive
<1>5. lastSyncRsp[a] = waiting[a]  BY <1>1, <1>4 DEF Channelled, Fits
<1>6. CASE DrainChannel(a)
  <2>1. delivering[a] # NoEnvelope  BY <1>6 DEF DrainChannel
  <2>2. /\ delivering[a].id \in Nat /\ delivering[a].id <= requestIdBase[a]
        /\ lastSyncRsp[a] < delivering[a].id
    BY <2>1, DeliveredWasIssued DEF Channelled, Fits
  <2>3. waiting[a] = requestIdBase[a] /\ requestIdBase[a] \in Nat  BY DEF TypeOK
  <2> QED  BY <1>5, <2>2, <2>3
<1>7. CASE Receive(a)
  <2>1. Matches(a, Head(syncRspChan[a]))  BY <1>1, <1>4, <1>5, LastMatches
  <2>2. waiting' = [waiting EXCEPT ![a] = 0]  BY <1>7, <2>1 DEF Receive
  <2> QED  BY <2>2 DEF TypeOK
<1> QED  BY <1>1, <1>4, <1>6, <1>7

(* Nobody forgets what somebody waits for. *)
LEMMA WipedConcernsNobody ==
  ASSUME TypeOK, Alive, Channelled, AllAsked, AllSingle, AllTrusted,
         \A x, y \in Actors : <<x, y>> \in Calls => y \notin Strangers,
         NEW a \in Actors, waiting[a] # 0,
         NEW m \in Requests \union Responses, Concerns(m, a), Wiped(m)
  PROVE  FALSE
<1>1. PICK b \in Actors : Create(b) /\ ~running[b] /\ (m \in pending[b] \/ Stored(m, b))
  BY DEF Wiped
<1>2. CASE m \in pending[b]
  <2>1. m \in Requests /\ Held(m)  BY <1>2 DEF TypeOK, Held
  <2>2. m.kind = "request" /\ m.from \in Actors \union {Nobody}  BY <2>1 DEF Requests
  <2>3. m.from = a /\ a # Nobody  BY <2>2, NobodyAssumption DEF Concerns
  <2>4. m.to = b  BY <1>2 DEF AllSingle, Single
  <2>5. <<a, b>> \in Calls  BY <2>1, <2>3, <2>4 DEF AllAsked
  <2>6. b \notin Strangers  BY <2>5
  <2> QED  BY <1>1, <1>2, <2>6 DEF AllTrusted, Trusted
<1>3. CASE Stored(m, b)
  <2>1. m \in Responses /\ m.to = b
    BY <1>3, ChannelHeld DEF Stored, Channelled, Fits
  <2>2. m.kind = "response"  BY <2>1 DEF Responses
  <2>3. a = b  BY <2>1, <2>2 DEF Concerns
  <2> QED  BY <1>1, <2>3 DEF Alive
<1> QED  BY <1>1, <1>2, <1>3

(* Every step leaves who waits something to wait for. *)
LEMMA AttendedStep ==
  ASSUME TypeOK, TypeOK', Alive, AllSound, Channelled, AllAsked, AllSingle, AllTrusted,
         \A x, y \in Actors : <<x, y>> \in Calls => y \notin Strangers,
         AllAttended, [Next]_vars
  PROVE  AllAttended'
<1> SUFFICES ASSUME NEW a \in Actors, waiting'[a] # 0 PROVE forsaken'[a] \/ Attended(a)'
  BY DEF AllAttended
<1>1. CASE \E b \in Actors : Request(a, b)
  <2>1. PICK b \in Actors : Request(a, b)  BY <1>1
  <2>2. PICK m \in Requests : m = RequestTo(b, a)  BY MadeEnvelopes
  <2>3. /\ network' = network \union {RequestTo(b, a)} /\ instance' = instance
        /\ waiting' = [waiting EXCEPT ![a] = requestIdBase[a] + 1]
    BY <2>1 DEF Request, instanceVars
  <2>4. waiting'[a] = requestIdBase[a] + 1  BY <2>3 DEF TypeOK
  <2>5. Concerns(m, a)'  BY <2>2, <2>3, <2>4 DEF Concerns, RequestTo
  <2>6. Held(m)'  BY <2>2, <2>3 DEF Held
  <2> QED  BY <2>5, <2>6 DEF Attended
<1>2. CASE /\ waiting'[a] = waiting[a] /\ instance'[a] = instance[a]
           /\ forsaken[a] => forsaken'[a]
  <2> SUFFICES ASSUME ~forsaken'[a] PROVE Attended(a)'
    OBVIOUS
  <2>0. waiting[a] # 0 /\ ~forsaken[a]  BY <1>2
  <2>1. PICK m \in Requests \union Responses : Held(m) /\ Concerns(m, a)
    BY <2>0 DEF AllAttended, Attended
  <2>2. \A n : Concerns(n, a)' <=> Concerns(n, a)  BY <1>2 DEF Concerns
  <2>3. CASE Held(m)'  BY <2>1, <2>2, <2>3 DEF Attended
  <2>4. CASE Answered(m)
    <3>1. PICK b \in Actors : m \in pending[b] /\ Response(b, m)  BY <2>4 DEF Answered
    <3>2. m \in Requests  BY <3>1 DEF TypeOK
    <3>3. m.kind = "request"  BY <3>2 DEF Requests
    <3>4. m.from = a /\ a # Nobody /\ m.id = waiting[a] /\ m.address = instance[a]
      BY <2>1, <3>3, NobodyAssumption DEF Concerns
    <3>5. PICK r \in Answers(m, b) : network' = network \union {r}
      BY <3>1, <3>4, NobodyAssumption DEF Response
    <3>6. r \in Responses /\ r \in network'  BY <3>2, <3>4, <3>5, MadeEnvelopes
    <3>7. Concerns(r, a)  BY <3>4, <3>5, AnswerFields DEF Concerns
    <3> QED  BY <2>2, <3>6, <3>7 DEF Held, Attended
  <2>5. CASE Dropped(m)
    <3>1. m \in network /\ DropResponse(m) /\ m.kind = "response"
      BY <2>5 DEF Dropped, DropResponse, Arrives
    <3>2. m.to = a  BY <2>1, <3>1 DEF Concerns
    <3>3. syncRspChan[a] # <<>> /\ Concerns(Head(syncRspChan[a]), a)
      BY <2>0, <2>1, <3>1, <3>2, DroppedIsThere
    <3>4. syncRspChan' = syncRspChan  BY <3>1 DEF DropResponse, channelVars
    <3>5. PICK h \in Responses : h = Head(syncRspChan[a])  BY <3>3, ChannelHeld
    <3>6. HeldBy(h, a)'  BY <3>3, <3>4, <3>5 DEF HeldBy, Stored
    <3>7. Held(h)'  BY <3>6, HeldSomewhere
    <3> QED  BY <2>2, <3>3, <3>5, <3>7 DEF Attended
  <2>6. CASE Taken(m)
    BY <1>2, <2>0, <2>1, <2>6, TakenEndsWait
  <2>7. CASE Wiped(m)
    BY <2>0, <2>1, <2>7, WipedConcernsNobody
  <2>8. CASE Lost(m)  BY <2>1, <2>8 DEF Lost
  <2> QED  BY <2>1, <2>3, <2>4, <2>5, <2>6, <2>7, <2>8, HeldKept
<1> QED  BY <1>1, <1>2, WaitsOn

(* Where it is held is where InCustody looks for it. *)
LEMMA AttendedIsCustody ==
  ASSUME TypeOK, Channelled, AllAttended
  PROVE  InCustody
<1> SUFFICES ASSUME NEW a \in Actors, waiting[a] # 0, ~forsaken[a]
             PROVE  \/ \E m \in network : Concerns(m, a)
                    \/ \E b \in Actors :
                         \/ \E i \in 1 .. Len(mailbox[b]) : Concerns(mailbox[b][i], a)
                         \/ \E r \in pending[b] : Concerns(r, a)
                    \/ delivering[a] # NoEnvelope /\ Concerns(delivering[a], a)
                    \/ syncRspChan[a] # <<>> /\ Concerns(Head(syncRspChan[a]), a)
  BY DEF InCustody
<1>1. PICK m \in Requests \union Responses : Held(m) /\ Concerns(m, a)
  BY DEF AllAttended, Attended
<1>2. ASSUME NEW b \in Actors, m = delivering[b]
      PROVE  delivering[a] # NoEnvelope /\ Concerns(delivering[a], a)
  <2>1. m # NoEnvelope  BY NobodyAssumption
  <2>2. m \in Responses /\ m.to = b  BY <1>2, <2>1 DEF TypeOK, Channelled, Fits
  <2>3. m.kind = "response"  BY <2>2 DEF Responses
  <2>4. a = b  BY <1>1, <2>2, <2>3 DEF Concerns
  <2> QED  BY <1>1, <1>2, <2>1, <2>4
<1>3. ASSUME NEW b \in Actors, Stored(m, b)
      PROVE  syncRspChan[a] # <<>> /\ Concerns(Head(syncRspChan[a]), a)
  <2>1. m \in Responses /\ m.to = b
    BY <1>3, ChannelHeld DEF Stored, Channelled, Fits
  <2>2. m.kind = "response"  BY <2>1 DEF Responses
  <2>3. a = b  BY <1>1, <2>1, <2>2 DEF Concerns
  <2> QED  BY <1>1, <1>3, <2>3 DEF Stored
<1>4. ASSUME NEW b \in Actors, NEW i \in 1 .. Len(syncRspChan[b]), syncRspChan[b][i] = m
      PROVE  Stored(m, b)
  <2>1. syncRspChan[b] \in Seq(Responses) /\ Len(syncRspChan[b]) <= 1  BY DEF TypeOK
  <2> QED  BY <1>4, <2>1, OnlyElement DEF Stored
<1> QED  BY <1>1, <1>2, <1>3, <1>4 DEF Held

LEMMA InitAttended == Init => AllAttended
BY DEF Init, AllAttended

(* Without legacy peers, and where those who are called get no requests by     *)
(* hand: as long as Request waits, its request is on its way, in a mailbox or   *)
(* on a list of unanswered ones, or the answer is on its way to the caller, or  *)
(* the caller was forsaken: a full mailbox, a missing creator, a batch cut      *)
(* short or a missing payload took it.  Those four are the only ways.  Timeouts, *)
(* duplicates, the checks for staleness, recycled callers and recycled servers  *)
(* lose neither.                                                                *)
THEOREM WhoWaitsIsAttended ==
  ASSUME Legacy = {}, \A x, y \in Actors : <<x, y>> \in Calls => y \notin Strangers
  PROVE  Spec => []InCustody
<1> DEFINE Callers == TypeOK /\ Alive /\ AllSound /\ Channelled
           Servers == TypeOK /\ Alive /\ AllAsked /\ AllSingle /\ AllCounted
           IInv == AllTrusted /\ AllAttended
<1>1. Init => IInv  BY InitTrusted, InitAttended
<1>2. Callers /\ Servers /\ TypeOK' /\ IInv /\ [Next]_vars => IInv'
  BY TrustedStep, AttendedStep
<1>3. Callers /\ IInv => InCustody  BY AttendedIsCustody
<1>4. Spec => []Callers  BY CallerInv
<1>5. Spec => []Servers  BY ServerInv
<1>6. Spec => []TypeOK  BY TypeCorrect
<1> HIDE DEF Callers, Servers, IInv
<1> QED  BY <1>1, <1>2, <1>3, <1>4, <1>5, <1>6, PTL DEF Spec
=============================================================================
