-------------------------- MODULE AsyncRequestProofs --------------------------
(* Proofs about AsyncRequest, for any number of actors, requests, instances    *)
(* and callers: the mirror is exact, no open call with a timeout is ever       *)
(* without its entry, and callbacks behave as AsyncCall demands.               *)
EXTENDS AsyncRequest, FiniteSetTheorems, TLAPS

coreVars == <<instances, instance, phase, callbackIdBase, infos, pendingAsync,
              issued, timed, ran>>

(* TypeOK in two halves: what travels, and what calls are made of. *)
TrafficTypes ==
  /\ mailbox \in [Actors -> Seq(Envelopes \union {Tick})]
  /\ left \in [Actors -> Nat]
  /\ \A a \in Actors : left[a] <= Len(mailbox[a])
  /\ DOMAIN owed = Actors /\ \A a \in Actors : owed[a] \subseteq Requests
  /\ deferred \in [Actors -> SUBSET OuterCalls]
  /\ network \subseteq Envelopes
  /\ DOMAIN rspChan = OuterCalls
  /\ outer \in [OuterCalls -> {"new", "waiting", "answered", "timeout", "refused"}]
  /\ lost \subseteq OuterCalls

CoreTypes ==
  /\ instances \in Nat
  /\ instance \in [Actors -> 0 .. instances]
  /\ phase \in [Actors -> {"running", "stopping", "left"}]
  /\ callbackIdBase \in [Actors -> Nat]
  /\ DOMAIN infos = Actors
  /\ \A a \in Actors : infos[a] \subseteq Infos
  /\ \A a \in Actors : \A i, j \in infos[a] : i.id = j.id => i = j
  /\ pendingAsync \in [Actors -> Int]
  /\ issued \subseteq CallIds /\ timed \subseteq issued /\ DOMAIN ran = CallIds

LEMMA TwoHalves == TypeOK <=> TrafficTypes /\ CoreTypes
BY DEF TypeOK, TrafficTypes, CoreTypes

(* A running actor is registered, under a number of its own. *)
Registered ==
  /\ \A a \in Actors : phase[a] # "left" => instance[a] # 0
  /\ \A a, b \in Actors : instance[a] = instance[b] /\ instance[a] # 0 => a = b
  /\ instances <= MaxInstances

(* The entries of a registered instance stand for calls that are issued and
   whose callbacks did not run. *)
Entries ==
  \A a \in Actors :
    /\ IsFiniteSet(infos[a])
    /\ instance[a] # 0 =>
         \A i \in infos[a] :
           /\ i.id <= callbackIdBase[a]
           /\ <<instance[a], i.id>> \in issued
           /\ ran[<<instance[a], i.id>>] = <<>>
           /\ i.timed /\ phase[a] = "running" => <<instance[a], i.id>> \in timed

(* The next number of an instance was not used, and unused calls did not run. *)
Unused ==
  /\ \A c \in issued : c[1] <= instances
  /\ \A c \in issued : \A a \in Actors : instance[a] = c[1] => c[2] <= callbackIdBase[a]
  /\ \A c \in CallIds : c \notin issued => ran[c] = <<>>

RanIsTable == ran = [c \in CallIds |-> ran[c]]

Core == /\ CoreTypes /\ RanIsTable /\ Registered /\ MirrorExact /\ Entries /\ Unused
        /\ OpenIsRegistered
IInv == TrafficTypes /\ Core

-----------------------------------------------------------------------------
(* What travels *)

LEMMA Kinds ==
  ASSUME NEW m \in Envelopes \union {Tick}
  PROVE  /\ m.kind = "request" => m \in Requests
         /\ m.kind = "response" => m \in Responses
         /\ m.kind = "outer" => m \in OuterRequests
         /\ m \in Envelopes => m.to \in Actors
BY DEF Envelopes, Tick, Requests, Responses, OuterRequests

(* Taking the first envelope, or the rest of the batch. *)
LEMMA ConsumedTypes ==
  ASSUME TrafficTypes, NEW a \in Actors, left[a] > 0, Consumed(a) \/ LoseBatch(a)
  PROVE  /\ mailbox' \in [Actors -> Seq(Envelopes \union {Tick})]
         /\ left' \in [Actors -> Nat]
         /\ \A x \in Actors : left'[x] <= Len(mailbox'[x])
         /\ Head(mailbox[a]) \in Envelopes \union {Tick}
<1> DEFINE E == Envelopes \union {Tick}
           q == mailbox[a]
<1>1. mailbox \in [Actors -> Seq(E)] /\ left \in [Actors -> Nat] /\ q \in Seq(E)
  BY DEF TrafficTypes
<1>2. left[a] <= Len(q) /\ Len(q) \in Nat /\ q # <<>>  BY <1>1 DEF TrafficTypes
<1> HIDE DEF E, q
<1>3. Head(q) \in E /\ Tail(q) \in Seq(E) /\ Len(Tail(q)) = Len(q) - 1  BY <1>1, <1>2
<1>4. CASE Consumed(a)
  <2>1. mailbox' = [mailbox EXCEPT ![a] = Tail(q)] /\ left' = [left EXCEPT ![a] = left[a] - 1]
    BY <1>4 DEF Consumed, q
  <2>2. mailbox' \in [Actors -> Seq(E)] /\ left' \in [Actors -> Nat]  BY <1>1, <1>3, <2>1
  <2>3. \A x \in Actors : left'[x] <= Len(mailbox'[x])
    BY <1>1, <1>2, <1>3, <2>1 DEF TrafficTypes
  <2> QED  BY <1>3, <2>2, <2>3 DEF E, q
<1>5. CASE LoseBatch(a)
  <2>1. mailbox' = [mailbox EXCEPT ![a] = SubSeq(q, left[a] + 1, Len(q))] /\ left' = [left EXCEPT ![a] = 0]
    BY <1>5 DEF LoseBatch, q
  <2>2. left[a] + 1 \in Nat  BY <1>1
  <2>3. SubSeq(q, left[a] + 1, Len(q)) \in Seq(E)
    <3>1. \A j \in left[a] + 1 .. Len(q) : q[j] \in E  BY <1>1, <1>2, <2>2
    <3> QED  BY <1>1, <1>2, <2>2, <3>1
  <2>4. Len(SubSeq(q, left[a] + 1, Len(q))) \in Nat  BY <2>3
  <2>5. mailbox' \in [Actors -> Seq(E)] /\ left' \in [Actors -> Nat]  BY <1>1, <2>1, <2>3
  <2>6. \A x \in Actors : left'[x] <= Len(mailbox'[x])
    BY <1>1, <2>1, <2>4 DEF TrafficTypes
  <2> QED  BY <1>3, <2>5, <2>6 DEF E, q
<1> QED  BY <1>4, <1>5

(* One more envelope in a mailbox. *)
LEMMA AppendedTypes ==
  ASSUME TrafficTypes, NEW a \in Actors, NEW m \in Envelopes \union {Tick},
         mailbox' = [mailbox EXCEPT ![a] = Append(@, m)], UNCHANGED left
  PROVE  /\ mailbox' \in [Actors -> Seq(Envelopes \union {Tick})]
         /\ left' \in [Actors -> Nat]
         /\ \A x \in Actors : left'[x] <= Len(mailbox'[x])
<1> DEFINE E == Envelopes \union {Tick}
<1>1. mailbox \in [Actors -> Seq(E)] /\ m \in E /\ left \in [Actors -> Nat]  BY DEF TrafficTypes
<1>2. mailbox[a] \in Seq(E) /\ mailbox' = [mailbox EXCEPT ![a] = Append(mailbox[a], m)]  BY <1>1
<1> HIDE DEF E
<1>3. Append(mailbox[a], m) \in Seq(E) /\ Len(Append(mailbox[a], m)) = Len(mailbox[a]) + 1
      /\ Len(mailbox[a]) \in Nat
  BY <1>1, <1>2
<1>4. mailbox' \in [Actors -> Seq(E)]  BY <1>1, <1>2, <1>3
<1>5. \A x \in Actors : left'[x] <= Len(mailbox'[x])
  BY <1>1, <1>2, <1>3 DEF TrafficTypes
<1> QED  BY <1>1, <1>4, <1>5 DEF E

LEMMA CreateTraffic ==
  ASSUME TrafficTypes, NEW a \in Actors, Create(a)
  PROVE  /\ DOMAIN owed' = Actors /\ \A x \in Actors : owed'[x] \subseteq Requests
         /\ deferred' \in [Actors -> SUBSET OuterCalls]
BY DEF Create, TrafficTypes

LEMMA TrafficKept ==
  ASSUME TrafficTypes, CoreTypes, Next
  PROVE  TrafficTypes'
<1> USE DEF TrafficTypes
<1>1. ASSUME NEW a \in Actors, NEW m \in network, m.to = a, Deliver(m)  PROVE TrafficTypes'
  <2>1. m \in Envelopes  OBVIOUS
  <2>2. /\ DOMAIN owed' = Actors /\ \A x \in Actors : owed'[x] \subseteq Requests
        /\ deferred' \in [Actors -> SUBSET OuterCalls]
    BY <1>1, CreateTraffic DEF Deliver, serverVars
  <2>3. UNCHANGED <<left, rspChan, outer, lost>>  BY <1>1 DEF Deliver, outerVars
  <2>4. network' \subseteq Envelopes  BY <1>1 DEF Deliver, Arrives
  <2>5. /\ mailbox' \in [Actors -> Seq(Envelopes \union {Tick})]
        /\ left' \in [Actors -> Nat]
        /\ \A x \in Actors : left'[x] <= Len(mailbox'[x])
    <3>1. CASE mailbox' = [mailbox EXCEPT ![m.to] = Append(@, m)]
      BY <1>1, <2>1, <2>3, <3>1, AppendedTypes
    <3>2. CASE /\ m.kind = "response"
               /\ mailbox' = [mailbox EXCEPT ![m.to] = Append(@, WithoutPayload(m))]
      <4>1. m \in Responses  BY <2>1, <3>2, Kinds
      <4>2. WithoutPayload(m) \in Envelopes
        BY <4>1 DEF WithoutPayload, Responses, Envelopes
      <4> HIDE DEF TrafficTypes
      <4> QED  BY <1>1, <2>3, <3>2, <4>2, AppendedTypes
    <3> QED  BY <1>1, <3>1, <3>2 DEF Deliver, Arrives
  <2> QED  BY <2>2, <2>3, <2>4, <2>5
<1>2. ASSUME NEW a \in Actors, Activate(a) \/ StopReported(a)  PROVE TrafficTypes'
  <2>1. UNCHANGED <<mailbox, left, network, rspChan, outer, lost>>
    BY <1>2 DEF Activate, StopReported, outerVars
  <2>2. Create(a) \/ UNCHANGED <<owed, deferred>>
    BY <1>2 DEF Activate, StopReported, serverVars
  <2>3. /\ DOMAIN owed' = Actors /\ \A x \in Actors : owed'[x] \subseteq Requests
        /\ deferred' \in [Actors -> SUBSET OuterCalls]
    BY <2>2, CreateTraffic
  <2> QED  BY <2>1, <2>3
<1>3. ASSUME NEW a \in Actors, NEW idle \in BOOLEAN, GroupTick(a, idle)  PROVE TrafficTypes'
  <2>1. mailbox' = [mailbox EXCEPT ![a] = Append(@, Tick)]
        /\ UNCHANGED <<left, owed, deferred, network, rspChan, outer, lost>>
    BY <1>3 DEF GroupTick, serverVars, outerVars
  <2>2. /\ mailbox' \in [Actors -> Seq(Envelopes \union {Tick})]
        /\ left' \in [Actors -> Nat]
        /\ \A x \in Actors : left'[x] <= Len(mailbox'[x])
    <3> HIDE DEF TrafficTypes
    <3> QED  BY <2>1, AppendedTypes
  <2> QED  BY <2>1, <2>2
<1>4. ASSUME NEW a \in Actors, Dequeue(a)  PROVE TrafficTypes'
  <2>1. /\ left' = [left EXCEPT ![a] = Len(mailbox[a])]
        /\ UNCHANGED <<mailbox, owed, deferred, network, rspChan, outer, lost>>
    BY <1>4 DEF Dequeue, serverVars, outerVars
  <2>2. Len(mailbox[a]) \in Nat  OBVIOUS
  <2> QED  BY <2>1, <2>2
<1>5. ASSUME NEW a \in Actors, ServeRequest(a)  PROVE TrafficTypes'
  <2>1. /\ left[a] > 0 /\ Consumed(a) /\ Head(mailbox[a]).kind = "request"
        /\ owed' = [owed EXCEPT ![a] = @ \union {Head(mailbox[a])}]
        /\ UNCHANGED <<deferred, network, rspChan, outer, lost>>
    BY <1>5 DEF ServeRequest, At, outerVars
  <2>2. Head(mailbox[a]) \in Requests  BY <2>1, ConsumedTypes, Kinds
  <2>3. DOMAIN owed' = Actors /\ \A x \in Actors : owed'[x] \subseteq Requests
    BY <2>1, <2>2
  <2> QED  BY <2>1, <2>3, ConsumedTypes
<1>6. ASSUME NEW a \in Actors, ServeOuter(a)  PROVE TrafficTypes'
  <2>1. /\ left[a] > 0 /\ Consumed(a) /\ Head(mailbox[a]).kind = "outer"
        /\ deferred' = [deferred EXCEPT ![a] = @ \union {Head(mailbox[a]).call}]
        /\ UNCHANGED <<owed, network, rspChan, outer, lost>>
    BY <1>6 DEF ServeOuter, At, outerVars
  <2>2. Head(mailbox[a]) \in OuterRequests  BY <2>1, ConsumedTypes, Kinds
  <2>3. Head(mailbox[a]).call \in OuterCalls  BY <2>2 DEF OuterRequests
  <2>4. deferred' \in [Actors -> SUBSET OuterCalls]  BY <2>1, <2>3
  <2> QED  BY <2>1, <2>4, ConsumedTypes
<1>7. ASSUME NEW a \in Actors, HandleResponse(a) \/ HandleTick(a) \/ Recycle(a)  PROVE TrafficTypes'
  <2>1. /\ left[a] > 0 /\ (Consumed(a) \/ LoseBatch(a))
        /\ UNCHANGED <<owed, deferred, network, rspChan, outer, lost>>
    BY <1>7 DEF HandleResponse, HandleTick, Recycle, At, serverVars, outerVars
  <2> QED  BY <2>1, ConsumedTypes
<1>8. ASSUME NEW a \in Actors, Leave(a) \/ Expire(a)  PROVE TrafficTypes'
  BY <1>8 DEF Leave, Expire, serverVars, outerVars
<1>9. ASSUME NEW a \in Actors, Answer(a)  PROVE TrafficTypes'
  <2>1. PICK r \in owed[a] : /\ owed' = [owed EXCEPT ![a] = @ \ {r}]
                             /\ network' = network \union {ResponseTo(r)}
    BY <1>9 DEF Answer
  <2>2. UNCHANGED <<mailbox, left, deferred, rspChan, outer, lost>>  BY <1>9 DEF Answer, outerVars
  <2>3. r \in Requests  OBVIOUS
  <2>4. ResponseTo(r) \in Envelopes
    BY <2>3 DEF ResponseTo, Requests, Responses, Envelopes
  <2> QED  BY <2>1, <2>2, <2>4
<1>10. ASSUME NEW a \in Actors, AnswerOuter(a)  PROVE TrafficTypes'
  BY <1>10 DEF AnswerOuter
<1>11. ASSUME NEW a \in Actors, NEW b \in Actors, NEW t \in Timeouts, RequestAsync(a, b, t)
       PROVE  TrafficTypes'
  <2>1. /\ network' = network \union {RequestTo(b, a)}
        /\ UNCHANGED <<mailbox, left, owed, deferred, rspChan, outer, lost>>
    BY <1>11 DEF RequestAsync, serverVars, outerVars
  <2>2. instance[a] \in Nat /\ callbackIdBase[a] + 1 \in Nat  BY DEF CoreTypes
  <2>3. RequestTo(b, a) \in Envelopes  BY <2>2 DEF RequestTo, Requests, Envelopes
  <2> QED  BY <2>1, <2>3
<1>12. ASSUME NEW a \in Actors, NEW b \in Actors, RequestRefused(a, b)  PROVE TrafficTypes'
  BY <1>12 DEF RequestRefused, serverVars, outerVars
<1>13. ASSUME NEW q \in OuterCalls, OuterCall(q)  PROVE TrafficTypes'
  <2>1. OuterRequest(q) \in Envelopes
    BY CallsAssumption DEF OuterRequest, OuterRequests, Envelopes
  <2> QED  BY <1>13, <2>1 DEF OuterCall, serverVars
<1>14. ASSUME NEW q \in OuterCalls, OuterReturn(q)  PROVE TrafficTypes'
  BY <1>14 DEF OuterReturn, serverVars
<1>15. ASSUME NEW m \in network, Drop(m)  PROVE TrafficTypes'
  <2>1. /\ UNCHANGED <<mailbox, left, owed, deferred, rspChan, outer>>
        /\ network' \subseteq network /\ lost' \subseteq OuterCalls
    BY <1>15 DEF Drop, serverVars
  <2> QED  BY <2>1
<1> QED
  BY <1>1, <1>2, <1>3, <1>4, <1>5, <1>6, <1>7, <1>8, <1>9, <1>10, <1>11, <1>12, <1>13, <1>14,
     <1>15
     DEF Next, GroupStep, ActorStep, UserStep

-----------------------------------------------------------------------------
(* Calls *)

LEMMA CoreStutters ==
  ASSUME Core, UNCHANGED coreVars
  PROVE  Core'
<1> USE DEF Core, coreVars
<1>1. CoreTypes' /\ RanIsTable'  BY DEF CoreTypes, RanIsTable
<1>2. Registered' /\ MirrorExact'  BY DEF Registered, MirrorExact
<1>3. Entries' /\ Unused' /\ OpenIsRegistered'  BY DEF Entries, Unused, OpenIsRegistered
<1> QED  BY <1>1, <1>2, <1>3

(* A new context: no call of the old one was open. *)
LEMMA CreateCore ==
  ASSUME Core, NEW a \in Actors, phase[a] = "left", Create(a), UNCHANGED history
  PROVE  Core'
<1> USE DEF Core
<1>1. /\ instances' = instances + 1
      /\ instance' = [instance EXCEPT ![a] = instances + 1]
      /\ phase' = [phase EXCEPT ![a] = "running"]
      /\ callbackIdBase' = [callbackIdBase EXCEPT ![a] = 0]
      /\ infos' = [infos EXCEPT ![a] = {}]
      /\ pendingAsync' = [pendingAsync EXCEPT ![a] = 0]
      /\ instances < MaxInstances
      /\ UNCHANGED <<issued, timed, ran>>
  BY DEF Create, history
<1>2. CoreTypes'
  <2>1. instance' \in [Actors -> 0 .. instances']  BY <1>1 DEF CoreTypes
  <2> QED  BY <1>1, <2>1 DEF CoreTypes
<1>3. \A x \in Actors : /\ x = a => instance'[x] = instances + 1
                        /\ x # a => /\ instance'[x] = instance[x]
                                    /\ instance[x] <= instances
                                    /\ phase'[x] = phase[x]
                                    /\ infos'[x] = infos[x]
                                    /\ callbackIdBase'[x] = callbackIdBase[x]
  BY <1>1 DEF CoreTypes
<1>4. Registered'
  <2>1. instances \in Nat /\ instances' <= MaxInstances /\ phase'[a] = "running"
    BY <1>1, NumberAssumption DEF CoreTypes
  <2> QED  BY <1>1, <1>3, <2>1 DEF Registered, CoreTypes
<1>5. MirrorExact'
  BY <1>1, FS_EmptySet DEF MirrorExact, CoreTypes
<1>6. Entries'
  <2>1. infos'[a] = {}  BY <1>1 DEF CoreTypes
  <2> QED  BY <1>1, <1>3, <2>1, FS_EmptySet DEF Entries
<1>7. Unused'
  <2>1. \A c \in issued : c[1] \in 1 .. MaxInstances /\ c[2] \in 1 .. MaxRequests
    BY DEF CoreTypes, CallIds
  <2> QED  BY <1>1, <1>3, <2>1, NumberAssumption DEF Unused, CoreTypes
<1>8. OpenIsRegistered'
  <2> SUFFICES ASSUME NEW c \in timed, ran[c] = <<>>
               PROVE  \E x \in Actors : /\ instance'[x] = c[1] /\ phase'[x] = "running"
                                        /\ \E i \in infos'[x] : i.id = c[2] /\ i.timed
    BY <1>1 DEF OpenIsRegistered
  <2>1. PICK x \in Actors : /\ instance[x] = c[1] /\ phase[x] = "running"
                           /\ \E i \in infos[x] : i.id = c[2] /\ i.timed
    BY DEF OpenIsRegistered
  <2> QED  BY <1>3, <2>1
<1> QED  BY <1>1, <1>2, <1>4, <1>5, <1>6, <1>7, <1>8 DEF RanIsTable

(* The number the next call gets was not used. *)
LEMMA NextCallIsNew ==
  ASSUME Core, NEW a \in Actors, InUserCode(a)
  PROVE  /\ ThisCall(a) \in CallIds \ issued
         /\ ran[ThisCall(a)] = <<>>
         /\ instance[a] # 0
<1>1. /\ instance[a] \in 1 .. instances /\ instances <= MaxInstances /\ instance[a] # 0
      /\ callbackIdBase[a] \in Nat /\ callbackIdBase[a] < MaxRequests
  BY DEF Core, CoreTypes, Registered, InUserCode
<1>2. ThisCall(a) \in CallIds
  BY <1>1, NumberAssumption DEF ThisCall, CallIds, Core, CoreTypes
<1>3. ThisCall(a) \notin issued
  <2> SUFFICES ASSUME ThisCall(a) \in issued PROVE FALSE  OBVIOUS
  <2>1. callbackIdBase[a] + 1 <= callbackIdBase[a]
    BY DEF Core, Unused, ThisCall
  <2> QED  BY <1>1, <2>1
<1> QED  BY <1>1, <1>2, <1>3 DEF Core, Unused

LEMMA RequestCore ==
  ASSUME Core, NEW a \in Actors, NEW b \in Actors, NEW t \in Timeouts, RequestAsync(a, b, t)
  PROVE  Core'
<1> USE DEF Core
<1> DEFINE k == callbackIdBase[a] + 1
           i == [id |-> k, timed |-> t, out |-> FALSE]
           c == <<instance[a], k>>
<1>1. /\ InUserCode(a)
      /\ callbackIdBase' = [callbackIdBase EXCEPT ![a] = k]
      /\ infos' = [infos EXCEPT ![a] = infos[a] \union {i}]
      /\ pendingAsync' = [pendingAsync EXCEPT ![a] = pendingAsync[a] + 1]
      /\ issued' = issued \union {c}
      /\ timed' = IF t /\ phase[a] = "running" THEN timed \union {c} ELSE timed
      /\ UNCHANGED <<instances, instance, phase, ran>>
  BY DEF RequestAsync, ThisCall, instanceVars, CoreTypes
<1>2. /\ c \in CallIds /\ c \notin issued /\ ran[c] = <<>> /\ instance[a] # 0
      /\ phase[a] # "left"
  BY <1>1, NextCallIsNew DEF ThisCall, InUserCode
<1>3. k \in Nat /\ i \in Infos /\ t \in BOOLEAN  BY CallsAssumption DEF CoreTypes, Infos
<1>4. IsFiniteSet(infos[a]) /\ \A j \in infos[a] : j \in Infos /\ j.id \in Nat /\ j.id < k
  <2>1. \A j \in infos[a] : j \in Infos  BY DEF CoreTypes
  <2>2. \A j \in infos[a] : j.id \in Nat  BY <2>1 DEF Infos
  <2>3. \A j \in infos[a] : j.id <= callbackIdBase[a]  BY <1>2 DEF Entries
  <2> QED  BY <2>1, <2>2, <2>3 DEF Entries, CoreTypes
<1>5. i.id = k /\ i.timed = t  OBVIOUS
<1> HIDE DEF i
<1>6. infos'[a] = infos[a] \union {i} /\ \A x \in Actors : x # a => infos'[x] = infos[x]
  BY <1>1 DEF CoreTypes
<1>7. CoreTypes'
  <2>1. \A x \in Actors : infos'[x] \subseteq Infos  BY <1>3, <1>6 DEF CoreTypes
  <2>2. \A x \in Actors : \A j, l \in infos'[x] : j.id = l.id => j = l
    BY <1>3, <1>4, <1>5, <1>6 DEF CoreTypes
  <2>3. issued' \subseteq CallIds /\ timed' \subseteq issued'
    <3> HIDE DEF c
    <3> QED  BY <1>1, <1>2 DEF CoreTypes
  <2>4. callbackIdBase' \in [Actors -> Nat] /\ pendingAsync' \in [Actors -> Int]
    BY <1>1, <1>3 DEF CoreTypes
  <2>5. DOMAIN infos' = Actors  BY <1>1 DEF CoreTypes
  <2> QED  BY <1>1, <2>1, <2>2, <2>3, <2>4, <2>5 DEF CoreTypes
<1>8. Registered'  BY <1>1 DEF Registered
<1>9. MirrorExact'
  <2>1. i \notin infos[a]  BY <1>3, <1>4, <1>5
  <2>2. Cardinality(infos[a] \union {i}) = Cardinality(infos[a]) + 1
    BY <1>4, <2>1, FS_AddElement
  <2> QED  BY <1>1, <1>6, <2>2 DEF MirrorExact, CoreTypes
<1>10. Entries'
  <2>1. IsFiniteSet(infos[a] \union {i})  BY <1>4, FS_AddElement
  <2>2. callbackIdBase'[a] = k /\ \A x \in Actors : x # a => callbackIdBase'[x] = callbackIdBase[x]
    BY <1>1 DEF CoreTypes
  <2>3. i.timed /\ phase[a] = "running" => c \in timed'  BY <1>1, <1>5
  <2>4. c \in issued' /\ issued \subseteq issued' /\ timed \subseteq timed'  BY <1>1
  <2>5. ASSUME NEW x \in Actors, NEW j \in infos'[x], instance[x] # 0
        PROVE  /\ j.id <= callbackIdBase'[x]
               /\ <<instance[x], j.id>> \in issued'
               /\ ran[<<instance[x], j.id>>] = <<>>
               /\ j.timed /\ phase[x] = "running" => <<instance[x], j.id>> \in timed'
    <3>1. CASE x = a /\ j = i
      BY <1>2, <1>3, <1>5, <2>2, <2>3, <2>4, <3>1
    <3>2. CASE j \in infos[x] /\ x = a
      BY <1>3, <1>4, <2>2, <2>4, <2>5, <3>2 DEF Entries
    <3>3. CASE x # a
      BY <1>6, <2>2, <2>4, <2>5, <3>3 DEF Entries
    <3> QED  BY <1>6, <3>1, <3>2, <3>3
  <2> QED  BY <1>1, <1>6, <2>1, <2>5 DEF Entries
<1>11. Unused'
  <2>1. c[1] = instance[a] /\ c[2] = k /\ instance[a] <= instances  BY DEF CoreTypes
  <2>2. \A x \in Actors : callbackIdBase[x] \in Nat
    BY DEF CoreTypes
  <2>3. callbackIdBase'[a] = k /\ \A x \in Actors : x # a => callbackIdBase'[x] = callbackIdBase[x]
    BY <1>1 DEF CoreTypes
  <2>4. \A d \in issued : d[2] \in Nat  BY DEF CoreTypes, CallIds
  <2>5. \A d \in issued' : \A x \in Actors : instance[x] = d[1] => d[2] <= callbackIdBase'[x]
    <3>1. ASSUME NEW x \in Actors, instance[x] = c[1]  PROVE x = a
      BY <1>2, <2>1, <3>1 DEF Registered
    <3> HIDE DEF c
    <3> QED  BY <1>1, <1>3, <2>1, <2>2, <2>3, <2>4, <3>1 DEF Unused
  <2> QED  BY <1>1, <2>1, <2>5 DEF Unused
<1>12. OpenIsRegistered'
  <2> SUFFICES ASSUME NEW d \in timed', ran[d] = <<>>
               PROVE  \E x \in Actors : /\ instance[x] = d[1] /\ phase[x] = "running"
                                        /\ \E j \in infos'[x] : j.id = d[2] /\ j.timed
    BY <1>1 DEF OpenIsRegistered
  <2>1. CASE d \in timed  BY <1>6, <2>1 DEF OpenIsRegistered
  <2>2. CASE d \notin timed
    <3>1. d = c /\ t /\ phase[a] = "running"  BY <1>1, <2>2
    <3>2. d[1] = instance[a] /\ d[2] = k  BY <3>1
    <3> QED  BY <1>5, <1>6, <3>1, <3>2
  <2> QED  BY <2>1, <2>2
<1> QED  BY <1>1, <1>7, <1>8, <1>9, <1>10, <1>11, <1>12 DEF RanIsTable

(* A refused send changes nothing but the number and the run of its callback. *)
LEMMA RefusedCore ==
  ASSUME Core, NEW a \in Actors, NEW b \in Actors, RequestRefused(a, b)
  PROVE  Core'
<1> USE DEF Core
<1> DEFINE k == callbackIdBase[a] + 1
           c == <<instance[a], k>>
<1>1. /\ InUserCode(a)
      /\ callbackIdBase' = [callbackIdBase EXCEPT ![a] = k]
      /\ issued' = issued \union {c}
      /\ ran' = [ran EXCEPT ![c] = Append(ran[c], "refused")]
      /\ UNCHANGED <<instances, instance, phase, infos, pendingAsync, timed>>
  <2>1. RequestRefused(a, b) => ran' = [ran EXCEPT ![c] = Append(ran[c], "refused")]
    BY DEF RequestRefused, ThisCall, Ran
  <2> QED  BY <2>1 DEF RequestRefused, ThisCall, instanceVars, CoreTypes
<1>2. c \in CallIds /\ c \notin issued /\ instance[a] # 0
  BY <1>1, NextCallIsNew DEF ThisCall
<1>3. k \in Nat /\ c[1] = instance[a] /\ c[2] = k /\ instance[a] <= instances  BY DEF CoreTypes
<1>4. callbackIdBase'[a] = k /\ \A x \in Actors : x # a => callbackIdBase'[x] = callbackIdBase[x]
  BY <1>1 DEF CoreTypes
<1>5. \A d \in CallIds : d # c => ran'[d] = ran[d]  BY <1>1 DEF CoreTypes
<1>6. \A x \in Actors : callbackIdBase[x] \in Nat  BY DEF CoreTypes
<1>7. issued \subseteq issued' /\ issued \subseteq CallIds /\ timed \subseteq issued
  BY <1>1 DEF CoreTypes
<1>8. ASSUME NEW x \in Actors, instance[x] = c[1]  PROVE x = a
  BY <1>2, <1>3, <1>8 DEF Registered
<1> HIDE DEF c
<1>9. CoreTypes'
  <2>1. callbackIdBase' \in [Actors -> Nat]  BY <1>1, <1>3 DEF CoreTypes
  <2>2. DOMAIN ran' = CallIds /\ issued' \subseteq CallIds /\ timed' \subseteq issued'
    BY <1>1, <1>2 DEF CoreTypes
  <2> QED  BY <1>1, <2>1, <2>2 DEF CoreTypes
<1>10. Registered' /\ MirrorExact'  BY <1>1 DEF Registered, MirrorExact
<1>11. Entries'
  <2>1. \A x \in Actors : \A i \in infos[x] : i.id \in Nat  BY DEF CoreTypes, Infos
  <2> QED  BY <1>1, <1>2, <1>3, <1>4, <1>5, <1>6, <1>7, <2>1 DEF Entries
<1>12. Unused'
  <2>1. \A d \in issued : d[2] \in Nat  BY DEF CoreTypes, CallIds
  <2>2. \A d \in issued' : d[1] <= instances  BY <1>1, <1>3 DEF Unused
  <2>3. \A d \in issued' : \A x \in Actors : instance[x] = d[1] => d[2] <= callbackIdBase'[x]
    BY <1>1, <1>3, <1>4, <1>6, <1>8, <2>1 DEF Unused
  <2>4. \A d \in CallIds : d \notin issued' => ran'[d] = <<>>
    BY <1>1, <1>5 DEF Unused
  <2> QED  BY <1>1, <2>2, <2>3, <2>4 DEF Unused
<1>13. OpenIsRegistered'
  BY <1>1, <1>2, <1>5, <1>7 DEF OpenIsRegistered
<1>14. RanIsTable'
  <2>1. ran = [d \in CallIds |-> ran[d]]  BY DEF RanIsTable
  <2> QED  BY <1>1, <2>1 DEF RanIsTable
<1> QED  BY <1>9, <1>10, <1>11, <1>12, <1>13, <1>14

LEMMA ExpireCore ==
  ASSUME Core, NEW a \in Actors, Expire(a)
  PROVE  Core'
<1> USE DEF Core
<1>1. PICK i \in infos[a] :
        /\ i.timed
        /\ infos' = [infos EXCEPT ![a] = (infos[a] \ {i}) \union {[i EXCEPT !.out = TRUE]}]
        /\ UNCHANGED <<instances, instance, phase, callbackIdBase, pendingAsync, issued, timed, ran>>
  BY DEF Expire, instanceVars, history, CoreTypes
<1> DEFINE j == [i EXCEPT !.out = TRUE]
<1>2. i \in Infos  BY DEF CoreTypes
<1>3. j \in Infos /\ j.id = i.id /\ j.timed = i.timed  BY <1>2 DEF Infos
<1> HIDE DEF j
<1>4. infos'[a] = (infos[a] \ {i}) \union {j} /\ \A x \in Actors : x # a => infos'[x] = infos[x]
  BY <1>1 DEF CoreTypes, j
<1>5. CoreTypes'
  <2>1. \A x \in Actors : infos'[x] \subseteq Infos  BY <1>3, <1>4 DEF CoreTypes
  <2>2. \A x \in Actors : \A l, n \in infos'[x] : l.id = n.id => l = n
    BY <1>3, <1>4 DEF CoreTypes
  <2> QED  BY <1>1, <2>1, <2>2 DEF CoreTypes
<1>6. Registered' /\ Unused'  BY <1>1 DEF Registered, Unused
<1>7. IsFiniteSet(infos[a])  BY DEF Entries
<1>8. j \notin infos[a] \ {i}  BY <1>3 DEF CoreTypes
<1>9. IsFiniteSet(infos'[a]) /\ Cardinality(infos'[a]) = Cardinality(infos[a])
  <2>1. IsFiniteSet(infos[a] \ {i}) /\ Cardinality(infos[a] \ {i}) = Cardinality(infos[a]) - 1
    BY <1>7, FS_RemoveElement
  <2>2. LET S == infos[a] \ {i} IN
        IsFiniteSet(S \union {j}) /\ Cardinality(S \union {j}) = Cardinality(S) + 1
    BY <1>8, <2>1, FS_AddElement
  <2> QED  BY <1>4, <1>7, <2>1, <2>2, FS_CardinalityType
<1>10. MirrorExact'  BY <1>1, <1>4, <1>9 DEF MirrorExact
<1>11. Entries'
  <2>1. \A x \in Actors : IsFiniteSet(infos'[x])  BY <1>4, <1>9 DEF Entries
  <2>2. ASSUME NEW x \in Actors, NEW l \in infos'[x], instance[x] # 0
        PROVE  /\ l.id <= callbackIdBase[x]
               /\ <<instance[x], l.id>> \in issued
               /\ ran[<<instance[x], l.id>>] = <<>>
               /\ l.timed /\ phase[x] = "running" => <<instance[x], l.id>> \in timed
    <3>1. PICK n \in infos[x] : n.id = l.id /\ n.timed = l.timed  BY <1>3, <1>4
    <3> QED  BY <2>2, <3>1 DEF Entries
  <2> QED  BY <1>1, <2>1, <2>2 DEF Entries
<1>12. OpenIsRegistered'
  <2>1. \A x \in Actors : \A l \in infos[x] : \E n \in infos'[x] : n.id = l.id /\ n.timed = l.timed
    BY <1>3, <1>4
  <2> QED  BY <1>1, <2>1 DEF OpenIsRegistered
<1> QED  BY <1>1, <1>5, <1>6, <1>10, <1>11, <1>12 DEF RanIsTable

(* Entries leave the table when their callbacks run, and only then. *)
LEMMA ForgetsCore ==
  ASSUME Core, NEW a \in Actors, NEW I \in SUBSET infos[a], Forgets(a, I),
         phase[a] = "running",
         ran' = [c \in CallIds |-> ran'[c]],
         \A c \in CallIds : (\A i \in I : c # <<instance[a], i.id>>) => ran'[c] = ran[c],
         \A i \in I : ran'[<<instance[a], i.id>>] # <<>>,
         UNCHANGED <<instances, instance, phase, callbackIdBase, issued, timed>>
  PROVE  Core'
<1> USE DEF Core
<1>1. /\ infos' = [infos EXCEPT ![a] = infos[a] \ I]
      /\ pendingAsync' = [pendingAsync EXCEPT ![a] = pendingAsync[a] - Cardinality(I)]
  BY DEF Forgets, CoreTypes
<1>2. /\ infos'[a] = infos[a] \ I
      /\ \A x \in Actors : infos'[x] \subseteq infos[x]
      /\ \A x \in Actors : x # a => infos'[x] = infos[x]
  BY <1>1 DEF CoreTypes
<1>3. instance[a] # 0 /\ IsFiniteSet(infos[a]) /\ IsFiniteSet(I)
  BY FS_Subset DEF Registered, Entries
<1>4. IsFiniteSet(infos[a] \ I) /\ Cardinality(infos[a] \ I) = Cardinality(infos[a]) - Cardinality(I)
  <2>1. infos[a] \cap I = I  OBVIOUS
  <2>2. /\ IsFiniteSet(infos[a] \ I)
        /\ Cardinality(infos[a] \ I) = Cardinality(infos[a]) - Cardinality(infos[a] \cap I)
    BY <1>3, FS_Difference
  <2> QED  BY <2>1, <2>2
<1>5. Cardinality(I) \in Nat  BY <1>3, FS_CardinalityType
<1>6. \A x \in Actors : \A i \in infos'[x] : instance[x] # 0 => ran'[<<instance[x], i.id>>] = <<>>
  <2> SUFFICES ASSUME NEW x \in Actors, NEW i \in infos'[x], instance[x] # 0
               PROVE  ran'[<<instance[x], i.id>>] = <<>>
    OBVIOUS
  <2>1. i \in infos[x] /\ ran[<<instance[x], i.id>>] = <<>> /\ <<instance[x], i.id>> \in CallIds
    BY <1>2 DEF Entries, CoreTypes
  <2>2. \A l \in I : <<instance[x], i.id>> # <<instance[a], l.id>>
    <3> SUFFICES ASSUME NEW l \in I, <<instance[x], i.id>> = <<instance[a], l.id>>  PROVE FALSE
      OBVIOUS
    <3>1. x = a /\ i.id = l.id  BY <1>3 DEF Registered
    <3>2. i = l /\ i \notin I  BY <1>2, <2>1, <3>1 DEF CoreTypes
    <3> QED  BY <3>2
  <2> QED  BY <2>1, <2>2
<1>7. CoreTypes'
  <2>1. \A x \in Actors : infos'[x] \subseteq Infos  BY <1>2 DEF CoreTypes
  <2>2. \A x \in Actors : \A i, j \in infos'[x] : i.id = j.id => i = j  BY <1>2 DEF CoreTypes
  <2>3. pendingAsync' \in [Actors -> Int]  BY <1>1, <1>5 DEF CoreTypes
  <2>4. DOMAIN infos' = Actors  BY <1>1 DEF CoreTypes
  <2>5. DOMAIN ran' = CallIds  OBVIOUS
  <2> QED  BY <2>1, <2>2, <2>3, <2>4, <2>5 DEF CoreTypes
<1>8. Registered' /\ RanIsTable'  BY DEF Registered, RanIsTable
<1>9. MirrorExact'  BY <1>1, <1>2, <1>4 DEF MirrorExact, CoreTypes
<1>10. Entries'
  <2>1. \A x \in Actors : IsFiniteSet(infos'[x])  BY <1>2, <1>4 DEF Entries
  <2> QED  BY <1>2, <1>6, <2>1 DEF Entries
<1>11. Unused'
  <2>1. \A i \in I : <<instance[a], i.id>> \in issued  BY <1>3 DEF Entries
  <2> QED  BY <2>1 DEF Unused
<1>12. OpenIsRegistered'
  <2> SUFFICES ASSUME NEW c \in timed, ran'[c] = <<>>
               PROVE  \E x \in Actors : /\ instance[x] = c[1] /\ phase[x] = "running"
                                        /\ \E i \in infos'[x] : i.id = c[2] /\ i.timed
    BY DEF OpenIsRegistered
  <2>1. c \in CallIds /\ c = <<c[1], c[2]>>  BY DEF CoreTypes, CallIds
  <2>2. ran[c] = <<>>  BY <2>1
  <2>3. PICK x \in Actors : /\ instance[x] = c[1] /\ phase[x] = "running"
                           /\ \E i \in infos[x] : i.id = c[2] /\ i.timed
    BY <2>2 DEF OpenIsRegistered
  <2>4. PICK i \in infos[x] : i.id = c[2] /\ i.timed  BY <2>3
  <2>5. i \in infos'[x]
    <3>1. CASE x = a /\ i \in I
      <4>1. c = <<instance[a], i.id>>  BY <2>1, <2>3, <2>4, <3>1
      <4> QED  BY <3>1, <4>1
    <3> QED  BY <1>2, <3>1
  <2> QED  BY <2>3, <2>4, <2>5
<1> QED  BY <1>7, <1>8, <1>9, <1>10, <1>11, <1>12

(* What an answer does to the calls: it runs one callback, or none. *)
LEMMA ResponseRuns ==
  ASSUME Core, NEW a \in Actors, HandleResponse(a)
  PROVE  \/ UNCHANGED coreVars
         \/ \E i \in infos[a] :
              /\ Forgets(a, {i})
              /\ ran' = [ran EXCEPT ![<<instance[a], i.id>>] = Append(@, "answer")]
              /\ UNCHANGED <<instances, instance, phase, callbackIdBase, issued, timed>>
<1> DEFINE m == Head(mailbox[a])
<1>1. UNCHANGED <<instances, instance, phase, callbackIdBase, issued, timed>>
  BY DEF HandleResponse, instanceVars
<1>2. CASE UNCHANGED <<infos, pendingAsync, ran>>  BY <1>1, <1>2 DEF coreVars
<1>3. CASE \E i \in Awaits(a, m) :
             /\ Ran(<<instance[a], i.id>>, IF m.address = instance[a] THEN "answer" ELSE "foreign")
             /\ Forgets(a, {i})
  <2>1. PICK i \in Awaits(a, m) :
             /\ Ran(<<instance[a], i.id>>, IF m.address = instance[a] THEN "answer" ELSE "foreign")
             /\ Forgets(a, {i})
    BY <1>3
  <2>2. i \in infos[a] /\ m.address = instance[a]  BY DEF Awaits
  <2>3. ran' = [ran EXCEPT ![<<instance[a], i.id>>] = Append(@, "answer")]
    BY <2>1, <2>2 DEF Ran
  <2> QED  BY <1>1, <2>1, <2>2, <2>3
<1> QED  BY <1>2, <1>3 DEF HandleResponse

LEMMA ResponseCore ==
  ASSUME Core, NEW a \in Actors, HandleResponse(a)
  PROVE  Core'
<1>1. CASE UNCHANGED coreVars  BY <1>1, CoreStutters
<1>2. CASE \E i \in infos[a] :
             /\ Forgets(a, {i})
             /\ ran' = [ran EXCEPT ![<<instance[a], i.id>>] = Append(@, "answer")]
             /\ UNCHANGED <<instances, instance, phase, callbackIdBase, issued, timed>>
  <2>1. PICK i \in infos[a] :
             /\ Forgets(a, {i})
             /\ ran' = [ran EXCEPT ![<<instance[a], i.id>>] = Append(@, "answer")]
             /\ UNCHANGED <<instances, instance, phase, callbackIdBase, issued, timed>>
    BY <1>2
  <2>2. phase[a] = "running"  BY DEF HandleResponse, At
  <2>3. <<instance[a], i.id>> \in CallIds /\ ran[<<instance[a], i.id>>] = <<>> /\ DOMAIN ran = CallIds
    BY <2>2 DEF Core, CoreTypes, Registered, Entries
  <2>4. ran'[<<instance[a], i.id>>] = <<"answer">> /\ ran' = [c \in CallIds |-> ran'[c]]
    <3>1. ran = [c \in CallIds |-> ran[c]]  BY DEF Core, RanIsTable
    <3> QED  BY <2>1, <2>3, <3>1
  <2>5. <<"answer">> # <<>>  OBVIOUS
  <2>6. \A c \in CallIds : (\A l \in {i} : c # <<instance[a], l.id>>) => ran'[c] = ran[c]
    BY <2>1, <2>3
  <2>7. \A l \in {i} : ran'[<<instance[a], l.id>>] # <<>>  BY <2>4, <2>5
  <2>8. {i} \in SUBSET infos[a]  BY <2>1
  <2>9. /\ Forgets(a, {i})
        /\ UNCHANGED <<instances, instance, phase, callbackIdBase, issued, timed>>
    BY <2>1
  <2> QED  BY <2>2, <2>4, <2>6, <2>7, <2>8, <2>9, ForgetsCore
<1> QED  BY <1>1, <1>2, ResponseRuns

(* What a tick does to the calls. *)
LEMMA TickRuns ==
  ASSUME Core, NEW a \in Actors, HandleTick(a)
  PROVE  /\ phase[a] = "running" /\ Forgets(a, Late(a))
         /\ UNCHANGED <<instances, instance, phase, callbackIdBase, issued, timed>>
         /\ ran' = [c \in CallIds |-> IF \E i \in Late(a) : c = <<instance[a], i.id>>
                                      THEN <<"timeout">> ELSE ran[c]]
         /\ \A i \in Late(a) : /\ <<instance[a], i.id>> \in timed
                                /\ ran[<<instance[a], i.id>>] = <<>>
<1>1. /\ phase[a] = "running" /\ Forgets(a, Late(a))
      /\ UNCHANGED <<instances, instance, phase, callbackIdBase, issued, timed>>
      /\ ran' = [c \in CallIds |-> IF \E i \in Late(a) : c = <<instance[a], i.id>>
                                   THEN Append(ran[c], "timeout") ELSE ran[c]]
  BY DEF HandleTick, At, instanceVars
<1>2. \A i \in Late(a) : /\ <<instance[a], i.id>> \in timed
                         /\ ran[<<instance[a], i.id>>] = <<>>
  BY <1>1 DEF Late, Core, Registered, Entries
<1>3. \A c \in CallIds : (\E i \in Late(a) : c = <<instance[a], i.id>>)
                           => Append(ran[c], "timeout") = <<"timeout">>
  <2> SUFFICES ASSUME NEW c \in CallIds, ran[c] = <<>>
               PROVE  Append(ran[c], "timeout") = <<"timeout">>
    BY <1>2
  <2> QED  OBVIOUS
<1>4. ran' = [c \in CallIds |-> IF \E i \in Late(a) : c = <<instance[a], i.id>>
                               THEN <<"timeout">> ELSE ran[c]]
  BY <1>1, <1>3
<1> QED  BY <1>1, <1>2, <1>4

LEMMA TickCore ==
  ASSUME Core, NEW a \in Actors, HandleTick(a)
  PROVE  Core'
<1>1. Late(a) \subseteq infos[a]  BY DEF Late
<1>2. /\ ran' = [c \in CallIds |-> ran'[c]]
      /\ \A c \in CallIds : (\A i \in Late(a) : c # <<instance[a], i.id>>) => ran'[c] = ran[c]
  BY TickRuns
<1>3. \A i \in Late(a) : ran'[<<instance[a], i.id>>] # <<>>
  <2> SUFFICES ASSUME NEW i \in Late(a)  PROVE ran'[<<instance[a], i.id>>] # <<>>
    OBVIOUS
  <2>1. <<instance[a], i.id>> \in CallIds  BY TickRuns DEF Core, CoreTypes
  <2>2. ran'[<<instance[a], i.id>>] = <<"timeout">>  BY <2>1, TickRuns
  <2> QED  BY <2>2
<1> QED  BY <1>1, <1>2, <1>3, TickRuns, ForgetsCore

(* Recycling an actor, or its goroutine leaving, closes no open call. *)
LEMMA PhaseCore ==
  ASSUME Core, NEW a \in Actors, NEW p \in {"stopping", "left"},
         phase' = [phase EXCEPT ![a] = p],
         phase[a] = "running" => infos[a] = {},
         phase[a] # "left",
         UNCHANGED <<instances, instance, callbackIdBase, infos, pendingAsync, issued, timed, ran>>
  PROVE  Core'
<1> USE DEF Core
<1>1. \A x \in Actors : x # a => phase'[x] = phase[x]  BY DEF CoreTypes
<1>2. phase'[a] = p  BY DEF CoreTypes
<1>3. CoreTypes' /\ RanIsTable'  BY DEF CoreTypes, RanIsTable
<1>4. Registered'  BY <1>1 DEF Registered
<1>5. MirrorExact' /\ Unused'  BY DEF MirrorExact, Unused
<1>6. Entries'  BY <1>1, <1>2 DEF Entries
<1>7. OpenIsRegistered'
  <2>1. \A x \in Actors : phase[x] = "running" /\ infos[x] # {} => x # a  OBVIOUS
  <2> QED  BY <1>1, <2>1 DEF OpenIsRegistered
<1> QED  BY <1>3, <1>4, <1>5, <1>6, <1>7

(* A mailbox step, an answer and a step of an outside caller touch no call. *)
LEMMA QuietSteps ==
  ASSUME NEW a \in Actors,
         \/ \E idle \in BOOLEAN : GroupTick(a, idle)
         \/ Dequeue(a) \/ ServeRequest(a) \/ ServeOuter(a) \/ Answer(a) \/ AnswerOuter(a)
         \/ \E m \in network : Drop(m)
         \/ \E q \in OuterCalls : OuterCall(q) \/ OuterReturn(q)
  PROVE  UNCHANGED coreVars
BY DEF GroupTick, Dequeue, ServeRequest, ServeOuter, Answer, AnswerOuter, Drop,
       OuterCall, OuterReturn, coreVars, instanceVars, callVars, history

(* Delivery, activation and a stop report create a context or touch no call. *)
LEMMA GroupCreates ==
  ASSUME Core, NEW a \in Actors,
         \/ \E m \in network : m.to = a /\ Deliver(m)
         \/ Activate(a)
         \/ StopReported(a) /\ mailbox[a] # <<>>
  PROVE  \/ UNCHANGED coreVars
         \/ phase[a] = "left" /\ Create(a) /\ UNCHANGED history
<1>1. instance[a] = 0 => phase[a] = "left"  BY DEF Core, Registered
<1>2. CASE \E m \in network : m.to = a /\ Deliver(m)
  BY <1>1, <1>2 DEF Deliver, coreVars, instanceVars, callVars, history
<1>3. CASE Activate(a)  BY <1>1, <1>3 DEF Activate
<1>4. CASE StopReported(a) /\ mailbox[a] # <<>>  BY <1>4 DEF StopReported
<1> QED  BY <1>2, <1>3, <1>4

(* A stop report with nothing left to do unregisters the instance. *)
LEMMA UnregisterCore ==
  ASSUME Core, NEW a \in Actors, StopReported(a), mailbox[a] = <<>>
  PROVE  Core' /\ UNCHANGED history
<1> USE DEF Core
<1>1. /\ phase[a] = "left"
      /\ instance' = [instance EXCEPT ![a] = 0]
      /\ UNCHANGED <<instances, phase, callbackIdBase, infos, pendingAsync, issued, timed, ran>>
  BY DEF StopReported, callVars, history
<1>2. instance'[a] = 0 /\ \A x \in Actors : x # a => instance'[x] = instance[x]
  BY <1>1 DEF CoreTypes
<1>3. CoreTypes'
  <2>1. instance' \in [Actors -> 0 .. instances]  BY <1>1 DEF CoreTypes
  <2> QED  BY <1>1, <2>1 DEF CoreTypes
<1>4. Registered' /\ RanIsTable'  BY <1>1, <1>2 DEF Registered, RanIsTable
<1>5. MirrorExact'  BY <1>1 DEF MirrorExact
<1>6. Entries'  BY <1>1, <1>2 DEF Entries
<1>7. Unused'
  <2>1. \A c \in issued : c[1] # 0  BY DEF CoreTypes, CallIds
  <2> QED  BY <1>1, <1>2, <2>1 DEF Unused
<1>8. OpenIsRegistered'  BY <1>1, <1>2 DEF OpenIsRegistered
<1> QED  BY <1>1, <1>3, <1>4, <1>5, <1>6, <1>7, <1>8 DEF history

LEMMA CoreKept ==
  ASSUME Core, Next
  PROVE  Core'
<1>1. CASE UNCHANGED coreVars  BY <1>1, CoreStutters
<1>2. ASSUME NEW a \in Actors, GroupStep(a)  PROVE Core'
  <2>1. CASE StopReported(a) /\ mailbox[a] = <<>>  BY <2>1, UnregisterCore
  <2>2. CASE \/ \E m \in network : m.to = a /\ Deliver(m)
             \/ Activate(a)
             \/ StopReported(a) /\ mailbox[a] # <<>>
    BY <1>1, <2>2, GroupCreates, CreateCore
  <2>3. CASE (\E idle \in BOOLEAN : GroupTick(a, idle)) \/ (\E m \in network : Drop(m))
    BY <1>1, <2>3, QuietSteps
  <2> QED  BY <1>2, <2>1, <2>2, <2>3 DEF GroupStep
<1>3. ASSUME NEW a \in Actors, ActorStep(a)  PROVE Core'
  <2>1. CASE Dequeue(a) \/ ServeRequest(a) \/ ServeOuter(a)  BY <1>1, <2>1, QuietSteps
  <2>2. CASE Leave(a)
    BY <2>2, PhaseCore DEF Leave, callVars, history
  <2> QED  BY <1>3, <2>1, <2>2, ResponseCore, TickCore DEF ActorStep
<1>4. ASSUME NEW a \in Actors, UserStep(a)  PROVE Core'
  <2>1. CASE Answer(a) \/ AnswerOuter(a)  BY <1>1, <2>1, QuietSteps
  <2>2. CASE Recycle(a)
    BY <2>2, PhaseCore DEF Recycle, At, MayRecycle, callVars, history
  <2> QED  BY <1>4, <2>1, <2>2, ExpireCore, RequestCore, RefusedCore DEF UserStep
<1>5. ASSUME NEW q \in OuterCalls, OuterCall(q) \/ OuterReturn(q)  PROVE Core'
  BY <1>1, <1>5, CallsAssumption, QuietSteps
<1> QED  BY <1>2, <1>3, <1>4, <1>5 DEF Next

LEMMA InitIInv ==
  ASSUME Init
  PROVE  IInv
<1>1. TrafficTypes  BY DEF Init, TrafficTypes
<1>2. CoreTypes /\ RanIsTable  BY DEF Init, CoreTypes, RanIsTable
<1>3. Registered  BY NumberAssumption DEF Init, Registered
<1>4. MirrorExact /\ Entries  BY FS_EmptySet DEF Init, MirrorExact, Entries
<1>5. Unused /\ OpenIsRegistered  BY DEF Init, Unused, OpenIsRegistered
<1> QED  BY <1>1, <1>2, <1>3, <1>4, <1>5 DEF IInv, Core

LEMMA IInvKept ==
  ASSUME IInv, [Next]_vars
  PROVE  IInv'
<1>1. CASE Next  BY <1>1, TrafficKept, CoreKept DEF IInv, Core
<1>2. CASE UNCHANGED vars
  <2>1. UNCHANGED coreVars  BY <1>2 DEF vars, coreVars, instanceVars, callVars, history
  <2>2. TrafficTypes'
    BY <1>2 DEF vars, serverVars, outerVars, TrafficTypes, IInv
  <2> QED  BY <2>1, <2>2, CoreStutters DEF IInv
<1> QED  BY <1>1, <1>2

LEMMA IInvHolds == Spec => []IInv
BY InitIInv, IInvKept, PTL DEF Spec

-----------------------------------------------------------------------------
(* Types of the tables and of everything in transit; entries have numbers of
   their own. *)
THEOREM TypeCorrect == Spec => []TypeOK
<1>1. IInv => TypeOK  BY TwoHalves DEF IInv, Core
<1> QED  BY <1>1, IInvHolds, PTL

(* pendingAsyncCallback is the size of the table, at every moment and through
   refused sends, answers, ticks and recycling. *)
THEOREM MirrorIsExact == Spec => []MirrorExact
<1>1. IInv => MirrorExact  BY DEF IInv, Core
<1> QED  BY <1>1, IInvHolds, PTL

(* An open call with a timeout is in the table of its instance, which is there
   and will see ticks. *)
THEOREM NoCallIsForgotten == Spec => []OpenIsRegistered
<1>1. IInv => OpenIsRegistered  BY DEF IInv, Core
<1> QED  BY <1>1, IInvHolds, PTL

-----------------------------------------------------------------------------
(* Each step does to the calls what AsyncCall allows. *)
LEMMA StepImplements ==
  ASSUME IInv, [Next]_vars
  PROVE  [AC!Next]_AC!vars
<1> USE DEF IInv
<1> SUFFICES ASSUME Next  PROVE AC!Next \/ UNCHANGED AC!vars
  BY DEF vars, history, AC!vars
<1>1. CASE UNCHANGED history \/ UNCHANGED coreVars
  BY <1>1 DEF history, coreVars, AC!vars
<1>2. ASSUME NEW a \in Actors, NEW b \in Actors, NEW t \in Timeouts, RequestAsync(a, b, t)
      PROVE  AC!Next
  <2>1. AC!Issue(ThisCall(a))
    BY <1>2, NextCallIsNew DEF RequestAsync, AC!Issue
  <2> QED  BY <1>2, <2>1, NextCallIsNew DEF RequestAsync, AC!Next
<1>3. ASSUME NEW a \in Actors, NEW b \in Actors, RequestRefused(a, b)  PROVE AC!Next
  <2> DEFINE c == ThisCall(a)
  <2>1. /\ c \in CallIds /\ c \notin issued /\ ran[c] = <<>>
        /\ issued' = issued \union {c} /\ UNCHANGED timed
        /\ ran' = [ran EXCEPT ![c] = Append(ran[c], "refused")]
    BY <1>3, NextCallIsNew DEF RequestRefused, Ran, Core, CoreTypes
  <2> HIDE DEF c
  <2>2. Append(ran[c], "refused") = <<"refused">>  BY <2>1
  <2>3. AC!Refuse(c)  BY <2>1, <2>2 DEF AC!Refuse, AC!Runs
  <2> QED  BY <2>1, <2>3 DEF AC!Next
<1>4. ASSUME NEW a \in Actors, HandleResponse(a)  PROVE AC!Next \/ UNCHANGED AC!vars
  <2>1. CASE \E i \in infos[a] :
               /\ Forgets(a, {i})
               /\ ran' = [ran EXCEPT ![<<instance[a], i.id>>] = Append(@, "answer")]
               /\ UNCHANGED <<instances, instance, phase, callbackIdBase, issued, timed>>
    <3>1. PICK i \in infos[a] :
               /\ ran' = [ran EXCEPT ![<<instance[a], i.id>>] = Append(@, "answer")]
               /\ UNCHANGED <<issued, timed>>
      BY <2>1
    <3> DEFINE c == <<instance[a], i.id>>
    <3>2. c \in issued /\ c \in CallIds /\ ran[c] = <<>> /\ DOMAIN ran = CallIds
      BY <1>4 DEF HandleResponse, At, Core, CoreTypes, Registered, Entries
    <3>3. ran' = [ran EXCEPT ![c] = Append(ran[c], "answer")]  BY <3>1, <3>2
    <3> HIDE DEF c
    <3>4. Append(ran[c], "answer") = <<"answer">>  BY <3>2
    <3>5. AC!Answered(c)  BY <3>2, <3>3, <3>4 DEF AC!Answered, AC!Runs
    <3> QED  BY <3>1, <3>2, <3>5 DEF AC!Next, AC!Settle
  <2> QED  BY <1>1, <1>4, <2>1, ResponseRuns
<1>5. ASSUME NEW a \in Actors, HandleTick(a)  PROVE AC!Next \/ UNCHANGED AC!vars
  <2> DEFINE T == {<<instance[a], i.id>> : i \in Late(a)}
  <2>1. /\ UNCHANGED <<issued, timed>>
        /\ ran' = [c \in CallIds |-> IF c \in T THEN <<"timeout">> ELSE ran[c]]
        /\ T \subseteq timed /\ \A c \in T : ran[c] = <<>>
    <3>1. \A c : c \in T <=> \E i \in Late(a) : c = <<instance[a], i.id>>  OBVIOUS
    <3> HIDE DEF T
    <3> QED  BY <1>5, <3>1, TickRuns
  <2> HIDE DEF T
  <2>2. CASE T = {}
    <3>1. ran' = [c \in CallIds |-> ran[c]]  BY <2>1, <2>2
    <3>2. ran = [c \in CallIds |-> ran[c]]  BY DEF Core, RanIsTable
    <3> QED  BY <2>1, <3>1, <3>2 DEF AC!vars
  <2>3. CASE T # {}
    <3>1. T \in (SUBSET timed) \ {{}}  BY <2>1, <2>3
    <3>2. AC!SomeTimeOut
      <4>1. /\ \A c \in T : ran[c] = <<>>
            /\ ran' = [c \in CallIds |-> IF c \in T THEN <<"timeout">> ELSE ran[c]]
        BY <2>1
      <4> QED  BY <3>1, <4>1 DEF AC!SomeTimeOut
    <3> QED  BY <2>1, <3>2 DEF AC!Next, AC!Settle
  <2> QED  BY <2>2, <2>3
<1>6. ASSUME NEW a \in Actors, GroupStep(a)  PROVE AC!Next \/ UNCHANGED AC!vars
  BY <1>1, <1>6, UnregisterCore, GroupCreates, QuietSteps DEF GroupStep
<1>7. ASSUME NEW a \in Actors, ActorStep(a)  PROVE AC!Next \/ UNCHANGED AC!vars
  BY <1>1, <1>4, <1>5, <1>7, QuietSteps DEF ActorStep, Leave
<1>8. ASSUME NEW a \in Actors, UserStep(a)  PROVE AC!Next \/ UNCHANGED AC!vars
  BY <1>1, <1>2, <1>3, <1>8, QuietSteps DEF UserStep, Recycle, Expire
<1>9. ASSUME NEW q \in OuterCalls, OuterCall(q) \/ OuterReturn(q)  PROVE UNCHANGED AC!vars
  BY <1>1, <1>9, CallsAssumption, QuietSteps DEF coreVars, AC!vars
<1> QED  BY <1>6, <1>7, <1>8, <1>9 DEF Next

(* A callback runs at most once, with the answer to its own call, a timeout or
   a refusal: the safety of AsyncCall. *)
THEOREM ImplementsCalls == Spec => AC!Spec
<1>1. Init => AC!Init  BY DEF Init, AC!Init
<1> QED  BY <1>1, StepImplements, IInvHolds, PTL DEF Spec, AC!Spec
=============================================================================
