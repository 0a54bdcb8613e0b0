--------------------------- MODULE WatchNotifyProofs ---------------------------
(* Proofs about WatchNotify, for any subscribers, groups, limits and types: the  *)
(* limit of external queues is in force before there is anything to put into     *)
(* them, and watching does what Topic promises.                                  *)
EXTENDS WatchNotify, SequenceTheorems, TLAPS

LEMMA HeadIsTyped ==
  ASSUME TypeOK, requests # <<>>
  PROVE  /\ Head(requests) \in Watches \union Events
         /\ Tail(requests) \in Seq(Watches \union Events)
BY DEF TypeOK

LEMMA WatchFields ==
  ASSUME NEW op \in Watches \union Events
  PROVE  /\ op.kind \in {"watch", "unwatch", "fire"}
         /\ op.kind \in {"watch", "unwatch"} => op.who \in Subscribers /\ op.type \in Types
         /\ op.kind = "fire" => op \in Events /\ op.type \in Types
BY DEF Watches, Events

LEMMA CacheIsTyped ==
  ASSUME TypeOK
  PROVE  NeedSaveCache \in Tables(Actors) \X Tables(Queues)
BY DEF TypeOK, NeedSaveCache, NoCache, Nobody, Tables

LEMMA TypesInit == Init => TypeOK
BY DEF Init, TypeOK, Nobody, NoCache, Tables

LEMMA TypesStep == TypeOK /\ [Next]_vars => TypeOK'
<1> SUFFICES ASSUME TypeOK, [Next]_vars PROVE TypeOK'
  OBVIOUS
<1> USE DEF TypeOK
<1>a. ASSUME NEW op \in Watches \union Events, Accept(op)
      PROVE  accepted' \in Nat /\ requests' \in Seq(Watches \union Events)
  BY <1>a DEF Accept
<1>1. CASE UNCHANGED vars  BY <1>1 DEF vars, tableVars, queueVars
<1>2. ASSUME NEW a \in Actors, NEW t \in Types, NEW k \in {"watch", "unwatch"}, Watch(a, t, k)
      PROVE  TypeOK'
  <2>1. [kind |-> k, who |-> a, type |-> t] \in Watches \union Events
    BY DEF Watches, Subscribers
  <2> QED  BY <1>2, <2>1, <1>a DEF Watch, tableVars, queueVars
<1>3. ASSUME NEW q \in Queues, NEW t \in Types, OuterWatch(q, t) \/ OuterUnwatch(q, t)
      PROVE  TypeOK'
  <2>1. \A k \in {"watch", "unwatch"} : [kind |-> k, who |-> q, type |-> t] \in Watches \union Events
    BY DEF Watches, Subscribers
  <2>2. CASE OuterWatch(q, t)
    <3>1. accepted' \in Nat /\ requests' \in Seq(Watches \union Events)
      BY <2>1, <2>2, <1>a DEF OuterWatch
    <3>2. maxDepth' \in [Queues -> {0, OuterQueueMaxDepth}]
      BY <2>2 DEF OuterWatch, LimitDepth
    <3> QED  BY <2>2, <3>1, <3>2 DEF OuterWatch, tableVars
  <2>3. CASE OuterUnwatch(q, t)  BY <2>1, <2>3, <1>a DEF OuterUnwatch, tableVars, queueVars
  <2> QED  BY <1>3, <2>2, <2>3
<1>4. ASSUME NEW t \in Types, Fire(t) PROVE TypeOK'
  <2>1. [kind |-> "fire", type |-> t, n |-> accepted] \in Watches \union Events
    BY <1>4, NumberAssumption DEF Fire, Accept, Events
  <2> QED  BY <1>4, <2>1, <1>a DEF Fire, tableVars, queueVars
<1>5. ASSUME NEW q \in Queues, OuterTake(q) \/ OuterClose(q) PROVE TypeOK'
  <2>1. queue' \in [Queues -> Seq(Events)]
    <3>1. CASE OuterTake(q)
      <4>1. queue' = [queue EXCEPT ![q] = Tail(queue[q])] /\ queue[q] # <<>>  BY <3>1 DEF OuterTake
      <4>2. Tail(queue[q]) \in Seq(Events)  BY <4>1
      <4> QED  BY <4>1, <4>2
    <3>2. CASE OuterClose(q)  BY <3>2 DEF OuterClose
    <3> QED  BY <1>5, <3>1, <3>2
  <2>2. closed' \in [Queues -> BOOLEAN]  BY <1>5 DEF OuterTake, OuterClose
  <2> QED  BY <1>5, <2>1, <2>2 DEF OuterTake, OuterClose, tableVars
<1>6. CASE Activate  BY <1>6 DEF Activate, queueVars, NoCache, Nobody, Tables
<1>7. CASE Recycle  BY <1>7 DEF Recycle, queueVars
<1>8. CASE StopReported
  <2>1. NeedSaveCache \in Tables(Actors) \X Tables(Queues)  BY CacheIsTyped
  <2>2. Nobody \in Tables(Actors) /\ Nobody \in Tables(Queues)  BY DEF Nobody, Tables
  <2>3. watcherss' \in Tables(Actors) /\ outerWatcherss' \in Tables(Queues)
    BY <1>8, <2>1, <2>2 DEF StopReported
  <2>4. /\ actorCaches' \in Tables(Actors) \X Tables(Queues)
        /\ context' # "none" => actorCaches' = NoCache
    BY <1>8, <2>1 DEF StopReported
  <2> QED  BY <1>8, <2>3, <2>4 DEF StopReported, queueVars
<1>9. CASE AddWatcher
  <2> DEFINE op == Head(requests)
  <2>1. op \in Watches \union Events /\ requests' \in Seq(Watches \union Events)
    BY <1>9, HeadIsTyped DEF AddWatcher, Handles
  <2>2. op.who \in Subscribers /\ op.type \in Types  BY <1>9, <2>1, WatchFields DEF AddWatcher, Handles
  <2>3. watcherss' \in Tables(Actors) /\ outerWatcherss' \in Tables(Queues)
    <3>1. CASE op.who \in Actors
      <4>1. /\ watcherss' = [watcherss EXCEPT ![op.type] = watcherss[op.type] \union {op.who}]
            /\ outerWatcherss' = outerWatcherss
        BY <1>9, <3>1 DEF AddWatcher
      <4> HIDE DEF op
      <4> QED  BY <2>2, <3>1, <4>1 DEF Tables
    <3>2. CASE op.who \notin Actors
      <4>1. /\ outerWatcherss' = [outerWatcherss EXCEPT ![op.type] = outerWatcherss[op.type] \union {op.who}]
            /\ watcherss' = watcherss
        BY <1>9, <3>2 DEF AddWatcher
      <4> HIDE DEF op
      <4>2. op.who \in Queues  BY <2>2, <3>2 DEF Subscribers
      <4> QED  BY <2>2, <4>1, <4>2 DEF Tables
    <3> QED  BY <3>1, <3>2
  <2> QED  BY <1>9, <2>1, <2>3 DEF AddWatcher, Handles, queueVars
<1>10. CASE RemoveWatcher
  <2>1. requests' \in Seq(Watches \union Events)
    BY <1>10, HeadIsTyped DEF RemoveWatcher, Handles
  <2>2. watcherss' \in Tables(Actors) /\ outerWatcherss' \in Tables(Queues)
    BY <1>10 DEF RemoveWatcher, Tables
  <2> QED  BY <1>10, <2>1, <2>2 DEF RemoveWatcher, Handles, queueVars
<1>11. CASE Notify
  <2> DEFINE op == Head(requests)
  <2>1. op \in Events /\ requests' \in Seq(Watches \union Events)
    BY <1>11, HeadIsTyped, WatchFields DEF Notify, Handles
  <2> HIDE DEF op
  <2>2. transit' \in [Actors -> Seq(Events)]
    BY <1>11, <2>1 DEF Notify, NotifyActors, op
  <2>3. queue' \in [Queues -> Seq(Events)]  BY <1>11, <2>1 DEF Notify, NotifyQueues, op
  <2>4. outerWatcherss' \in Tables(Queues)  BY <1>11 DEF Notify, NotifyQueues, Tables
  <2> QED  BY <1>11, <2>1, <2>2, <2>3, <2>4 DEF Notify, Handles
<1>12. ASSUME NEW a \in Actors, Dispatch(a) \/ HandleNotify(a) PROVE TypeOK'
  <2>1. transit' \in [Actors -> Seq(Events)] /\ mailbox' \in [Actors -> Seq(Events)]
    <3>1. CASE Dispatch(a)
      <4>1. Head(transit[a]) \in Events /\ Tail(transit[a]) \in Seq(Events)
        BY <3>1 DEF Dispatch
      <4>2. Append(mailbox[a], Head(transit[a])) \in Seq(Events)  BY <4>1
      <4>3. transit' \in [Actors -> Seq(Events)]  BY <3>1, <4>1 DEF Dispatch
      <4>4. \/ mailbox' = [mailbox EXCEPT ![a] = Append(mailbox[a], Head(transit[a]))]
            \/ mailbox' = mailbox
        BY <3>1 DEF Dispatch
      <4>5. mailbox' \in [Actors -> Seq(Events)]  BY <4>2, <4>4
      <4> QED  BY <4>3, <4>5
    <3>2. CASE HandleNotify(a)
      <4>1. /\ Tail(mailbox[a]) \in Seq(Events) /\ transit' = transit
            /\ mailbox' = [mailbox EXCEPT ![a] = Tail(mailbox[a])]
        BY <3>2 DEF HandleNotify
      <4> QED  BY <4>1
    <3> QED  BY <1>12, <3>1, <3>2
  <2> QED  BY <1>12, <2>1 DEF Dispatch, HandleNotify, tableVars, queueVars
<1> QED
  BY <1>1, <1>2, <1>3, <1>4, <1>5, <1>6, <1>7, <1>8, <1>9, <1>10, <1>11, <1>12 DEF Next, HubStep

(* The types of all variables; and tables are saved only while no context uses them. *)
THEOREM TypeCorrect == Spec => []TypeOK
BY TypesInit, TypesStep, PTL DEF Spec

--------------------------------------------------------------------------------
(* External queues: where q is subscribed, saved or asked for, its limit is in force. *)

Kept(q) == \E t \in Types : q \in outerWatcherss[t] \/ q \in actorCaches[2][t]
Asked(q) == \E i \in 1 .. Len(requests) : requests[i].kind = "watch" /\ requests[i].who = q
Known(q) == Kept(q) \/ Asked(q)

Limited(q) == /\ Known(q) => maxDepth[q] = OuterQueueMaxDepth
              /\ Len(queue[q]) <= OuterQueueMaxDepth

LEMMA AcceptKnows ==
  ASSUME TypeOK, NEW op \in Watches \union Events, Accept(op), NEW q \in Queues, UNCHANGED tableVars,
         Known(q)'
  PROVE  Known(q) \/ (op.kind = "watch" /\ op.who = q)
<1>1. /\ Len(requests') = Len(requests) + 1
      /\ \A i \in 1 .. Len(requests) : requests'[i] = requests[i]
      /\ requests'[Len(requests) + 1] = op
  BY DEF TypeOK, Accept
<1>2. CASE Kept(q)'  BY <1>2 DEF Known, Kept, tableVars
<1>3. CASE Asked(q)'
  <2>1. PICK i \in 1 .. Len(requests') : requests'[i].kind = "watch" /\ requests'[i].who = q
    BY <1>3 DEF Asked
  <2>2. i \in 1 .. Len(requests) \/ i = Len(requests) + 1  BY <1>1
  <2>3. CASE i \in 1 .. Len(requests)
    <3>1. requests[i].kind = "watch" /\ requests[i].who = q  BY <1>1, <2>1, <2>3
    <3>2. Asked(q)  BY <2>3, <3>1 DEF Asked
    <3> QED  BY <3>2 DEF Known
  <2>4. CASE i = Len(requests) + 1  BY <1>1, <2>1, <2>4
  <2> QED  BY <2>2, <2>3, <2>4
<1> QED  BY <1>2, <1>3 DEF Known

(* To handle a request makes nobody known but the one who asked. *)
LEMMA TailKnows ==
  ASSUME TypeOK, requests # <<>>, requests' = Tail(requests), NEW q \in Queues, Asked(q)'
  PROVE  Asked(q)
<1>1. /\ Len(requests') = Len(requests) - 1 /\ Len(requests) \in Nat
      /\ \A i \in 1 .. Len(requests') : requests'[i] = requests[i + 1] /\ i + 1 \in 1 .. Len(requests)
  BY DEF TypeOK
<1> QED  BY <1>1 DEF Asked

LEMMA HeadKnows ==
  ASSUME TypeOK, requests # <<>>, NEW q \in Queues, Head(requests).kind = "watch",
         Head(requests).who = q
  PROVE  Asked(q)
<1>1. 1 \in 1 .. Len(requests) /\ requests[1] = Head(requests)  BY DEF TypeOK
<1> QED  BY <1>1 DEF Asked

LEMMA LimitedStep ==
  ASSUME OuterQueueMaxDepth > 0, TypeOK, [Next]_vars, NEW q \in Queues, Limited(q)
  PROVE  Limited(q)'
<1> DEFINE Stays == UNCHANGED <<queue, maxDepth>> /\ (Known(q)' => Known(q))
<1>a. ASSUME Stays PROVE Limited(q)'  BY <1>a DEF Limited
<1>b. ASSUME UNCHANGED <<outerWatcherss, actorCaches, requests>> PROVE Known(q)' => Known(q)
  BY <1>b DEF Known, Kept, Asked
<1> HIDE DEF Stays
<1>1. CASE UNCHANGED vars  BY <1>1, <1>a, <1>b DEF Stays, vars, tableVars, queueVars
<1>2. ASSUME NEW a \in Actors, NEW t \in Types, NEW k \in {"watch", "unwatch"}, Watch(a, t, k)
      PROVE  Limited(q)'
  <2>1. [kind |-> k, who |-> a, type |-> t] \in Watches \union Events /\ a # q
    BY SubscribersAssumption DEF Watches, Subscribers
  <2>2. Known(q)' => Known(q)  BY <1>2, <2>1, AcceptKnows DEF Watch
  <2> QED  BY <1>2, <2>2, <1>a DEF Stays, Watch, queueVars
<1>3. ASSUME NEW r \in Queues, NEW t \in Types, OuterWatch(r, t) PROVE Limited(q)'
  <2> DEFINE op == [kind |-> "watch", who |-> r, type |-> t]
  <2>1. op \in Watches \union Events /\ op.who = r  BY DEF Watches, Subscribers
  <2>2. Known(q)' => Known(q) \/ r = q
    <3>1. CASE Accept(op)  BY <1>3, <2>1, <3>1, AcceptKnows DEF OuterWatch
    <3>2. CASE UNCHANGED <<accepted, requests>>  BY <1>3, <3>2, <1>b DEF OuterWatch, tableVars
    <3> QED  BY <1>3, <3>1, <3>2 DEF OuterWatch
  <2>3. /\ maxDepth'[r] = OuterQueueMaxDepth /\ queue' = queue
        /\ q # r => maxDepth'[q] = maxDepth[q]
    BY <1>3, NumberAssumption DEF OuterWatch, LimitDepth, TypeOK
  <2> QED  BY <2>2, <2>3 DEF Limited
<1>4. ASSUME NEW r \in Queues, NEW t \in Types, OuterUnwatch(r, t) PROVE Limited(q)'
  <2>1. [kind |-> "unwatch", who |-> r, type |-> t] \in Watches \union Events
    BY DEF Watches, Subscribers
  <2>2. Known(q)' => Known(q)  BY <1>4, <2>1, AcceptKnows DEF OuterUnwatch
  <2> QED  BY <1>4, <2>2, <1>a DEF Stays, OuterUnwatch, queueVars
<1>5. ASSUME NEW t \in Types, Fire(t) PROVE Limited(q)'
  <2>1. [kind |-> "fire", type |-> t, n |-> accepted] \in Watches \union Events
    BY <1>5, NumberAssumption DEF Fire, Accept, Events, TypeOK
  <2>2. Known(q)' => Known(q)  BY <1>5, <2>1, AcceptKnows DEF Fire
  <2> QED  BY <1>5, <2>2, <1>a DEF Stays, Fire, queueVars
<1>6. ASSUME NEW r \in Queues, OuterTake(r) PROVE Limited(q)'
  <2>1. Known(q)' => Known(q)  BY <1>6, <1>b DEF OuterTake, tableVars
  <2>2. maxDepth' = maxDepth /\ queue' = [queue EXCEPT ![r] = Tail(queue[r])] /\ queue[r] # <<>>
    BY <1>6 DEF OuterTake
  <2>3. Len(Tail(queue[r])) = Len(queue[r]) - 1 /\ Len(queue[r]) \in Nat
    BY <2>2 DEF TypeOK
  <2>4. queue'[q] = IF q = r THEN Tail(queue[r]) ELSE queue[q]  BY <2>2 DEF TypeOK
  <2> QED  BY <2>1, <2>2, <2>3, <2>4, NumberAssumption DEF Limited
<1>7. ASSUME NEW r \in Queues, OuterClose(r) PROVE Limited(q)'
  BY <1>7, <1>a, <1>b DEF Stays, OuterClose, tableVars
<1>8. CASE Activate
  <2>1. Known(q)' => Known(q)  BY <1>8 DEF Activate, Known, Kept, Asked, NoCache, Nobody
  <2> QED  BY <1>8, <2>1, <1>a DEF Stays, Activate, queueVars
<1>9. CASE Recycle  BY <1>9, <1>a, <1>b DEF Stays, Recycle, queueVars
<1>10. CASE StopReported
  <2>1. \A t \in Types : q \in NeedSaveCache[2][t] => q \in outerWatcherss[t]
    BY DEF NeedSaveCache, NoCache, Nobody
  <2>2. \A t \in Types : q \notin Nobody[t]  BY DEF Nobody
  <2>3. Known(q)' => Known(q)  BY <1>10, <2>1, <2>2 DEF StopReported, Known, Kept, Asked
  <2> QED  BY <1>10, <2>3, <1>a DEF Stays, StopReported, queueVars
<1>11. CASE AddWatcher
  <2> DEFINE op == Head(requests)
  <2>1. requests # <<>> /\ requests' = Tail(requests) /\ op.kind = "watch" /\ actorCaches' = actorCaches
    BY <1>11 DEF AddWatcher, Handles
  <2>2. \A t \in Types : q \in outerWatcherss'[t] => q \in outerWatcherss[t] \/ op.who = q
    <3>1. \/ outerWatcherss' = outerWatcherss
          \/ outerWatcherss' = [outerWatcherss EXCEPT ![op.type] = outerWatcherss[op.type] \union {op.who}]
      BY <1>11 DEF AddWatcher
    <3> HIDE DEF op
    <3>2. \A t \in Types : outerWatcherss'[t] \subseteq outerWatcherss[t] \union {op.who}
      BY <3>1 DEF TypeOK, Tables
    <3> QED  BY <3>2
  <2>3. Known(q)' => Known(q)
    <3>1. op.who = q => Known(q)  BY <2>1, HeadKnows DEF Known
    <3>2. Kept(q)' => Known(q)  BY <2>1, <2>2, <3>1 DEF Known, Kept
    <3>3. Asked(q)' => Known(q)  BY <2>1, TailKnows DEF Known
    <3> QED  BY <3>2, <3>3 DEF Known
  <2> QED  BY <1>11, <2>3, <1>a DEF Stays, AddWatcher, queueVars
<1>12. CASE RemoveWatcher
  <2>1. requests # <<>> /\ requests' = Tail(requests) /\ actorCaches' = actorCaches
    BY <1>12 DEF RemoveWatcher, Handles
  <2>2. \A t \in Types : q \in outerWatcherss'[t] => q \in outerWatcherss[t]
    BY <1>12 DEF RemoveWatcher, TypeOK, Tables
  <2>3. Known(q)' => Known(q)
    <3>2. Kept(q)' => Known(q)  BY <2>1, <2>2 DEF Known, Kept
    <3>3. Asked(q)' => Known(q)  BY <2>1, TailKnows DEF Known
    <3> QED  BY <3>2, <3>3 DEF Known
  <2> QED  BY <1>12, <2>3, <1>a DEF Stays, RemoveWatcher, queueVars
<1>13. CASE Notify
  <2> DEFINE op == Head(requests)
  <2>1. /\ requests # <<>> /\ requests' = Tail(requests) /\ UNCHANGED <<actorCaches, maxDepth>>
        /\ op.kind = "fire"
    BY <1>13 DEF Notify, Handles
  <2>0. op \in Events /\ op.type \in Types  BY <2>1, HeadIsTyped, WatchFields
  <2> HIDE DEF op
  <2>2. \A t \in Types : q \in outerWatcherss'[t] => q \in outerWatcherss[t]
    BY <1>13 DEF Notify, NotifyQueues, TypeOK, Tables, op
  <2>3. Known(q)' => Known(q)
    <3>2. Kept(q)' => Known(q)  BY <2>1, <2>2 DEF Known, Kept
    <3>3. Asked(q)' => Known(q)  BY <2>1, TailKnows DEF Known
    <3> QED  BY <3>2, <3>3 DEF Known
  <2>4. queue'[q] = IF q \in outerWatcherss[op.type] /\ TakesMore(q) THEN Append(queue[q], op) ELSE queue[q]
    BY <1>13 DEF Notify, NotifyQueues, op
  <2>5. queue[q] \in Seq(Events)  BY DEF TypeOK
  <2>6. CASE q \in outerWatcherss[op.type] /\ TakesMore(q)
    <3>1. maxDepth[q] = OuterQueueMaxDepth  BY <2>0, <2>6 DEF Limited, Known, Kept
    <3>2. Len(queue[q]) < OuterQueueMaxDepth  BY <2>6, <3>1 DEF TakesMore
    <3>3. Len(queue'[q]) = Len(queue[q]) + 1 /\ Len(queue[q]) \in Nat  BY <2>0, <2>4, <2>5, <2>6
    <3> QED  BY <2>1, <2>3, <3>1, <3>2, <3>3, NumberAssumption DEF Limited
  <2>7. CASE ~(q \in outerWatcherss[op.type] /\ TakesMore(q))
    BY <2>1, <2>3, <2>4, <2>7 DEF Limited
  <2> QED  BY <2>6, <2>7
<1>14. ASSUME NEW a \in Actors, Dispatch(a) \/ HandleNotify(a) PROVE Limited(q)'
  BY <1>14, <1>a, <1>b DEF Stays, Dispatch, HandleNotify, tableVars, queueVars
<1> QED
  BY <1>1, <1>2, <1>3, <1>4, <1>5, <1>6, <1>7, <1>8, <1>9, <1>10, <1>11, <1>12, <1>13, <1>14
  DEF Next, HubStep

(* No external queue is ever above OuterQueueMaxDepth: nothing fills it before its *)
(* limit is set, by whatever way its subscription came to be.                     *)
THEOREM OuterQueuesBounded == Spec => []OuterBounded
<1>1. CASE OuterQueueMaxDepth > 0
  <2> DEFINE AllLimited == \A q \in Queues : Limited(q)
  <2>1. Init => AllLimited
    BY <1>1, NumberAssumption DEF Init, Limited, Known, Kept, Asked, Nobody, NoCache
  <2>2. TypeOK /\ AllLimited /\ [Next]_vars => AllLimited'  BY <1>1, LimitedStep
  <2>3. AllLimited => OuterBounded  BY DEF Limited, OuterBounded
  <2> HIDE DEF AllLimited
  <2> QED  BY <2>1, <2>2, <2>3, TypeCorrect, PTL DEF Spec
<1>2. CASE ~(OuterQueueMaxDepth > 0)
  <2>1. OuterBounded  BY <1>2 DEF OuterBounded
  <2> QED  BY <2>1, PTL
<1> QED  BY <1>1, <1>2

--------------------------------------------------------------------------------
(* Topic.  What waits for an actor is its mailbox and what its group has behind it. *)

Members == [t \in Types |-> ActorMembers[t] \union QueueMembers[t]]
Due == [s \in Subscribers |-> IF s \in Actors THEN mailbox[s] \o transit[s] ELSE queue[s]]

LEMMA HeadAndTail ==
  ASSUME NEW S, NEW r \in Seq(S), r # <<>>
  PROVE  /\ Head(r) \in S /\ Tail(r) \in Seq(S) /\ <<Head(r)>> \in Seq(S)
         /\ <<Head(r)>> \o Tail(r) = r
<1>1. Len(r) \in Nat /\ Len(r) >= 1  BY EmptySeq
<1>2. SubSeq(r, 1, Len(r)) = <<r[1]>> \o SubSeq(r, 2, Len(r))
  <2>1. 1 \in 1 .. Len(r) /\ Len(r) \in 1 .. Len(r)  BY <1>1
  <2>2. SubSeq(r, 1, Len(r)) = <<r[1]>> \o SubSeq(r, 1 + 1, Len(r))
    BY <2>1, SubSeqRecursiveFirst
  <2> QED  BY <2>2
<1>3. SubSeq(r, 1, Len(r)) = r /\ SubSeq(r, 2, Len(r)) = Tail(r)  BY SubSeqFull, TailIsSubSeq
<1>4. Head(r) = r[1] /\ Head(r) \in S /\ Tail(r) \in Seq(S)  BY HeadTailProperties
<1>5. <<Head(r)>> \in Seq(S)  BY <1>4
<1> QED  BY <1>2, <1>3, <1>4, <1>5

LEMMA MovesOn ==
  ASSUME NEW S, NEW m \in Seq(S), NEW r \in Seq(S), r # <<>>
  PROVE  Append(m, Head(r)) \o Tail(r) = m \o r
<1>1. Append(m, Head(r)) = m \o <<Head(r)>>  BY HeadAndTail, AppendIsConcat
<1>2. (m \o <<Head(r)>>) \o Tail(r) = m \o (<<Head(r)>> \o Tail(r))
  BY HeadAndTail, ConcatAssociative
<1> QED  BY <1>1, <1>2, HeadAndTail

LEMMA TailOfBoth ==
  ASSUME NEW S, NEW m \in Seq(S), NEW r \in Seq(S), m # <<>>
  PROVE  Tail(m) \o r = Tail(m \o r) /\ m \o r # <<>>
<1>1. /\ Tail(m) \in Seq(S) /\ Len(Tail(m)) = Len(m) - 1 /\ Len(m) \in Nat /\ Len(r) \in Nat /\ Len(m) >= 1
      /\ \A i \in 1 .. Len(m) - 1 : Tail(m)[i] = m[i + 1]
  BY HeadTailProperties, EmptySeq, LenProperties
<1>2. /\ Tail(m) \o r \in Seq(S) /\ Len(Tail(m) \o r) = Len(m) - 1 + Len(r)
      /\ \A i \in 1 .. Len(m) - 1 + Len(r) :
           (Tail(m) \o r)[i] = IF i <= Len(m) - 1 THEN Tail(m)[i] ELSE r[i - (Len(m) - 1)]
  BY <1>1, ConcatProperties
<1>3. /\ m \o r \in Seq(S) /\ Len(m \o r) = Len(m) + Len(r)
      /\ \A i \in 1 .. Len(m) + Len(r) : (m \o r)[i] = IF i <= Len(m) THEN m[i] ELSE r[i - Len(m)]
  BY ConcatProperties
<1>4. m \o r # <<>>  BY <1>1, <1>3, EmptySeq
<1>5. /\ Tail(m \o r) \in Seq(S) /\ Len(Tail(m \o r)) = Len(m) + Len(r) - 1
      /\ \A i \in 1 .. Len(m) + Len(r) - 1 : Tail(m \o r)[i] = (m \o r)[i + 1]
  BY <1>3, <1>4, HeadTailProperties
<1>6. ASSUME NEW i \in 1 .. Len(m) - 1 + Len(r) PROVE (Tail(m) \o r)[i] = Tail(m \o r)[i]
  BY <1>1, <1>2, <1>3, <1>5
<1>7. Tail(m) \o r = Tail(m \o r)  BY <1>1, <1>2, <1>5, <1>6, SeqEqual
<1> QED  BY <1>4, <1>7

LEMMA AppendToBoth ==
  ASSUME NEW S, NEW m \in Seq(S), NEW r \in Seq(S), NEW e \in S
  PROVE  m \o Append(r, e) = Append(m \o r, e)
<1>1. <<e>> \in Seq(S) /\ Append(r, e) = r \o <<e>>  BY AppendIsConcat
<1>2. m \o r \in Seq(S) /\ Append(m \o r, e) = (m \o r) \o <<e>>  BY ConcatProperties, AppendIsConcat
<1>3. (m \o r) \o <<e>> = m \o (r \o <<e>>)  BY <1>1, ConcatAssociative
<1> QED  BY <1>1, <1>2, <1>3

LEMMA DropOfBoth ==
  ASSUME NEW S, NEW m \in Seq(S), NEW r \in Seq(S), r # <<>>
  PROVE  /\ Len(m) + 1 \in 1 .. Len(m \o r)
         /\ m \o Tail(r) = SubSeq(m \o r, 1, Len(m)) \o SubSeq(m \o r, Len(m) + 2, Len(m \o r))
<1>1. Len(m \o r) = Len(m) + Len(r) /\ Len(m) \in Nat /\ Len(r) \in Nat /\ Len(r) >= 1
  BY ConcatProperties, EmptySeq, LenProperties
<1>2. SubSeq(m \o r, 1, Len(m)) = m
  <2>1. CASE Len(m) = 0
    <3>1. m = <<>>  BY <2>1, EmptySeq
    <3>2. SubSeq(m \o r, 1, 0) = <<>>  BY SubSeqEmpty
    <3> QED  BY <2>1, <3>1, <3>2
  <2>2. CASE Len(m) > 0
    <3>1. 1 \in 1 .. Len(m) /\ Len(m) \in 1 .. Len(m)  BY <1>1, <2>2
    <3> QED  BY <3>1, SubSeqOfConcat1, SubSeqFull
  <2> QED  BY <1>1, <2>1, <2>2
<1>3. SubSeq(m \o r, Len(m) + 2, Len(m) + Len(r)) = Tail(r)
  <2>1. CASE Len(r) = 1
    <3>1. SubSeq(m \o r, Len(m) + 2, Len(m) + Len(r)) = <<>>  BY <1>1, <2>1, SubSeqEmpty
    <3>2. Tail(r) \in Seq(S) /\ Len(Tail(r)) = 0  BY <2>1, HeadTailProperties
    <3>3. Tail(r) = <<>>  BY <3>2, EmptySeq
    <3> QED  BY <3>1, <3>3
  <2>2. CASE Len(r) > 1
    <3>1. /\ Len(m) + 2 \in Len(m) + 1 .. Len(m) + Len(r)
          /\ Len(m) + Len(r) \in Len(m) + 1 .. Len(m) + Len(r)
      BY <1>1, <2>2
    <3>2. SubSeq(m \o r, Len(m) + 2, Len(m) + Len(r))
            = SubSeq(r, (Len(m) + 2) - Len(m), (Len(m) + Len(r)) - Len(m))
      BY <3>1, SubSeqOfConcat2
    <3>3. (Len(m) + 2) - Len(m) = 2 /\ (Len(m) + Len(r)) - Len(m) = Len(r)  BY <1>1
    <3> QED  BY <3>2, <3>3, TailIsSubSeq
  <2> QED  BY <1>1, <2>1, <2>2
<1>4. SubSeq(m \o r, Len(m) + 2, Len(m \o r)) = Tail(r)
  <2> DEFINE n == Len(m \o r)
  <2>1. n = Len(m) + Len(r)  BY <1>1
  <2> HIDE DEF n
  <2>2. SubSeq(m \o r, Len(m) + 2, n) = Tail(r)  BY <1>3, <2>1
  <2> QED  BY <2>2 DEF n
<1>5. Len(m) + 1 \in 1 .. Len(m \o r)  BY <1>1
<1> QED  BY <1>2, <1>4, <1>5, Zenon

LEMMA Updated ==
  ASSUME NEW S, NEW f, NEW f2, NEW x \in S, NEW v, f = [t \in S |-> f[t]], f2 = [t \in S |-> f2[t]],
         \A t \in S : f2[t] = IF t = x THEN v ELSE f[t]
  PROVE  f2 = [f EXCEPT ![x] = v]
<1>1. [f EXCEPT ![x] = v] = [t \in S |-> IF t = x THEN v ELSE f[t]]  OBVIOUS
<1>2. f2 = [t \in S |-> IF t = x THEN v ELSE f[t]]  OBVIOUS
<1> QED  BY <1>1, <1>2

LEMMA AreFunctions == /\ Members = [t \in Types |-> Members[t]] /\ Members' = [t \in Types |-> Members'[t]]
                      /\ Due = [s \in Subscribers |-> Due[s]] /\ Due' = [s \in Subscribers |-> Due'[s]]
BY DEF Members, Due

LEMMA TopicStutters ==
  ASSUME UNCHANGED requests, Members' = Members, Due' = Due
  PROVE  UNCHANGED T!vars
BY DEF T!vars, Members, Due

(* Whoever leaves the tables and the queues alone leaves Topic alone. *)
LEMMA SameMembers == UNCHANGED tableVars => Members' = Members
BY DEF tableVars, Members, ActorMembers, QueueMembers

LEMMA SameDue == UNCHANGED <<transit, mailbox, queue>> => Due' = Due
BY DEF Due

LEMMA AcceptIsAsk ==
  ASSUME NEW op \in Watches \union Events, Accept(op), Members' = Members, Due' = Due
  PROVE  T!Next
<1>1. T!Ask  BY DEF Accept, T!Ask, Members, Due
<1> QED  BY <1>1 DEF T!Next

LEMMA DueIs ==
  ASSUME TypeOK
  PROVE  /\ \A a \in Actors : Due[a] = mailbox[a] \o transit[a]
         /\ \A q \in Queues : Due[q] = queue[q]
         /\ \A a \in Actors : Due'[a] = mailbox'[a] \o transit'[a]
         /\ \A q \in Queues : Due'[q] = queue'[q]
         /\ \A s \in Subscribers : s \in Actors \/ s \in Queues
BY SubscribersAssumption DEF Due, Subscribers

LEMMA AddIsJoin ==
  ASSUME TypeOK, AddWatcher
  PROVE  T!Next
<1> DEFINE op == Head(requests)
<1>1. /\ requests # <<>> /\ requests' = Tail(requests) /\ op.kind = "watch" /\ context = "running"
      /\ op \in Watches \union Events
      /\ UNCHANGED <<context, actorCaches, transit, mailbox, queue>>
  BY HeadIsTyped DEF AddWatcher, Handles, queueVars
<1>2. op.who \in Subscribers /\ op.type \in Types  BY <1>1, WatchFields
<1>3. \/ op.who \in Actors /\ outerWatcherss' = outerWatcherss
           /\ watcherss' = [watcherss EXCEPT ![op.type] = watcherss[op.type] \union {op.who}]
      \/ watcherss' = watcherss
           /\ outerWatcherss' = [outerWatcherss EXCEPT ![op.type] = outerWatcherss[op.type] \union {op.who}]
  BY DEF AddWatcher
<1> HIDE DEF op
<1>4. Members = [t \in Types |-> watcherss[t] \union outerWatcherss[t]]
  BY <1>1 DEF Members, ActorMembers, QueueMembers
<1>5. Members' = [t \in Types |-> watcherss'[t] \union outerWatcherss'[t]]
  BY <1>1 DEF Members, ActorMembers, QueueMembers
<1>6. \A t \in Types : Members'[t] = IF t = op.type THEN Members[t] \union {op.who} ELSE Members[t]
  <2> SUFFICES ASSUME NEW t \in Types
               PROVE  Members'[t] = IF t = op.type THEN Members[t] \union {op.who} ELSE Members[t]
    OBVIOUS
  <2>1. /\ Members[t] = watcherss[t] \union outerWatcherss[t]
        /\ Members'[t] = watcherss'[t] \union outerWatcherss'[t]
    BY <1>4, <1>5
  <2>2. watcherss \in [Types -> SUBSET Actors] /\ outerWatcherss \in [Types -> SUBSET Queues]
    BY DEF TypeOK, Tables
  <2>3. CASE watcherss' = [watcherss EXCEPT ![op.type] = watcherss[op.type] \union {op.who}]
             /\ outerWatcherss' = outerWatcherss
    BY <2>1, <2>2, <2>3
  <2>4. CASE outerWatcherss' = [outerWatcherss EXCEPT ![op.type] = outerWatcherss[op.type] \union {op.who}]
             /\ watcherss' = watcherss
    BY <2>1, <2>2, <2>4
  <2> QED  BY <1>3, <2>3, <2>4
<1>7. Members' = [Members EXCEPT ![op.type] = Members[op.type] \union {op.who}]
  BY <1>2, <1>6, AreFunctions, Updated
<1>8. T!Join(op)  BY <1>1, <1>7, SameDue DEF T!Join, Members, Due
<1>9. T!Effect  BY <1>1, <1>8 DEF T!Effect, op
<1> QED  BY <1>9 DEF T!Next

LEMMA RemoveIsPart ==
  ASSUME TypeOK, RemoveWatcher
  PROVE  T!Next
<1> DEFINE op == Head(requests)
<1>1. /\ requests # <<>> /\ requests' = Tail(requests) /\ op.kind = "unwatch" /\ context = "running"
      /\ op \in Watches \union Events
      /\ UNCHANGED <<context, actorCaches, transit, mailbox, queue>>
      /\ watcherss' = [watcherss EXCEPT ![op.type] = watcherss[op.type] \ {op.who}]
      /\ outerWatcherss' = [outerWatcherss EXCEPT ![op.type] = outerWatcherss[op.type] \ {op.who}]
  BY HeadIsTyped DEF RemoveWatcher, Handles, queueVars
<1>2. op.who \in Subscribers /\ op.type \in Types  BY <1>1, WatchFields
<1> HIDE DEF op
<1>4. Members = [t \in Types |-> watcherss[t] \union outerWatcherss[t]]
  BY <1>1 DEF Members, ActorMembers, QueueMembers
<1>5. Members' = [t \in Types |-> watcherss'[t] \union outerWatcherss'[t]]
  BY <1>1 DEF Members, ActorMembers, QueueMembers
<1>6. \A t \in Types : Members'[t] = IF t = op.type THEN Members[t] \ {op.who} ELSE Members[t]
  <2> SUFFICES ASSUME NEW t \in Types
               PROVE  Members'[t] = IF t = op.type THEN Members[t] \ {op.who} ELSE Members[t]
    OBVIOUS
  <2>1. /\ Members[t] = watcherss[t] \union outerWatcherss[t]
        /\ Members'[t] = watcherss'[t] \union outerWatcherss'[t]
    BY <1>4, <1>5
  <2>2. watcherss \in [Types -> SUBSET Actors] /\ outerWatcherss \in [Types -> SUBSET Queues]
    BY DEF TypeOK, Tables
  <2>3. /\ watcherss'[t] = IF t = op.type THEN watcherss[t] \ {op.who} ELSE watcherss[t]
        /\ outerWatcherss'[t] = IF t = op.type THEN outerWatcherss[t] \ {op.who} ELSE outerWatcherss[t]
    BY <1>1, <2>2
  <2> QED  BY <2>1, <2>3
<1>7. Members' = [Members EXCEPT ![op.type] = Members[op.type] \ {op.who}]
  BY <1>2, <1>6, AreFunctions, Updated
<1>8. T!Part(op)  BY <1>1, <1>7, SameDue DEF T!Part, Members, Due
<1>9. T!Effect  BY <1>1, <1>8 DEF T!Effect, op
<1> QED  BY <1>9 DEF T!Next

LEMMA DueGrows ==
  ASSUME TypeOK, NEW a \in Actors, NEW e \in Events
  PROVE  mailbox[a] \o Append(transit[a], e) = Append(mailbox[a] \o transit[a], e)
<1>1. mailbox[a] \in Seq(Events) /\ transit[a] \in Seq(Events)  BY DEF TypeOK
<1>2. ASSUME NEW m \in Seq(Events), NEW r \in Seq(Events)
      PROVE  m \o Append(r, e) = Append(m \o r, e)
  BY AppendToBoth
<1>3. \A m, r \in Seq(Events) : m \o Append(r, e) = Append(m \o r, e)
  BY <1>2
<1> QED  BY <1>1, <1>3

(* Who does not get the event is an actor behind a group that refused, or a queue that *)
(* loses this subscription.                                                            *)
LEMMA NotifyIsPublish ==
  ASSUME TypeOK, Notify
  PROVE  T!Next
<1> DEFINE op == Head(requests)
           old == watcherss[op.type]
           outer == outerWatcherss[op.type]
           gone == {q \in outer : ~TakesMore(q)}
<1>1. /\ requests # <<>> /\ requests' = Tail(requests) /\ op.kind = "fire" /\ context = "running"
      /\ UNCHANGED <<context, watcherss, actorCaches, mailbox>>
  BY DEF Notify, Handles
<1>2. op \in Events /\ op.type \in Types  BY <1>1, HeadIsTyped, WatchFields
<1>3. PICK full \in SUBSET (Crowded \intersect {GroupOf[a] : a \in old}) :
        transit' = [a \in Actors |-> IF a \in old /\ GroupOf[a] \notin full
                                     THEN Append(transit[a], op) ELSE transit[a]]
  BY DEF Notify, NotifyActors
<1>4. /\ queue' = [q \in Queues |-> IF q \in outer /\ TakesMore(q) THEN Append(queue[q], op) ELSE queue[q]]
      /\ outerWatcherss' = [outerWatcherss EXCEPT ![op.type] = {q \in outer : TakesMore(q)}]
  BY DEF Notify, NotifyQueues
<1> DEFINE lost == {a \in old : GroupOf[a] \in full}
<1>5. Members = [t \in Types |-> watcherss[t] \union outerWatcherss[t]]
  BY <1>1 DEF Members, ActorMembers, QueueMembers
<1>6. Members' = [t \in Types |-> watcherss'[t] \union outerWatcherss'[t]]
  BY <1>1 DEF Members, ActorMembers, QueueMembers
<1>7. watcherss \in [Types -> SUBSET Actors] /\ outerWatcherss \in [Types -> SUBSET Queues]
  BY DEF TypeOK, Tables
<1> HIDE DEF op
<1>8. /\ old \subseteq Actors /\ outer \subseteq Queues
      /\ Members[op.type] = old \union outer
  BY <1>2, <1>5, <1>7
<1>9. /\ lost \in SUBSET (Members[op.type] \intersect {a \in Actors : GroupOf[a] \in Crowded})
      /\ gone \in SUBSET (Members[op.type] \intersect Queues)
  BY <1>3, <1>8
<1>10. Members' = [Members EXCEPT ![op.type] = Members[op.type] \ gone]
  <2>1. ASSUME NEW t \in Types
        PROVE  Members'[t] = IF t = op.type THEN Members[op.type] \ gone ELSE Members[t]
    <3>1. /\ Members[t] = watcherss[t] \union outerWatcherss[t]
          /\ Members'[t] = watcherss[t] \union outerWatcherss'[t]
      BY <1>1, <1>5, <1>6
    <3>2. outerWatcherss'[t] = IF t = op.type THEN {q \in outer : TakesMore(q)} ELSE outerWatcherss[t]
      BY <1>4, <1>7
    <3>3. CASE t = op.type
      <4>1. Members'[t] = old \union {q \in outer : TakesMore(q)}  BY <3>1, <3>2, <3>3
      <4> HIDE DEF old, outer
      <4>2. \A a \in old : a \notin gone  BY <1>8, SubscribersAssumption
      <4>3. old \union {q \in outer : TakesMore(q)} = (old \union outer) \ gone  BY <4>2
      <4> QED  BY <1>8, <3>3, <4>1, <4>3
    <3>4. CASE t # op.type  BY <3>1, <3>2, <3>4
    <3> QED  BY <3>3, <3>4
  <2> QED  BY <1>2, <2>1, AreFunctions, Updated
<1>11. Due' = [s \in Subscribers |-> IF s \in Members[op.type] \ (lost \union gone)
                                     THEN Append(Due[s], op) ELSE Due[s]]
  <2>1. ASSUME NEW s \in Subscribers
        PROVE  Due'[s] = IF s \in Members[op.type] \ (lost \union gone) THEN Append(Due[s], op) ELSE Due[s]
    <3>1. CASE s \in Actors
      <4>1. /\ Due[s] = mailbox[s] \o transit[s] /\ Due'[s] = mailbox[s] \o transit'[s]
            /\ mailbox[s] \in Seq(Events) /\ transit[s] \in Seq(Events)
        BY <1>1, <3>1, DueIs DEF TypeOK
      <4>2. s \notin Queues  BY <3>1, SubscribersAssumption
      <4>3. s \in Members[op.type] \ (lost \union gone) <=> s \in old /\ GroupOf[s] \notin full
        BY <1>8, <3>1, <4>2
      <4>4. transit'[s] = IF s \in old /\ GroupOf[s] \notin full THEN Append(transit[s], op) ELSE transit[s]
        BY <1>3, <3>1
      <4>5. mailbox[s] \o Append(transit[s], op) = Append(mailbox[s] \o transit[s], op)
        BY <1>2, <3>1, DueGrows
      <4> HIDE DEF old, lost, gone
      <4> QED  BY <4>1, <4>3, <4>4, <4>5
    <3>2. CASE s \in Queues
      <4>1. Due[s] = queue[s] /\ Due'[s] = queue'[s]  BY <3>2, DueIs
      <4>2. s \notin Actors  BY <3>2, SubscribersAssumption
      <4>3. s \in Members[op.type] \ (lost \union gone) <=> s \in outer /\ TakesMore(s)
        BY <1>8, <4>2
      <4>4. queue'[s] = IF s \in outer /\ TakesMore(s) THEN Append(queue[s], op) ELSE queue[s]
        BY <1>4, <3>2
      <4> HIDE DEF outer, lost, gone
      <4> QED  BY <4>1, <4>3, <4>4
    <3> QED  BY <3>1, <3>2, DueIs
  <2> HIDE DEF lost, gone
  <2>2. Due' = [s \in Subscribers |-> Due'[s]]  BY AreFunctions
  <2> QED  BY <2>1, <2>2
<1>12. T!Publish(op)
  <2> HIDE DEF lost, gone
  <2> QED  BY <1>1, <1>9, <1>10, <1>11 DEF T!Publish, Members, Due
<1>13. T!Effect  BY <1>1, <1>12 DEF T!Effect, op
<1> QED  BY <1>13 DEF T!Next

LEMMA TakeIsReceive ==
  ASSUME TypeOK, NEW q \in Queues, OuterTake(q)
  PROVE  T!Next
<1>1. /\ queue[q] # <<>> /\ queue' = [queue EXCEPT ![q] = Tail(queue[q])] /\ Members' = Members
      /\ UNCHANGED <<requests, mailbox, transit>>
  BY SameMembers DEF OuterTake
<1>2. ASSUME NEW s \in Subscribers PROVE Due'[s] = IF s = q THEN Tail(Due[q]) ELSE Due[s]
  <2>1. CASE s \in Actors
    <3>1. s # q  BY <2>1, SubscribersAssumption
    <3> QED  BY <1>1, <2>1, <3>1, DueIs
  <2>2. CASE s \in Queues
    <3>1. queue'[s] = IF s = q THEN Tail(queue[q]) ELSE queue[s]  BY <1>1, <2>2 DEF TypeOK
    <3> QED  BY <2>2, <3>1, DueIs
  <2> QED  BY <2>1, <2>2, DueIs
<1>3. q \in Subscribers  BY DEF Subscribers
<1>4. Due' = [Due EXCEPT ![q] = Tail(Due[q])] /\ Due[q] # <<>>
  BY <1>1, <1>2, <1>3, AreFunctions, Updated, DueIs
<1>5. T!Receive(q)  BY <1>1, <1>4 DEF T!Receive, Members, Due
<1> QED  BY <1>3, <1>5 DEF T!Next

(* What waits for actor a is all that a step of a or its group touches. *)
LEMMA DueOfOne ==
  ASSUME TypeOK, NEW a \in Actors, NEW d, mailbox'[a] \o transit'[a] = d, queue' = queue,
         \A b \in Actors \ {a} : mailbox'[b] = mailbox[b] /\ transit'[b] = transit[b]
  PROVE  Due' = [Due EXCEPT ![a] = d]
<1>1. ASSUME NEW s \in Subscribers PROVE Due'[s] = IF s = a THEN d ELSE Due[s]
  <2>1. CASE s \in Actors  BY <2>1, DueIs
  <2>2. CASE s \in Queues
    <3>1. s # a  BY <2>2, SubscribersAssumption
    <3> QED  BY <2>2, <3>1, DueIs
  <2> QED  BY <2>1, <2>2, DueIs
<1>2. a \in Subscribers  BY DEF Subscribers
<1> QED  BY <1>1, <1>2, AreFunctions, Updated

LEMMA HandleIsReceive ==
  ASSUME TypeOK, NEW a \in Actors, HandleNotify(a)
  PROVE  T!Next
<1>1. /\ mailbox[a] # <<>> /\ mailbox' = [mailbox EXCEPT ![a] = Tail(mailbox[a])] /\ Members' = Members
      /\ UNCHANGED <<requests, queue, transit>>
  BY SameMembers DEF HandleNotify, queueVars
<1>2. mailbox[a] \in Seq(Events) /\ transit[a] \in Seq(Events)  BY DEF TypeOK
<1>3. mailbox'[a] = Tail(mailbox[a]) /\ \A b \in Actors \ {a} : mailbox'[b] = mailbox[b]
  BY <1>1 DEF TypeOK
<1>4. /\ Tail(mailbox[a]) \o transit[a] = Tail(mailbox[a] \o transit[a])
      /\ mailbox[a] \o transit[a] # <<>>
  BY <1>1, <1>2, TailOfBoth
<1>5. Due' = [Due EXCEPT ![a] = Tail(Due[a])] /\ Due[a] # <<>>
  <2>1. mailbox'[a] \o transit'[a] = Tail(Due[a]) /\ Due[a] # <<>>  BY <1>1, <1>3, <1>4, DueIs
  <2>2. \A b \in Actors \ {a} : mailbox'[b] = mailbox[b] /\ transit'[b] = transit[b]
    BY <1>1, <1>3
  <2> QED  BY <1>1, <2>1, <2>2, DueOfOne
<1>6. T!Receive(a)  BY <1>1, <1>5 DEF T!Receive, Members, Due
<1> QED  BY <1>6 DEF T!Next, Subscribers

LEMMA DispatchIsLossOrNothing ==
  ASSUME TypeOK, NEW a \in Actors, Dispatch(a)
  PROVE  T!Next \/ UNCHANGED T!vars
<1>1. /\ transit[a] # <<>> /\ transit' = [transit EXCEPT ![a] = Tail(transit[a])] /\ Members' = Members
      /\ UNCHANGED <<requests, queue>>
      /\ \/ mailbox' = [mailbox EXCEPT ![a] = Append(mailbox[a], Head(transit[a]))]
         \/ GroupOf[a] \in Crowded /\ mailbox' = mailbox
  BY SameMembers DEF Dispatch, queueVars
<1>2. mailbox[a] \in Seq(Events) /\ transit[a] \in Seq(Events)  BY DEF TypeOK
<1>3. transit'[a] = Tail(transit[a]) /\ \A b \in Actors \ {a} : transit'[b] = transit[b]
  BY <1>1 DEF TypeOK
<1>4. CASE mailbox' = [mailbox EXCEPT ![a] = Append(mailbox[a], Head(transit[a]))]
  <2>1. mailbox'[a] = Append(mailbox[a], Head(transit[a])) /\ \A b \in Actors \ {a} : mailbox'[b] = mailbox[b]
    BY <1>4 DEF TypeOK
  <2>2. mailbox'[a] \o transit'[a] = Due[a]
    <3>1. Append(mailbox[a], Head(transit[a])) \o Tail(transit[a]) = mailbox[a] \o transit[a]
      BY <1>1, <1>2, MovesOn
    <3> QED  BY <1>3, <2>1, <3>1, DueIs
  <2>3. Due' = [Due EXCEPT ![a] = Due[a]]  BY <1>1, <1>3, <2>1, <2>2, DueOfOne
  <2>4. Due' = Due  BY <2>3, AreFunctions
  <2> QED  BY <1>1, <2>4, TopicStutters
<1>5. CASE GroupOf[a] \in Crowded /\ mailbox' = mailbox
  <2> DEFINE i == Len(mailbox[a]) + 1
             rest == SubSeq(Due[a], 1, i - 1) \o SubSeq(Due[a], i + 1, Len(Due[a]))
  <2>1. /\ i \in 1 .. Len(mailbox[a] \o transit[a])
        /\ mailbox[a] \o Tail(transit[a])
             = SubSeq(mailbox[a] \o transit[a], 1, Len(mailbox[a]))
                 \o SubSeq(mailbox[a] \o transit[a], Len(mailbox[a]) + 2, Len(mailbox[a] \o transit[a]))
    BY <1>1, <1>2, DropOfBoth
  <2>2. i - 1 = Len(mailbox[a]) /\ i + 1 = Len(mailbox[a]) + 2  BY <1>2
  <2> HIDE DEF i
  <2>3. mailbox'[a] \o transit'[a] = rest /\ i \in 1 .. Len(Due[a])  BY <1>3, <1>5, <2>1, <2>2, DueIs
  <2> HIDE DEF rest
  <2>4. Due' = [Due EXCEPT ![a] = rest]
    <3>1. \A b \in Actors \ {a} : mailbox'[b] = mailbox[b] /\ transit'[b] = transit[b]  BY <1>3, <1>5
    <3> QED  BY <1>1, <2>3, <3>1, DueOfOne
  <2>5. T!Lose(a)  BY <1>1, <1>5, <2>3, <2>4 DEF T!Lose, Members, Due, rest
  <2> QED  BY <2>5 DEF T!Next, Subscribers
<1> QED  BY <1>1, <1>4, <1>5

(* The tables go into the cache and come back as they are. *)
LEMMA RecyclingKeepsMembers ==
  ASSUME TypeOK, Activate \/ Recycle \/ StopReported
  PROVE  UNCHANGED T!vars
<1>1. NeedSaveCache = <<watcherss, outerWatcherss>>
  BY DEF NeedSaveCache, NoCache
<1>2. CASE Activate
  <2>1. Members' = Members  BY <1>2 DEF Activate, Members, ActorMembers, QueueMembers
  <2>2. UNCHANGED <<requests, transit, mailbox, queue>>  BY <1>2 DEF Activate, queueVars
  <2> QED  BY <2>1, <2>2, SameDue, TopicStutters
<1>3. CASE Recycle
  <2>1. Members' = Members  BY <1>3 DEF Recycle, Members, ActorMembers, QueueMembers
  <2>2. UNCHANGED <<requests, transit, mailbox, queue>>  BY <1>3 DEF Recycle, queueVars
  <2> QED  BY <2>1, <2>2, SameDue, TopicStutters
<1>4. CASE StopReported
  <2>1. Members' = Members  BY <1>1, <1>4 DEF StopReported, Members, ActorMembers, QueueMembers
  <2>2. UNCHANGED <<requests, transit, mailbox, queue>>  BY <1>4 DEF StopReported, queueVars
  <2> QED  BY <2>1, <2>2, SameDue, TopicStutters
<1> QED  BY <1>2, <1>3, <1>4

LEMMA StepImplements ==
  ASSUME TypeOK, [Next]_vars
  PROVE  [T!Next]_T!vars
<1> SUFFICES T!Next \/ UNCHANGED T!vars
  OBVIOUS
<1>a. ASSUME UNCHANGED tableVars, UNCHANGED <<requests, transit, mailbox, queue>> PROVE UNCHANGED T!vars
  BY <1>a, SameMembers, SameDue, TopicStutters
<1>b. ASSUME UNCHANGED tableVars, UNCHANGED <<transit, mailbox, queue>>,
             NEW op \in Watches \union Events, Accept(op)
      PROVE  T!Next
  BY <1>b, SameMembers, SameDue, AcceptIsAsk
<1>1. CASE UNCHANGED vars  BY <1>1, <1>a DEF vars, queueVars
<1>2. ASSUME NEW a \in Actors, NEW t \in Types, NEW k \in {"watch", "unwatch"}, Watch(a, t, k)
      PROVE  T!Next
  <2>1. [kind |-> k, who |-> a, type |-> t] \in Watches \union Events  BY DEF Watches, Subscribers
  <2> QED  BY <1>2, <2>1, <1>b DEF Watch, queueVars
<1>3. ASSUME NEW q \in Queues, NEW t \in Types, OuterWatch(q, t) \/ OuterUnwatch(q, t)
      PROVE  T!Next \/ UNCHANGED T!vars
  <2>1. \A k \in {"watch", "unwatch"} : [kind |-> k, who |-> q, type |-> t] \in Watches \union Events
    BY DEF Watches, Subscribers
  <2>2. CASE OuterWatch(q, t)  BY <2>1, <2>2, <1>a, <1>b DEF OuterWatch
  <2>3. CASE OuterUnwatch(q, t)  BY <2>1, <2>3, <1>b DEF OuterUnwatch, queueVars
  <2> QED  BY <1>3, <2>2, <2>3
<1>4. ASSUME NEW t \in Types, Fire(t) PROVE T!Next
  <2>1. [kind |-> "fire", type |-> t, n |-> accepted] \in Watches \union Events
    BY <1>4, NumberAssumption DEF Fire, Accept, Events, TypeOK
  <2> QED  BY <1>4, <2>1, <1>b DEF Fire, queueVars
<1>5. ASSUME NEW q \in Queues, OuterTake(q) \/ OuterClose(q) PROVE T!Next \/ UNCHANGED T!vars
  <2>1. CASE OuterClose(q)  BY <2>1, <1>a DEF OuterClose
  <2> QED  BY <1>5, <2>1, TakeIsReceive
<1>6. CASE Activate \/ Recycle \/ StopReported  BY <1>6, RecyclingKeepsMembers
<1>7. CASE AddWatcher \/ RemoveWatcher \/ Notify
  BY <1>7, AddIsJoin, RemoveIsPart, NotifyIsPublish
<1>8. ASSUME NEW a \in Actors, Dispatch(a) \/ HandleNotify(a) PROVE T!Next \/ UNCHANGED T!vars
  BY <1>8, DispatchIsLossOrNothing, HandleIsReceive
<1> QED  BY <1>1, <1>2, <1>3, <1>4, <1>5, <1>6, <1>7, <1>8 DEF Next, HubStep

(* Subscriptions and events take effect one by one in their order, and every          *)
(* subscriber gets the events of its subscriptions once and in that order, but for    *)
(* those that a full group or mailbox refused; a queue that missed one is no longer   *)
(* subscribed: for any watchers, recycled at any time (the safety part of Topic).      *)
THEOREM WatchingIsTopic == Spec => T!Spec
<1>1. Init => T!Init
  <2> SUFFICES ASSUME Init PROVE T!Init
    OBVIOUS
  <2>1. Members = [t \in Types |-> {}]
    BY DEF Init, Members, ActorMembers, QueueMembers, NoCache, Nobody
  <2>2. Due = [s \in Subscribers |-> <<>>]
    <3>1. \A s \in Subscribers : Due[s] = <<>>
      <4>1. <<>> \o <<>> = <<>>
        <5>1. <<>> \in Seq(Events)  OBVIOUS
        <5> QED  BY <5>1, ConcatEmptySeq
      <4>2. \A a \in Actors : mailbox[a] \o transit[a] = <<>>  BY <4>1 DEF Init
      <4> QED  BY <4>2, DueIs, TypesInit DEF Init
    <3> QED  BY <3>1, AreFunctions
  <2> QED  BY <2>1, <2>2 DEF Init, T!Init, Members, Due
<1>2. TypeOK /\ [Next]_vars => [T!Next]_T!vars  BY StepImplements
<1> QED  BY <1>1, <1>2, TypeCorrect, PTL DEF Spec, T!Spec
================================================================================
