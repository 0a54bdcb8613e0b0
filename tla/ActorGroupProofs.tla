-------------------------- MODULE ActorGroupProofs --------------------------
(***************************************************************************)
(* Theorems about ActorGroup, for every set of groups, actors, envelopes   *)
(* and contexts and every value of the other constants.                    *)
(***************************************************************************)
EXTENDS ActorGroup, FilterProofs, FiniteSetTheorems, TLAPS

-----------------------------------------------------------------------------
(* Sequences: what Append and Tail do to membership and to the places of x. *)

Once(x, q) == \A i, j \in DOMAIN q : q[i] = x /\ q[j] = x => i = j

(* Appending y adds y and nothing else. *)
LEMMA InAppend ==
  ASSUME NEW S, NEW q \in Seq(S), NEW y \in S, NEW x
  PROVE  In(x, Append(q, y)) <=> In(x, q) \/ x = y
  <1> DEFINE n == Len(q)
  <1>1. /\ DOMAIN q = 1 .. n /\ DOMAIN Append(q, y) = 1 .. (n + 1) /\ n \in Nat
        /\ \A i \in 1 .. n : Append(q, y)[i] = q[i]
        /\ Append(q, y)[n + 1] = y
    OBVIOUS
  <1>2. \A i \in 1 .. (n + 1) : i \in 1 .. n \/ i = n + 1
    BY <1>1
  <1>3. n + 1 \in 1 .. (n + 1) /\ 1 .. n \subseteq 1 .. (n + 1)
    BY <1>1
  <1> HIDE DEF n
  <1> QED BY <1>1, <1>2, <1>3, Zenon DEF In

(* Tail only removes, and it keeps what is not the head. *)
LEMMA InTail ==
  ASSUME NEW S, NEW q \in Seq(S), q # <<>>, NEW x
  PROVE  /\ In(x, Tail(q)) => In(x, q)
         /\ In(x, q) => x = Head(q) \/ In(x, Tail(q))
  <1>1. ASSUME In(x, Tail(q)) PROVE In(x, q)
    <2>1. PICK i \in DOMAIN Tail(q) : Tail(q)[i] = x
      BY <1>1 DEF In
    <2>2. i + 1 \in DOMAIN q /\ q[i + 1] = x
      BY <2>1
    <2> QED BY <2>2 DEF In
  <1>2. ASSUME In(x, q), x # Head(q) PROVE In(x, Tail(q))
    <2>1. PICK i \in DOMAIN q : q[i] = x
      BY <1>2 DEF In
    <2>2. i # 1
      BY <2>1, <1>2
    <2>3. i - 1 \in DOMAIN Tail(q) /\ Tail(q)[i - 1] = x
      BY <2>1, <2>2
    <2> QED BY <2>3 DEF In
  <1> QED BY <1>1, <1>2

(* A new element has one place; one that is there keeps its one place. *)
LEMMA OnceAppend ==
  ASSUME NEW S, NEW q \in Seq(S), NEW y \in S, NEW x,
         Once(x, q), x # y \/ ~In(x, q)
  PROVE  Once(x, Append(q, y))
  <1>1. /\ \A i \in DOMAIN Append(q, y) : i \in DOMAIN q \/ i = Len(q) + 1
        /\ \A i \in DOMAIN q : Append(q, y)[i] = q[i]
        /\ Append(q, y)[Len(q) + 1] = y
    OBVIOUS
  <1> QED BY <1>1 DEF Once, In

(* A head that has only one place is not in the tail. *)
LEMMA OnceTail ==
  ASSUME NEW S, NEW q \in Seq(S), q # <<>>, NEW x, Once(x, q)
  PROVE  /\ Once(x, Tail(q))
         /\ x = Head(q) => ~In(x, Tail(q))
  <1>1. ASSUME NEW i \in DOMAIN Tail(q), Tail(q)[i] = x
        PROVE  i + 1 \in DOMAIN q /\ q[i + 1] = x /\ i \in Nat \ {0}
    BY <1>1
  <1>2. Once(x, Tail(q))
    BY <1>1 DEF Once
  <1>3. ASSUME x = Head(q) PROVE ~In(x, Tail(q))
    <2>1. 1 \in DOMAIN q /\ q[1] = x
      BY <1>3
    <2> QED BY <1>1, <2>1 DEF Once, In
  <1> QED BY <1>2, <1>3

-----------------------------------------------------------------------------
(* Contexts *)

(* A new context is one, about to start, with the given owner. *)
LEMMA NewContextType ==
  ASSUME NEW a \in Actors, NEW cache \in SUBSET Watchers
  PROVE  /\ NewContext(a, cache) \in Context
         /\ NewContext(a, cache).phase = "start"
         /\ NewContext(a, cache).owner = a
  BY DEF NewContext, Context, Phases

(* Answers change the count and nothing else; below zero it only gets in a
   context that was shown a request without a sender. *)
LEMMA AnsweredType ==
  ASSUME NEW r \in Context, NEW n \in Int, NEW x \in Answered(r, n)
  PROVE  /\ x \in Context
         /\ x.phase = r.phase /\ x.owner = r.owner
         /\ x.cache = r.cache /\ x.batch = r.batch
  <1>1. r.senderless \in BOOLEAN
    BY DEF Context
  <1>2. Floor(r) \in Int /\ (~r.senderless => Floor(r) = 0)
    BY <1>1, NumberAssumption DEF Floor
  <1>3. PICK k \in Floor(r) .. n : x = [r EXCEPT !.processingRequestCount = k]
    BY DEF Answered
  <1>4. k \in Int /\ (k < 0 => r.senderless)
    BY <1>2, <1>3
  <1> QED BY <1>3, <1>4 DEF Context

(* What is shown to a handler is the context without the head of its batch. *)
LEMMA ShownType ==
  ASSUME NEW c \in Contexts, Consumed(c) \in Context
  PROVE  /\ Shown(c) \in Context
         /\ Shown(c).phase = Consumed(c).phase /\ Shown(c).owner = Consumed(c).owner
         /\ Shown(c).cache = Consumed(c).cache /\ Shown(c).batch = Consumed(c).batch
         /\ Shown(c).stopInterval = Consumed(c).stopInterval
  <1> DEFINE r == Touch(Consumed(c))
             shown == r.senderless \/ Head(ctx[c].batch).kind = "senderless"
  <1>1. /\ r \in Context /\ r.phase = Consumed(c).phase /\ r.owner = Consumed(c).owner
        /\ r.cache = Consumed(c).cache /\ r.batch = Consumed(c).batch
        /\ r.stopInterval = Consumed(c).stopInterval
    BY DEF Touch, Context
  <1>2. Shown(c) = [r EXCEPT !.senderless = shown]
    BY <1>1 DEF Shown, Context
  <1>3. shown \in BOOLEAN /\ (r.senderless => shown)
    OBVIOUS
  <1> HIDE DEF r, shown
  <1> QED BY <1>1, <1>2, <1>3 DEF Context

(* A handler changes neither the phase, the owner nor the watchers of its context. *)
LEMMA HandlerType ==
  ASSUME NEW r \in Context, NEW isRequest,
         NEW q \in ProcessMessage(r, isRequest)
  PROVE  q \in Context /\ q.phase = r.phase /\ q.owner = r.owner /\ q.cache = r.cache
  <1> DEFINE n == r.processingRequestCount + IF isRequest THEN 1 ELSE 0
             Same(x) == /\ x \in Context
                        /\ x.phase = r.phase /\ x.owner = r.owner /\ x.cache = r.cache
  <1>1. n \in Int
    BY DEF Context
  <1>2. ASSUME NEW x \in Answered(r, n) PROVE Same(x)
    BY <1>1, <1>2, AnsweredType
  <1>3. ASSUME NEW x, Same(x) PROVE Same(SelfInvalid(x))
    BY <1>3 DEF SelfInvalid, Context
  <1>4. CASE r.isInvalid
    BY <1>4 DEF ProcessMessage
  <1>5. CASE ~r.isInvalid
    <2>1. q \in HandlerOutcomes(r, n)
      BY <1>5 DEF ProcessMessage
    <2>2. q \in Answered(r, n) \/ \E x \in Answered(r, n) : q = SelfInvalid(x)
      BY <2>1 DEF HandlerOutcomes
    <2> QED BY <2>2, <1>2, <1>3
  <1> QED BY <1>4, <1>5

(* Stop reports are told apart by their actor, and from everything else. *)
LEMMA ItemsDiffer ==
  /\ \A a, b \in Actors : StopReport(a) = StopReport(b) => a = b
  /\ \A a \in Actors : StopReport(a) # Tick /\ StopReport(a) \notin Envelopes
  /\ Tick \notin Envelopes
  BY EnvelopeAssumption DEF StopReport, Tick

-----------------------------------------------------------------------------
(* Types *)

(* Initially every variable has its type: the queues are empty, the contexts dead. *)
LEMMA InitTypes == Init => TypeOK
  <1> SUFFICES ASSUME Init PROVE TypeOK
    OBVIOUS
  <1> DEFINE any == CHOOSE a \in Actors : TRUE
             dead == [NewContext(any, {}) EXCEPT !.phase = "gone"]
  <1>1. any \in Actors
    BY GroupOfAssumption
  <1>2. dead \in Context
    <2> HIDE DEF any
    <2> QED BY <1>1, NewContextType DEF Context, Phases
  <1>3. ctx = [c \in Contexts |-> dead]
    BY DEF Init
  <1>4. wg \in Int
    BY FiniteAssumption, FS_CardinalityType DEF Init
  <1>5. ctx \in [Contexts -> Context]
    <2> HIDE DEF dead
    <2> QED BY <1>2, <1>3
  <1>6. actorContexts \in [Actors -> Contexts \union {NoContext}]
    BY DEF Init
  <1>7. /\ groupMailbox \in [Groups -> Seq(Items)] /\ groupBatch \in [Groups -> Seq(Items)]
        /\ actorMailbox \in [Actors -> Seq(MailboxItems)]
    BY DEF Init
  <1>8. /\ sent \subseteq Envelopes /\ stopped \in BOOLEAN
        /\ groupClosed \in [Groups -> BOOLEAN] /\ groupRunning \in [Groups -> BOOLEAN]
        /\ mailboxClosed \in [Actors -> BOOLEAN]
        /\ actorCaches \in [Actors -> SUBSET Watchers]
    BY DEF Init
  <1> QED BY <1>4, <1>5, <1>6, <1>7, <1>8 DEF TypeOK

(* Stores a context in the table. *)
LEMMA StoreContext ==
  ASSUME ctx \in [Contexts -> Context], NEW c \in Contexts, NEW r \in Context,
         ctx' = [ctx EXCEPT ![c] = r]
  PROVE  ctx' \in [Contexts -> Context]
  OBVIOUS

(* The group goroutine keeps the types. *)
LEMMA GroupTypes ==
  ASSUME TypeOK, NEW g \in Groups, GroupStep(g)
  PROVE  TypeOK'
  <1> USE DEF TypeOK, groupVars, actorVars
  <1>1. CASE GroupDequeue(g)
    BY <1>1 DEF GroupDequeue
  <1>2. CASE GroupExit(g)
    BY <1>2 DEF GroupExit
  <1>3. CASE GroupTick(g)
    <2>1. Tick \in MailboxItems
      BY DEF MailboxItems
    <2>2. actorMailbox' \in [Actors -> Seq(MailboxItems)]
      BY <1>3, <2>1 DEF GroupTick
    <2>3. groupBatch' \in [Groups -> Seq(Items)]
      BY <1>3 DEF GroupTick, NextEnvelope
    <2> QED BY <1>3, <2>2, <2>3 DEF GroupTick
  <1>4. ASSUME NEW a \in Actors,
               Deliver(g, a) \/ ActivateAndDeliver(g, a) \/ DropOverflow(g, a)
                 \/ DropUnregistered(g, a) \/ CreatorPanicsOnEnvelope(g, a)
                 \/ Deactivate(g, a) \/ Reactivate(g, a) \/ CreatorPanicsOnReport(g, a)
        PROVE  TypeOK'
    <2>1. ASSUME NextEnvelope(g) \/ LoseBatch(g), groupBatch[g] # <<>>
          PROVE  groupBatch' \in [Groups -> Seq(Items)]
      <3>1. groupBatch[g] \in Seq(Items) /\ groupBatch[g] # <<>>
        BY <2>1
      <3>2. Tail(groupBatch[g]) \in Seq(Items) /\ <<>> \in Seq(Items)
        BY <3>1
      <3> QED BY <2>1, <3>2 DEF NextEnvelope, LoseBatch
    <2>2. ASSUME AtEnvelope(g, a)
          PROVE  [actorMailbox EXCEPT ![a] = Append(@, Head(groupBatch[g]))]
                   \in [Actors -> Seq(MailboxItems)]
      BY <2>2 DEF AtEnvelope, MailboxItems
    <2>3. ASSUME NEW cache \in SUBSET Watchers, Activate(a, cache)
          PROVE  /\ ctx' \in [Contexts -> Context]
                 /\ actorContexts' \in [Actors -> Contexts \union {NoContext}]
                 /\ wg' \in Int
      BY <2>3, NewContextType, StoreContext DEF Activate
    <2>4. CacheOf(a) \in SUBSET Watchers
      BY DEF CacheOf, Context
    <2>5. CASE Deliver(g, a)
      BY <2>5, <2>1, <2>2 DEF Deliver, AtEnvelope
    <2>6. CASE ActivateAndDeliver(g, a)
      <3>1. actorCaches[a] \in SUBSET Watchers
        OBVIOUS
      <3> QED BY <2>6, <2>1, <2>2, <2>3, <3>1 DEF ActivateAndDeliver, AtEnvelope
    <2>7. CASE DropOverflow(g, a)
      BY <2>7, <2>1 DEF DropOverflow, AtEnvelope
    <2>8. CASE DropUnregistered(g, a)
      BY <2>8, <2>1 DEF DropUnregistered, AtEnvelope
    <2>9. CASE CreatorPanicsOnEnvelope(g, a)
      BY <2>9, <2>1 DEF CreatorPanicsOnEnvelope, AtEnvelope
    <2>10. CASE Deactivate(g, a)
      BY <2>10, <2>1, <2>4 DEF Deactivate, AtStopReport
    <2>11. CASE Reactivate(g, a)
      BY <2>11, <2>1, <2>3, <2>4 DEF Reactivate, AtStopReport
    <2>12. CASE CreatorPanicsOnReport(g, a)
      BY <2>12, <2>1 DEF CreatorPanicsOnReport, AtStopReport
    <2> QED BY <1>4, <2>5, <2>6, <2>7, <2>8, <2>9, <2>10, <2>11, <2>12
  <1> QED BY <1>1, <1>2, <1>3, <1>4 DEF GroupStep, GroupProcess

(* What the goroutine of c makes of its context: the table keeps its type, c
   keeps its owner, it stops being live only by ActorStop, and is gone only by
   ActorDone. *)
LEMMA ActorContextStep ==
  ASSUME TypeOK, NEW c \in Contexts, ActorStep(c) \/ IdleElapses(c)
  PROVE  \E r \in Context :
           /\ ctx' = [ctx EXCEPT ![c] = r]
           /\ r.owner = ctx[c].owner
           /\ (r.phase \in LivePhases <=> ctx[c].phase \in LivePhases) \/ ActorStop(c)
           /\ (r.phase = "gone" <=> ctx[c].phase = "gone") \/ ActorDone(c)
  <1> USE DEF LivePhases
  <1>1. ctx \in [Contexts -> Context] /\ ctx[c] \in Context
    BY DEF TypeOK
  <1>2. CASE ActorStart(c)
    <2> DEFINE r0 == [Touch(ctx[c]) EXCEPT !.phase = "loop",
                        !.tickDisabled = ctx[c].owner \in TickOff]
    <2>1. r0 \in Context /\ r0.phase = "loop" /\ r0.owner = ctx[c].owner
      <3> DEFINE off == ctx[c].owner \in TickOff
      <3>1. off \in BOOLEAN
        OBVIOUS
      <3> HIDE DEF off
      <3>2. [Touch(ctx[c]) EXCEPT !.phase = "loop", !.tickDisabled = off] \in Context
        BY <1>1, <3>1 DEF Touch, Context, Phases
      <3> QED BY <1>1, <3>2 DEF Touch, Context, off
    <2>2. PICK r \in ProcessMessage(r0, FALSE) : ctx' = [ctx EXCEPT ![c] = r]
      BY <1>2 DEF ActorStart
    <2>3. r \in Context /\ r.phase = "loop" /\ r.owner = ctx[c].owner
      <3> HIDE DEF r0
      <3> QED BY <2>1, <2>2, HandlerType
    <2> QED BY <1>2, <2>2, <2>3 DEF ActorStart
  <1>3. CASE ActorDequeue(c)
    <2> DEFINE r == [ctx[c] EXCEPT !.batch = actorMailbox[ctx[c].owner]]
    <2>1. r \in Context /\ r.phase = ctx[c].phase /\ r.owner = ctx[c].owner
      BY <1>1 DEF Context, TypeOK
    <2>2. ctx' = [ctx EXCEPT ![c] = r]
      BY <1>1, <1>3 DEF ActorDequeue
    <2> QED BY <2>1, <2>2
  <1>4. CASE ActorMailboxClosed(c) \/ ActorRecycle(c) \/ ActorStop(c) \/ ActorDone(c)
    <2> DEFINE At(p, b) == [ctx[c] EXCEPT !.phase = p, !.batch = b]
               On(p) == [ctx[c] EXCEPT !.phase = p]
    <2>1. /\ At("stopping", <<>>) \in Context
          /\ At("stopping", <<>>).phase = "stopping"
          /\ At("stopping", <<>>).owner = ctx[c].owner
      <3>1. ASSUME NEW p \in Phases, NEW b \in Seq(MailboxItems)
            PROVE  At(p, b) \in Context /\ At(p, b).phase = p /\ At(p, b).owner = ctx[c].owner
        BY <1>1 DEF Context
      <3>2. "stopping" \in Phases /\ <<>> \in Seq(MailboxItems)
        BY DEF Phases
      <3> HIDE DEF At
      <3> QED BY <3>1, <3>2
    <2>2. ASSUME NEW p \in Phases
          PROVE  On(p) \in Context /\ On(p).phase = p /\ On(p).owner = ctx[c].owner
      BY <1>1 DEF Context
    <2>3. {"stopping", "exit", "gone"} \subseteq Phases
      BY DEF Phases
    <2>4. CASE ActorMailboxClosed(c)
      <3>1. ctx' = [ctx EXCEPT ![c] = On("stopping")]
        BY <1>1, <2>2, <2>3, <2>4 DEF ActorMailboxClosed
      <3>2. ctx[c].phase = "loop"
        BY <2>4 DEF ActorMailboxClosed
      <3> HIDE DEF At, On
      <3> QED BY <2>1, <2>2, <2>3, <3>1, <3>2
    <2>5. CASE ActorRecycle(c)
      <3>1. ctx' = [ctx EXCEPT ![c] = At("stopping", <<>>)]
        BY <1>1, <2>5 DEF ActorRecycle
      <3>2. ctx[c].phase = "loop"
        BY <2>5 DEF ActorRecycle, AtMessage
      <3> HIDE DEF At, On
      <3> QED BY <2>1, <2>2, <2>3, <3>1, <3>2
    <2>6. CASE ActorStop(c)
      <3>1. ctx' = [ctx EXCEPT ![c] = On("exit")]
        BY <1>1, <2>2, <2>3, <2>6 DEF ActorStop
      <3>2. ctx[c].phase = "stopping"
        BY <2>6 DEF ActorStop
      <3> HIDE DEF At, On
      <3> QED BY <2>1, <2>2, <2>3, <2>6, <3>1, <3>2
    <2>7. CASE ActorDone(c)
      <3>1. ctx' = [ctx EXCEPT ![c] = On("gone")]
        BY <1>1, <2>2, <2>3, <2>7 DEF ActorDone
      <3>2. ctx[c].phase = "exit"
        BY <2>7 DEF ActorDone
      <3> HIDE DEF At, On
      <3> QED BY <2>1, <2>2, <2>3, <2>7, <3>1, <3>2
    <2> QED BY <1>4, <2>4, <2>5, <2>6, <2>7
  <1>5. ASSUME AtMessage(c, {"send", "request", "senderless"}) \/ AtMessage(c, {"tick"})
                 \/ AtMessage(c, {"watch", "unwatch"})
        PROVE  /\ Consumed(c) \in Context
               /\ Consumed(c).phase = ctx[c].phase
               /\ Consumed(c).owner = ctx[c].owner
    <2>1. ctx[c].batch \in Seq(MailboxItems) /\ ctx[c].batch # <<>>
      BY <1>1, <1>5 DEF AtMessage, Context
    <2>2. Tail(ctx[c].batch) \in Seq(MailboxItems)
      BY <2>1
    <2> QED BY <1>1, <2>2 DEF Consumed, Context
  <1>6. CASE ActorWatch(c)
    <2> DEFINE e == Head(ctx[c].batch)
               r == [Consumed(c) EXCEPT !.cache = CacheAfter(e, @)]
    <2>1. e \in MailboxItems
      BY <1>1, <1>6 DEF ActorWatch, AtMessage, Context
    <2>2. e.who \in Watchers
      BY <1>6, <2>1, EnvelopeAssumption DEF ActorWatch, AtMessage, MailboxItems, Tick
    <2>3. r \in Context /\ r.phase = ctx[c].phase /\ r.owner = ctx[c].owner
      BY <1>5, <1>6, <2>2 DEF ActorWatch, CacheAfter, Context
    <2> QED BY <1>6, <2>3 DEF ActorWatch
  <1>7. CASE ActorMessage(c)
    <2>1. /\ Shown(c) \in Context
          /\ Shown(c).phase = ctx[c].phase
          /\ Shown(c).owner = ctx[c].owner
      BY <1>5, <1>7, ShownType DEF ActorMessage
    <2>2. PICK r \in ProcessMessage(Shown(c), Head(ctx[c].batch).kind # "send") :
            ctx' = [ctx EXCEPT ![c] = r]
      BY <1>7 DEF ActorMessage
    <2>3. r \in Context /\ r.phase = ctx[c].phase /\ r.owner = ctx[c].owner
      BY <2>1, <2>2, HandlerType
    <2> QED BY <2>2, <2>3
  <1>8. CASE ActorTick(c)
    <2>1. PICK r \in ProcessMessage(Consumed(c), FALSE) : ctx' = [ctx EXCEPT ![c] = r]
      BY <1>8 DEF ActorTick
    <2>2. /\ Consumed(c) \in Context
          /\ Consumed(c).phase = ctx[c].phase
          /\ Consumed(c).owner = ctx[c].owner
      BY <1>5, <1>8 DEF ActorTick
    <2>3. r \in Context /\ r.phase = ctx[c].phase /\ r.owner = ctx[c].owner
      BY <2>1, <2>2, HandlerType
    <2> QED BY <2>1, <2>3
  <1>9. CASE IdleElapses(c)
    <2> DEFINE r == [ctx[c] EXCEPT !.idle = TRUE]
    <2>1. r \in Context /\ r.phase = ctx[c].phase /\ r.owner = ctx[c].owner
      BY <1>1 DEF Context
    <2>2. ctx' = [ctx EXCEPT ![c] = r]
      BY <1>1, <1>9 DEF IdleElapses
    <2> QED BY <2>1, <2>2
  <1> QED BY <1>2, <1>3, <1>4, <1>6, <1>7, <1>8, <1>9 DEF ActorStep

(* The goroutines of actors keep the types, too. *)
LEMMA ActorTypes ==
  ASSUME TypeOK, NEW c \in Contexts, ActorStep(c) \/ IdleElapses(c)
  PROVE  TypeOK'
  <1>1. ctx' \in [Contexts -> Context]
    BY ActorContextStep, StoreContext DEF TypeOK
  <1>2. ctx[c].owner \in Actors /\ GroupOf[ctx[c].owner] \in Groups
    BY GroupOfAssumption DEF TypeOK, Context
  <1>3. /\ UNCHANGED <<sent, stopped, groupClosed, groupBatch, groupRunning, mailboxClosed,
                       actorContexts, actorCaches>>
        /\ wg' \in Int
        /\ groupMailbox' \in [Groups -> Seq(Items)]
        /\ actorMailbox' \in [Actors -> Seq(MailboxItems)]
    <2> USE DEF TypeOK, groupVars, actorVars
    <2>1. CASE ActorStart(c)
      BY <2>1 DEF ActorStart
    <2>2. CASE ActorDequeue(c)
      BY <2>2, <1>2 DEF ActorDequeue
    <2>3. CASE ActorMailboxClosed(c)
      BY <2>3 DEF ActorMailboxClosed
    <2>4. CASE ActorWatch(c)
      BY <2>4 DEF ActorWatch
    <2>5. CASE ActorMessage(c)
      BY <2>5 DEF ActorMessage
    <2>6. CASE ActorTick(c)
      BY <2>6 DEF ActorTick
    <2>7. CASE ActorRecycle(c)
      BY <2>7 DEF ActorRecycle
    <2>8. CASE ActorStop(c)
      <3>1. StopReport(ctx[c].owner) \in Items
        BY <1>2 DEF Items
      <3>2. \A g \in Groups : Append(groupMailbox[g], StopReport(ctx[c].owner)) \in Seq(Items)
        BY <3>1
      <3> QED BY <2>8, <1>2, <3>2 DEF ActorStop
    <2>9. CASE ActorDone(c)
      BY <2>9 DEF ActorDone
    <2>10. CASE IdleElapses(c)
      BY <2>10 DEF IdleElapses
    <2> QED BY <2>1, <2>2, <2>3, <2>4, <2>5, <2>6, <2>7, <2>8, <2>9, <2>10 DEF ActorStep
  <1> QED BY <1>1, <1>3 DEF TypeOK

(* Every step of a group, an actor, a caller, the ticker or Stop keeps the types. *)
LEMMA StepTypes == TypeOK /\ [Next]_vars => TypeOK'
  <1> SUFFICES ASSUME TypeOK, [Next]_vars PROVE TypeOK'
    OBVIOUS
  <1> USE DEF groupVars, actorVars
  <1>1. CASE Stop
    BY <1>1 DEF Stop, TypeOK
  <1>2. ASSUME NEW e \in Envelopes, Accept(e) PROVE TypeOK'
    <2>1. GroupOf[e.to] \in Groups /\ e \in Items
      BY GroupOfAssumption, EnvelopeAssumption DEF Items
    <2> QED BY <1>2, <2>1 DEF Accept, TypeOK
  <1>3. ASSUME NEW g \in Groups, TickerFires(g) PROVE TypeOK'
    <2>1. Tick \in Items
      BY DEF Items
    <2> QED BY <1>3, <2>1 DEF TickerFires, TypeOK
  <1>4. ASSUME NEW g \in Groups, CloseGroup(g) PROVE TypeOK'
    BY <1>4 DEF CloseGroup, TypeOK
  <1>5. CASE UNCHANGED vars
    BY <1>5 DEF vars, TypeOK
  <1> QED BY <1>1, <1>2, <1>3, <1>4, <1>5, GroupTypes, ActorTypes DEF Next

(* Type correctness: in particular the count of open requests stays a natural
   number and stop reports never leave the group queues. *)
THEOREM TypeCorrect == Spec => []TypeOK
  BY InitTypes, StepTypes, PTL DEF Spec

-----------------------------------------------------------------------------
(* One instance per actor.  The table of the group names every live goroutine,
   and an actor is replaced only on its stop report; so there must be no stop
   report around that belongs to a goroutine still alive, nor a second one
   that would hit the successor. *)

Registry ==
  /\ \A a \in Actors : actorContexts[a] # NoContext => ctx[actorContexts[a]].owner = a
  /\ \A c \in Contexts : ctx[c].phase \in LivePhases => actorContexts[ctx[c].owner] = c

Gone(a) == /\ actorContexts[a] # NoContext
           /\ ctx[actorContexts[a]].phase \notin LivePhases

ReportOnce(a) ==
  LET r == StopReport(a)
      g == GroupOf[a]
  IN /\ \A h \in Groups : In(r, groupBatch[h]) \/ In(r, groupMailbox[h]) => h = g
     /\ Once(r, groupBatch[g])
     /\ Once(r, groupMailbox[g])
     /\ ~(In(r, groupBatch[g]) /\ In(r, groupMailbox[g]))

Reports == \A a \in Actors : ReportOnce(a) /\ (ReportPending(a) => Gone(a))

OneInstanceInv == TypeOK /\ Registry /\ Reports

(* A registry that knows every live goroutine has at most one per actor. *)
LEMMA OneInstanceEnough == OneInstanceInv => AtMostOneInstance
  BY DEF OneInstanceInv, Registry, AtMostOneInstance, Instance

(* Initially nothing is registered and no goroutine of an actor lives. *)
LEMMA OneInstanceInit == Init => OneInstanceInv
  <1> SUFFICES ASSUME Init PROVE OneInstanceInv
    OBVIOUS
  <1>1. TypeOK
    BY InitTypes
  <1>2. \A c \in Contexts : ctx[c].phase \notin LivePhases
    <2> DEFINE dead == NewContext(CHOOSE a \in Actors : TRUE, {})
    <2>1. dead \in Context
      <3>1. (CHOOSE a \in Actors : TRUE) \in Actors
        BY GroupOfAssumption
      <3> QED BY <3>1, NewContextType
    <2>2. ctx = [c \in Contexts |-> [dead EXCEPT !.phase = "gone"]]
      BY DEF Init
    <2> HIDE DEF dead
    <2> QED BY <2>1, <2>2 DEF LivePhases, Context
  <1>3. Registry
    BY <1>2 DEF Init, Registry
  <1>4. Reports
    BY GroupOfAssumption DEF Init, Reports, ReportOnce, ReportPending, In, Once
  <1> QED BY <1>1, <1>3, <1>4 DEF OneInstanceInv

(* How the moves of the group queues treat stop reports. *)

ReportsKept == \A a \in Actors : ReportOnce(a)' /\ (ReportPending(a)' => ReportPending(a))

(* Accepting an envelope or a tick. *)
LEMMA QueueAppend ==
  ASSUME TypeOK, Reports, NEW g \in Groups, NEW y \in MailboxItems,
         groupMailbox' = [groupMailbox EXCEPT ![g] = Append(@, y)],
         groupBatch' = groupBatch
  PROVE  ReportsKept
  <1> SUFFICES ASSUME NEW a \in Actors
               PROVE  ReportOnce(a)' /\ (ReportPending(a)' => ReportPending(a))
    BY DEF ReportsKept
  <1> DEFINE r == StopReport(a)
  <1>1. y \in Items /\ r # y
    BY ItemsDiffer DEF MailboxItems, Items
  <1>2. groupMailbox[g] \in Seq(Items) /\ groupMailbox \in [Groups -> Seq(Items)]
    BY DEF TypeOK
  <1>3. groupMailbox'[g] = Append(groupMailbox[g], y)
    BY <1>2
  <1>4. \A h \in Groups : In(r, groupMailbox'[h]) <=> In(r, groupMailbox[h])
    BY <1>1, <1>2, <1>3, InAppend
  <1>5. \A h \in Groups : Once(r, groupMailbox[h]) => Once(r, groupMailbox'[h])
    BY <1>1, <1>2, <1>3, OnceAppend
  <1>6. GroupOf[a] \in Groups
    BY GroupOfAssumption
  <1> QED BY <1>4, <1>5, <1>6 DEF Reports, ReportOnce, ReportPending

(* The group takes its whole entry queue as the next batch. *)
LEMMA QueueDequeue ==
  ASSUME TypeOK, Reports, NEW g \in Groups, groupBatch[g] = <<>>,
         groupBatch' = [groupBatch EXCEPT ![g] = groupMailbox[g]],
         groupMailbox' = [groupMailbox EXCEPT ![g] = <<>>]
  PROVE  ReportsKept
  <1> SUFFICES ASSUME NEW a \in Actors
               PROVE  ReportOnce(a)' /\ (ReportPending(a)' => ReportPending(a))
    BY DEF ReportsKept
  <1> DEFINE r == StopReport(a)
  <1>1. ~In(r, <<>>) /\ Once(r, <<>>)
    BY DEF In, Once
  <1>2. GroupOf[a] \in Groups
    BY GroupOfAssumption
  <1>3. /\ groupBatch'[g] = groupMailbox[g] /\ groupMailbox'[g] = <<>>
        /\ \A h \in Groups \ {g} : /\ groupBatch'[h] = groupBatch[h]
                                   /\ groupMailbox'[h] = groupMailbox[h]
    BY DEF TypeOK
  <1> HIDE DEF r
  <1> QED BY <1>1, <1>2, <1>3 DEF Reports, ReportOnce, ReportPending, r

(* The group moves on; a report it was at is no longer pending. *)
LEMMA QueueNext ==
  ASSUME TypeOK, Reports, NEW g \in Groups, groupBatch[g] # <<>>,
         NextEnvelope(g) \/ LoseBatch(g), groupMailbox' = groupMailbox
  PROVE  /\ ReportsKept
         /\ \A a \in Actors : Head(groupBatch[g]) = StopReport(a) => ~ReportPending(a)'
  <1> SUFFICES ASSUME NEW a \in Actors
               PROVE  /\ ReportOnce(a)'
                      /\ ReportPending(a)' => ReportPending(a)
                      /\ Head(groupBatch[g]) = StopReport(a) => ~ReportPending(a)'
    BY DEF ReportsKept
  <1> DEFINE r == StopReport(a)
             q == groupBatch[g]
  <1>1. q \in Seq(Items) /\ q # <<>>
    BY DEF TypeOK
  <1>2. GroupOf[a] \in Groups /\ ReportOnce(a)
    BY GroupOfAssumption DEF Reports
  <1>3. /\ groupBatch'[g] = Tail(q) \/ groupBatch'[g] = <<>>
        /\ \A h \in Groups \ {g} : groupBatch'[h] = groupBatch[h]
    BY DEF TypeOK, NextEnvelope, LoseBatch
  <1>4. /\ In(r, Tail(q)) => In(r, q)
        /\ Once(r, q) => Once(r, Tail(q))
        /\ Once(r, q) /\ r = Head(q) => ~In(r, Tail(q))
    <2> HIDE DEF r, q
    <2> QED BY <1>1, InTail, OnceTail
  <1>5. ~In(r, <<>>) /\ Once(r, <<>>)
    BY DEF In, Once
  <1>6. r = Head(q) => In(r, q)
    <2>1. 1 \in DOMAIN q /\ q[1] = Head(q)
      BY <1>1
    <2> QED BY <2>1 DEF In
  <1>7. Once(r, q) /\ r = Head(q) => ~In(r, groupBatch'[g])
    BY <1>3, <1>4, <1>5
  <1> HIDE DEF r, q
  <1>8. ReportOnce(a)' /\ (ReportPending(a)' => ReportPending(a))
    BY <1>2, <1>3, <1>4, <1>5 DEF ReportOnce, ReportPending, r, q
  <1>9. r = Head(q) => ~ReportPending(a)'
    BY <1>2, <1>6, <1>7 DEF ReportOnce, ReportPending, r, q
  <1> QED BY <1>8, <1>9 DEF r, q

(* An actor reports once. *)
LEMMA QueueReport ==
  ASSUME TypeOK, Reports, NEW b \in Actors, ~ReportPending(b),
         groupMailbox' = [groupMailbox EXCEPT ![GroupOf[b]] = Append(@, StopReport(b))],
         groupBatch' = groupBatch
  PROVE  \A a \in Actors : ReportOnce(a)' /\ (ReportPending(a)' => ReportPending(a) \/ a = b)
  <1> SUFFICES ASSUME NEW a \in Actors
               PROVE  ReportOnce(a)' /\ (ReportPending(a)' => ReportPending(a) \/ a = b)
    OBVIOUS
  <1> DEFINE r == StopReport(a)
             y == StopReport(b)
             g == GroupOf[b]
  <1>1. y \in Items /\ (r = y => a = b)
    BY ItemsDiffer DEF Items
  <1>2. g \in Groups /\ GroupOf[a] \in Groups /\ ReportOnce(a) /\ ReportOnce(b)
    BY GroupOfAssumption DEF Reports
  <1>3. groupMailbox[g] \in Seq(Items)
    BY <1>2 DEF TypeOK
  <1>4. /\ groupMailbox'[g] = Append(groupMailbox[g], y)
        /\ \A h \in Groups \ {g} : groupMailbox'[h] = groupMailbox[h]
    BY <1>2 DEF TypeOK
  <1>5. In(r, groupMailbox'[g]) <=> In(r, groupMailbox[g]) \/ r = y
    BY <1>1, <1>3, <1>4, InAppend
  <1>6. ~In(y, groupBatch[g]) /\ ~In(y, groupMailbox[g])
    BY DEF ReportPending
  <1>7. Once(r, groupMailbox[g]) => Once(r, groupMailbox'[g])
    BY <1>1, <1>3, <1>4, <1>6, OnceAppend
  <1>8. \A h \in Groups : In(y, groupBatch[h]) \/ In(y, groupMailbox[h]) => h = g
    BY <1>2 DEF ReportOnce
  <1> HIDE DEF r, y, g
  <1> QED BY <1>1, <1>2, <1>4, <1>5, <1>6, <1>7, <1>8 DEF ReportOnce, ReportPending, r, y, g

(* The group's table and the contexts stay as they are. *)
LEMMA TablesUntouched ==
  ASSUME OneInstanceInv, ReportsKept, UNCHANGED <<actorContexts, ctx>>
  PROVE  Registry' /\ Reports'
  BY DEF OneInstanceInv, ReportsKept, Registry, Reports, Gone

(* A new instance enters the table in the place of none or of a dead one. *)
LEMMA Activation ==
  ASSUME OneInstanceInv, ReportsKept, NEW a \in Actors, NEW cache \in SUBSET Watchers,
         Activate(a, cache), actorContexts[a] = NoContext \/ Gone(a), ~ReportPending(a)'
  PROVE  Registry' /\ Reports'
  <1>1. PICK c \in Contexts : /\ Free(c)
                              /\ ctx' = [ctx EXCEPT ![c] = NewContext(a, cache)]
                              /\ actorContexts' = [actorContexts EXCEPT ![a] = c]
    BY DEF Activate
  <1>2. /\ actorContexts'[a] = c
        /\ \A b \in Actors \ {a} : /\ actorContexts'[b] = actorContexts[b]
                                  /\ actorContexts[b] # c
    BY <1>1 DEF OneInstanceInv, TypeOK, Free
  <1>3. /\ ctx'[c].owner = a /\ ctx'[c].phase = "start"
        /\ \A d \in Contexts \ {c} : ctx'[d] = ctx[d]
    BY <1>1, NewContextType DEF OneInstanceInv, TypeOK
  <1>4. /\ actorContexts \in [Actors -> Contexts \union {NoContext}]
        /\ \A d \in Contexts : ctx[d].owner \in Actors
    BY DEF OneInstanceInv, TypeOK, Context
  <1>5. Registry'
    <2>1. ASSUME NEW b \in Actors, actorContexts'[b] # NoContext
          PROVE  ctx'[actorContexts'[b]].owner = b
      <3>1. CASE b = a
        BY <3>1, <1>2, <1>3
      <3>2. CASE b # a
        BY <3>2, <2>1, <1>2, <1>3, <1>4 DEF OneInstanceInv, Registry
      <3> QED BY <3>1, <3>2
    <2>2. ASSUME NEW d \in Contexts, ctx'[d].phase \in LivePhases
          PROVE  actorContexts'[ctx'[d].owner] = d
      <3>1. CASE d = c
        BY <3>1, <1>2, <1>3
      <3>2. CASE d # c
        <4>1. ctx[d].phase \in LivePhases /\ actorContexts[ctx[d].owner] = d
          BY <3>2, <2>2, <1>3 DEF OneInstanceInv, Registry
        <4>2. ctx[d].owner # a
          BY <4>1, ContextAssumption DEF Gone
        <4> QED BY <3>2, <4>1, <4>2, <1>2, <1>3, <1>4
      <3> QED BY <3>1, <3>2
    <2> QED BY <2>1, <2>2 DEF Registry
  <1>6. ASSUME NEW b \in Actors PROVE ReportOnce(b)' /\ (ReportPending(b)' => Gone(b)')
    <2>1. ReportOnce(b)' /\ (ReportPending(b)' => ReportPending(b) /\ Gone(b) /\ b # a)
      BY DEF ReportsKept, OneInstanceInv, Reports
    <2>2. b # a /\ Gone(b) => Gone(b)'
      BY <1>2, <1>3, <1>4 DEF Gone
    <2> QED BY <2>1, <2>2
  <1> QED BY <1>5, <1>6 DEF Reports

(* A dead instance leaves the table. *)
LEMMA Deregistration ==
  ASSUME OneInstanceInv, ReportsKept, NEW a \in Actors, UNCHANGED ctx,
         actorContexts' = [actorContexts EXCEPT ![a] = NoContext],
         Gone(a), ~ReportPending(a)'
  PROVE  Registry' /\ Reports'
  <1>1. /\ actorContexts'[a] = NoContext
        /\ \A b \in Actors \ {a} : actorContexts'[b] = actorContexts[b]
    BY DEF OneInstanceInv, TypeOK
  <1>2. \A d \in Contexts : ctx[d].owner \in Actors
    BY DEF OneInstanceInv, TypeOK, Context
  <1>3. Registry'
    <2>1. \A b \in Actors : actorContexts'[b] # NoContext => ctx[actorContexts'[b]].owner = b
      BY <1>1 DEF OneInstanceInv, Registry
    <2>2. \A d \in Contexts : ctx[d].phase \in LivePhases => actorContexts'[ctx[d].owner] = d
      BY <1>1, <1>2 DEF OneInstanceInv, Registry, Gone
    <2> QED BY <2>1, <2>2 DEF Registry
  <1>4. Reports'
    BY <1>1 DEF OneInstanceInv, Reports, ReportsKept, Gone
  <1> QED BY <1>3, <1>4

(* The group goroutine keeps the invariant. *)
LEMMA OneInstanceGroup ==
  ASSUME OneInstanceInv, NEW g \in Groups, GroupStep(g)
  PROVE  Registry' /\ Reports'
  <1>0. TypeOK /\ Reports
    BY DEF OneInstanceInv
  <1>1. CASE GroupDequeue(g)
    BY <1>0, <1>1, QueueDequeue, TablesUntouched DEF GroupDequeue, actorVars
  <1>2. CASE GroupExit(g)
    <2>1. ReportsKept
      BY <1>0, <1>2 DEF GroupExit, ReportsKept, Reports, ReportOnce, ReportPending
    <2> QED BY <2>1, <1>2, TablesUntouched DEF GroupExit
  <1>3. CASE GroupTick(g)
    BY <1>0, <1>3, QueueNext, TablesUntouched DEF GroupTick
  <1>4. ASSUME NEW a \in Actors, AtEnvelope(g, a),
               NextEnvelope(g) \/ LoseBatch(g), UNCHANGED groupMailbox,
               UNCHANGED <<actorContexts, ctx>>
                 \/ (actorContexts[a] = NoContext /\ Activate(a, actorCaches[a]))
        PROVE  Registry' /\ Reports'
    <2>1. ReportsKept
      BY <1>0, <1>4, QueueNext DEF AtEnvelope
    <2>2. CASE actorContexts[a] = NoContext /\ Activate(a, actorCaches[a])
      <3>1. ~ReportPending(a)'
        BY <2>1, <2>2, <1>0 DEF ReportsKept, Reports, Gone
      <3>2. actorCaches[a] \in SUBSET Watchers
        BY <1>0 DEF TypeOK
      <3> QED BY <2>1, <2>2, <3>1, <3>2, Activation
    <2> QED BY <1>4, <2>1, <2>2, TablesUntouched
  <1>5. ASSUME NEW a \in Actors, AtStopReport(g, a),
               NextEnvelope(g) \/ LoseBatch(g), UNCHANGED groupMailbox,
               \/ UNCHANGED ctx /\ actorContexts' = [actorContexts EXCEPT ![a] = NoContext]
               \/ Activate(a, CacheOf(a))
        PROVE  Registry' /\ Reports'
    <2>1. ReportsKept /\ ~ReportPending(a)'
      BY <1>0, <1>5, QueueNext DEF AtStopReport
    <2>2. ReportPending(a)
      <3>1. groupBatch[g] \in Seq(Items) /\ groupBatch[g] # <<>>
        BY <1>0, <1>5 DEF TypeOK, AtStopReport
      <3>2. 1 \in DOMAIN groupBatch[g] /\ groupBatch[g][1] = StopReport(a)
        BY <3>1, <1>5 DEF AtStopReport
      <3> QED BY <1>0, <3>2 DEF In, Reports, ReportOnce, ReportPending
    <2>3. Gone(a)
      BY <2>2, <1>0 DEF Reports
    <2>4. CASE Activate(a, CacheOf(a))
      <3>1. CacheOf(a) \in SUBSET Watchers
        BY <1>0 DEF CacheOf, TypeOK, Context
      <3> QED BY <2>1, <2>3, <2>4, <3>1, Activation
    <2> QED BY <1>5, <2>1, <2>3, <2>4, Deregistration
  <1>6. ASSUME NEW a \in Actors,
               Deliver(g, a) \/ ActivateAndDeliver(g, a) \/ DropOverflow(g, a)
                 \/ DropUnregistered(g, a) \/ CreatorPanicsOnEnvelope(g, a)
        PROVE  Registry' /\ Reports'
    BY <1>4, <1>6 DEF Deliver, ActivateAndDeliver, DropOverflow, DropUnregistered,
                      CreatorPanicsOnEnvelope, actorVars
  <1>7. ASSUME NEW a \in Actors,
               Deactivate(g, a) \/ Reactivate(g, a) \/ CreatorPanicsOnReport(g, a)
        PROVE  Registry' /\ Reports'
    BY <1>5, <1>7 DEF Deactivate, Reactivate, CreatorPanicsOnReport
  <1> QED BY <1>1, <1>2, <1>3, <1>6, <1>7 DEF GroupStep, GroupProcess

(* So does every goroutine of an actor: it reports as it stops being live. *)
LEMMA OneInstanceActor ==
  ASSUME OneInstanceInv, NEW c \in Contexts, ActorStep(c) \/ IdleElapses(c)
  PROVE  Registry' /\ Reports'
  <1>0. TypeOK /\ Registry /\ Reports
    BY DEF OneInstanceInv
  <1>1. PICK r \in Context :
          /\ ctx' = [ctx EXCEPT ![c] = r]
          /\ r.owner = ctx[c].owner
          /\ (r.phase \in LivePhases <=> ctx[c].phase \in LivePhases) \/ ActorStop(c)
    BY <1>0, ActorContextStep
  <1>2. ctx'[c] = r /\ \A d \in Contexts \ {c} : ctx'[d] = ctx[d]
    BY <1>0, <1>1 DEF TypeOK
  <1>3. actorContexts' = actorContexts
    BY DEF ActorStep, ActorStart, ActorDequeue, ActorMailboxClosed, ActorWatch, ActorMessage,
           ActorTick, ActorRecycle, ActorStop, ActorDone, IdleElapses, actorVars
  <1>4. actorContexts \in [Actors -> Contexts \union {NoContext}]
    BY <1>0 DEF TypeOK
  <1>5. CASE ~ActorStop(c)
    <2>1. UNCHANGED <<groupBatch, groupMailbox>>
      BY <1>5 DEF ActorStep, ActorStart, ActorDequeue, ActorMailboxClosed, ActorWatch,
                  ActorMessage, ActorTick, ActorRecycle, ActorDone, IdleElapses, groupVars
    <2>2. ASSUME NEW d \in Contexts
          PROVE  /\ ctx'[d].owner = ctx[d].owner
                 /\ ctx'[d].phase \in LivePhases <=> ctx[d].phase \in LivePhases
      BY <1>1, <1>2, <1>5
    <2>3. Registry'
      <3>1. ASSUME NEW a \in Actors, actorContexts'[a] # NoContext
            PROVE  ctx'[actorContexts'[a]].owner = a
        <4>1. actorContexts[a] \in Contexts /\ ctx[actorContexts[a]].owner = a
          BY <1>0, <1>3, <1>4, <3>1 DEF Registry
        <4>2. ctx'[actorContexts[a]].owner = a
          BY <2>2, <4>1
        <4> QED BY <1>3, <4>2
      <3>2. ASSUME NEW d \in Contexts, ctx'[d].phase \in LivePhases
            PROVE  actorContexts'[ctx'[d].owner] = d
        <4>1. ctx[d].phase \in LivePhases /\ ctx'[d].owner = ctx[d].owner
          BY <2>2, <3>2
        <4> QED BY <1>0, <1>3, <4>1 DEF Registry
      <3> QED BY <3>1, <3>2 DEF Registry
    <2>4. ASSUME NEW a \in Actors PROVE Gone(a) <=> Gone(a)'
      <3>1. actorContexts'[a] = actorContexts[a]
        BY <1>3
      <3>2. CASE actorContexts[a] = NoContext
        BY <3>1, <3>2 DEF Gone
      <3>3. CASE actorContexts[a] \in Contexts
        <4>1. ctx'[actorContexts[a]].phase \in LivePhases
                <=> ctx[actorContexts[a]].phase \in LivePhases
          BY <2>2, <3>3
        <4> QED BY <3>1, <4>1 DEF Gone
      <3> QED BY <1>4, <3>2, <3>3
    <2>5. Reports'
      BY <1>0, <2>1, <2>4 DEF Reports, ReportOnce, ReportPending
    <2> QED BY <2>3, <2>5
  <1>6. CASE ActorStop(c)
    <2>0. PICK b \in Actors : b = ctx[c].owner
      BY <1>0 DEF TypeOK, Context
    <2>1. /\ ctx[c].phase = "stopping" /\ ctx'[c].phase = "exit"
          /\ ctx'[c].owner = b /\ b \in Actors
      BY <1>0, <1>1, <1>2, <1>6, <2>0 DEF ActorStop, TypeOK, Context
    <2>2. actorContexts[b] = c /\ ~ReportPending(b)
      BY <1>0, <2>0, <2>1 DEF Registry, Reports, Gone, LivePhases
    <2>3. \A a \in Actors : ReportOnce(a)' /\ (ReportPending(a)' => ReportPending(a) \/ a = b)
      <3>1. groupBatch' = groupBatch
        BY <1>6 DEF ActorStop
      <3>2. CASE groupClosed[GroupOf[b]]
        <4>1. groupMailbox' = groupMailbox
          BY <1>0, <1>6, <2>0, <3>2, <2>1, GroupOfAssumption DEF ActorStop, TypeOK
        <4> QED BY <1>0, <3>1, <4>1 DEF Reports, ReportOnce, ReportPending
      <3>3. CASE ~groupClosed[GroupOf[b]]
        <4>1. groupMailbox' = [groupMailbox EXCEPT ![GroupOf[b]] = Append(@, StopReport(b))]
          BY <1>6, <2>0, <3>3 DEF ActorStop
        <4> QED BY <1>0, <2>1, <2>2, <3>1, <4>1, QueueReport
      <3> QED BY <3>2, <3>3
    <2>4. Registry'
      <3>1. ASSUME NEW d \in Contexts
            PROVE  /\ ctx'[d].owner = ctx[d].owner
                   /\ ctx'[d].phase \in LivePhases => ctx[d].phase \in LivePhases
        BY <1>2, <2>0, <2>1 DEF LivePhases
      <3>2. ASSUME NEW a \in Actors, actorContexts'[a] # NoContext
            PROVE  ctx'[actorContexts'[a]].owner = a
        <4>1. actorContexts[a] \in Contexts /\ ctx[actorContexts[a]].owner = a
          BY <1>0, <1>3, <1>4, <3>2 DEF Registry
        <4>2. ctx'[actorContexts[a]].owner = a
          BY <3>1, <4>1
        <4> QED BY <1>3, <4>2
      <3>3. ASSUME NEW d \in Contexts, ctx'[d].phase \in LivePhases
            PROVE  actorContexts'[ctx'[d].owner] = d
        <4>1. ctx[d].phase \in LivePhases /\ ctx'[d].owner = ctx[d].owner
          BY <3>1, <3>3
        <4> QED BY <1>0, <1>3, <4>1 DEF Registry
      <3> QED BY <3>2, <3>3 DEF Registry
    <2>5. \A a \in Actors : Gone(a) \/ a = b => Gone(a)'
      <3>1. \A d \in Contexts : ctx'[d].phase \in LivePhases => ctx[d].phase \in LivePhases
        BY <1>2, <2>1 DEF LivePhases
      <3>2. Gone(b)'
        BY <1>3, <2>1, <2>2, ContextAssumption DEF Gone, LivePhases
      <3>3. ASSUME NEW a \in Actors, Gone(a) PROVE Gone(a)'
        <4>1. actorContexts[a] \in Contexts /\ actorContexts'[a] = actorContexts[a]
          BY <1>3, <1>4, <3>3 DEF Gone
        <4> QED BY <3>1, <3>3, <4>1 DEF Gone
      <3> QED BY <3>2, <3>3
    <2>6. Reports'
      BY <1>0, <2>3, <2>5 DEF Reports
    <2> QED BY <2>4, <2>6
  <1> QED BY <1>5, <1>6

(* Every step keeps the registry right: only the group registers, and only where
   no live goroutine is left. *)
LEMMA OneInstanceStep == OneInstanceInv /\ [Next]_vars => OneInstanceInv'
  <1> SUFFICES ASSUME OneInstanceInv, [Next]_vars PROVE OneInstanceInv'
    OBVIOUS
  <1>0. TypeOK /\ Reports /\ TypeOK'
    BY StepTypes DEF OneInstanceInv
  <1> SUFFICES Registry' /\ Reports'
    BY <1>0 DEF OneInstanceInv
  <1>1. CASE Stop
    <2>1. ReportsKept
      BY <1>0, <1>1 DEF Stop, groupVars, ReportsKept, Reports, ReportOnce, ReportPending
    <2> QED BY <2>1, <1>1, TablesUntouched DEF Stop, actorVars
  <1>2. ASSUME NEW e \in Envelopes, Accept(e) PROVE Registry' /\ Reports'
    <2>1. GroupOf[e.to] \in Groups /\ e \in MailboxItems
      BY GroupOfAssumption, EnvelopeAssumption DEF MailboxItems
    <2>2. ReportsKept
      BY <1>0, <1>2, <2>1, QueueAppend DEF Accept
    <2> QED BY <2>2, <1>2, TablesUntouched DEF Accept, actorVars
  <1>3. ASSUME NEW g \in Groups, TickerFires(g) PROVE Registry' /\ Reports'
    <2>1. Tick \in MailboxItems
      BY DEF MailboxItems
    <2>2. ReportsKept
      BY <1>0, <1>3, <2>1, QueueAppend DEF TickerFires
    <2> QED BY <2>2, <1>3, TablesUntouched DEF TickerFires, actorVars
  <1>4. ASSUME NEW g \in Groups, CloseGroup(g) PROVE Registry' /\ Reports'
    <2>1. ReportsKept
      BY <1>0, <1>4 DEF CloseGroup, ReportsKept, Reports, ReportOnce, ReportPending
    <2> QED BY <2>1, <1>4, TablesUntouched DEF CloseGroup, actorVars
  <1>5. CASE UNCHANGED vars
    <2>1. ReportsKept
      BY <1>0, <1>5 DEF vars, groupVars, ReportsKept, Reports, ReportOnce, ReportPending
    <2> QED BY <2>1, <1>5, TablesUntouched DEF vars, actorVars
  <1> QED BY <1>1, <1>2, <1>3, <1>4, <1>5, OneInstanceGroup, OneInstanceActor DEF Next

(* Two goroutines never run code of the same actor, whatever the traffic, the
   ticks, panicking creators and Stop. *)
THEOREM OneInstance == Spec => []AtMostOneInstance
  BY OneInstanceInit, OneInstanceStep, OneInstanceEnough, PTL DEF Spec

-----------------------------------------------------------------------------
(* No stranded envelopes, when creators do not panic.  A mailbox with something
   in it has a registered context, and a registered context is served. *)

MailboxOwned == \A a \in Actors : actorMailbox[a] # <<>> => actorContexts[a] # NoContext
ServedInv == MailboxOwned /\ RegisteredServed

(* A pending report stays pending until the group is at it. *)
LEMMA PendingStays ==
  ASSUME TypeOK, NEW g \in Groups, NEW a \in Actors, ReportPending(a),
         \/ /\ \E y \in Items : groupMailbox' = [groupMailbox EXCEPT ![g] = Append(@, y)]
            /\ groupBatch' = groupBatch
         \/ /\ groupBatch[g] = <<>>
            /\ groupBatch' = [groupBatch EXCEPT ![g] = groupMailbox[g]]
            /\ groupMailbox' = [groupMailbox EXCEPT ![g] = <<>>]
         \/ /\ groupBatch[g] # <<>> /\ Head(groupBatch[g]) # StopReport(a)
            /\ NextEnvelope(g)
            /\ groupMailbox' = groupMailbox
  PROVE  ReportPending(a)'
  <1> DEFINE r == StopReport(a)
             h == GroupOf[a]
  <1>1. h \in Groups /\ groupBatch[g] \in Seq(Items) /\ groupMailbox[g] \in Seq(Items)
    BY GroupOfAssumption DEF TypeOK
  <1>2. CASE /\ \E y \in Items : groupMailbox' = [groupMailbox EXCEPT ![g] = Append(@, y)]
             /\ groupBatch' = groupBatch
    <2>1. PICK y \in Items : groupMailbox' = [groupMailbox EXCEPT ![g] = Append(@, y)]
      BY <1>2
    <2>2. /\ groupMailbox'[g] = Append(groupMailbox[g], y)
          /\ \A k \in Groups \ {g} : groupMailbox'[k] = groupMailbox[k]
      BY <2>1 DEF TypeOK
    <2>3. In(r, groupMailbox[g]) => In(r, groupMailbox'[g])
      BY <1>1, <2>2, InAppend
    <2> HIDE DEF r, h
    <2> QED BY <1>1, <1>2, <2>2, <2>3 DEF ReportPending, r, h
  <1>3. CASE /\ groupBatch[g] = <<>>
             /\ groupBatch' = [groupBatch EXCEPT ![g] = groupMailbox[g]]
             /\ groupMailbox' = [groupMailbox EXCEPT ![g] = <<>>]
    <2>1. /\ groupBatch'[g] = groupMailbox[g]
          /\ \A k \in Groups \ {g} : /\ groupBatch'[k] = groupBatch[k]
                                    /\ groupMailbox'[k] = groupMailbox[k]
      BY <1>3 DEF TypeOK
    <2>2. ~In(r, <<>>)
      BY DEF In
    <2> HIDE DEF r, h
    <2> QED BY <1>1, <1>3, <2>1, <2>2 DEF ReportPending, r, h
  <1>4. CASE /\ groupBatch[g] # <<>> /\ Head(groupBatch[g]) # StopReport(a)
             /\ NextEnvelope(g)
             /\ groupMailbox' = groupMailbox
    <2>1. /\ groupBatch'[g] = Tail(groupBatch[g])
          /\ \A k \in Groups \ {g} : groupBatch'[k] = groupBatch[k]
      BY <1>4 DEF TypeOK, NextEnvelope
    <2>2. In(r, groupBatch[g]) => In(r, Tail(groupBatch[g]))
      <3> HIDE DEF r
      <3> QED BY <1>1, <1>4, InTail DEF r
    <2> HIDE DEF r, h
    <2> QED BY <1>1, <1>4, <2>1, <2>2 DEF ReportPending, r, h
  <1> QED BY <1>2, <1>3, <1>4

(* One actor's part of the invariant. *)
ServedActor(a) ==
  /\ actorMailbox[a] # <<>> => actorContexts[a] # NoContext
  /\ actorContexts[a] # NoContext =>
       \/ Instance(actorContexts[a], a)
       \/ ReportPending(a)
       \/ groupClosed[GroupOf[a]]

(* The group goroutine serves every actor it registers. *)
LEMMA ServedGroup ==
  ASSUME PanicCreators = {}, OneInstanceInv, OneInstanceInv', ServedInv,
         NEW g \in Groups, GroupStep(g), NEW a \in Actors
  PROVE  ServedActor(a)'
  <1>0. TypeOK /\ Registry /\ Reports /\ ServedActor(a)
    BY DEF OneInstanceInv, ServedInv, MailboxOwned, RegisteredServed, ServedActor
  <1>1. CASE GroupDequeue(g)
    <2>1. ReportPending(a) => ReportPending(a)'
      BY <1>0, <1>1, PendingStays DEF GroupDequeue
    <2> QED BY <1>0, <1>1, <2>1 DEF GroupDequeue, actorVars, ServedActor, Instance
  <1>2. CASE GroupExit(g)
    BY <1>0, <1>2 DEF GroupExit, ServedActor, Instance, ReportPending
  <1>3. CASE GroupTick(g)
    <2>1. ReportPending(a) => ReportPending(a)'
      BY <1>0, <1>3, PendingStays, ItemsDiffer DEF GroupTick
    <2>2. actorMailbox'[a] = actorMailbox[a] \/ actorContexts[a] # NoContext
      BY <1>3 DEF GroupTick
    <2> QED BY <1>0, <1>3, <2>1, <2>2 DEF GroupTick, ServedActor, Instance
  <1>4. ASSUME NEW b \in Actors, NextEnvelope(g), groupMailbox' = groupMailbox,
               AtEnvelope(g, b) \/ AtStopReport(g, b), b # a,
               actorContexts'[a] = actorContexts[a], groupClosed' = groupClosed,
               actorMailbox'[a] = actorMailbox[a],
               actorContexts[a] # NoContext => ctx'[actorContexts[a]] = ctx[actorContexts[a]]
        PROVE  ServedActor(a)'
    <2>1. groupBatch[g] # <<>> /\ Head(groupBatch[g]) # StopReport(a)
      BY <1>4, ItemsDiffer DEF AtEnvelope, AtStopReport
    <2>2. ReportPending(a) => ReportPending(a)'
      BY <1>0, <1>4, <2>1, PendingStays
    <2> QED BY <1>0, <1>4, <2>2 DEF ServedActor, Instance
  <1>5. ASSUME NEW b \in Actors, NEW cache \in SUBSET Watchers, Activate(b, cache)
        PROVE  /\ actorContexts'[b] # NoContext
               /\ Instance(actorContexts[b], b)'
               /\ b # a => actorContexts'[a] = actorContexts[a]
               /\ b # a /\ actorContexts[a] # NoContext =>
                    ctx'[actorContexts[a]] = ctx[actorContexts[a]]
    <2>1. PICK c \in Contexts : /\ Free(c)
                                /\ ctx' = [ctx EXCEPT ![c] = NewContext(b, cache)]
                                /\ actorContexts' = [actorContexts EXCEPT ![b] = c]
      BY <1>5 DEF Activate
    <2>2. actorContexts'[b] = c /\ ctx'[c] = NewContext(b, cache)
      BY <1>0, <2>1 DEF TypeOK
    <2>3. actorContexts'[b] # NoContext /\ Instance(actorContexts[b], b)'
      BY <2>2, NewContextType, ContextAssumption DEF Instance, LivePhases
    <2>4. /\ b # a => actorContexts'[a] = actorContexts[a]
          /\ b # a /\ actorContexts[a] # NoContext =>
               ctx'[actorContexts[a]] = ctx[actorContexts[a]]
      BY <1>0, <2>1 DEF TypeOK, Free
    <2> QED BY <2>3, <2>4
  <1>6. ASSUME NEW b \in Actors, Deliver(g, b) PROVE ServedActor(a)'
    <2>1. CASE b = a
      <3>1. ReportPending(a) => ReportPending(a)'
        BY <1>0, <1>6, PendingStays, ItemsDiffer DEF Deliver, AtEnvelope
      <3> QED BY <1>0, <1>6, <2>1, <3>1 DEF Deliver, ServedActor, Instance
    <2>2. CASE b # a
      BY <1>0, <1>4, <1>6, <2>2 DEF Deliver, TypeOK
    <2> QED BY <2>1, <2>2
  <1>7. ASSUME NEW b \in Actors, ActivateAndDeliver(g, b) PROVE ServedActor(a)'
    <2>1. actorCaches[b] \in SUBSET Watchers
      BY <1>0 DEF TypeOK
    <2>2. CASE b = a
      BY <1>5, <1>7, <2>1, <2>2 DEF ActivateAndDeliver, ServedActor
    <2>3. CASE b # a
      <3>1. Activate(b, actorCaches[b])
        BY <1>7 DEF ActivateAndDeliver
      <3>2. /\ actorContexts'[a] = actorContexts[a]
            /\ actorContexts[a] # NoContext => ctx'[actorContexts[a]] = ctx[actorContexts[a]]
        BY <1>5, <2>1, <2>3, <3>1
      <3>3. /\ NextEnvelope(g) /\ groupMailbox' = groupMailbox /\ AtEnvelope(g, b)
            /\ groupClosed' = groupClosed /\ actorMailbox'[a] = actorMailbox[a]
        BY <1>0, <1>7, <2>3 DEF ActivateAndDeliver, TypeOK
      <3> QED BY <1>4, <2>3, <3>2, <3>3
    <2> QED BY <2>2, <2>3
  <1>8. ASSUME NEW b \in Actors, DropOverflow(g, b) \/ DropUnregistered(g, b)
        PROVE  ServedActor(a)'
    <2>1. ReportPending(a) => ReportPending(a)'
      BY <1>0, <1>8, PendingStays, ItemsDiffer DEF DropOverflow, DropUnregistered, AtEnvelope
    <2> QED BY <1>0, <1>8, <2>1 DEF DropOverflow, DropUnregistered, actorVars,
                                    ServedActor, Instance
  <1>9. ASSUME NEW b \in Actors, Deactivate(g, b) PROVE ServedActor(a)'
    <2>1. CASE b = a
      BY <1>0, <1>9, <2>1 DEF Deactivate, ServedActor, TypeOK
    <2>2. CASE b # a
      BY <1>0, <1>4, <1>9, <2>2 DEF Deactivate, TypeOK
    <2> QED BY <2>1, <2>2
  <1>10. ASSUME NEW b \in Actors, Reactivate(g, b) PROVE ServedActor(a)'
    <2>1. CacheOf(b) \in SUBSET Watchers
      BY <1>0 DEF CacheOf, TypeOK, Context
    <2>2. CASE b = a
      BY <1>5, <1>10, <2>1, <2>2 DEF Reactivate, ServedActor
    <2>3. CASE b # a
      <3>1. Activate(b, CacheOf(b))
        BY <1>10 DEF Reactivate
      <3>2. /\ actorContexts'[a] = actorContexts[a]
            /\ actorContexts[a] # NoContext => ctx'[actorContexts[a]] = ctx[actorContexts[a]]
        BY <1>5, <2>1, <2>3, <3>1
      <3>3. /\ NextEnvelope(g) /\ groupMailbox' = groupMailbox /\ AtStopReport(g, b)
            /\ groupClosed' = groupClosed /\ actorMailbox'[a] = actorMailbox[a]
        BY <1>0, <1>10, <2>3 DEF Reactivate, TypeOK
      <3> QED BY <1>4, <2>3, <3>2, <3>3
    <2> QED BY <2>2, <2>3
  <1>11. ASSUME NEW b \in Actors, CreatorPanicsOnEnvelope(g, b) \/ CreatorPanicsOnReport(g, b)
         PROVE  FALSE
    BY <1>11 DEF CreatorPanicsOnEnvelope, CreatorPanicsOnReport
  <1> QED BY <1>1, <1>2, <1>3, <1>6, <1>7, <1>8, <1>9, <1>10, <1>11
          DEF GroupStep, GroupProcess

(* An actor that stops being live has reported, unless Stop closed the group. *)
LEMMA ServedByActor ==
  ASSUME OneInstanceInv, ServedInv, NEW c \in Contexts, ActorStep(c) \/ IdleElapses(c),
         NEW a \in Actors
  PROVE  ServedActor(a)'
  <1>0. TypeOK /\ Registry /\ Reports /\ ServedActor(a)
    BY DEF OneInstanceInv, ServedInv, MailboxOwned, RegisteredServed, ServedActor
  <1>1. PICK r \in Context :
          /\ ctx' = [ctx EXCEPT ![c] = r]
          /\ r.owner = ctx[c].owner
          /\ (r.phase \in LivePhases <=> ctx[c].phase \in LivePhases) \/ ActorStop(c)
    BY <1>0, ActorContextStep
  <1>2. ctx'[c] = r /\ \A d \in Contexts \ {c} : ctx'[d] = ctx[d]
    BY <1>0, <1>1 DEF TypeOK
  <1>3. /\ actorContexts' = actorContexts /\ groupClosed' = groupClosed
        /\ groupBatch' = groupBatch
    BY DEF ActorStep, ActorStart, ActorDequeue, ActorMailboxClosed, ActorWatch, ActorMessage,
           ActorTick, ActorRecycle, ActorStop, ActorDone, IdleElapses, actorVars, groupVars
  <1>4. actorMailbox'[a] # <<>> => actorMailbox[a] # <<>>
    <2>1. CASE ActorDequeue(c)
      BY <1>0, <2>1 DEF ActorDequeue, TypeOK
    <2>2. CASE ~ActorDequeue(c)
      BY <2>2 DEF ActorStep, ActorStart, ActorMailboxClosed, ActorWatch, ActorMessage,
                  ActorTick, ActorRecycle, ActorStop, ActorDone, IdleElapses, actorVars
    <2> QED BY <2>1, <2>2
  <1>5. CASE ~ActorStop(c)
    <2>1. groupMailbox' = groupMailbox
      BY <1>5 DEF ActorStep, ActorStart, ActorDequeue, ActorMailboxClosed, ActorWatch,
                  ActorMessage, ActorTick, ActorRecycle, ActorDone, IdleElapses, groupVars
    <2>2. ASSUME NEW d \in Contexts, Instance(d, a) PROVE Instance(d, a)'
      BY <1>1, <1>2, <1>5, <2>2 DEF Instance
    <2>3. actorContexts[a] # NoContext /\ Instance(actorContexts[a], a)
            => Instance(actorContexts[a], a)'
      <3>1. SUFFICES ASSUME actorContexts[a] # NoContext, Instance(actorContexts[a], a)
                     PROVE  Instance(actorContexts[a], a)'
        OBVIOUS
      <3>2. PICK d \in Contexts : d = actorContexts[a]
        BY <1>0, <3>1 DEF TypeOK
      <3>3. Instance(d, a)'
        BY <2>2, <3>1, <3>2
      <3> QED BY <1>3, <3>2, <3>3 DEF Instance
    <2> QED BY <1>0, <1>3, <1>4, <2>1, <2>3 DEF ServedActor, ReportPending
  <1>6. CASE ActorStop(c)
    <2>0. PICK b \in Actors : b = ctx[c].owner
      BY <1>0 DEF TypeOK, Context
    <2>1. actorContexts[b] = c
      BY <1>0, <1>6, <2>0 DEF ActorStop, Registry, LivePhases
    <2>2. GroupOf[b] \in Groups /\ StopReport(b) \in Items
      BY GroupOfAssumption DEF Items
    <2>3. CASE groupClosed[GroupOf[b]]
      <3>1. groupMailbox' = groupMailbox
        BY <1>0, <1>6, <2>0, <2>2, <2>3 DEF ActorStop, TypeOK
      <3>2. CASE a = b
        BY <1>0, <1>3, <1>4, <2>3, <3>2 DEF ServedActor
      <3>3. CASE a # b
        <4>1. actorContexts[a] # NoContext => ctx'[actorContexts[a]] = ctx[actorContexts[a]]
          BY <1>0, <1>2, <2>0, <3>3 DEF TypeOK, Registry
        <4> QED BY <1>0, <1>3, <1>4, <3>1, <4>1 DEF ServedActor, Instance, ReportPending
      <3> QED BY <3>2, <3>3
    <2>4. CASE ~groupClosed[GroupOf[b]]
      <3>1. groupMailbox' = [groupMailbox EXCEPT ![GroupOf[b]] = Append(@, StopReport(b))]
        BY <1>6, <2>0, <2>4 DEF ActorStop
      <3>2. CASE a = b
        <4>1. groupMailbox'[GroupOf[b]] = Append(groupMailbox[GroupOf[b]], StopReport(b))
          BY <1>0, <2>2, <3>1 DEF TypeOK
        <4>2. In(StopReport(b), groupMailbox'[GroupOf[b]])
          BY <1>0, <2>2, <4>1, InAppend DEF TypeOK
        <4>3. ReportPending(a)'
          BY <3>2, <4>2 DEF ReportPending
        <4> QED BY <1>0, <1>3, <1>4, <4>3 DEF ServedActor
      <3>3. CASE a # b
        <4>1. actorContexts[a] # NoContext => ctx'[actorContexts[a]] = ctx[actorContexts[a]]
          BY <1>0, <1>2, <2>0, <3>3 DEF TypeOK, Registry
        <4>2. ReportPending(a) => ReportPending(a)'
          BY <1>0, <1>3, <2>2, <3>1, PendingStays
        <4> QED BY <1>0, <1>3, <1>4, <4>1, <4>2 DEF ServedActor, Instance
      <3> QED BY <3>2, <3>3
    <2> QED BY <2>3, <2>4
  <1> QED BY <1>5, <1>6

(* Every step keeps mailboxes and registered contexts served, when no creator
   panics: then no batch, and no stop report in it, is abandoned. *)
LEMMA ServedStep ==
  ASSUME PanicCreators = {}, OneInstanceInv, OneInstanceInv', ServedInv, [Next]_vars
  PROVE  ServedInv'
  <1> SUFFICES ASSUME NEW a \in Actors PROVE ServedActor(a)'
    BY DEF ServedInv, MailboxOwned, RegisteredServed, ServedActor
  <1>0. TypeOK /\ Registry /\ Reports /\ ServedActor(a)
    BY DEF OneInstanceInv, ServedInv, MailboxOwned, RegisteredServed, ServedActor
  <1> USE DEF groupVars, actorVars
  <1>1. CASE Stop \/ UNCHANGED vars
    BY <1>0, <1>1 DEF Stop, vars, ServedActor, Instance, ReportPending
  <1>2. ASSUME NEW e \in Envelopes, Accept(e) PROVE ServedActor(a)'
    <2>1. GroupOf[e.to] \in Groups /\ e \in Items
      BY GroupOfAssumption, EnvelopeAssumption DEF Items
    <2>2. ReportPending(a) => ReportPending(a)'
      BY <1>0, <1>2, <2>1, PendingStays DEF Accept
    <2> QED BY <1>0, <1>2, <2>2 DEF Accept, ServedActor, Instance
  <1>3. ASSUME NEW g \in Groups, TickerFires(g) PROVE ServedActor(a)'
    <2>1. Tick \in Items
      BY DEF Items
    <2>2. ReportPending(a) => ReportPending(a)'
      BY <1>0, <1>3, <2>1, PendingStays DEF TickerFires
    <2> QED BY <1>0, <1>3, <2>2 DEF TickerFires, ServedActor, Instance
  <1>4. ASSUME NEW g \in Groups, CloseGroup(g) PROVE ServedActor(a)'
    <2>1. groupClosed[GroupOf[a]] => groupClosed'[GroupOf[a]]
      BY <1>0, <1>4, GroupOfAssumption DEF CloseGroup, TypeOK
    <2> QED BY <1>0, <1>4, <2>1 DEF CloseGroup, ServedActor, Instance, ReportPending
  <1> QED BY <1>1, <1>2, <1>3, <1>4, ServedGroup, ServedByActor DEF Next

(* As long as no creator panics, every nonempty mailbox is served by a live
   goroutine or about to be, until Stop closes the group's entry. *)
THEOREM NothingStranded ==
  ASSUME PanicCreators = {}
  PROVE  Spec => []NoStranded
  <1>1. Init => OneInstanceInv /\ ServedInv
    BY OneInstanceInit DEF Init, ServedInv, MailboxOwned, RegisteredServed
  <1>2. OneInstanceInv /\ ServedInv /\ [Next]_vars => (OneInstanceInv /\ ServedInv)'
    BY OneInstanceStep, ServedStep
  <1>3. OneInstanceInv /\ ServedInv => NoStranded
    <2> SUFFICES ASSUME OneInstanceInv, ServedInv, NEW a \in Actors, actorMailbox[a] # <<>>
                 PROVE  \/ \E c \in Contexts : Instance(c, a) /\ actorContexts[a] = c
                        \/ ReportPending(a)
                        \/ groupClosed[GroupOf[a]]
      BY DEF NoStranded
    <2>1. actorContexts[a] \in Contexts
      BY DEF ServedInv, MailboxOwned, OneInstanceInv, TypeOK
    <2>2. \/ Instance(actorContexts[a], a)
          \/ ReportPending(a)
          \/ groupClosed[GroupOf[a]]
      BY <2>1, ContextAssumption DEF ServedInv, RegisteredServed
    <2> QED BY <2>1, <2>2
  <1> QED BY <1>1, <1>2, <1>3, PTL DEF Spec

-----------------------------------------------------------------------------
(* Quiet after Stop.  wg counts the goroutines exactly. *)

RunningGroups == {g \in Groups : groupRunning[g]}
Busy == {c \in Contexts : ctx[c].phase # "gone"}

WgCounts == wg = Cardinality(RunningGroups) + Cardinality(Busy)

(* What wg counts is finite: groups that run and goroutines not gone. *)
LEMMA CountsAreFinite ==
  /\ IsFiniteSet(RunningGroups) /\ Cardinality(RunningGroups) \in Nat
  /\ IsFiniteSet(Busy) /\ Cardinality(Busy) \in Nat
  <1>1. IsFiniteSet(RunningGroups) /\ IsFiniteSet(Busy)
    BY FiniteAssumption, FS_Subset DEF RunningGroups, Busy
  <1> QED BY <1>1, FS_CardinalityType

(* Initially wg counts the groups, all of which run. *)
LEMMA WgInit == Init => WgCounts
  <1> SUFFICES ASSUME Init PROVE WgCounts
    OBVIOUS
  <1>1. RunningGroups = Groups
    BY DEF Init, RunningGroups
  <1>2. Busy = {}
    <2> DEFINE dead == NewContext(CHOOSE a \in Actors : TRUE, {})
    <2>1. dead \in Context
      <3>1. (CHOOSE a \in Actors : TRUE) \in Actors
        BY GroupOfAssumption
      <3> QED BY <3>1, NewContextType
    <2>2. ctx = [c \in Contexts |-> [dead EXCEPT !.phase = "gone"]]
      BY DEF Init
    <2> HIDE DEF dead
    <2> QED BY <2>1, <2>2 DEF Busy, Context
  <1>3. Cardinality(Busy) = 0 /\ Cardinality(Groups) \in Nat
    BY <1>2, FS_EmptySet, FS_CardinalityType, FiniteAssumption
  <1>4. wg = Cardinality(Groups)
    BY DEF Init
  <1> QED BY <1>1, <1>3, <1>4 DEF WgCounts

(* Every step that starts or ends a goroutine counts it in wg. *)
LEMMA WgStep == TypeOK /\ WgCounts /\ [Next]_vars => WgCounts'
  <1> SUFFICES ASSUME TypeOK, WgCounts, [Next]_vars PROVE WgCounts'
    OBVIOUS
  <1> USE DEF groupVars, actorVars
  <1>1. ASSUME UNCHANGED <<wg, RunningGroups, Busy>> PROVE WgCounts'
    BY <1>1 DEF WgCounts
  <1>2. ASSUME UNCHANGED <<wg, groupRunning, ctx>> PROVE WgCounts'
    BY <1>1, <1>2 DEF RunningGroups, Busy
  <1>3. ASSUME NEW g \in Groups, GroupExit(g) PROVE WgCounts'
    <2>1. /\ RunningGroups' = RunningGroups \ {g} /\ g \in RunningGroups
          /\ Busy' = Busy /\ wg' = wg - 1
      BY <1>3 DEF GroupExit, TypeOK, RunningGroups, Busy
    <2>2. Cardinality(RunningGroups \ {g}) = Cardinality(RunningGroups) - 1
      BY <2>1, CountsAreFinite, FS_RemoveElement
    <2> QED BY <2>1, <2>2, CountsAreFinite DEF WgCounts
  <1>4. ASSUME NEW a \in Actors, NEW cache \in SUBSET Watchers, Activate(a, cache),
               UNCHANGED groupRunning
        PROVE  WgCounts'
    <2>1. PICK c \in Contexts : /\ Free(c)
                                /\ ctx' = [ctx EXCEPT ![c] = NewContext(a, cache)]
                                /\ wg' = wg + 1
      BY <1>4 DEF Activate
    <2>2. c \notin Busy
      BY <2>1 DEF Free, Busy
    <2>3. Busy' = Busy \union {c}
      <3>1. ctx'[c].phase = "start" /\ \A d \in Contexts \ {c} : ctx'[d] = ctx[d]
        BY <2>1, NewContextType DEF TypeOK
      <3> QED BY <3>1 DEF Busy
    <2>4. Cardinality(Busy \union {c}) = Cardinality(Busy) + 1
      BY <2>2, CountsAreFinite, FS_AddElement
    <2>5. RunningGroups' = RunningGroups
      BY <1>4 DEF RunningGroups
    <2> QED BY <2>1, <2>3, <2>4, <2>5, CountsAreFinite DEF WgCounts
  <1>5. ASSUME NEW g \in Groups, GroupStep(g) PROVE WgCounts'
    <2>1. ASSUME NEW a \in Actors, ActivateAndDeliver(g, a) \/ Reactivate(g, a)
          PROVE  WgCounts'
      <3>1. actorCaches[a] \in SUBSET Watchers /\ CacheOf(a) \in SUBSET Watchers
        BY DEF TypeOK, CacheOf, Context
      <3> QED BY <1>4, <2>1, <3>1 DEF ActivateAndDeliver, Reactivate
    <2>2. ASSUME NEW a \in Actors,
                 Deliver(g, a) \/ DropOverflow(g, a) \/ DropUnregistered(g, a)
                   \/ CreatorPanicsOnEnvelope(g, a) \/ Deactivate(g, a)
                   \/ CreatorPanicsOnReport(g, a)
          PROVE  WgCounts'
      BY <1>2, <2>2 DEF Deliver, DropOverflow, DropUnregistered, CreatorPanicsOnEnvelope,
                        Deactivate, CreatorPanicsOnReport
    <2>3. CASE GroupDequeue(g) \/ GroupTick(g)
      BY <1>2, <2>3 DEF GroupDequeue, GroupTick
    <2> QED BY <1>3, <1>5, <2>1, <2>2, <2>3 DEF GroupStep, GroupProcess
  <1>6. ASSUME NEW c \in Contexts, ActorStep(c) \/ IdleElapses(c) PROVE WgCounts'
    <2>1. PICK r \in Context :
            /\ ctx' = [ctx EXCEPT ![c] = r]
            /\ (r.phase = "gone" <=> ctx[c].phase = "gone") \/ ActorDone(c)
      BY <1>6, ActorContextStep
    <2>2. ctx'[c] = r /\ \A d \in Contexts \ {c} : ctx'[d] = ctx[d]
      BY <2>1 DEF TypeOK
    <2>3. RunningGroups' = RunningGroups
      <3>1. groupRunning' = groupRunning
        BY <1>6 DEF ActorStep, ActorStart, ActorDequeue, ActorMailboxClosed, ActorWatch,
             ActorMessage, ActorTick, ActorRecycle, ActorStop, ActorDone, IdleElapses
      <3> QED BY <3>1 DEF RunningGroups
    <2>4. CASE ActorDone(c)
      <3>1. wg' = wg - 1 /\ c \in Busy /\ ctx'[c].phase = "gone"
        BY <2>4 DEF ActorDone, Busy, TypeOK, Context
      <3>2. Busy' = Busy \ {c}
        BY <2>2, <3>1 DEF Busy
      <3>3. Cardinality(Busy \ {c}) = Cardinality(Busy) - 1
        BY <3>1, CountsAreFinite, FS_RemoveElement
      <3> QED BY <2>3, <3>1, <3>2, <3>3, CountsAreFinite DEF WgCounts
    <2>5. CASE ~ActorDone(c)
      <3>1. wg' = wg
        BY <1>6, <2>5 DEF ActorStep, ActorStart, ActorDequeue, ActorMailboxClosed, ActorWatch,
             ActorMessage, ActorTick, ActorRecycle, ActorStop, IdleElapses
      <3>2. Busy' = Busy
        BY <2>1, <2>2, <2>5 DEF Busy
      <3> QED BY <1>1, <2>3, <3>1, <3>2
    <2> QED BY <2>4, <2>5
  <1>7. CASE Stop
    BY <1>2, <1>7 DEF Stop
  <1>8. ASSUME NEW e \in Envelopes, Accept(e) PROVE WgCounts'
    BY <1>2, <1>8 DEF Accept
  <1>9. ASSUME NEW g \in Groups, TickerFires(g) \/ CloseGroup(g) PROVE WgCounts'
    BY <1>2, <1>9 DEF TickerFires, CloseGroup
  <1>10. CASE UNCHANGED vars
    BY <1>2, <1>10 DEF vars
  <1> QED BY <1>5, <1>6, <1>7, <1>8, <1>9, <1>10 DEF Next

(* When the Wait of Stop returns, every goroutine of groups and actors is gone,
   and so none is ever started again. *)
THEOREM Quiet == Spec => []QuietAfterStop
  <1>1. TypeOK /\ WgCounts => QuietAfterStop
    <2> SUFFICES ASSUME TypeOK, WgCounts, wg = 0
                 PROVE  /\ \A g \in Groups : ~groupRunning[g]
                        /\ \A c \in Contexts : ctx[c].phase = "gone"
      BY DEF QuietAfterStop
    <2>1. Cardinality(RunningGroups) = 0 /\ Cardinality(Busy) = 0
      BY CountsAreFinite DEF WgCounts
    <2>2. RunningGroups = {} /\ Busy = {}
      BY <2>1, CountsAreFinite, FS_EmptySet
    <2> QED BY <2>2 DEF RunningGroups, Busy
  <1> QED BY <1>1, WgInit, WgStep, InitTypes, StepTypes, PTL DEF Spec

-----------------------------------------------------------------------------
(* No recycling forgets a watcher, when creators do not panic.  An actor
   without a creator is never registered and has no watchers to lose. *)

Inert == \A a \in Actors \ Registered : actorContexts[a] = NoContext /\ actorCaches[a] = {}

(* The group knows the context whose stop report it is at. *)
LEMMA ReporterRegistered ==
  ASSUME OneInstanceInv, NEW g \in Groups, NEW a \in Actors, AtStopReport(g, a)
  PROVE  actorContexts[a] \in Contexts
  <1>1. groupBatch[g] \in Seq(Items) /\ groupBatch[g] # <<>>
    BY DEF AtStopReport, OneInstanceInv, TypeOK
  <1>2. In(StopReport(a), groupBatch[g])
    <2>1. 1 \in DOMAIN groupBatch[g] /\ Head(groupBatch[g]) = groupBatch[g][1]
      BY <1>1
    <2> QED BY <2>1 DEF AtStopReport, In
  <1>3. g = GroupOf[a]
    BY <1>2 DEF OneInstanceInv, Reports, ReportOnce
  <1>4. ReportPending(a)
    BY <1>2, <1>3 DEF ReportPending
  <1> QED BY <1>4 DEF OneInstanceInv, Reports, Gone, TypeOK

(* Steps of the group keep actors without a creator out of its tables. *)
LEMMA InertStep ==
  ASSUME OneInstanceInv, Inert, [Next]_vars
  PROVE  Inert'
  <1> USE DEF groupVars, actorVars
  <1>0. TypeOK BY DEF OneInstanceInv
  <1> SUFFICES ASSUME NEW b \in Actors \ Registered
               PROVE  actorContexts'[b] = NoContext /\ actorCaches'[b] = {}
    BY DEF Inert
  <1>1. actorContexts[b] = NoContext /\ actorCaches[b] = {}
    BY DEF Inert
  <1>2. ASSUME NEW g \in Groups, NEW a \in Actors,
               \/ Deliver(g, a) \/ DropOverflow(g, a) \/ DropUnregistered(g, a)
               \/ CreatorPanicsOnEnvelope(g, a) \/ CreatorPanicsOnReport(g, a)
        PROVE  actorContexts'[b] = NoContext /\ actorCaches'[b] = {}
    BY <1>0, <1>1, <1>2
    DEF TypeOK, Deliver, DropOverflow, DropUnregistered, CreatorPanicsOnEnvelope,
        CreatorPanicsOnReport
  <1>3. ASSUME NEW g \in Groups, NEW a \in Actors, ActivateAndDeliver(g, a) \/ Reactivate(g, a)
        PROVE  actorContexts'[b] = NoContext /\ actorCaches'[b] = {}
    BY <1>0, <1>1, <1>3 DEF TypeOK, ActivateAndDeliver, Reactivate, Activate
  <1>4. ASSUME NEW g \in Groups, NEW a \in Actors, Deactivate(g, a)
        PROVE  actorContexts'[b] = NoContext /\ actorCaches'[b] = {}
    <2>1. a # b
      BY <1>1, <1>4, ReporterRegistered, ContextAssumption DEF Deactivate
    <2> QED BY <1>0, <1>1, <1>4, <2>1 DEF TypeOK, Deactivate
  <1>5. ASSUME NEW g \in Groups, TickerFires(g) \/ CloseGroup(g) \/ GroupDequeue(g)
                                 \/ GroupExit(g) \/ GroupTick(g)
        PROVE  actorContexts'[b] = NoContext /\ actorCaches'[b] = {}
    BY <1>1, <1>5 DEF TickerFires, CloseGroup, GroupDequeue, GroupExit, GroupTick
  <1>6. ASSUME NEW c \in Contexts, ActorStep(c) \/ IdleElapses(c)
        PROVE  actorContexts'[b] = NoContext /\ actorCaches'[b] = {}
    BY <1>1, <1>6
    DEF ActorStep, IdleElapses, ActorStart, ActorDequeue, ActorMailboxClosed, ActorWatch,
        ActorMessage, ActorTick, ActorRecycle, ActorStop, ActorDone
  <1>7. CASE Stop \/ (\E e \in Envelopes : Accept(e)) \/ UNCHANGED vars
    BY <1>1, <1>7 DEF Stop, Accept, vars
  <1> QED
    BY <1>2, <1>3, <1>4, <1>5, <1>6, <1>7 DEF Next, GroupStep, GroupProcess

(* The watchers of b depend on its entries in the tables and on its context. *)
LEMMA SameSubscribers ==
  ASSUME NEW b \in Actors,
         actorContexts'[b] = actorContexts[b],
         actorContexts[b] = NoContext => actorCaches[b] \subseteq actorCaches'[b],
         actorContexts[b] # NoContext =>
           ctx[actorContexts[b]].cache \subseteq ctx'[actorContexts[b]].cache
  PROVE  Subscribers(b) \subseteq Subscribers(b)'
  BY DEF Subscribers, CacheOf

(* The group takes no watcher away from anybody. *)
LEMMA GroupKeepsWatchers ==
  ASSUME PanicCreators = {}, OneInstanceInv, Inert, NEW g \in Groups, GroupStep(g),
         NEW b \in Actors
  PROVE  Subscribers(b) \subseteq Subscribers(b)'
  <1> USE DEF groupVars, actorVars
  <1>0. TypeOK /\ Registry BY DEF OneInstanceInv
  <1>1. CASE GroupDequeue(g) \/ GroupExit(g) \/ GroupTick(g)
    BY <1>1, SameSubscribers DEF GroupDequeue, GroupExit, GroupTick
  <1>2. ASSUME NEW a \in Actors, Deliver(g, a) \/ DropOverflow(g, a)
        PROVE  Subscribers(b) \subseteq Subscribers(b)'
    BY <1>2, SameSubscribers DEF Deliver, DropOverflow
  <1>3. ASSUME NEW a \in Actors, DropUnregistered(g, a)
        PROVE  Subscribers(b) \subseteq Subscribers(b)'
    <2>1. actorCaches[b] \subseteq actorCaches'[b]
      BY <1>0, <1>3 DEF DropUnregistered, Inert, TypeOK
    <2> QED BY <1>3, <2>1, SameSubscribers DEF DropUnregistered
  <1>4. ASSUME NEW a \in Actors, NEW cache, Activate(a, cache),
               Subscribers(a) \subseteq cache,
               \A x \in Actors \ {a} : actorCaches'[x] = actorCaches[x]
        PROVE  Subscribers(b) \subseteq Subscribers(b)'
    <2>1. PICK c \in Contexts : /\ Free(c)
                                /\ ctx' = [ctx EXCEPT ![c] = NewContext(a, cache)]
                                /\ actorContexts' = [actorContexts EXCEPT ![a] = c]
      BY <1>4 DEF Activate
    <2>2. CASE b = a
      <3>1. actorContexts'[b] = c /\ c # NoContext /\ ctx'[c] = NewContext(a, cache)
        BY <1>0, <2>1, <2>2, ContextAssumption DEF TypeOK
      <3>2. ctx'[c].cache = cache
        BY <3>1 DEF NewContext
      <3> QED BY <1>4, <2>2, <3>1, <3>2 DEF Subscribers, CacheOf
    <2>3. CASE b # a
      <3>1. actorContexts'[b] = actorContexts[b] /\ actorContexts[b] # c
        BY <1>0, <2>1, <2>3 DEF TypeOK, Free
      <3>2. actorContexts[b] # NoContext => ctx'[actorContexts[b]] = ctx[actorContexts[b]]
        BY <1>0, <2>1, <3>1 DEF TypeOK
      <3> QED BY <1>4, <2>3, <3>1, <3>2, SameSubscribers
    <2> QED BY <2>2, <2>3
  <1>5. ASSUME NEW a \in Actors, ActivateAndDeliver(g, a)
        PROVE  Subscribers(b) \subseteq Subscribers(b)'
    <2>1. Subscribers(a) \subseteq actorCaches[a]
      BY <1>5 DEF ActivateAndDeliver, Subscribers
    <2>2. \A x \in Actors \ {a} : actorCaches'[x] = actorCaches[x]
      BY <1>0, <1>5 DEF ActivateAndDeliver, TypeOK
    <2> QED BY <1>4, <1>5, <2>1, <2>2 DEF ActivateAndDeliver
  <1>6. ASSUME NEW a \in Actors, Reactivate(g, a)
        PROVE  Subscribers(b) \subseteq Subscribers(b)'
    <2>1. actorContexts[a] # NoContext
      BY <1>6, ReporterRegistered, ContextAssumption DEF Reactivate
    <2>2. Subscribers(a) \subseteq CacheOf(a)
      BY <2>1 DEF Subscribers
    <2> QED BY <1>4, <1>6, <2>2 DEF Reactivate
  <1>7. ASSUME NEW a \in Actors, Deactivate(g, a)
        PROVE  Subscribers(b) \subseteq Subscribers(b)'
    <2>1. actorContexts[a] # NoContext
      BY <1>7, ReporterRegistered, ContextAssumption DEF Deactivate
    <2>2. CASE b = a
      <3>1. actorContexts'[a] = NoContext /\ CacheOf(a) \subseteq actorCaches'[a]
        BY <1>0, <1>7 DEF Deactivate, TypeOK
      <3> QED BY <2>1, <2>2, <3>1 DEF Subscribers
    <2>3. CASE b # a
      BY <1>0, <1>7, <2>3, SameSubscribers DEF Deactivate, TypeOK
    <2> QED BY <2>2, <2>3
  <1> QED
    BY <1>1, <1>2, <1>3, <1>5, <1>6, <1>7
    DEF GroupStep, GroupProcess, CreatorPanicsOnEnvelope, CreatorPanicsOnReport

(* An actor loses a watcher only at that watcher's Unwatch. *)
LEMMA ActorKeepsWatchers ==
  ASSUME OneInstanceInv, NEW c \in Contexts, ActorStep(c) \/ IdleElapses(c), NEW b \in Actors,
         NEW w \in Subscribers(b) \ Subscribers(b)'
  PROVE  ctx[c].owner = b /\ AtMessage(c, {"unwatch"}) /\ Head(ctx[c].batch).who = w
  <1> USE DEF groupVars, actorVars
  <1>0. TypeOK /\ Registry /\ ctx[c] \in Context
    BY DEF OneInstanceInv, TypeOK
  <1>1. /\ UNCHANGED <<actorContexts, actorCaches>>
        /\ \A d \in Contexts \ {c} : ctx'[d] = ctx[d]
    BY <1>0
    DEF TypeOK, ActorStep, IdleElapses, ActorStart, ActorDequeue, ActorMailboxClosed,
        ActorWatch, ActorMessage, ActorTick, ActorRecycle, ActorStop, ActorDone
  <1>2. actorContexts[b] = c /\ w \in ctx[c].cache /\ w \notin ctx'[c].cache
    BY <1>0, <1>1, SameSubscribers DEF Subscribers, CacheOf, TypeOK
  <1>3. ctx[c].owner = b
    BY <1>0, <1>2, ContextAssumption DEF Registry
  <1>4. ~ActorStart(c)
    <2> SUFFICES ASSUME ActorStart(c) PROVE FALSE
      OBVIOUS
    <2> DEFINE r == [Touch(ctx[c]) EXCEPT !.phase = "loop",
                                          !.tickDisabled = ctx[c].owner \in TickOff]
    <2>1. r \in Context /\ r.cache = ctx[c].cache
      <3> DEFINE off == ctx[c].owner \in TickOff
      <3>1. off \in BOOLEAN
        OBVIOUS
      <3> HIDE DEF off
      <3>2. [Touch(ctx[c]) EXCEPT !.phase = "loop", !.tickDisabled = off] \in Context
        BY <1>0, <3>1 DEF Touch, Context, Phases
      <3> QED BY <1>0, <3>2 DEF Touch, Context, off
    <2>2. PICK q \in ProcessMessage(r, FALSE) : ctx' = [ctx EXCEPT ![c] = q]
      BY DEF ActorStart
    <2>3. ctx'[c].cache = r.cache
      <3> HIDE DEF r
      <3> QED BY <1>0, <2>1, <2>2, HandlerType DEF TypeOK
    <2> QED BY <1>2, <2>1, <2>3
  <1>5. ~ActorMessage(c) /\ ~ActorTick(c)
    <2> SUFFICES ASSUME ActorMessage(c) \/ ActorTick(c) PROVE FALSE
      OBVIOUS
    <2>0. ctx[c].batch # <<>>
      BY DEF ActorMessage, ActorTick, AtMessage
    <2>1. /\ Consumed(c) \in Context /\ Consumed(c).cache = ctx[c].cache
          /\ Shown(c) \in Context /\ Shown(c).cache = ctx[c].cache
      <3>1. Tail(ctx[c].batch) \in Seq(MailboxItems)
        BY <1>0, <2>0 DEF Context
      <3>2. ASSUME NEW q \in Seq(MailboxItems)
            PROVE  /\ [ctx[c] EXCEPT !.batch = q] \in Context
                   /\ [ctx[c] EXCEPT !.batch = q].cache = ctx[c].cache
        BY <1>0 DEF Context
      <3>3. Consumed(c) \in Context /\ Consumed(c).cache = ctx[c].cache
        BY <3>1, <3>2 DEF Consumed
      <3> QED BY <3>3, ShownType
    <2>2. PICK k \in BOOLEAN, r \in {Consumed(c), Shown(c)} :
            \E q \in ProcessMessage(r, k) : ctx' = [ctx EXCEPT ![c] = q]
      BY DEF ActorMessage, ActorTick
    <2>3. PICK q \in ProcessMessage(r, k) : ctx' = [ctx EXCEPT ![c] = q]
      BY <2>2
    <2>4. ctx'[c].cache = ctx[c].cache
      BY <1>0, <2>1, <2>3, HandlerType DEF TypeOK
    <2> QED BY <1>2, <2>4
  <1>6. ~(\/ ActorDequeue(c) \/ ActorMailboxClosed(c) \/ ActorRecycle(c) \/ ActorStop(c)
          \/ ActorDone(c) \/ IdleElapses(c))
    <2>1. ASSUME NEW p \in Phases, NEW q \in Seq(MailboxItems)
          PROVE  /\ [ctx[c] EXCEPT !.phase = p].cache = ctx[c].cache
                 /\ [ctx[c] EXCEPT !.phase = p, !.batch = q].cache = ctx[c].cache
                 /\ [ctx[c] EXCEPT !.batch = q].cache = ctx[c].cache
                 /\ [ctx[c] EXCEPT !.idle = TRUE].cache = ctx[c].cache
      BY <1>0 DEF Context
    <2>2. actorMailbox[ctx[c].owner] \in Seq(MailboxItems) /\ <<>> \in Seq(MailboxItems)
      BY <1>0 DEF Context, TypeOK
    <2>3. {"stopping", "exit", "gone"} \subseteq Phases
      BY DEF Phases
    <2>4. ASSUME ActorDequeue(c) PROVE FALSE
      <3>1. ctx'[c] = [ctx[c] EXCEPT !.batch = actorMailbox[ctx[c].owner]]
        BY <1>0, <2>4 DEF TypeOK, ActorDequeue
      <3> QED BY <1>2, <2>1, <2>2, <2>3, <3>1
    <2>5. ASSUME IdleElapses(c) PROVE FALSE
      <3>1. ctx'[c] = [ctx[c] EXCEPT !.idle = TRUE]
        BY <1>0, <2>5 DEF TypeOK, IdleElapses
      <3> QED BY <1>2, <2>1, <2>2, <2>3, <3>1
    <2>6. ASSUME ActorMailboxClosed(c) \/ ActorStop(c) \/ ActorDone(c) PROVE FALSE
      <3>1. \E p \in {"stopping", "exit", "gone"} : ctx'[c] = [ctx[c] EXCEPT !.phase = p]
        BY <1>0, <2>6 DEF TypeOK, ActorMailboxClosed, ActorStop, ActorDone
      <3> QED BY <1>2, <2>1, <2>2, <2>3, <3>1
    <2>7. ASSUME ActorRecycle(c) PROVE FALSE
      <3>1. ctx'[c] = [ctx[c] EXCEPT !.phase = "stopping", !.batch = <<>>]
        BY <1>0, <2>7 DEF TypeOK, ActorRecycle
      <3> QED BY <1>2, <2>1, <2>2, <2>3, <3>1
    <2> QED BY <2>4, <2>5, <2>6, <2>7
  <1>7. ActorWatch(c)
    BY <1>4, <1>5, <1>6 DEF ActorStep
  <1>8. ctx'[c].cache = CacheAfter(Head(ctx[c].batch), ctx[c].cache)
    <2>1. ctx'[c] = [Consumed(c) EXCEPT !.cache = CacheAfter(Head(ctx[c].batch), @)]
      BY <1>0, <1>7 DEF ActorWatch, TypeOK
    <2> QED BY <1>0, <2>1 DEF Consumed, Context
  <1> QED BY <1>2, <1>3, <1>7, <1>8 DEF ActorWatch, AtMessage, CacheAfter

(* Unless a creator panics, a watcher leaves an actor only by an Unwatch that
   the actor handled: no recycling, reactivation or Stop forgets one. *)
THEOREM NoWatcherForgotten ==
  ASSUME PanicCreators = {}
  PROVE  Spec => WatchersKept
  <1> DEFINE Keeps == \A a \in Actors : \A w \in Subscribers(a) \ Subscribers(a)' :
                        \E c \in Contexts : /\ ctx[c].owner = a
                                            /\ AtMessage(c, {"unwatch"})
                                            /\ Head(ctx[c].batch).who = w
  <1>1. Init => OneInstanceInv /\ Inert
    BY OneInstanceInit DEF Init, Inert
  <1>2. OneInstanceInv /\ Inert /\ [Next]_vars => (OneInstanceInv /\ Inert)'
    BY OneInstanceStep, InertStep
  <1>3. OneInstanceInv /\ Inert /\ [Next]_vars => [Keeps]_vars
    <2> SUFFICES ASSUME OneInstanceInv, Inert, Next,
                        NEW a \in Actors, NEW w \in Subscribers(a) \ Subscribers(a)'
                 PROVE  \E c \in Contexts : /\ ctx[c].owner = a
                                            /\ AtMessage(c, {"unwatch"})
                                            /\ Head(ctx[c].batch).who = w
      OBVIOUS
    <2>1. ASSUME NEW g \in Groups, GroupStep(g) PROVE FALSE
      BY <2>1, GroupKeepsWatchers
    <2>2. ASSUME NEW c \in Contexts, ActorStep(c) \/ IdleElapses(c)
          PROVE  ctx[c].owner = a /\ AtMessage(c, {"unwatch"}) /\ Head(ctx[c].batch).who = w
      BY <2>2, ActorKeepsWatchers
    <2>3. ASSUME UNCHANGED <<actorContexts, actorCaches, ctx>> PROVE FALSE
      BY <2>3 DEF Subscribers, CacheOf
    <2> QED
      BY <2>1, <2>2, <2>3 DEF Next, Stop, Accept, TickerFires, CloseGroup, actorVars
  <1> QED BY <1>1, <1>2, <1>3, PTL DEF Spec, WatchersKept

-----------------------------------------------------------------------------
(* The depth limit.  Only Deliver and ActivateAndDeliver put an envelope into
   a mailbox, after a look at its length; ticks come in without one, and are
   not counted. *)

LEMMA BoundedStep == TypeOK /\ EnvelopesBounded /\ [Next]_vars => EnvelopesBounded'
  <1> SUFFICES ASSUME TypeOK, EnvelopesBounded, [Next]_vars, MaxMailboxDepth > 0,
                      NEW a \in Actors
               PROVE  Len(Filter(actorMailbox'[a], Envelopes)) <= MaxMailboxDepth
    BY DEF EnvelopesBounded
  <1> USE DEF groupVars, actorVars
  <1>1. /\ actorMailbox[a] \in Seq(MailboxItems)
        /\ Len(Filter(actorMailbox[a], Envelopes)) <= MaxMailboxDepth
    BY DEF EnvelopesBounded, TypeOK
  <1>2. CASE actorMailbox'[a] = actorMailbox[a]
    BY <1>1, <1>2
  <1>3. CASE actorMailbox'[a] = <<>>
    <2>1. Len(<<>>) = 0 /\ 0 <= MaxMailboxDepth
      BY NumberAssumption
    <2> QED BY <1>3, <2>1, FilterEmpty
  <1>4. CASE actorMailbox'[a] = Append(actorMailbox[a], Tick)
    <2>1. Tick \in MailboxItems /\ Tick \notin Envelopes
      BY ItemsDiffer DEF MailboxItems
    <2>2. Filter(actorMailbox'[a], Envelopes) = Filter(actorMailbox[a], Envelopes)
      BY <1>1, <1>4, <2>1, FilterAppend
    <2> QED BY <1>1, <2>2
  <1>5. ASSUME NEW e \in Envelopes, actorMailbox'[a] = Append(actorMailbox[a], e), ~Full(a)
        PROVE  Len(Filter(actorMailbox'[a], Envelopes)) <= MaxMailboxDepth
    <2>1. e \in MailboxItems
      BY DEF MailboxItems
    <2>2. PICK q \in Seq(MailboxItems) : q = actorMailbox[a]
      BY <1>1
    <2>3. Len(Filter(Append(q, e), Envelopes)) <= Len(Append(q, e))
      <3>1. Append(q, e) \in Seq(MailboxItems)
        BY <2>1, AppendProperties
      <3> QED BY <3>1, FilterType
    <2>4. Len(Append(q, e)) = Len(q) + 1 /\ Len(q) \in Nat
      BY <2>1, AppendProperties
    <2>5. Len(q) < MaxMailboxDepth
      BY <1>5, <2>2, <2>4, NumberAssumption DEF Full
    <2>6. Len(Filter(Append(q, e), Envelopes)) \in Nat
      <3>1. Append(q, e) \in Seq(MailboxItems)
        BY <2>1, AppendProperties
      <3>2. Filter(Append(q, e), Envelopes) \in Seq(MailboxItems)
        BY <3>1, FilterType
      <3> QED BY <3>2, LenProperties
    <2>7. Len(Filter(Append(q, e), Envelopes)) <= MaxMailboxDepth
      BY <2>3, <2>4, <2>5, <2>6, NumberAssumption
    <2> QED BY <1>5, <2>2, <2>7
  <1>6. ASSUME NEW g \in Groups, GroupStep(g)
        PROVE  \/ actorMailbox'[a] = actorMailbox[a]
               \/ actorMailbox'[a] = Append(actorMailbox[a], Tick)
               \/ \E e \in Envelopes : actorMailbox'[a] = Append(actorMailbox[a], e) /\ ~Full(a)
    <2>1. ASSUME NEW b \in Actors, Deliver(g, b) \/ ActivateAndDeliver(g, b)
          PROVE  \/ actorMailbox'[a] = actorMailbox[a]
                 \/ \E e \in Envelopes : actorMailbox'[a] = Append(actorMailbox[a], e) /\ ~Full(a)
      BY <2>1 DEF Deliver, ActivateAndDeliver, AtEnvelope, TypeOK
    <2>2. CASE GroupTick(g)
      BY <2>2 DEF GroupTick
    <2>3. ASSUME NEW b \in Actors,
                 \/ DropOverflow(g, b) \/ DropUnregistered(g, b)
                 \/ CreatorPanicsOnEnvelope(g, b)
                 \/ Deactivate(g, b) \/ Reactivate(g, b) \/ CreatorPanicsOnReport(g, b)
          PROVE  actorMailbox' = actorMailbox
      BY <2>3 DEF DropOverflow, DropUnregistered, CreatorPanicsOnEnvelope, Deactivate,
                  Reactivate, CreatorPanicsOnReport
    <2>4. CASE GroupDequeue(g) \/ GroupExit(g)
      BY <2>4 DEF GroupDequeue, GroupExit
    <2> QED BY <1>6, <2>1, <2>2, <2>3, <2>4 DEF GroupStep, GroupProcess
  <1>7. ASSUME NEW c \in Contexts, ActorStep(c) \/ IdleElapses(c)
        PROVE  actorMailbox'[a] = actorMailbox[a] \/ actorMailbox'[a] = <<>>
    <2>1. CASE ActorDequeue(c)
      BY <2>1 DEF ActorDequeue, TypeOK
    <2>2. CASE ~ActorDequeue(c)
      BY <1>7, <2>2
      DEF ActorStep, IdleElapses, ActorStart, ActorMailboxClosed, ActorWatch, ActorMessage,
          ActorTick, ActorRecycle, ActorStop, ActorDone
    <2> QED BY <2>1, <2>2
  <1>8. CASE Stop \/ (\E e \in Envelopes : Accept(e))
               \/ (\E g \in Groups : TickerFires(g) \/ CloseGroup(g)) \/ UNCHANGED vars
    BY <1>2, <1>8 DEF Stop, Accept, TickerFires, CloseGroup, vars
  <1> QED BY <1>2, <1>3, <1>4, <1>5, <1>6, <1>7, <1>8 DEF Next

(* However its deliveries, ticks and recycling interleave, an actor's mailbox
   never holds more envelopes of callers than MaxMailboxDepth. *)
THEOREM MailboxesBounded == Spec => []EnvelopesBounded
  <1>1. Init => EnvelopesBounded
    <2>1. Len(<<>>) = 0 /\ MaxMailboxDepth \in Nat
      BY NumberAssumption
    <2> QED BY <2>1, FilterEmpty DEF Init, EnvelopesBounded
  <1> QED BY <1>1, InitTypes, StepTypes, BoundedStep, PTL DEF Spec

-----------------------------------------------------------------------------
(* The refinement.  Every envelope is on the path of its own actor, and only a
   goroutine in its loop holds a batch; the watchers of an actor are in one
   place, its context or the cache of the group. *)

ItemsOf(g) == {e \in Envelopes : GroupOf[e.to] = g} \union {Tick}
                \union {StopReport(a) : a \in Actors}
MailboxItemsOf(a) == Addressed(a) \union {Tick}

PlacedContext(r) == /\ r.batch \in Seq(MailboxItemsOf(r.owner))
                    /\ r.phase # "loop" => r.batch = <<>>

PlacedGroup(g) == groupMailbox[g] \in Seq(ItemsOf(g)) /\ groupBatch[g] \in Seq(ItemsOf(g))
PlacedActor(a) == actorMailbox[a] \in Seq(MailboxItemsOf(a))

Placed == /\ \A g \in Groups : PlacedGroup(g)
          /\ \A a \in Actors : PlacedActor(a)
          /\ \A c \in Contexts : PlacedContext(ctx[c])

CachesSpent == \A a \in Actors : actorContexts[a] # NoContext => actorCaches[a] = {}

(* Handlers leave the batch alone, too. *)
LEMMA HandlerBatch ==
  ASSUME NEW r \in Context, NEW isRequest,
         NEW q \in ProcessMessage(r, isRequest)
  PROVE  q.batch = r.batch
  <1> DEFINE n == r.processingRequestCount + IF isRequest THEN 1 ELSE 0
             Same(x) == x \in Context /\ x.batch = r.batch
  <1>1. n \in Int
    BY DEF Context
  <1>2. ASSUME NEW x \in Answered(r, n) PROVE Same(x)
    BY <1>1, <1>2, AnsweredType
  <1>3. ASSUME NEW x, Same(x) PROVE Same(SelfInvalid(x))
    BY <1>3 DEF SelfInvalid, Context
  <1>4. CASE r.isInvalid
    BY <1>4 DEF ProcessMessage
  <1>5. CASE ~r.isInvalid
    <2>1. q \in HandlerOutcomes(r, n)
      BY <1>5 DEF ProcessMessage
    <2>2. q \in Answered(r, n) \/ \E x \in Answered(r, n) : q = SelfInvalid(x)
      BY <2>1 DEF HandlerOutcomes
    <2> QED BY <2>2, <1>2, <1>3
  <1> QED BY <1>4, <1>5

(* What the goroutine of c does with its batch and its watchers: it takes the
   mailbox into an empty batch, or takes the head off a batch, or neither. *)
Keeps(c, r) == /\ r.batch = ctx[c].batch /\ r.cache = ctx[c].cache
               /\ r.phase = ctx[c].phase \/ ctx[c].batch = <<>>
               /\ actorMailbox' = actorMailbox
Fetches(c, r) == /\ ctx[c].batch = <<>> /\ r.batch = actorMailbox[ctx[c].owner]
                 /\ r.cache = ctx[c].cache /\ ctx[c].phase = "loop" /\ r.phase = "loop"
                 /\ actorMailbox' = [actorMailbox EXCEPT ![ctx[c].owner] = <<>>]
Consumes(c, r) ==
  /\ ctx[c].phase = "loop" /\ ctx[c].batch # <<>> /\ r.batch = Tail(ctx[c].batch)
  /\ r.phase = "loop" \/ r.batch = <<>>
  /\ r.cache = IF Head(ctx[c].batch).kind \in {"watch", "unwatch"}
               THEN CacheAfter(Head(ctx[c].batch), ctx[c].cache) ELSE ctx[c].cache
  /\ actorMailbox' = actorMailbox

LEMMA ActorBatchStep ==
  ASSUME TypeOK, \A d \in Contexts : PlacedContext(ctx[d]),
         NEW c \in Contexts, ActorStep(c) \/ IdleElapses(c)
  PROVE  \E r \in Context :
           /\ ctx' = [ctx EXCEPT ![c] = r]
           /\ r.owner = ctx[c].owner
           /\ Keeps(c, r) \/ Fetches(c, r) \/ Consumes(c, r)
  <1> USE DEF groupVars, actorVars
  <1>1. ctx \in [Contexts -> Context] /\ ctx[c] \in Context
    BY DEF TypeOK
  <1>2. CASE ActorStart(c)
    <2> DEFINE r0 == [Touch(ctx[c]) EXCEPT !.phase = "loop",
                        !.tickDisabled = ctx[c].owner \in TickOff]
    <2>1. /\ r0 \in Context /\ r0.owner = ctx[c].owner /\ r0.phase = "loop"
          /\ r0.batch = ctx[c].batch /\ r0.cache = ctx[c].cache
      <3> DEFINE off == ctx[c].owner \in TickOff
      <3>1. off \in BOOLEAN
        OBVIOUS
      <3> HIDE DEF off
      <3>2. [Touch(ctx[c]) EXCEPT !.phase = "loop", !.tickDisabled = off] \in Context
        BY <1>1, <3>1 DEF Touch, Context, Phases
      <3> QED BY <1>1, <3>2 DEF Touch, Context, off
    <2>2. PICK r \in ProcessMessage(r0, FALSE) : ctx' = [ctx EXCEPT ![c] = r]
      BY <1>2 DEF ActorStart
    <2>3. /\ r \in Context /\ r.owner = ctx[c].owner
          /\ r.batch = ctx[c].batch /\ r.cache = ctx[c].cache
      <3> HIDE DEF r0
      <3> QED BY <2>1, <2>2, HandlerType, HandlerBatch
    <2>4. ctx[c].batch = <<>> /\ actorMailbox' = actorMailbox
      BY <1>2 DEF ActorStart, PlacedContext
    <2> QED BY <2>2, <2>3, <2>4 DEF Keeps
  <1>3. CASE ActorDequeue(c)
    <2> DEFINE r == [ctx[c] EXCEPT !.batch = actorMailbox[ctx[c].owner]]
    <2>1. /\ r \in Context /\ r.phase = ctx[c].phase /\ r.owner = ctx[c].owner
          /\ r.cache = ctx[c].cache /\ r.batch = actorMailbox[ctx[c].owner]
      BY <1>1 DEF Context, TypeOK
    <2>2. ctx' = [ctx EXCEPT ![c] = r]
      BY <1>1, <1>3 DEF ActorDequeue
    <2>3. /\ ctx[c].batch = <<>> /\ ctx[c].phase = "loop"
          /\ actorMailbox' = [actorMailbox EXCEPT ![ctx[c].owner] = <<>>]
      BY <1>3 DEF ActorDequeue
    <2> HIDE DEF r
    <2> QED BY <2>1, <2>2, <2>3 DEF Fetches
  <1>4. CASE ActorMailboxClosed(c) \/ ActorStop(c) \/ ActorDone(c)
    <2>1. PICK p \in Phases : ctx' = [ctx EXCEPT ![c] = [ctx[c] EXCEPT !.phase = p]]
      <3>1. {"stopping", "exit", "gone"} \subseteq Phases
        BY DEF Phases
      <3> QED BY <1>1, <1>4, <3>1 DEF ActorMailboxClosed, ActorStop, ActorDone
    <2> DEFINE r == [ctx[c] EXCEPT !.phase = p]
    <2>2. /\ r \in Context /\ r.owner = ctx[c].owner
          /\ r.batch = ctx[c].batch /\ r.cache = ctx[c].cache
      BY <1>1 DEF Context
    <2>3. ctx[c].batch = <<>> /\ actorMailbox' = actorMailbox
      BY <1>4 DEF ActorMailboxClosed, ActorStop, ActorDone, PlacedContext
    <2> HIDE DEF r
    <2> QED BY <2>1, <2>2, <2>3 DEF Keeps, r
  <1>5. CASE IdleElapses(c)
    <2> DEFINE r == [ctx[c] EXCEPT !.idle = TRUE]
    <2>1. /\ r \in Context /\ r.phase = ctx[c].phase /\ r.owner = ctx[c].owner
          /\ r.batch = ctx[c].batch /\ r.cache = ctx[c].cache
      BY <1>1 DEF Context
    <2>2. ctx' = [ctx EXCEPT ![c] = r] /\ actorMailbox' = actorMailbox
      BY <1>1, <1>5 DEF IdleElapses
    <2> HIDE DEF r
    <2> QED BY <2>1, <2>2 DEF Keeps
  <1>6. ASSUME ctx[c].phase = "loop", ctx[c].batch # <<>>
        PROVE  /\ Consumed(c) \in Context /\ Consumed(c).owner = ctx[c].owner
               /\ Consumed(c).phase = "loop" /\ Consumed(c).cache = ctx[c].cache
               /\ Consumed(c).batch = Tail(ctx[c].batch)
    <2>1. ctx[c].batch \in Seq(MailboxItems)
      BY <1>1 DEF Context
    <2>2. Tail(ctx[c].batch) \in Seq(MailboxItems)
      BY <1>6, <2>1
    <2> QED BY <1>1, <1>6, <2>2 DEF Consumed, Context
  <1>7. CASE ActorWatch(c)
    <2> DEFINE e == Head(ctx[c].batch)
               r == [Consumed(c) EXCEPT !.cache = CacheAfter(e, @)]
    <2>1. /\ ctx[c].phase = "loop" /\ ctx[c].batch # <<>> /\ e.kind \in {"watch", "unwatch"}
          /\ ctx' = [ctx EXCEPT ![c] = r] /\ actorMailbox' = actorMailbox
      BY <1>7 DEF ActorWatch, AtMessage
    <2>2. e.who \in Watchers
      <3>1. e \in MailboxItems
        BY <1>1, <2>1 DEF Context
      <3> QED BY <2>1, <3>1, EnvelopeAssumption DEF MailboxItems, Tick
    <2>3. /\ r \in Context /\ r.owner = ctx[c].owner /\ r.phase = "loop"
          /\ r.cache = CacheAfter(e, ctx[c].cache) /\ r.batch = Tail(ctx[c].batch)
      BY <1>6, <2>1, <2>2 DEF CacheAfter, Context
    <2> HIDE DEF r
    <2> QED BY <2>1, <2>3 DEF Consumes
  <1>8. CASE ActorMessage(c)
    <2> DEFINE r0 == Shown(c)
    <2>1. /\ ctx[c].phase = "loop" /\ ctx[c].batch # <<>>
          /\ Head(ctx[c].batch).kind \notin {"watch", "unwatch"}
          /\ actorMailbox' = actorMailbox
      BY <1>8 DEF ActorMessage, AtMessage
    <2>2. /\ r0 \in Context /\ r0.owner = ctx[c].owner /\ r0.phase = "loop"
          /\ r0.cache = ctx[c].cache /\ r0.batch = Tail(ctx[c].batch)
      BY <1>6, <2>1, ShownType
    <2>3. PICK r \in ProcessMessage(r0, Head(ctx[c].batch).kind # "send") :
            ctx' = [ctx EXCEPT ![c] = r]
      BY <1>8 DEF ActorMessage
    <2> HIDE DEF r0
    <2>4. /\ r \in Context /\ r.owner = ctx[c].owner /\ r.phase = "loop"
          /\ r.cache = ctx[c].cache /\ r.batch = Tail(ctx[c].batch)
      BY <2>2, <2>3, HandlerType, HandlerBatch
    <2> QED BY <2>1, <2>3, <2>4 DEF Consumes
  <1>9. CASE ActorTick(c)
    <2>1. /\ ctx[c].phase = "loop" /\ ctx[c].batch # <<>>
          /\ Head(ctx[c].batch).kind \notin {"watch", "unwatch"}
          /\ actorMailbox' = actorMailbox
      BY <1>9 DEF ActorTick, AtMessage
    <2>2. PICK r \in ProcessMessage(Consumed(c), FALSE) : ctx' = [ctx EXCEPT ![c] = r]
      BY <1>9 DEF ActorTick
    <2>3. /\ r \in Context /\ r.owner = ctx[c].owner /\ r.phase = "loop"
          /\ r.cache = ctx[c].cache /\ r.batch = Tail(ctx[c].batch)
      BY <1>6, <2>1, <2>2, HandlerType, HandlerBatch
    <2> QED BY <2>1, <2>2, <2>3 DEF Consumes
  <1>10. CASE ActorRecycle(c)
    <2> DEFINE r == [ctx[c] EXCEPT !.phase = "stopping", !.batch = <<>>]
    <2>1. /\ ctx[c].phase = "loop" /\ ctx[c].batch # <<>>
          /\ Head(ctx[c].batch).kind \notin {"watch", "unwatch"}
          /\ actorMailbox' = actorMailbox
          /\ Len(ctx[c].batch) = 1
          /\ ctx' = [ctx EXCEPT ![c] = r]
      BY <1>10 DEF ActorRecycle, AtMessage, Recycles
    <2>2. /\ r \in Context /\ r.owner = ctx[c].owner
          /\ r.cache = ctx[c].cache /\ r.batch = <<>>
      <3>1. ASSUME NEW p \in Phases, NEW b \in Seq(MailboxItems)
            PROVE  LET x == [ctx[c] EXCEPT !.phase = p, !.batch = b]
                   IN  x \in Context /\ x.owner = ctx[c].owner
                         /\ x.cache = ctx[c].cache /\ x.batch = b
        BY <1>1 DEF Context
      <3>2. "stopping" \in Phases /\ <<>> \in Seq(MailboxItems)
        BY DEF Phases
      <3> QED BY <3>1, <3>2
    <2>3. Tail(ctx[c].batch) = <<>>
      <3>1. ctx[c].batch \in Seq(MailboxItems)
        BY <1>1 DEF Context
      <3>2. PICK q \in Seq(MailboxItems) : q = ctx[c].batch
        BY <3>1
      <3>3. q # <<>> /\ Len(q) = 1
        BY <2>1, <3>2
      <3>4. Tail(q) \in Seq(MailboxItems) /\ Len(Tail(q)) = 0
        BY <3>3, HeadTailProperties
      <3>5. Tail(q) = <<>>
        BY <3>4, EmptySeq
      <3> QED BY <3>2, <3>5
    <2> HIDE DEF r
    <2> QED BY <2>1, <2>2, <2>3 DEF Consumes
  <1> QED BY <1>2, <1>3, <1>4, <1>5, <1>7, <1>8, <1>9, <1>10 DEF ActorStep

(* The group queues hold what belongs to the group. *)
LEMMA PlacedQueues ==
  ASSUME TypeOK, \A h \in Groups : PlacedGroup(h), NEW g \in Groups,
         \/ /\ \E y \in ItemsOf(g) : groupMailbox' = [groupMailbox EXCEPT ![g] = Append(@, y)]
            /\ groupBatch' = groupBatch
         \/ /\ groupBatch' = [groupBatch EXCEPT ![g] = groupMailbox[g]]
            /\ groupMailbox' = [groupMailbox EXCEPT ![g] = <<>>]
         \/ /\ groupBatch[g] # <<>>
            /\ NextEnvelope(g) \/ LoseBatch(g)
            /\ groupMailbox' = groupMailbox
         \/ UNCHANGED <<groupMailbox, groupBatch>>
  PROVE  \A h \in Groups : PlacedGroup(h)'
  <1> TAKE h \in Groups
  <1>1. /\ groupMailbox[g] \in Seq(ItemsOf(g)) /\ groupBatch[g] \in Seq(ItemsOf(g))
        /\ groupMailbox[h] \in Seq(ItemsOf(h)) /\ groupBatch[h] \in Seq(ItemsOf(h))
        /\ <<>> \in Seq(ItemsOf(g))
    BY DEF PlacedGroup
  <1>2. CASE h # g
    BY <1>1, <1>2 DEF PlacedGroup, NextEnvelope, LoseBatch, TypeOK
  <1>3. CASE h = g
    <2>1. ASSUME NEW y \in ItemsOf(g) PROVE Append(groupMailbox[g], y) \in Seq(ItemsOf(g))
      BY <1>1, AppendProperties
    <2>2. groupBatch[g] # <<>> => Tail(groupBatch[g]) \in Seq(ItemsOf(g))
      BY <1>1, HeadTailProperties
    <2> QED BY <1>1, <1>3, <2>1, <2>2 DEF PlacedGroup, NextEnvelope, LoseBatch, TypeOK
  <1> QED BY <1>2, <1>3

(* The group puts every envelope into the mailbox of its own actor. *)
LEMMA PlacedByGroup ==
  ASSUME OneInstanceInv, Placed, NEW g \in Groups, GroupStep(g)
  PROVE  Placed'
  <1> USE DEF groupVars, actorVars
  <1>0. /\ TypeOK /\ \A h \in Groups : PlacedGroup(h)
        /\ \A a \in Actors : actorMailbox[a] \in Seq(MailboxItemsOf(a))
        /\ \A c \in Contexts : PlacedContext(ctx[c])
    BY DEF OneInstanceInv, Placed, PlacedActor
  <1>1. \A h \in Groups : PlacedGroup(h)'
    <2>1. ASSUME NEW a \in Actors,
                 Deliver(g, a) \/ ActivateAndDeliver(g, a) \/ DropOverflow(g, a)
                   \/ DropUnregistered(g, a) \/ CreatorPanicsOnEnvelope(g, a)
                   \/ Deactivate(g, a) \/ Reactivate(g, a) \/ CreatorPanicsOnReport(g, a)
          PROVE  /\ groupBatch[g] # <<>>
                 /\ NextEnvelope(g) \/ LoseBatch(g)
                 /\ groupMailbox' = groupMailbox
      BY <2>1 DEF Deliver, ActivateAndDeliver, DropOverflow, DropUnregistered,
         CreatorPanicsOnEnvelope, Deactivate, Reactivate, CreatorPanicsOnReport,
         AtEnvelope, AtStopReport
    <2>2. CASE GroupDequeue(g)
      BY <1>0, <2>2, PlacedQueues DEF GroupDequeue
    <2>3. CASE GroupExit(g)
      BY <1>0, <2>3, PlacedQueues DEF GroupExit
    <2>4. CASE GroupTick(g)
      BY <1>0, <2>4, PlacedQueues DEF GroupTick
    <2>5. CASE \E a \in Actors :
                 Deliver(g, a) \/ ActivateAndDeliver(g, a) \/ DropOverflow(g, a)
                   \/ DropUnregistered(g, a) \/ CreatorPanicsOnEnvelope(g, a)
                   \/ Deactivate(g, a) \/ Reactivate(g, a) \/ CreatorPanicsOnReport(g, a)
      BY <1>0, <2>1, <2>5, PlacedQueues
    <2> QED BY <2>2, <2>3, <2>4, <2>5 DEF GroupStep, GroupProcess
  <1>2. \A a \in Actors : PlacedActor(a)'
    <2> SUFFICES ASSUME NEW b \in Actors PROVE actorMailbox'[b] \in Seq(MailboxItemsOf(b))
      BY DEF PlacedActor
    <2>1. ASSUME NEW a \in Actors, Deliver(g, a) \/ ActivateAndDeliver(g, a)
          PROVE  actorMailbox'[b] \in Seq(MailboxItemsOf(b))
      <3>1. Head(groupBatch[g]) \in MailboxItemsOf(a)
        BY <2>1 DEF Deliver, ActivateAndDeliver, AtEnvelope, MailboxItemsOf, Addressed
      <3>2. Append(actorMailbox[a], Head(groupBatch[g])) \in Seq(MailboxItemsOf(a))
        BY <1>0, <3>1, AppendProperties
      <3> QED BY <1>0, <2>1, <3>2 DEF Deliver, ActivateAndDeliver, TypeOK
    <2>2. CASE GroupTick(g)
      <3>1. Tick \in MailboxItemsOf(b)
        BY DEF MailboxItemsOf
      <3>2. Append(actorMailbox[b], Tick) \in Seq(MailboxItemsOf(b))
        BY <1>0, <3>1, AppendProperties
      <3> QED BY <1>0, <2>2, <3>2 DEF GroupTick
    <2>3. ASSUME actorMailbox' = actorMailbox PROVE actorMailbox'[b] \in Seq(MailboxItemsOf(b))
      BY <1>0, <2>3
    <2> QED
      BY <2>1, <2>2, <2>3
      DEF GroupStep, GroupProcess, GroupDequeue, GroupExit, DropOverflow, DropUnregistered,
          CreatorPanicsOnEnvelope, Deactivate, Reactivate, CreatorPanicsOnReport
  <1>3. \A c \in Contexts : PlacedContext(ctx'[c])
    <2>1. ASSUME NEW a \in Actors, NEW cache, Activate(a, cache)
          PROVE  \A c \in Contexts : PlacedContext(ctx'[c])
      <3>1. PICK d \in Contexts : ctx' = [ctx EXCEPT ![d] = NewContext(a, cache)]
        BY <2>1 DEF Activate
      <3>2. PlacedContext(NewContext(a, cache))
        BY DEF PlacedContext, NewContext
      <3> QED BY <1>0, <3>1, <3>2 DEF TypeOK
    <2>2. ASSUME ctx' = ctx PROVE \A c \in Contexts : PlacedContext(ctx'[c])
      BY <1>0, <2>2
    <2> QED
      BY <2>1, <2>2
      DEF GroupStep, GroupProcess, GroupDequeue, GroupExit, GroupTick, Deliver,
          ActivateAndDeliver, DropOverflow, DropUnregistered,
          CreatorPanicsOnEnvelope, Deactivate, Reactivate, CreatorPanicsOnReport
  <1> QED BY <1>1, <1>2, <1>3 DEF Placed

(* A goroutine takes its batch from the mailbox of its actor. *)
LEMMA PlacedByActor ==
  ASSUME OneInstanceInv, Placed, NEW c \in Contexts, ActorStep(c) \/ IdleElapses(c)
  PROVE  Placed'
  <1> USE DEF groupVars, actorVars
  <1>0. /\ TypeOK /\ \A h \in Groups : PlacedGroup(h)
        /\ \A a \in Actors : actorMailbox[a] \in Seq(MailboxItemsOf(a))
        /\ \A d \in Contexts : PlacedContext(ctx[d])
        /\ ctx[c].owner \in Actors
    BY DEF OneInstanceInv, Placed, PlacedActor, TypeOK, Context
  <1>1. PICK r \in Context : /\ ctx' = [ctx EXCEPT ![c] = r]
                             /\ r.owner = ctx[c].owner
                             /\ Keeps(c, r) \/ Fetches(c, r) \/ Consumes(c, r)
    BY <1>0, ActorBatchStep
  <1>2. \A h \in Groups : PlacedGroup(h)'
    <2>1. CASE ActorStop(c)
      <3>1. /\ GroupOf[ctx[c].owner] \in Groups
            /\ StopReport(ctx[c].owner) \in ItemsOf(GroupOf[ctx[c].owner])
        BY <1>0, GroupOfAssumption DEF ItemsOf
      <3>2. CASE groupClosed[GroupOf[ctx[c].owner]]
        <4>1. UNCHANGED <<groupMailbox, groupBatch>>
          BY <1>0, <2>1, <3>1, <3>2 DEF ActorStop, TypeOK
        <4> QED BY <1>0, <3>1, <4>1, PlacedQueues
      <3>3. CASE ~groupClosed[GroupOf[ctx[c].owner]]
        <4>1. /\ groupMailbox' = [groupMailbox EXCEPT ![GroupOf[ctx[c].owner]] =
                                    Append(@, StopReport(ctx[c].owner))]
              /\ groupBatch' = groupBatch
          BY <2>1, <3>3 DEF ActorStop
        <4> QED BY <1>0, <3>1, <4>1, PlacedQueues
      <3> QED BY <3>2, <3>3
    <2>2. CASE ~ActorStop(c)
      <3>1. UNCHANGED <<groupMailbox, groupBatch>>
        BY <2>2 DEF ActorStep, IdleElapses, ActorStart, ActorDequeue, ActorMailboxClosed,
           ActorWatch, ActorMessage, ActorTick, ActorRecycle, ActorDone
      <3> QED BY <1>0, <3>1 DEF PlacedGroup
    <2> QED BY <2>1, <2>2
  <1>3. \A a \in Actors : PlacedActor(a)'
    <2>1. ASSUME NEW a \in Actors
          PROVE  actorMailbox'[a] = actorMailbox[a] \/ actorMailbox'[a] = <<>>
      BY <1>0, <1>1 DEF Keeps, Fetches, Consumes, TypeOK
    <2>2. \A a \in Actors : <<>> \in Seq(MailboxItemsOf(a))
      OBVIOUS
    <2> QED BY <1>0, <2>1, <2>2 DEF PlacedActor
  <1>4. PlacedContext(r)
    <2>1. PlacedContext(ctx[c])
      BY <1>0
    <2>2. CASE Keeps(c, r)
      BY <1>1, <2>1, <2>2 DEF Keeps, PlacedContext
    <2>3. CASE Fetches(c, r)
      BY <1>0, <1>1, <2>3 DEF Fetches, PlacedContext
    <2>4. CASE Consumes(c, r)
      <3>1. Tail(ctx[c].batch) \in Seq(MailboxItemsOf(ctx[c].owner))
        BY <2>1, <2>4, HeadTailProperties DEF Consumes, PlacedContext
      <3> QED BY <1>1, <2>4, <3>1 DEF Consumes, PlacedContext
    <2> QED BY <1>1, <2>2, <2>3, <2>4
  <1>5. \A d \in Contexts : PlacedContext(ctx'[d])
    BY <1>0, <1>1, <1>4 DEF TypeOK
  <1> QED BY <1>2, <1>3, <1>5 DEF Placed

(* Envelopes stay on the path of their actor. *)
LEMMA PlacedStep ==
  ASSUME OneInstanceInv, Placed, [Next]_vars
  PROVE  Placed'
  <1> USE DEF groupVars, actorVars
  <1>0. TypeOK /\ \A h \in Groups : PlacedGroup(h)
    BY DEF OneInstanceInv, Placed
  <1>1. ASSUME UNCHANGED <<actorMailbox, ctx>>, \A h \in Groups : PlacedGroup(h)'
        PROVE  Placed'
    BY <1>1 DEF Placed, PlacedActor
  <1>2. CASE Stop \/ (\E g \in Groups : CloseGroup(g)) \/ UNCHANGED vars
    <2>1. UNCHANGED <<groupMailbox, groupBatch, actorMailbox, ctx>>
      BY <1>2 DEF Stop, CloseGroup, vars
    <2> QED BY <1>0, <1>1, <2>1 DEF PlacedGroup
  <1>3. ASSUME NEW e \in Envelopes, Accept(e) PROVE Placed'
    <2>1. GroupOf[e.to] \in Groups /\ e \in ItemsOf(GroupOf[e.to])
      BY GroupOfAssumption, EnvelopeAssumption DEF ItemsOf
    <2>2. \A h \in Groups : PlacedGroup(h)'
      BY <1>0, <1>3, <2>1, PlacedQueues DEF Accept
    <2> QED BY <1>1, <1>3, <2>2 DEF Accept
  <1>4. ASSUME NEW g \in Groups, TickerFires(g) PROVE Placed'
    <2>1. Tick \in ItemsOf(g)
      BY DEF ItemsOf
    <2>2. \A h \in Groups : PlacedGroup(h)'
      BY <1>0, <1>4, <2>1, PlacedQueues DEF TickerFires
    <2> QED BY <1>1, <1>4, <2>2 DEF TickerFires
  <1> QED BY <1>2, <1>3, <1>4, PlacedByGroup, PlacedByActor DEF Next

(* The group gives an actor's cache away when it registers a context. *)
LEMMA CachesStep ==
  ASSUME OneInstanceInv, CachesSpent, [Next]_vars
  PROVE  CachesSpent'
  <1> USE DEF groupVars, actorVars
  <1>0. TypeOK
    BY DEF OneInstanceInv
  <1> SUFFICES ASSUME NEW b \in Actors, actorContexts'[b] # NoContext
               PROVE  actorCaches'[b] = {}
    BY DEF CachesSpent
  <1>1. actorContexts[b] # NoContext => actorCaches[b] = {}
    BY DEF CachesSpent
  <1>2. ASSUME NEW g \in Groups, NEW a \in Actors, ActivateAndDeliver(g, a)
        PROVE  actorCaches'[b] = {}
    BY <1>0, <1>1, <1>2 DEF ActivateAndDeliver, Activate, TypeOK
  <1>3. ASSUME NEW g \in Groups, NEW a \in Actors, Reactivate(g, a)
        PROVE  actorCaches'[b] = {}
    <2>1. actorContexts[a] # NoContext
      BY <1>3, ReporterRegistered, ContextAssumption DEF Reactivate
    <2>2. actorContexts[b] # NoContext
      BY <1>0, <1>3, <2>1 DEF Reactivate, Activate, TypeOK
    <2> QED BY <1>1, <1>3, <2>2 DEF Reactivate
  <1>4. ASSUME NEW g \in Groups, NEW a \in Actors,
               \/ DropUnregistered(g, a) \/ CreatorPanicsOnEnvelope(g, a)
               \/ Deactivate(g, a) \/ CreatorPanicsOnReport(g, a)
        PROVE  actorCaches'[b] = {}
    BY <1>0, <1>1, <1>4 DEF DropUnregistered, CreatorPanicsOnEnvelope, Deactivate,
       CreatorPanicsOnReport, TypeOK
  <1>5. ASSUME UNCHANGED <<actorContexts, actorCaches>> PROVE actorCaches'[b] = {}
    BY <1>1, <1>5
  <1>6. ASSUME NEW c \in Contexts, ActorStep(c) \/ IdleElapses(c)
        PROVE  UNCHANGED <<actorContexts, actorCaches>>
    BY <1>6
    DEF ActorStep, IdleElapses, ActorStart, ActorDequeue, ActorMailboxClosed,
        ActorWatch, ActorMessage, ActorTick, ActorRecycle, ActorStop, ActorDone
  <1> QED
    BY <1>2, <1>3, <1>4, <1>5, <1>6
    DEF Next, Stop, Accept, TickerFires, CloseGroup, vars, GroupStep, GroupProcess,
        GroupDequeue, GroupExit, GroupTick, Deliver, DropOverflow

-----------------------------------------------------------------------------
(* What the moves of envelopes do to a path, of which b is the batch, m the
   mailbox, and gb and gm the batch and the mailbox of the group. *)

Joined(b, m, gb, gm) == Cat(Cat(b, m), Cat(gb, gm))

(* It is filtered part by part. *)
LEMMA FilterJoined ==
  ASSUME NEW T, NEW S
  PROVE  \A b, m, gb, gm \in Words(T) :
           /\ Joined(b, m, gb, gm) \in Words(T)
           /\ Filter(Joined(b, m, gb, gm), S)
                = Joined(Filter(b, S), Filter(m, S), Filter(gb, S), Filter(gm, S))
  <1> TAKE b \in Words(T), m \in Words(T), gb \in Words(T), gm \in Words(T)
  <1>1. Cat(b, m) \in Words(T) /\ Cat(gb, gm) \in Words(T)
    BY WordsLaws
  <1>2. /\ Filter(Cat(b, m), S) = Cat(Filter(b, S), Filter(m, S))
        /\ Filter(Cat(gb, gm), S) = Cat(Filter(gb, S), Filter(gm, S))
    BY FilterWords
  <1>3. /\ Cat(Cat(b, m), Cat(gb, gm)) \in Words(T)
        /\ Filter(Cat(Cat(b, m), Cat(gb, gm)), S)
             = Cat(Filter(Cat(b, m), S), Filter(Cat(gb, gm), S))
    BY <1>1, WordsLaws, FilterWords
  <1> QED BY <1>2, <1>3 DEF Joined

(* A queue is moved as a whole, by the group or by the actor. *)
LEMMA JoinedWhole ==
  ASSUME NEW T
  PROVE  \A b, m, gb, gm \in Words(T) :
           /\ Joined(b, m, gm, <<>>) = Joined(b, m, <<>>, gm)
           /\ Joined(m, <<>>, gb, gm) = Joined(<<>>, m, gb, gm)
  BY Neutral DEF Joined

(* The head of the group's batch is put at the end of the mailbox. *)
LEMMA JoinedDeliver ==
  ASSUME NEW T
  PROVE  \A b, m, gb, gm \in Words(T) :
           gb # <<>> => Joined(b, Append(m, Head(gb)), Tail(gb), gm) = Joined(b, m, gb, gm)
  <1> SUFFICES ASSUME NEW b \in Words(T), NEW m \in Words(T),
                      NEW gb \in Words(T), NEW gm \in Words(T), gb # <<>>
               PROVE  Joined(b, Append(m, Head(gb)), Tail(gb), gm) = Joined(b, m, gb, gm)
    OBVIOUS
  <1>1. PICK h, t : h = <<Head(gb)>> /\ t = Tail(gb)
    OBVIOUS
  <1>2. h \in Words(T) /\ t \in Words(T) /\ gb = Cat(h, t) /\ Append(m, Head(gb)) = Cat(m, h)
    <2>1. /\ Head(gb) \in T /\ <<Head(gb)>> \in Words(T) /\ Tail(gb) \in Words(T)
          /\ gb = Cat(<<Head(gb)>>, Tail(gb))
      BY HeadAndTail
    <2>2. Append(m, Head(gb)) = Cat(m, <<Head(gb)>>)
      BY <2>1, AppendLaws
    <2> QED BY <1>1, <2>1, <2>2
  <1>3. Cat(b, m) \in Words(T) /\ Cat(t, gm) \in Words(T)
    BY <1>2, WordsLaws
  <1>4. Cat(b, Cat(m, h)) = Cat(Cat(b, m), h) /\ Cat(Cat(h, t), gm) = Cat(h, Cat(t, gm))
    BY <1>2, Associative
  <1>5. Cat(Cat(Cat(b, m), h), Cat(t, gm)) = Cat(Cat(b, m), Cat(h, Cat(t, gm)))
    BY <1>2, <1>3, Associative
  <1>6. Joined(b, Cat(m, h), t, gm) = Joined(b, m, Cat(h, t), gm)
    BY <1>4, <1>5 DEF Joined
  <1> QED BY <1>1, <1>2, <1>6

(* A head that is not counted is taken off the group's batch, or the actor's. *)
LEMMA JoinedSkip ==
  ASSUME NEW T, NEW S
  PROVE  \A b, m, gb, gm \in Words(T) :
           /\ gb # <<>> /\ Head(gb) \notin S =>
                Filter(Joined(b, m, Tail(gb), gm), S) = Filter(Joined(b, m, gb, gm), S)
           /\ b # <<>> /\ Head(b) \notin S =>
                Filter(Joined(Tail(b), m, gb, gm), S) = Filter(Joined(b, m, gb, gm), S)
  <1> TAKE b \in Words(T), m \in Words(T), gb \in Words(T), gm \in Words(T)
  <1>1. \A p, q \in Words(T) :
          /\ Filter(Joined(b, m, p, gm), S)
               = Joined(Filter(b, S), Filter(m, S), Filter(p, S), Filter(gm, S))
          /\ Filter(Joined(q, m, gb, gm), S)
               = Joined(Filter(q, S), Filter(m, S), Filter(gb, S), Filter(gm, S))
    BY FilterJoined
  <1>2. ASSUME gb # <<>>, Head(gb) \notin S
        PROVE  Filter(Joined(b, m, Tail(gb), gm), S) = Filter(Joined(b, m, gb, gm), S)
    <2>1. Tail(gb) \in Words(T) /\ Filter(Tail(gb), S) = Filter(gb, S)
      BY <1>2, HeadAndTail, FilterSkip
    <2> QED BY <1>1, <2>1
  <1>3. ASSUME b # <<>>, Head(b) \notin S
        PROVE  Filter(Joined(Tail(b), m, gb, gm), S) = Filter(Joined(b, m, gb, gm), S)
    <2>1. Tail(b) \in Words(T) /\ Filter(Tail(b), S) = Filter(b, S)
      BY <1>3, HeadAndTail, FilterSkip
    <2> QED BY <1>1, <2>1
  <1> QED BY <1>2, <1>3

(* Something that is not counted enters the mailbox, or the group's. *)
LEMMA JoinedExtra ==
  ASSUME NEW T, NEW S
  PROVE  \A b, m, gb, gm \in Words(T), y \in T \ S :
           /\ Filter(Joined(b, Append(m, y), gb, gm), S) = Filter(Joined(b, m, gb, gm), S)
           /\ Filter(Joined(b, m, gb, Append(gm, y)), S) = Filter(Joined(b, m, gb, gm), S)
  <1> TAKE b \in Words(T), m \in Words(T), gb \in Words(T), gm \in Words(T), y \in T \ S
  <1>1. \A p, q \in Words(T) :
          Filter(Joined(b, p, gb, q), S)
            = Joined(Filter(b, S), Filter(p, S), Filter(gb, S), Filter(q, S))
    BY FilterJoined
  <1>2. /\ Append(m, y) \in Words(T) /\ Filter(Append(m, y), S) = Filter(m, S)
        /\ Append(gm, y) \in Words(T) /\ Filter(Append(gm, y), S) = Filter(gm, S)
    BY AppendLaws, FilterMore
  <1>3. Filter(Joined(b, Append(m, y), gb, gm), S) = Filter(Joined(b, m, gb, gm), S)
    BY ONLY <1>1, <1>2, m \in Words(T), gm \in Words(T)
  <1>4. Filter(Joined(b, m, gb, Append(gm, y)), S) = Filter(Joined(b, m, gb, gm), S)
    BY ONLY <1>1, <1>2, m \in Words(T), gm \in Words(T)
  <1> QED BY <1>3, <1>4

(* A counted envelope enters at the group. *)
LEMMA JoinedAccept ==
  ASSUME NEW T, NEW S
  PROVE  \A b, m, gb, gm \in Words(T), y \in T :
           y \in S => Filter(Joined(b, m, gb, Append(gm, y)), S)
                        = Cat(Filter(Joined(b, m, gb, gm), S), <<y>>)
  <1> SUFFICES ASSUME NEW b \in Words(T), NEW m \in Words(T),
                      NEW gb \in Words(T), NEW gm \in Words(T), NEW y \in T, y \in S
               PROVE  Filter(Joined(b, m, gb, Append(gm, y)), S)
                        = Cat(Filter(Joined(b, m, gb, gm), S), <<y>>)
    OBVIOUS
  <1>1. PICK h : h = <<y>>
    OBVIOUS
  <1>2. PICK u, v : u = Cat(b, m) /\ v = Cat(gb, gm)
    OBVIOUS
  <1>3. h \in Words(T) /\ u \in Words(T) /\ v \in Words(T) /\ Cat(u, v) \in Words(T)
    BY <1>1, <1>2, AppendLaws, WordsLaws
  <1>4. Append(gm, y) = Cat(gm, h) /\ Append(Cat(u, v), y) = Cat(Cat(u, v), h)
    BY <1>1, <1>3, AppendLaws
  <1>5. Cat(gb, Cat(gm, h)) = Cat(v, h)
    BY <1>2, <1>3, Associative
  <1>6. Cat(u, Cat(v, h)) = Cat(Cat(u, v), h)
    BY <1>3, Associative
  <1>7. Joined(b, m, gb, Append(gm, y)) = Append(Joined(b, m, gb, gm), y)
    BY <1>2, <1>4, <1>5, <1>6 DEF Joined
  <1>8. Joined(b, m, gb, gm) \in Words(T)
    BY <1>2, <1>3 DEF Joined
  <1>9. /\ Filter(Append(Joined(b, m, gb, gm), y), S)
             = Append(Filter(Joined(b, m, gb, gm), S), y)
        /\ Filter(Joined(b, m, gb, gm), S) \in Words(T)
    BY <1>8, FilterMore, FilterWords
  <1>10. Append(Filter(Joined(b, m, gb, gm), S), y)
           = Cat(Filter(Joined(b, m, gb, gm), S), <<y>>)
    BY <1>9, AppendLaws
  <1> QED BY ONLY <1>7, <1>9, <1>10

(* A counted head is taken off the actor's batch ... *)
LEMMA JoinedHandle ==
  ASSUME NEW T, NEW S
  PROVE  \A b, m, gb, gm \in Words(T) :
           b # <<>> /\ Head(b) \in S =>
             Filter(Joined(b, m, gb, gm), S)
               = Cat(<<Head(b)>>, Filter(Joined(Tail(b), m, gb, gm), S))
  <1> SUFFICES ASSUME NEW b \in Words(T), NEW m \in Words(T),
                      NEW gb \in Words(T), NEW gm \in Words(T),
                      b # <<>>, Head(b) \in S
               PROVE  Filter(Joined(b, m, gb, gm), S)
                        = Cat(<<Head(b)>>, Filter(Joined(Tail(b), m, gb, gm), S))
    OBVIOUS
  <1>1. PICK v : v = Cat(gb, gm) /\ v \in Words(T)
    BY WordsLaws
  <1>2. Cat(m, v) \in Words(T) /\ Tail(b) \in Words(T)
    BY <1>1, WordsLaws, HeadAndTail
  <1>3. \A p \in Words(T) : Joined(p, m, gb, gm) = Cat(p, Cat(m, v))
    BY <1>1, Associative DEF Joined
  <1>4. Filter(Cat(b, Cat(m, v)), S) = Cat(<<Head(b)>>, Filter(Cat(Tail(b), Cat(m, v)), S))
    BY <1>2, FilterKeep
  <1> QED BY <1>2, <1>3, <1>4

(* ... or off the group's when nothing is closer to the actor. *)
LEMMA JoinedSwallow ==
  ASSUME NEW T, NEW S
  PROVE  \A gb, gm \in Words(T) :
           gb # <<>> /\ Head(gb) \in S =>
             Filter(Joined(<<>>, <<>>, gb, gm), S)
               = Cat(<<Head(gb)>>, Filter(Joined(<<>>, <<>>, Tail(gb), gm), S))
  <1> SUFFICES ASSUME NEW gb \in Words(T), NEW gm \in Words(T),
                      gb # <<>>, Head(gb) \in S
               PROVE  Filter(Joined(<<>>, <<>>, gb, gm), S)
                        = Cat(<<Head(gb)>>, Filter(Joined(<<>>, <<>>, Tail(gb), gm), S))
    OBVIOUS
  <1>1. \A p \in Words(T) : Joined(<<>>, <<>>, p, gm) = Cat(p, gm)
    BY WordsLaws, Neutral DEF Joined
  <1>2. Tail(gb) \in Words(T)
    BY HeadAndTail
  <1>3. Filter(Cat(gb, gm), S) = Cat(<<Head(gb)>>, Filter(Cat(Tail(gb), gm), S))
    BY FilterKeep
  <1> QED BY <1>1, <1>2, <1>3

-----------------------------------------------------------------------------
(* The steps of the core as steps of the virtual actors. *)

(* The four queues on the way to a, whose filtered concatenation is its inbox. *)
LEMMA PathParts ==
  ASSUME TypeOK, NEW a \in Actors
  PROVE  /\ BatchOf(a) \in Words(Items)
         /\ actorMailbox[a] \in Words(Items)
         /\ groupBatch[GroupOf[a]] \in Words(Items)
         /\ groupMailbox[GroupOf[a]] \in Words(Items)
  <1>1. GroupOf[a] \in Groups /\ MailboxItems \subseteq Items
    BY GroupOfAssumption DEF Items, MailboxItems
  <1>2. Seq(MailboxItems) \subseteq Seq(Items)
    BY <1>1, SeqMonotonic
  <1>3. actorContexts[a] # NoContext => ctx[actorContexts[a]].batch \in Seq(MailboxItems)
    BY DEF TypeOK, Context
  <1>4. BatchOf(a) \in Seq(Items)
    <2>1. <<>> \in Seq(Items)
      OBVIOUS
    <2> QED BY <1>2, <1>3, <2>1 DEF BatchOf
  <1> QED BY <1>1, <1>2, <1>4 DEF TypeOK, Words

LEMMA InboxOf ==
  ASSUME NEW a
  PROVE  /\ Inbox(a) = Filter(Joined(BatchOf(a), actorMailbox[a], groupBatch[GroupOf[a]],
                                     groupMailbox[GroupOf[a]]), Addressed(a))
         /\ Inbox(a)' = Filter(Joined(BatchOf(a)', actorMailbox'[a], groupBatch'[GroupOf[a]],
                                      groupMailbox'[GroupOf[a]]), Addressed(a))
  BY DEF Inbox, Path, Joined, Cat

Same(a) == Inbox(a)' = Inbox(a) /\ Subscribers(a)' = Subscribers(a)

(* The actor's oldest envelope leaves, with its effect on the watchers. *)
Handles(a) == /\ Inbox(a) # <<>>
              /\ Inbox(a)' = Tail(Inbox(a))
              /\ Subscribers(a)' = IF a \in Registered
                                   THEN VA!SubsAfter(Head(Inbox(a)), Subscribers(a))
                                   ELSE Subscribers(a)

RefinementInv == OneInstanceInv /\ ServedInv /\ Inert /\ Placed /\ CachesSpent

(* What was put in front of a sequence is its head. *)
LEMMA InFront ==
  ASSUME NEW T, NEW q \in Words(T), NEW e \in T
  PROVE  LET p == Cat(<<e>>, q) IN p # <<>> /\ Head(p) = e /\ Tail(p) = q
  <1>1. q \in Seq(T)
    BY DEF Words
  <1> QED BY <1>1 DEF Cat

(* The same queues, filtered, and the same watchers. *)
LEMMA SameQueues ==
  ASSUME NEW a \in Actors, BatchOf(a)' = BatchOf(a), actorMailbox'[a] = actorMailbox[a],
         groupBatch'[GroupOf[a]] = groupBatch[GroupOf[a]],
         groupMailbox'[GroupOf[a]] = groupMailbox[GroupOf[a]]
  PROVE  Inbox(a)' = Inbox(a)
  BY InboxOf DEF Inbox, Path

(* A step that leaves an actor's entries in the tables and its context alone. *)
LEMMA SameTables ==
  ASSUME NEW a \in Actors,
         actorContexts'[a] = actorContexts[a], actorCaches'[a] = actorCaches[a],
         actorContexts[a] # NoContext =>
           /\ ctx'[actorContexts[a]].batch = ctx[actorContexts[a]].batch
           /\ ctx'[actorContexts[a]].cache = ctx[actorContexts[a]].cache
  PROVE  BatchOf(a)' = BatchOf(a) /\ Subscribers(a)' = Subscribers(a)
  BY DEF BatchOf, Subscribers, CacheOf

(* Something other than an envelope enters the group's mailbox. *)
LEMMA SameButReport ==
  ASSUME TypeOK, NEW a \in Actors, BatchOf(a)' = BatchOf(a),
         actorMailbox'[a] = actorMailbox[a],
         groupBatch'[GroupOf[a]] = groupBatch[GroupOf[a]],
         NEW y \in Items \ Envelopes,
         groupMailbox'[GroupOf[a]] = Append(groupMailbox[GroupOf[a]], y)
  PROVE  Inbox(a)' = Inbox(a)
  <1>1. PICK S : S = Addressed(a)
    OBVIOUS
  <1>2. y \in Items \ S
    BY <1>1 DEF Addressed
  <1>3. PICK b, m, gb, gm \in Words(Items) :
          /\ b = BatchOf(a) /\ m = actorMailbox[a]
          /\ gb = groupBatch[GroupOf[a]] /\ gm = groupMailbox[GroupOf[a]]
    BY PathParts
  <1>4. \A x \in Items \ S : Filter(Joined(b, m, gb, Append(gm, x)), S)
                             = Filter(Joined(b, m, gb, gm), S)
    BY ONLY <1>3, JoinedExtra
  <1>5. Filter(Joined(b, m, gb, Append(gm, y)), S) = Filter(Joined(b, m, gb, gm), S)
    BY <1>2, <1>4
  <1>6. /\ Inbox(a) = Filter(Joined(b, m, gb, gm), S)
        /\ Inbox(a)' = Filter(Joined(b, m, gb, Append(gm, y)), S)
    BY <1>1, <1>3, InboxOf
  <1> QED BY <1>5, <1>6

(* The goroutine of c leaves the group's queues alone, its stop report apart. *)
LEMMA ActorQueues ==
  ASSUME TypeOK, NEW c \in Contexts, ActorStep(c) \/ IdleElapses(c), NEW b \in Actors,
         BatchOf(b)' = BatchOf(b), actorMailbox'[b] = actorMailbox[b]
  PROVE  Inbox(b)' = Inbox(b)
  <1> USE DEF groupVars, actorVars
  <1>1. GroupOf[b] \in Groups /\ ctx[c].owner \in Actors
    BY GroupOfAssumption DEF TypeOK, Context
  <1>2. groupBatch' = groupBatch
    BY DEF ActorStep, IdleElapses, ActorStart, ActorDequeue, ActorMailboxClosed,
       ActorWatch, ActorMessage, ActorTick, ActorRecycle, ActorStop, ActorDone
  <1>3. CASE ~ActorStop(c)
    <2>1. groupMailbox' = groupMailbox
      BY <1>3 DEF ActorStep, IdleElapses, ActorStart, ActorDequeue, ActorMailboxClosed,
         ActorWatch, ActorMessage, ActorTick, ActorRecycle, ActorDone
    <2> QED BY <1>2, <2>1, SameQueues
  <1>4. CASE ActorStop(c)
    <2>1. \/ groupMailbox'[GroupOf[b]] = groupMailbox[GroupOf[b]]
          \/ groupMailbox'[GroupOf[b]] = Append(groupMailbox[GroupOf[b]], StopReport(ctx[c].owner))
      BY <1>1, <1>4 DEF ActorStop, TypeOK
    <2>2. StopReport(ctx[c].owner) \in Items \ Envelopes
      BY <1>1, ItemsDiffer DEF Items
    <2> QED BY <1>2, <2>1, <2>2, SameQueues, SameButReport
  <1> QED BY <1>3, <1>4

(* A step of an actor's goroutine is one of the actor, or invisible. *)
LEMMA ActorRefines ==
  ASSUME RefinementInv, NEW c \in Contexts, ActorStep(c) \/ IdleElapses(c)
  PROVE  /\ sent' = sent
         /\ \/ \A b \in Actors : Same(b)
            \/ \E a \in Actors : Handles(a) /\ \A b \in Actors \ {a} : Same(b)
  <1> USE DEF groupVars, actorVars
  <1>0. /\ TypeOK /\ TypeOK' /\ Registry /\ Inert
        /\ \A d \in Contexts : PlacedContext(ctx[d])
        /\ ctx \in [Contexts -> Context]
    <2>1. OneInstanceInv /\ Inert /\ Placed
      BY DEF RefinementInv
    <2>2. TypeOK'
      BY <2>1, ActorTypes DEF OneInstanceInv
    <2> QED BY <2>1, <2>2 DEF OneInstanceInv, Placed, TypeOK
  <1>1. PICK r \in Context : /\ ctx' = [ctx EXCEPT ![c] = r]
                             /\ r.owner = ctx[c].owner
                             /\ Keeps(c, r) \/ Fetches(c, r) \/ Consumes(c, r)
    BY <1>0, ActorBatchStep
  <1>2. PICK a \in Actors : a = ctx[c].owner
    BY <1>0 DEF Context
  <1>3. UNCHANGED <<sent, actorContexts, actorCaches>>
    BY DEF ActorStep, IdleElapses, ActorStart, ActorDequeue, ActorMailboxClosed,
       ActorWatch, ActorMessage, ActorTick, ActorRecycle, ActorStop, ActorDone
  <1>4. ctx'[c] = r /\ \A d \in Contexts \ {c} : ctx'[d] = ctx[d]
    BY <1>0, <1>1
  <1>5. actorContexts \in [Actors -> Contexts \union {NoContext}] /\ NoContext \notin Contexts
    BY <1>0, ContextAssumption DEF TypeOK
  <1>6. ASSUME NEW b \in Actors \ {a} PROVE Same(b)
    <2>1. actorContexts[b] # c
      BY <1>0, <1>2, <1>5, <1>6 DEF Registry
    <2>2. BatchOf(b)' = BatchOf(b) /\ Subscribers(b)' = Subscribers(b)
      BY <1>3, <1>4, <1>5, <2>1, SameTables
    <2>3. actorMailbox'[b] = actorMailbox[b]
      BY <1>0, <1>1, <1>2, <1>6 DEF Keeps, Fetches, Consumes, TypeOK
    <2>4. Inbox(b)' = Inbox(b)
      BY <1>0, <2>2, <2>3, ActorQueues
    <2> QED BY <2>2, <2>4 DEF Same
  <1>7. CASE Keeps(c, r)
    <2>1. \A d \in Contexts : ctx'[d].batch = ctx[d].batch /\ ctx'[d].cache = ctx[d].cache
      BY <1>4, <1>7 DEF Keeps
    <2>2. BatchOf(a)' = BatchOf(a) /\ Subscribers(a)' = Subscribers(a)
      BY <1>3, <1>5, <2>1, SameTables
    <2>3. actorMailbox'[a] = actorMailbox[a]
      BY <1>7 DEF Keeps
    <2>4. Inbox(a)' = Inbox(a)
      BY <1>0, <2>2, <2>3, ActorQueues
    <2>5. Same(a)
      BY <2>2, <2>4 DEF Same
    <2> QED BY <1>3, <1>6, <2>5
  <1>8. ASSUME Fetches(c, r) \/ Consumes(c, r)
        PROVE  /\ actorContexts[a] = c /\ actorContexts'[a] = c
               /\ BatchOf(a) = ctx[c].batch /\ BatchOf(a)' = r.batch
               /\ Subscribers(a) = ctx[c].cache /\ Subscribers(a)' = r.cache
               /\ UNCHANGED <<groupBatch, groupMailbox>>
               /\ a \in Registered
    <2>1. ctx[c].phase = "loop"
      BY <1>8 DEF Fetches, Consumes
    <2>2. actorContexts[a] = c /\ actorContexts'[a] = c /\ c # NoContext
      BY <1>0, <1>2, <1>3, <1>5, <2>1 DEF Registry, LivePhases
    <2>3. ~ActorStop(c)
      BY <2>1 DEF ActorStop
    <2>4. UNCHANGED <<groupBatch, groupMailbox>>
      BY <2>3 DEF ActorStep, IdleElapses, ActorStart, ActorDequeue, ActorMailboxClosed,
         ActorWatch, ActorMessage, ActorTick, ActorRecycle, ActorDone
    <2>5. a \in Registered
      BY <1>0, <2>2 DEF Inert
    <2> QED BY <1>4, <2>2, <2>4, <2>5 DEF BatchOf, Subscribers, CacheOf
  <1>9. CASE Fetches(c, r)
    <2>1. /\ BatchOf(a) = <<>> /\ BatchOf(a)' = actorMailbox[a] /\ actorMailbox'[a] = <<>>
          /\ Subscribers(a)' = Subscribers(a)
      BY <1>0, <1>2, <1>8, <1>9 DEF Fetches, TypeOK
    <2>2. Inbox(a)' = Inbox(a)
      BY <1>0, <1>8, <1>9, <2>1, PathParts, InboxOf, JoinedWhole
    <2>3. Same(a)
      BY <2>1, <2>2 DEF Same
    <2> QED BY <1>3, <1>6, <2>3
  <1>10. CASE Consumes(c, r)
    <2>1. PICK e : e = Head(BatchOf(a))
      OBVIOUS
    <2>2. /\ BatchOf(a) # <<>> /\ BatchOf(a)' = Tail(BatchOf(a))
          /\ actorMailbox'[a] = actorMailbox[a]
      BY <1>8, <1>10 DEF Consumes
    <2>3. e \in MailboxItemsOf(a)
      <3>1. ctx[c].batch \in Seq(MailboxItemsOf(a))
        BY <1>0, <1>2 DEF PlacedContext
      <3> QED BY <1>8, <1>10, <2>1, <2>2, <3>1, HeadTailProperties
    <2>4. Subscribers(a)' = IF e.kind \in {"watch", "unwatch"}
                            THEN CacheAfter(e, Subscribers(a)) ELSE Subscribers(a)
      BY <1>8, <1>10, <2>1 DEF Consumes
    <2>5. PICK S : S = Addressed(a)
      OBVIOUS
    <2>6. PICK p, m, gb, gm \in Words(Items) :
            /\ p = BatchOf(a) /\ m = actorMailbox[a]
            /\ gb = groupBatch[GroupOf[a]] /\ gm = groupMailbox[GroupOf[a]]
      BY <1>0, PathParts
    <2>7. /\ Inbox(a) = Filter(Joined(p, m, gb, gm), S)
          /\ Inbox(a)' = Filter(Joined(Tail(p), m, gb, gm), S)
      BY <1>8, <1>10, <2>2, <2>5, <2>6, InboxOf
    <2>8. p # <<>> /\ e = Head(p) /\ Tail(p) \in Words(Items)
      BY <2>1, <2>2, <2>6, HeadAndTail
    <2>9. CASE e = Tick
      <3>1. Subscribers(a)' = Subscribers(a)
        BY <2>4, <2>9 DEF Tick
      <3>2. e \notin S
        BY <2>9, <2>5, ItemsDiffer DEF Addressed
      <3>3. Head(p) \notin S => Filter(Joined(Tail(p), m, gb, gm), S)
                                   = Filter(Joined(p, m, gb, gm), S)
        BY ONLY <2>6, <2>8, JoinedSkip
      <3>4. Inbox(a)' = Inbox(a)
        BY <2>7, <2>8, <3>2, <3>3
      <3>5. Same(a)
        BY <3>1, <3>4 DEF Same
      <3> QED BY <1>3, <1>6, <3>5
    <2>10. CASE e \in Addressed(a)
      <3>1. Head(p) \in S => Filter(Joined(p, m, gb, gm), S)
                               = Cat(<<Head(p)>>, Filter(Joined(Tail(p), m, gb, gm), S))
        BY ONLY <2>6, <2>8, JoinedHandle
      <3>2. Inbox(a) = Cat(<<e>>, Inbox(a)')
        BY <2>10, <2>5, <2>7, <2>8, <3>1
      <3>3. Inbox(a)' \in Words(Items) /\ e \in Items
        <4>1. Joined(Tail(p), m, gb, gm) \in Words(Items)
          BY <2>6, <2>8, FilterJoined
        <4>2. Filter(Joined(Tail(p), m, gb, gm), S) \in Words(Items)
          BY <4>1, FilterWords
        <4> QED BY <2>10, <2>7, <4>2 DEF Addressed, Items
      <3>4. Inbox(a) # <<>> /\ Head(Inbox(a)) = e /\ Tail(Inbox(a)) = Inbox(a)'
        BY <3>2, <3>3, InFront
      <3>5. Subscribers(a)' = VA!SubsAfter(e, Subscribers(a))
        BY <2>4, <2>10, EnvelopeAssumption DEF CacheAfter, VA!SubsAfter, Addressed
      <3>6. Handles(a)
        BY <1>8, <1>10, <3>4, <3>5 DEF Handles
      <3> QED BY <1>3, <1>6, <3>6
    <2> QED BY <2>3, <2>9, <2>10 DEF MailboxItemsOf
  <1> QED BY <1>1, <1>7, <1>9, <1>10

(* The group gives an actor a context with the watchers it has, and an empty
   batch in the place of one that is dead. *)
LEMMA ActivationTables ==
  ASSUME TypeOK, NEW a \in Actors, BatchOf(a) = <<>>, Activate(a, Subscribers(a)),
         \A x \in Actors \ {a} : actorCaches'[x] = actorCaches[x]
  PROVE  \A b \in Actors : BatchOf(b)' = BatchOf(b) /\ Subscribers(b)' = Subscribers(b)
  <1>1. PICK c \in Contexts : /\ Free(c)
                              /\ ctx' = [ctx EXCEPT ![c] = NewContext(a, Subscribers(a))]
                              /\ actorContexts' = [actorContexts EXCEPT ![a] = c]
    BY DEF Activate
  <1>2. /\ actorContexts'[a] = c /\ c # NoContext
        /\ ctx'[c].batch = <<>> /\ ctx'[c].cache = Subscribers(a)
    BY <1>1, ContextAssumption DEF TypeOK, NewContext
  <1>3. BatchOf(a)' = BatchOf(a) /\ Subscribers(a)' = Subscribers(a)
    <2>1. BatchOf(a)' = ctx'[c].batch /\ Subscribers(a)' = ctx'[c].cache
      BY <1>2 DEF BatchOf, Subscribers, CacheOf
    <2> QED BY <1>2, <2>1
  <1>4. ASSUME NEW b \in Actors \ {a}
        PROVE  BatchOf(b)' = BatchOf(b) /\ Subscribers(b)' = Subscribers(b)
    <2>1. actorContexts'[b] = actorContexts[b] /\ actorContexts[b] # c
      BY <1>1 DEF TypeOK, Free
    <2>2. actorContexts[b] # NoContext => ctx'[actorContexts[b]] = ctx[actorContexts[b]]
      BY <1>1, <2>1 DEF TypeOK
    <2> QED BY <2>1, <2>2, SameTables
  <1> QED BY <1>3, <1>4

(* An actor that left its loop holds no batch. *)
LEMMA GoneHoldsNothing ==
  ASSUME OneInstanceInv, Placed, NEW g \in Groups, NEW a \in Actors, AtStopReport(g, a)
  PROVE  actorContexts[a] \in Contexts /\ BatchOf(a) = <<>>
  <1>1. groupBatch[g] \in Seq(Items) /\ groupBatch[g] # <<>>
    BY DEF AtStopReport, OneInstanceInv, TypeOK
  <1>2. In(StopReport(a), groupBatch[g])
    <2>1. 1 \in DOMAIN groupBatch[g] /\ Head(groupBatch[g]) = groupBatch[g][1]
      BY <1>1
    <2> QED BY <2>1 DEF AtStopReport, In
  <1>3. g = GroupOf[a]
    BY <1>2 DEF OneInstanceInv, Reports, ReportOnce
  <1>4. Gone(a)
    BY <1>2, <1>3 DEF ReportPending, OneInstanceInv, Reports
  <1>5. actorContexts[a] \in Contexts
    BY ReporterRegistered
  <1>6. ctx[actorContexts[a]].phase # "loop"
    BY <1>4 DEF Gone, LivePhases
  <1> QED BY <1>5, <1>6 DEF Placed, PlacedContext, BatchOf

(* The group leaves what an actor has in hand alone, and its watchers. *)
LEMMA GroupTables ==
  ASSUME PanicCreators = {}, RefinementInv, NEW g \in Groups, GroupStep(g)
  PROVE  \A b \in Actors : BatchOf(b)' = BatchOf(b) /\ Subscribers(b)' = Subscribers(b)
  <1> USE DEF groupVars, actorVars
  <1> DEFINE Kept == \A b \in Actors : BatchOf(b)' = BatchOf(b) /\ Subscribers(b)' = Subscribers(b)
  <1>0. TypeOK /\ OneInstanceInv /\ Inert /\ Placed /\ CachesSpent
    BY DEF RefinementInv, OneInstanceInv
  <1>1. ASSUME UNCHANGED <<actorContexts, actorCaches, ctx>> PROVE Kept
    BY <1>1 DEF BatchOf, Subscribers, CacheOf
  <1>2. ASSUME NEW a \in Actors, DropUnregistered(g, a) PROVE Kept
    <2>1. actorCaches' = actorCaches
      BY <1>0, <1>2 DEF DropUnregistered, Inert, TypeOK
    <2> QED BY <1>1, <1>2, <2>1 DEF DropUnregistered
  <1>3. ASSUME NEW a \in Actors, ActivateAndDeliver(g, a) PROVE Kept
    <2>1. BatchOf(a) = <<>> /\ Subscribers(a) = actorCaches[a]
      BY <1>3 DEF ActivateAndDeliver, BatchOf, Subscribers
    <2>2. \A x \in Actors \ {a} : actorCaches'[x] = actorCaches[x]
      BY <1>0, <1>3 DEF ActivateAndDeliver, TypeOK
    <2>3. Activate(a, Subscribers(a))
      BY <1>3, <2>1 DEF ActivateAndDeliver
    <2> QED BY <1>0, <2>1, <2>2, <2>3, ActivationTables
  <1>4. ASSUME NEW a \in Actors, Reactivate(g, a) PROVE Kept
    <2>1. actorContexts[a] # NoContext /\ BatchOf(a) = <<>>
      BY <1>0, <1>4, GoneHoldsNothing, ContextAssumption DEF Reactivate
    <2>2. Activate(a, Subscribers(a)) /\ actorCaches' = actorCaches
      BY <1>4, <2>1 DEF Reactivate, Subscribers
    <2> QED BY <1>0, <2>1, <2>2, ActivationTables
  <1>5. ASSUME NEW a \in Actors, Deactivate(g, a) PROVE Kept
    <2>1. actorContexts[a] # NoContext /\ BatchOf(a) = <<>>
      BY <1>0, <1>5, GoneHoldsNothing, ContextAssumption DEF Deactivate
    <2>2. Subscribers(a) = CacheOf(a) /\ actorCaches[a] = {}
      BY <1>0, <2>1 DEF Subscribers, CachesSpent
    <2>3. actorContexts'[a] = NoContext /\ actorCaches'[a] = CacheOf(a)
      BY <1>0, <1>5, <2>2 DEF Deactivate, TypeOK
    <2>4. BatchOf(a)' = BatchOf(a) /\ Subscribers(a)' = Subscribers(a)
      BY <2>1, <2>2, <2>3 DEF BatchOf, Subscribers
    <2>5. ASSUME NEW b \in Actors \ {a}
          PROVE  BatchOf(b)' = BatchOf(b) /\ Subscribers(b)' = Subscribers(b)
      BY <1>0, <1>5, SameTables DEF Deactivate, TypeOK
    <2> QED BY <2>4, <2>5
  <1>6. ASSUME GroupDequeue(g) \/ GroupExit(g) \/ GroupTick(g) PROVE Kept
    BY <1>1, <1>6 DEF GroupDequeue, GroupExit, GroupTick
  <1>7. ASSUME NEW a \in Actors, Deliver(g, a) \/ DropOverflow(g, a) PROVE Kept
    BY <1>1, <1>7 DEF Deliver, DropOverflow
  <1>8. ASSUME NEW a \in Actors PROVE ~CreatorPanicsOnEnvelope(g, a) /\ ~CreatorPanicsOnReport(g, a)
    BY DEF CreatorPanicsOnEnvelope, CreatorPanicsOnReport
  <1> HIDE DEF Kept
  <1>9. Kept
    BY <1>2, <1>3, <1>4, <1>5, <1>6, <1>7, <1>8 DEF GroupStep, GroupProcess
  <1> QED BY <1>9 DEF Kept

(* The group moves on to its next envelope; the one it was at is none of b's. *)
LEMMA GroupMovesOn ==
  ASSUME TypeOK, NEW g \in Groups, NEW b \in Actors, BatchOf(b)' = BatchOf(b),
         groupBatch[g] # <<>>, Head(groupBatch[g]) \notin Addressed(b),
         NextEnvelope(g), groupMailbox' = groupMailbox,
         actorMailbox'[b] \in {actorMailbox[b], Append(actorMailbox[b], Tick)}
  PROVE  Inbox(b)' = Inbox(b)
  <1>1. PICK S : S = Addressed(b)
    OBVIOUS
  <1>2. Tick \in Items \ S
    BY <1>1, ItemsDiffer DEF Addressed, Items
  <1>3. PICK p, m, gb, gm \in Words(Items) :
          /\ p = BatchOf(b) /\ m = actorMailbox[b]
          /\ gb = groupBatch[GroupOf[b]] /\ gm = groupMailbox[GroupOf[b]]
    BY PathParts
  <1>4. PICK n, gn \in Words(Items) :
          /\ n = actorMailbox'[b] /\ gn = groupBatch'[GroupOf[b]]
          /\ n \in {m, Append(m, Tick)}
          /\ gn = gb \/ (gb # <<>> /\ Head(gb) \notin S /\ gn = Tail(gb))
    <2>1. GroupOf[b] \in Groups
      BY GroupOfAssumption
    <2>2. /\ groupBatch'[GroupOf[b]] = gb
             \/ (gb # <<>> /\ Head(gb) \notin S /\ groupBatch'[GroupOf[b]] = Tail(gb))
      BY <1>1, <1>3, <2>1 DEF NextEnvelope, TypeOK
    <2>3. gb # <<>> => Tail(gb) \in Words(Items)
      BY <1>3, HeadAndTail
    <2>4. Append(m, Tick) \in Words(Items)
      BY <1>2, <1>3, AppendLaws
    <2> QED BY <1>3, <2>2, <2>3, <2>4
  <1>5. Filter(Joined(p, n, gb, gm), S) = Filter(Joined(p, m, gb, gm), S)
    <2>1. \A y \in Items \ S : Filter(Joined(p, Append(m, y), gb, gm), S)
                                 = Filter(Joined(p, m, gb, gm), S)
      BY ONLY <1>3, JoinedExtra
    <2> QED BY <1>2, <1>4, <2>1
  <1>6. Filter(Joined(p, n, gn, gm), S) = Filter(Joined(p, n, gb, gm), S)
    <2>1. gb # <<>> /\ Head(gb) \notin S =>
            Filter(Joined(p, n, Tail(gb), gm), S) = Filter(Joined(p, n, gb, gm), S)
      BY ONLY <1>3, <1>4, JoinedSkip
    <2> QED BY <1>4, <2>1
  <1>7. /\ Inbox(b) = Filter(Joined(p, m, gb, gm), S)
        /\ Inbox(b)' = Filter(Joined(p, n, gn, gm), S)
    BY <1>1, <1>3, <1>4, InboxOf
  <1> QED BY <1>5, <1>6, <1>7

(* An envelope the group is at is one for an actor of its own. *)
LEMMA OwnEnvelope ==
  ASSUME Placed, NEW g \in Groups, NEW a \in Actors, AtEnvelope(g, a)
  PROVE  /\ g = GroupOf[a] /\ groupBatch[g] # <<>> /\ Head(groupBatch[g]) \in Addressed(a)
         /\ \A b \in Actors \ {a} : Head(groupBatch[g]) \notin Addressed(b)
  <1>1. groupBatch[g] \in Seq(ItemsOf(g)) /\ groupBatch[g] # <<>>
    BY DEF Placed, PlacedGroup, AtEnvelope
  <1>2. PICK e : e = Head(groupBatch[g])
    OBVIOUS
  <1>3. e \in ItemsOf(g) /\ e \in Envelopes /\ e.to = a
    BY <1>1, <1>2, HeadTailProperties DEF AtEnvelope
  <1>4. g = GroupOf[a]
    BY <1>3, ItemsDiffer DEF ItemsOf
  <1> QED BY <1>1, <1>2, <1>3, <1>4 DEF Addressed

(* An envelope moves from the group to the mailbox of its actor. *)
LEMMA Delivered ==
  ASSUME TypeOK, Placed, NEW g \in Groups, NEW a \in Actors, AtEnvelope(g, a),
         BatchOf(a)' = BatchOf(a), NextEnvelope(g), groupMailbox' = groupMailbox,
         actorMailbox'[a] = Append(actorMailbox[a], Head(groupBatch[g]))
  PROVE  Inbox(a)' = Inbox(a)
  <1>1. g = GroupOf[a] /\ groupBatch[g] # <<>>
    BY OwnEnvelope
  <1>2. PICK p, m, gb, gm \in Words(Items) :
          /\ p = BatchOf(a) /\ m = actorMailbox[a] /\ gb # <<>>
          /\ gb = groupBatch[GroupOf[a]] /\ gm = groupMailbox[GroupOf[a]]
    BY <1>1, PathParts
  <1>3. groupBatch'[GroupOf[a]] = Tail(gb)
    BY <1>1, <1>2 DEF NextEnvelope, TypeOK
  <1>4. gb # <<>> => Joined(p, Append(m, Head(gb)), Tail(gb), gm) = Joined(p, m, gb, gm)
    BY ONLY <1>2, JoinedDeliver
  <1>5. /\ Inbox(a) = Filter(Joined(p, m, gb, gm), Addressed(a))
        /\ Inbox(a)' = Filter(Joined(p, Append(m, Head(gb)), Tail(gb), gm), Addressed(a))
    BY <1>1, <1>2, <1>3, InboxOf
  <1> QED BY <1>2, <1>4, <1>5

(* The oldest envelope of an actor without a creator disappears. *)
LEMMA Swallowed ==
  ASSUME RefinementInv, NEW g \in Groups, NEW a \in Actors, DropUnregistered(g, a),
         BatchOf(a)' = BatchOf(a), Subscribers(a)' = Subscribers(a)
  PROVE  Handles(a)
  <1>1. TypeOK /\ Placed /\ MailboxOwned
    BY DEF RefinementInv, OneInstanceInv, ServedInv
  <1>2. AtEnvelope(g, a) /\ actorContexts[a] = NoContext /\ a \notin Registered
    BY DEF DropUnregistered
  <1>3. g = GroupOf[a] /\ groupBatch[g] # <<>> /\ Head(groupBatch[g]) \in Addressed(a)
    BY <1>1, <1>2, OwnEnvelope
  <1>4. PICK S : S = Addressed(a)
    OBVIOUS
  <1>5. PICK gb, gm \in Words(Items) :
          gb = groupBatch[GroupOf[a]] /\ gm = groupMailbox[GroupOf[a]]
    BY <1>1, PathParts
  <1>6. gb # <<>> /\ Head(gb) \in S
    BY <1>3, <1>4, <1>5
  <1>7. BatchOf(a) = <<>> /\ actorMailbox[a] = <<>>
    BY <1>1, <1>2 DEF BatchOf, MailboxOwned
  <1>8. /\ groupBatch'[GroupOf[a]] = Tail(gb) /\ groupMailbox'[GroupOf[a]] = gm
        /\ actorMailbox'[a] = <<>>
    BY <1>1, <1>3, <1>5, <1>7 DEF DropUnregistered, NextEnvelope, TypeOK
  <1>9. /\ Inbox(a) = Filter(Joined(<<>>, <<>>, gb, gm), S)
        /\ Inbox(a)' = Filter(Joined(<<>>, <<>>, Tail(gb), gm), S)
    BY <1>4, <1>5, <1>7, <1>8, InboxOf
  <1>10. Inbox(a) = Cat(<<Head(gb)>>, Inbox(a)')
    <2>1. gb # <<>> /\ Head(gb) \in S =>
            Filter(Joined(<<>>, <<>>, gb, gm), S)
              = Cat(<<Head(gb)>>, Filter(Joined(<<>>, <<>>, Tail(gb), gm), S))
      BY ONLY <1>5, JoinedSwallow
    <2> QED BY <1>6, <1>9, <2>1
  <1>11. Inbox(a)' \in Words(Items) /\ Head(gb) \in Items
    <2>1. Head(gb) \in Items /\ Tail(gb) \in Words(Items)
      BY <1>5, <1>6, HeadAndTail
    <2>2. Joined(<<>>, <<>>, Tail(gb), gm) \in Words(Items)
      BY <1>5, <2>1, WordsLaws, FilterJoined
    <2>3. Filter(Joined(<<>>, <<>>, Tail(gb), gm), S) \in Words(Items)
      BY <2>2, FilterWords
    <2> QED BY <1>9, <2>1, <2>3
  <1>12. Inbox(a) # <<>> /\ Tail(Inbox(a)) = Inbox(a)'
    BY <1>10, <1>11, InFront
  <1> QED BY <1>2, <1>12 DEF Handles

(* A step of a group is invisible, or swallows an envelope for an actor without
   a creator. *)
LEMMA GroupRefines ==
  ASSUME PanicCreators = {}, MaxMailboxDepth = 0, RefinementInv,
         NEW g \in Groups, GroupStep(g)
  PROVE  /\ sent' = sent
         /\ \/ \A b \in Actors : Same(b)
            \/ \E a \in Actors : Handles(a) /\ \A b \in Actors \ {a} : Same(b)
  <1> USE DEF groupVars, actorVars
  <1>0. TypeOK /\ OneInstanceInv /\ Placed
    BY DEF RefinementInv, OneInstanceInv
  <1>1. sent' = sent
    BY DEF GroupStep, GroupProcess, GroupDequeue, GroupExit, GroupTick, Deliver,
       ActivateAndDeliver, DropOverflow, DropUnregistered, CreatorPanicsOnEnvelope,
       Deactivate, Reactivate, CreatorPanicsOnReport
  <1>2. \A b \in Actors : BatchOf(b)' = BatchOf(b) /\ Subscribers(b)' = Subscribers(b)
    BY GroupTables
  <1>3. \A b \in Actors : Inbox(b)' = Inbox(b) => Same(b)
    BY <1>2 DEF Same
  <1>4. ASSUME GroupExit(g), NEW b \in Actors PROVE Inbox(b)' = Inbox(b)
    BY <1>2, <1>4, SameQueues DEF GroupExit
  <1>5. ASSUME GroupDequeue(g), NEW b \in Actors PROVE Inbox(b)' = Inbox(b)
    <2>1. CASE GroupOf[b] = g
      <3>1. PICK p, m, gb, gm \in Words(Items) :
              /\ p = BatchOf(b) /\ m = actorMailbox[b]
              /\ gb = groupBatch[GroupOf[b]] /\ gm = groupMailbox[GroupOf[b]]
        BY <1>0, PathParts
      <3>2. /\ gb = <<>> /\ groupBatch'[GroupOf[b]] = gm /\ groupMailbox'[GroupOf[b]] = <<>>
            /\ actorMailbox'[b] = m
        BY <1>0, <1>5, <2>1, <3>1 DEF GroupDequeue, TypeOK
      <3>3. Joined(p, m, gm, <<>>) = Joined(p, m, <<>>, gm)
        BY ONLY <3>1, JoinedWhole
      <3> QED BY <1>2, <3>1, <3>2, <3>3, InboxOf
    <2>2. CASE GroupOf[b] # g
      <3>1. /\ groupBatch'[GroupOf[b]] = groupBatch[GroupOf[b]]
            /\ groupMailbox'[GroupOf[b]] = groupMailbox[GroupOf[b]]
            /\ actorMailbox'[b] = actorMailbox[b]
        BY <1>0, <1>5, <2>2, GroupOfAssumption DEF GroupDequeue, TypeOK
      <3> QED BY <1>2, <3>1, SameQueues
    <2> QED BY <2>1, <2>2
  <1>6. ASSUME GroupTick(g), NEW b \in Actors PROVE Inbox(b)' = Inbox(b)
    <2>1. Head(groupBatch[g]) \notin Addressed(b)
      BY <1>6, ItemsDiffer DEF GroupTick, Addressed
    <2>2. actorMailbox'[b] \in {actorMailbox[b], Append(actorMailbox[b], Tick)}
      BY <1>6 DEF GroupTick
    <2>3. groupBatch[g] # <<>> /\ NextEnvelope(g) /\ groupMailbox' = groupMailbox
      BY <1>6 DEF GroupTick
    <2> QED BY <1>0, <1>2, <2>1, <2>2, <2>3, GroupMovesOn
  <1>7. ASSUME NEW a \in Actors, Deactivate(g, a) \/ Reactivate(g, a), NEW b \in Actors
        PROVE  Inbox(b)' = Inbox(b)
    <2>1. /\ AtStopReport(g, a) /\ NextEnvelope(g)
          /\ groupMailbox' = groupMailbox /\ actorMailbox'[b] = actorMailbox[b]
      BY <1>7 DEF Deactivate, Reactivate
    <2>2. groupBatch[g] # <<>> /\ Head(groupBatch[g]) \notin Addressed(b)
      BY <2>1, ItemsDiffer DEF AtStopReport, Addressed
    <2> QED BY <1>0, <1>2, <2>1, <2>2, GroupMovesOn
  <1>8. ASSUME NEW a \in Actors, Deliver(g, a) \/ ActivateAndDeliver(g, a), NEW b \in Actors
        PROVE  Inbox(b)' = Inbox(b)
    <2>1. /\ AtEnvelope(g, a) /\ NextEnvelope(g) /\ groupMailbox' = groupMailbox
          /\ actorMailbox' = [actorMailbox EXCEPT ![a] = Append(@, Head(groupBatch[g]))]
      BY <1>8 DEF Deliver, ActivateAndDeliver
    <2>2. CASE b = a
      <3>1. actorMailbox'[a] = Append(actorMailbox[a], Head(groupBatch[g]))
        BY <1>0, <2>1 DEF TypeOK
      <3> QED BY <1>0, <1>2, <2>1, <2>2, <3>1, Delivered
    <2>3. CASE b # a
      <3>1. actorMailbox'[b] = actorMailbox[b]
        BY <1>0, <2>1, <2>3 DEF TypeOK
      <3>2. groupBatch[g] # <<>> /\ Head(groupBatch[g]) \notin Addressed(b)
        BY <1>0, <2>1, <2>3, OwnEnvelope
      <3> QED BY <1>0, <1>2, <2>1, <3>1, <3>2, GroupMovesOn
    <2> QED BY <2>2, <2>3
  <1>9. ASSUME NEW a \in Actors, DropUnregistered(g, a)
        PROVE  Handles(a) /\ \A b \in Actors \ {a} : Same(b)
    <2>1. Handles(a)
      BY <1>2, <1>9, Swallowed
    <2>2. ASSUME NEW b \in Actors \ {a} PROVE Inbox(b)' = Inbox(b)
      <3>1. /\ AtEnvelope(g, a) /\ NextEnvelope(g)
            /\ groupMailbox' = groupMailbox /\ actorMailbox'[b] = actorMailbox[b]
        BY <1>9 DEF DropUnregistered
      <3>2. groupBatch[g] # <<>> /\ Head(groupBatch[g]) \notin Addressed(b)
        BY <1>0, <2>2, <3>1, OwnEnvelope
      <3> QED BY <1>0, <1>2, <3>1, <3>2, GroupMovesOn
    <2> QED BY <1>3, <2>1, <2>2
  <1>10. ASSUME NEW a \in Actors
         PROVE  ~ (\/ DropOverflow(g, a) \/ CreatorPanicsOnEnvelope(g, a)
                   \/ CreatorPanicsOnReport(g, a))
    BY DEF DropOverflow, Full, CreatorPanicsOnEnvelope, CreatorPanicsOnReport
  <1>11. \/ GroupExit(g) \/ GroupDequeue(g) \/ GroupTick(g)
         \/ \E a \in Actors : Deactivate(g, a) \/ Reactivate(g, a)
         \/ \E a \in Actors : Deliver(g, a) \/ ActivateAndDeliver(g, a)
         \/ \E a \in Actors : DropUnregistered(g, a)
    BY <1>10 DEF GroupStep, GroupProcess
  <1> QED BY <1>1, <1>3, <1>4, <1>5, <1>6, <1>7, <1>8, <1>9, <1>11

(* An accepted envelope is the youngest of its actor's inbox. *)
LEMMA AcceptRefines ==
  ASSUME TypeOK, NEW e \in Envelopes, Accept(e)
  PROVE  /\ e \notin sent /\ sent' = sent \union {e}
         /\ Inbox(e.to)' = Append(Inbox(e.to), e)
         /\ \A b \in Actors \ {e.to} : Inbox(b)' = Inbox(b)
         /\ \A b \in Actors : Subscribers(b)' = Subscribers(b)
  <1> USE DEF groupVars, actorVars
  <1>1. e.to \in Actors /\ e \in Items
    BY EnvelopeAssumption DEF Items
  <1>2. \A b \in Actors : BatchOf(b)' = BatchOf(b) /\ Subscribers(b)' = Subscribers(b)
    BY DEF Accept, BatchOf, Subscribers, CacheOf
  <1>3. actorMailbox' = actorMailbox /\ groupBatch' = groupBatch
    BY DEF Accept
  <1>4. /\ groupMailbox'[GroupOf[e.to]] = Append(groupMailbox[GroupOf[e.to]], e)
        /\ \A h \in Groups \ {GroupOf[e.to]} : groupMailbox'[h] = groupMailbox[h]
    BY <1>1, GroupOfAssumption DEF Accept, TypeOK
  <1>5. ASSUME NEW b \in Actors PROVE Inbox(b)' = IF b = e.to THEN Append(Inbox(b), e) ELSE Inbox(b)
    <2>1. PICK S : S = Addressed(b)
      OBVIOUS
    <2>2. PICK p, m, gb, gm \in Words(Items) :
            /\ p = BatchOf(b) /\ m = actorMailbox[b]
            /\ gb = groupBatch[GroupOf[b]] /\ gm = groupMailbox[GroupOf[b]]
      BY PathParts
    <2>3. Inbox(b) = Filter(Joined(p, m, gb, gm), S)
      BY <2>1, <2>2, InboxOf
    <2>4. e \in S => Filter(Joined(p, m, gb, Append(gm, e)), S)
                       = Cat(Filter(Joined(p, m, gb, gm), S), <<e>>)
      BY ONLY <1>1, <2>2, JoinedAccept
    <2>5. \A y \in Items \ S : Filter(Joined(p, m, gb, Append(gm, y)), S)
                                 = Filter(Joined(p, m, gb, gm), S)
      BY ONLY <2>2, JoinedExtra
    <2>6. CASE GroupOf[b] = GroupOf[e.to]
      <3>1. Inbox(b)' = Filter(Joined(p, m, gb, Append(gm, e)), S)
        BY <1>2, <1>3, <1>4, <2>1, <2>2, <2>6, InboxOf
      <3>2. e \in S <=> b = e.to
        BY <2>1 DEF Addressed
      <3>3. CASE e \in S
        <4>1. Inbox(b)' = Cat(Inbox(b), <<e>>)
          BY ONLY <1>1, <2>3, <2>4, <3>1, <3>3
        <4>2. Inbox(b) \in Words(Items)
          <5>1. Joined(p, m, gb, gm) \in Words(Items)
            BY ONLY <2>2, FilterJoined
          <5> QED BY <2>3, <5>1, FilterWords
        <4>3. Append(Inbox(b), e) = Cat(Inbox(b), <<e>>)
          BY ONLY <1>1, <4>2, AppendLaws
        <4> QED BY ONLY <3>2, <3>3, <4>1, <4>3
      <3>4. CASE e \notin S
        BY ONLY <1>1, <2>3, <2>5, <3>1, <3>2, <3>4
      <3> QED BY <3>3, <3>4
    <2>7. CASE GroupOf[b] # GroupOf[e.to]
      <3>1. Inbox(b)' = Inbox(b)
        BY <1>2, <1>3, <1>4, <2>7, GroupOfAssumption, SameQueues
      <3> QED BY <2>7, <3>1
    <2> QED BY <2>6, <2>7
  <1>6. e \notin sent /\ sent' = sent \union {e}
    BY DEF Accept
  <1> QED BY <1>1, <1>2, <1>5, <1>6

(* The other steps move no envelope and no watcher. *)
LEMMA OthersInvisible ==
  ASSUME TypeOK,
         \/ Stop \/ UNCHANGED vars
         \/ \E g \in Groups : TickerFires(g) \/ CloseGroup(g)
  PROVE  sent' = sent /\ \A b \in Actors : Same(b)
  <1> USE DEF groupVars, actorVars
  <1>1. UNCHANGED <<sent, actorVars, ctx, groupBatch>>
    BY DEF Stop, vars, TickerFires, CloseGroup
  <1>2. \A b \in Actors : BatchOf(b)' = BatchOf(b) /\ Subscribers(b)' = Subscribers(b)
    BY <1>1 DEF BatchOf, Subscribers, CacheOf
  <1>3. ASSUME NEW b \in Actors PROVE Inbox(b)' = Inbox(b)
    <2>1. CASE groupMailbox' = groupMailbox
      BY <1>1, <1>2, <2>1, SameQueues
    <2>2. CASE \E g \in Groups : TickerFires(g)
      <3>1. Tick \in Items \ Envelopes
        BY ItemsDiffer DEF Items
      <3>2. \/ groupMailbox'[GroupOf[b]] = groupMailbox[GroupOf[b]]
            \/ groupMailbox'[GroupOf[b]] = Append(groupMailbox[GroupOf[b]], Tick)
        BY <2>2, GroupOfAssumption DEF TickerFires, TypeOK
      <3> QED BY <1>1, <1>2, <3>1, <3>2, SameQueues, SameButReport
    <2> QED BY <2>1, <2>2 DEF Stop, vars, CloseGroup
  <1> QED BY <1>1, <1>2, <1>3 DEF Same

(* What the lemmas say of the two functions the virtual actors see. *)
LEMMA SameIsUnchanged ==
  ASSUME sent' = sent, \A b \in Actors : Same(b)
  PROVE  UNCHANGED VA!vars
  BY DEF VA!vars, Same

LEMMA HandlesIsHandle ==
  ASSUME sent' = sent, NEW a \in Actors, Handles(a), \A b \in Actors \ {a} : Same(b)
  PROVE  VA!Handle(a)
  <1>1. [b \in Actors |-> Inbox(b)]'
          = [[b \in Actors |-> Inbox(b)] EXCEPT ![a] = Tail(@)]
    BY DEF Same, Handles
  <1>2. [b \in Actors |-> Subscribers(b)]'
          = IF a \in Registered
            THEN [[b \in Actors |-> Subscribers(b)]
                    EXCEPT ![a] = VA!SubsAfter(Head(Inbox(a)), @)]
            ELSE [b \in Actors |-> Subscribers(b)]
    BY DEF Same, Handles
  <1>3. Inbox(a) # <<>>
    BY DEF Handles
  <1> QED BY <1>1, <1>2, <1>3 DEF VA!Handle

LEMMA AcceptIsAccept ==
  ASSUME TypeOK, NEW e \in Envelopes, Accept(e)
  PROVE  VA!Accept(e)
  <1>1. /\ e \notin sent /\ sent' = sent \union {e}
        /\ Inbox(e.to)' = Append(Inbox(e.to), e)
        /\ \A b \in Actors \ {e.to} : Inbox(b)' = Inbox(b)
        /\ \A b \in Actors : Subscribers(b)' = Subscribers(b)
    BY AcceptRefines
  <1>2. e.to \in Actors
    BY EnvelopeAssumption
  <1>3. [b \in Actors |-> Inbox(b)]'
          = [[b \in Actors |-> Inbox(b)] EXCEPT ![e.to] = Append(@, e)]
    BY <1>1, <1>2
  <1>4. [b \in Actors |-> Subscribers(b)]' = [b \in Actors |-> Subscribers(b)]
    BY <1>1
  <1> QED BY <1>1, <1>3, <1>4 DEF VA!Accept

(* Every step of the core is one of the virtual actors, or a stutter. *)
LEMMA CoreStep ==
  ASSUME PanicCreators = {}, MaxMailboxDepth = 0, RefinementInv, [Next]_vars
  PROVE  [VA!Next]_(VA!vars)
  <1>0. TypeOK
    BY DEF RefinementInv, OneInstanceInv
  <1>1. ASSUME NEW e \in Envelopes, Accept(e) PROVE VA!Next
    BY <1>0, <1>1, AcceptIsAccept DEF VA!Next
  <1>2. ASSUME sent' = sent,
               \/ \A b \in Actors : Same(b)
               \/ \E a \in Actors : Handles(a) /\ \A b \in Actors \ {a} : Same(b)
        PROVE  [VA!Next]_(VA!vars)
    BY <1>2, SameIsUnchanged, HandlesIsHandle DEF VA!Next
  <1>3. ASSUME NEW g \in Groups, GroupStep(g) PROVE [VA!Next]_(VA!vars)
    BY <1>2, <1>3, GroupRefines
  <1>4. ASSUME NEW c \in Contexts, ActorStep(c) \/ IdleElapses(c) PROVE [VA!Next]_(VA!vars)
    BY <1>2, <1>4, ActorRefines
  <1>5. ASSUME \/ Stop \/ UNCHANGED vars
               \/ \E g \in Groups : TickerFires(g) \/ CloseGroup(g)
        PROVE  [VA!Next]_(VA!vars)
    BY <1>0, <1>2, <1>5, OthersInvisible
  <1> QED BY <1>1, <1>3, <1>4, <1>5 DEF Next

(* Nothing was accepted yet, and nobody watches anybody. *)
LEMMA CoreInit ==
  ASSUME Init
  PROVE  VA!Init /\ RefinementInv
  <1>1. \A a \in Actors : /\ BatchOf(a) = <<>> /\ actorMailbox[a] = <<>>
                          /\ groupBatch[GroupOf[a]] = <<>>
                          /\ groupMailbox[GroupOf[a]] = <<>>
    BY GroupOfAssumption DEF Init, BatchOf
  <1>2. \A a \in Actors : Inbox(a) = <<>>
    <2>1. <<>> \o <<>> = <<>>
      OBVIOUS
    <2> QED BY <1>1, <2>1, FilterEmpty DEF Inbox, Path
  <1>3. \A a \in Actors : Subscribers(a) = {}
    BY DEF Init, Subscribers
  <1>4. VA!Init
    BY <1>2, <1>3 DEF Init, VA!Init
  <1>5. OneInstanceInv
    BY OneInstanceInit
  <1>6. ServedInv
    BY DEF Init, ServedInv, MailboxOwned, RegisteredServed
  <1>7. Inert /\ CachesSpent
    BY DEF Init, Inert, CachesSpent
  <1>8. Placed
    <2>1. ASSUME NEW g \in Groups PROVE PlacedGroup(g)
      BY DEF Init, PlacedGroup
    <2>2. ASSUME NEW a \in Actors PROVE PlacedActor(a)
      BY DEF Init, PlacedActor
    <2>3. ASSUME NEW c \in Contexts PROVE PlacedContext(ctx[c])
      <3>1. ctx[c].batch = <<>>
        BY DEF Init, NewContext
      <3> QED BY <3>1 DEF PlacedContext
    <2> QED BY <2>1, <2>2, <2>3 DEF Placed
  <1> QED BY <1>4, <1>5, <1>6, <1>7, <1>8 DEF RefinementInv

(* The core implements the virtual actors: whatever the groups, the goroutines
   and the queues do, with Stop and without, an accepted envelope is handled at
   most once, in the order of acceptance and by one actor at a time, and the
   watchers of an actor are those its Watch and Unwatch envelopes made. The depth
   limit and a panicking creator drop accepted envelopes, so neither is allowed.
   That what is accepted is handled in the end is left to ImplementsVirtualActor. *)
THEOREM CoreRefinesVirtualActor ==
  ASSUME PanicCreators = {}, MaxMailboxDepth = 0
  PROVE  Spec => VA!Safety
  <1>1. Init => VA!Init /\ RefinementInv
    BY CoreInit
  <1>2. RefinementInv /\ [Next]_vars => RefinementInv' /\ [VA!Next]_(VA!vars)
    <2> SUFFICES ASSUME RefinementInv, [Next]_vars
                 PROVE  RefinementInv' /\ [VA!Next]_(VA!vars)
      OBVIOUS
    <2>1. OneInstanceInv /\ ServedInv /\ Inert /\ Placed /\ CachesSpent
      BY DEF RefinementInv
    <2>2. OneInstanceInv'
      BY <2>1, OneInstanceStep
    <2>3. ServedInv'
      BY <2>1, <2>2, ServedStep
    <2>4. Inert' /\ CachesSpent'
      BY <2>1, InertStep, CachesStep
    <2>5. Placed'
      BY <2>1, PlacedStep
    <2>6. [VA!Next]_(VA!vars)
      BY CoreStep
    <2> QED BY <2>2, <2>3, <2>4, <2>5, <2>6 DEF RefinementInv
  <1> QED BY <1>1, <1>2, PTL DEF Spec, VA!Safety

-----------------------------------------------------------------------------
(* Stop and what is on its way.  Only an actor that is being recycled can leave
   with envelopes behind it: every other one leaves after its group closed its
   mailbox, which the group does on its own way out, and drains it first. *)

Early == {"start", "loop"}

DrainedGroup(g) ==
  /\ groupMailbox[g] \in Seq(MailboxItems) /\ groupBatch[g] \in Seq(MailboxItems)
  /\ ~groupRunning[g] => groupClosed[g] /\ groupBatch[g] = <<>> /\ groupMailbox[g] = <<>>

DrainedActor(a) ==
  /\ mailboxClosed[a] => ~groupRunning[GroupOf[a]]
  /\ actorMailbox[a] # <<>> => actorContexts[a] # NoContext
  /\ actorContexts[a] # NoContext /\ ctx[actorContexts[a]].phase \notin Early =>
       mailboxClosed[a] /\ actorMailbox[a] = <<>>

DrainInv == /\ \A c \in Contexts : ~ctx[c].stopInterval
            /\ \A g \in Groups : DrainedGroup(g)
            /\ \A a \in Actors : DrainedActor(a)

(* A handler that does not call SetSelfInvalid arms no stop interval. *)
LEMMA HandlerSteady ==
  ASSUME Invalidating = {}, NEW r \in Context, ~r.stopInterval,
         NEW isRequest, NEW q \in ProcessMessage(r, isRequest)
  PROVE  ~q.stopInterval
  <1> DEFINE n == r.processingRequestCount + IF isRequest THEN 1 ELSE 0
  <1>1. ASSUME NEW x \in Answered(r, n) PROVE ~x.stopInterval
    BY <1>1 DEF Answered, Context
  <1>2. q = r \/ q \in Answered(r, n)
    BY DEF ProcessMessage, HandlerOutcomes
  <1> QED BY <1>1, <1>2

(* Then the goroutine of an actor leaves its loop through its closed mailbox only. *)
LEMMA SteadyActor ==
  ASSUME TypeOK, Invalidating = {}, NEW c \in Contexts, ~ctx[c].stopInterval,
         ActorStep(c) \/ IdleElapses(c)
  PROVE  /\ ~ctx'[c].stopInterval
         /\ (ctx'[c].phase \in Early <=> ctx[c].phase \in Early) \/ ActorMailboxClosed(c)
  <1>1. ctx \in [Contexts -> Context] /\ ctx[c] \in Context
    BY DEF TypeOK
  <1>2. ASSUME NEW r \in Context, ~r.stopInterval, NEW isRequest,
               NEW q \in ProcessMessage(r, isRequest), ctx' = [ctx EXCEPT ![c] = q],
               r.phase \in Early, ctx[c].phase \in Early
        PROVE  ~ctx'[c].stopInterval /\ ctx'[c].phase \in Early
    <2>1. ~q.stopInterval /\ q.phase = r.phase
      BY <1>2, HandlerSteady, HandlerType
    <2> QED BY <1>1, <1>2, <2>1
  <1>3. CASE ActorStart(c)
    <2> DEFINE r0 == [Touch(ctx[c]) EXCEPT !.phase = "loop",
                        !.tickDisabled = ctx[c].owner \in TickOff]
    <2>1. r0 \in Context /\ ~r0.stopInterval /\ r0.phase \in Early
      <3> DEFINE off == ctx[c].owner \in TickOff
      <3>1. off \in BOOLEAN
        OBVIOUS
      <3> HIDE DEF off
      <3>2. [Touch(ctx[c]) EXCEPT !.phase = "loop", !.tickDisabled = off] \in Context
        BY <1>1, <3>1 DEF Touch, Context, Phases
      <3> QED BY <1>1, <3>2 DEF Touch, Context, off, Early
    <2>2. PICK q \in ProcessMessage(r0, FALSE) : ctx' = [ctx EXCEPT ![c] = q]
      BY <1>3 DEF ActorStart
    <2>3. ctx[c].phase \in Early
      BY <1>3 DEF ActorStart, Early
    <2> HIDE DEF r0
    <2> QED BY <1>2, <2>1, <2>2, <2>3
  <1>4. CASE \/ ActorDequeue(c) \/ ActorMailboxClosed(c) \/ ActorStop(c) \/ ActorDone(c)
             \/ IdleElapses(c)
    <2>1. CASE ActorDequeue(c)
      BY <1>1, <2>1 DEF ActorDequeue, Context
    <2>2. CASE ActorMailboxClosed(c)
      BY <1>1, <2>2 DEF ActorMailboxClosed, Context
    <2>3. CASE ActorStop(c) \/ ActorDone(c)
      <3>1. ctx[c].phase \in {"stopping", "exit"}
        BY <2>3 DEF ActorStop, ActorDone
      <3>2. \E p \in {"exit", "gone"} : ctx' = [ctx EXCEPT ![c].phase = p]
        BY <2>3 DEF ActorStop, ActorDone
      <3>3. ctx'[c].phase \in {"exit", "gone"} /\ ctx'[c].stopInterval = ctx[c].stopInterval
        BY <1>1, <3>2 DEF Context
      <3> QED BY <3>1, <3>3 DEF Early
    <2>4. CASE IdleElapses(c)
      BY <2>4 DEF IdleElapses
    <2> QED BY <1>4, <2>1, <2>2, <2>3, <2>4
  <1>5. CASE ActorRecycle(c)
    BY <1>5 DEF ActorRecycle, Recycles
  <1>6. ASSUME AtMessage(c, {"send", "request", "senderless"}) \/ AtMessage(c, {"tick"})
                 \/ AtMessage(c, {"watch", "unwatch"})
        PROVE  /\ Consumed(c) \in Context /\ ~Consumed(c).stopInterval
               /\ Consumed(c).phase = ctx[c].phase /\ ctx[c].phase \in Early
    <2>1. ctx[c].batch \in Seq(MailboxItems) /\ ctx[c].batch # <<>>
      BY <1>1, <1>6 DEF AtMessage, Context
    <2>2. Tail(ctx[c].batch) \in Seq(MailboxItems)
      BY <2>1
    <2> QED BY <1>1, <1>6, <2>2 DEF Consumed, Context, AtMessage, Early
  <1>7. CASE ActorWatch(c)
    BY <1>1, <1>6, <1>7 DEF ActorWatch, Context
  <1>8. CASE ActorMessage(c)
    <2>1. /\ Shown(c) \in Context /\ ~Shown(c).stopInterval
          /\ Shown(c).phase \in Early /\ ctx[c].phase \in Early
      BY <1>6, <1>8, ShownType DEF ActorMessage
    <2>2. PICK q \in ProcessMessage(Shown(c), Head(ctx[c].batch).kind # "send") :
            ctx' = [ctx EXCEPT ![c] = q]
      BY <1>8 DEF ActorMessage
    <2> QED BY <1>2, <2>1, <2>2
  <1>9. CASE ActorTick(c)
    <2>1. PICK q \in ProcessMessage(Consumed(c), FALSE) : ctx' = [ctx EXCEPT ![c] = q]
      BY <1>9 DEF ActorTick
    <2>2. AtMessage(c, {"tick"})
      BY <1>9 DEF ActorTick
    <2> QED BY <1>2, <1>6, <2>1, <2>2
  <1> QED BY <1>3, <1>4, <1>5, <1>7, <1>8, <1>9 DEF ActorStep

(* It keeps the invariant, for its stop report is refused. *)
LEMMA DrainByActor ==
  ASSUME Invalidating = {}, OneInstanceInv, DrainInv, NEW c \in Contexts,
         ActorStep(c) \/ IdleElapses(c)
  PROVE  DrainInv'
  <1> USE DEF groupVars, actorVars
  <1>0. TypeOK /\ Registry /\ GroupOf[ctx[c].owner] \in Groups /\ ctx[c].owner \in Actors
    BY GroupOfAssumption DEF OneInstanceInv, TypeOK, Context
  <1>1. PICK r \in Context : ctx' = [ctx EXCEPT ![c] = r] /\ r.owner = ctx[c].owner
    BY <1>0, ActorContextStep
  <1>2. ctx'[c] = r /\ \A d \in Contexts \ {c} : ctx'[d] = ctx[d]
    BY <1>0, <1>1 DEF TypeOK
  <1>3. /\ ~ctx'[c].stopInterval
        /\ (ctx'[c].phase \in Early <=> ctx[c].phase \in Early) \/ ActorMailboxClosed(c)
    BY <1>0, SteadyActor DEF DrainInv
  <1>4. \A d \in Contexts : ~ctx'[d].stopInterval
    BY <1>2, <1>3 DEF DrainInv
  <1>5. UNCHANGED <<groupClosed, groupBatch, groupRunning, mailboxClosed, actorContexts>>
    BY DEF ActorStep, IdleElapses, ActorStart, ActorDequeue, ActorMailboxClosed,
       ActorWatch, ActorMessage, ActorTick, ActorRecycle, ActorStop, ActorDone
  <1>6. groupMailbox' = groupMailbox
    <2>1. CASE ActorStop(c)
      <3>1. actorContexts[ctx[c].owner] = c /\ c # NoContext
        BY <1>0, <2>1, ContextAssumption DEF ActorStop, Registry, LivePhases
      <3>2. mailboxClosed[ctx[c].owner]
        BY <1>0, <2>1, <3>1 DEF ActorStop, DrainInv, DrainedActor, Early
      <3>3. groupClosed[GroupOf[ctx[c].owner]]
        BY <1>0, <3>2 DEF DrainInv, DrainedActor, DrainedGroup
      <3> QED BY <1>0, <2>1, <3>3 DEF ActorStop, TypeOK
    <2>2. CASE ~ActorStop(c)
      BY <2>2 DEF ActorStep, IdleElapses, ActorStart, ActorDequeue, ActorMailboxClosed,
         ActorWatch, ActorMessage, ActorTick, ActorRecycle, ActorDone
    <2> QED BY <2>1, <2>2
  <1>7. \A g \in Groups : DrainedGroup(g)'
    BY <1>5, <1>6 DEF DrainInv, DrainedGroup
  <1>8. ASSUME NEW a \in Actors PROVE DrainedActor(a)'
    <2>1. DrainedActor(a)
      BY DEF DrainInv
    <2>2. actorMailbox'[a] = actorMailbox[a] \/ actorMailbox'[a] = <<>>
      <3>1. CASE ActorDequeue(c)
        BY <1>0, <3>1 DEF ActorDequeue, TypeOK
      <3>2. CASE ~ActorDequeue(c)
        BY <3>2 DEF ActorStep, IdleElapses, ActorStart, ActorMailboxClosed, ActorWatch,
           ActorMessage, ActorTick, ActorRecycle, ActorStop, ActorDone
      <3> QED BY <3>1, <3>2
    <2>3. ASSUME actorContexts[a] # NoContext, ctx'[actorContexts[a]].phase \notin Early
          PROVE  mailboxClosed[a] /\ actorMailbox'[a] = <<>>
      <3>1. CASE ctx[actorContexts[a]].phase \notin Early
        BY <2>1, <2>2, <2>3, <3>1 DEF DrainedActor
      <3>2. CASE ctx[actorContexts[a]].phase \in Early
        <4>1. actorContexts[a] = c /\ ActorMailboxClosed(c)
          BY <1>0, <1>2, <1>3, <2>3, <3>2 DEF TypeOK
        <4>2. ctx[c].owner = a
          BY <1>0, <2>3, <4>1 DEF Registry
        <4> QED BY <2>2, <4>1, <4>2 DEF ActorMailboxClosed
      <3> QED BY <3>1, <3>2
    <2> QED BY <1>5, <2>1, <2>2, <2>3 DEF DrainedActor
  <1> QED BY <1>4, <1>7, <1>8 DEF DrainInv

(* What the group's moves do to its own queues. *)
LEMMA DrainQueues ==
  ASSUME OneInstanceInv, DrainInv, NEW g \in Groups, GroupStep(g)
  PROVE  \A h \in Groups : DrainedGroup(h)'
  <1> USE DEF groupVars
  <1>0. TypeOK /\ \A h \in Groups : DrainedGroup(h)
    BY DEF OneInstanceInv, DrainInv
  <1>1. /\ groupClosed' = groupClosed
        /\ \A h \in Groups \ {g} : /\ groupMailbox'[h] = groupMailbox[h]
                                   /\ groupBatch'[h] = groupBatch[h]
                                   /\ groupRunning'[h] = groupRunning[h]
    BY <1>0
    DEF GroupStep, GroupProcess, GroupDequeue, GroupExit, GroupTick, Deliver,
        ActivateAndDeliver, DropOverflow, DropUnregistered, CreatorPanicsOnEnvelope,
        Deactivate, Reactivate, CreatorPanicsOnReport, NextEnvelope, LoseBatch, TypeOK
  <1>2. ASSUME NEW h \in Groups \ {g} PROVE DrainedGroup(h)'
    BY <1>0, <1>1 DEF DrainedGroup
  <1>3. CASE GroupDequeue(g)
    <2>1. DrainedGroup(g)'
      BY <1>0, <1>3 DEF GroupDequeue, DrainedGroup, TypeOK
    <2> QED BY <1>2, <2>1
  <1>4. CASE GroupExit(g)
    <2>1. DrainedGroup(g)'
      BY <1>0, <1>4 DEF GroupExit, DrainedGroup, TypeOK
    <2> QED BY <1>2, <2>1
  <1>5. ASSUME groupBatch[g] # <<>>, NextEnvelope(g) \/ LoseBatch(g),
               UNCHANGED <<groupMailbox, groupRunning>>
        PROVE  DrainedGroup(g)'
    <2>1. groupRunning[g] /\ groupBatch[g] \in Seq(MailboxItems)
      BY <1>0, <1>5 DEF DrainedGroup
    <2>2. Tail(groupBatch[g]) \in Seq(MailboxItems) /\ <<>> \in Seq(MailboxItems)
      BY <1>5, <2>1, HeadTailProperties
    <2> QED BY <1>0, <1>5, <2>1, <2>2 DEF DrainedGroup, NextEnvelope, LoseBatch, TypeOK
  <1>6. CASE GroupProcess(g)
    <2>1. CASE GroupTick(g)
      BY <1>2, <1>5, <2>1 DEF GroupTick
    <2>2. ASSUME NEW a \in Actors,
                 \/ Deliver(g, a) \/ ActivateAndDeliver(g, a) \/ DropOverflow(g, a)
                 \/ DropUnregistered(g, a) \/ CreatorPanicsOnEnvelope(g, a)
          PROVE  DrainedGroup(g)'
      BY <1>5, <2>2 DEF Deliver, ActivateAndDeliver, DropOverflow, DropUnregistered,
         CreatorPanicsOnEnvelope, AtEnvelope
    <2>3. ASSUME NEW a \in Actors,
                 Deactivate(g, a) \/ Reactivate(g, a) \/ CreatorPanicsOnReport(g, a)
          PROVE  DrainedGroup(g)'
      BY <1>5, <2>3 DEF Deactivate, Reactivate, CreatorPanicsOnReport, AtStopReport
    <2> QED BY <1>2, <1>6, <2>1, <2>2, <2>3 DEF GroupProcess
  <1> QED BY <1>3, <1>4, <1>6 DEF GroupStep

(* The group is never at a stop report, and feeds no actor that left. *)
LEMMA DrainByGroup ==
  ASSUME Recyclable = {}, OneInstanceInv, Placed, DrainInv, NEW g \in Groups, GroupStep(g)
  PROVE  DrainInv'
  <1> USE DEF groupVars, actorVars
  <1>0. TypeOK /\ DrainedGroup(g) /\ \A a \in Actors : GroupOf[a] \in Groups /\ DrainedActor(a)
    BY GroupOfAssumption DEF OneInstanceInv, DrainInv
  <1>1. \A h \in Groups : DrainedGroup(h)'
    BY DrainQueues
  <1>2. ASSUME NEW a \in Actors PROVE ~AtStopReport(g, a)
    <2>1. groupBatch[g] # <<>> => Head(groupBatch[g]) \in MailboxItems
      BY <1>0, HeadTailProperties DEF DrainedGroup
    <2> QED BY <1>0, <2>1, ItemsDiffer DEF AtStopReport, MailboxItems
  <1>3. ASSUME NEW a \in Actors, AtEnvelope(g, a)
        PROVE  g = GroupOf[a] /\ groupRunning[g] /\ ~mailboxClosed[a]
    BY <1>0, <1>3, OwnEnvelope DEF DrainedGroup, DrainedActor
  <1>4. \A c \in Contexts : ~ctx'[c].stopInterval
    <2>1. ASSUME NEW a \in Actors, NEW cache, Activate(a, cache)
          PROVE  \A c \in Contexts : ~ctx'[c].stopInterval
      <3>1. PICK d \in Contexts : ctx' = [ctx EXCEPT ![d] = NewContext(a, cache)]
        BY <2>1 DEF Activate
      <3>2. ~NewContext(a, cache).stopInterval
        BY DEF NewContext
      <3> QED BY <1>0, <3>1, <3>2 DEF DrainInv, TypeOK
    <2>2. ASSUME ctx' = ctx PROVE \A c \in Contexts : ~ctx'[c].stopInterval
      BY <2>2 DEF DrainInv
    <2> QED
      BY <2>1, <2>2
      DEF GroupStep, GroupProcess, GroupDequeue, GroupExit, GroupTick, Deliver,
          ActivateAndDeliver, DropOverflow, DropUnregistered,
          CreatorPanicsOnEnvelope, Deactivate, Reactivate, CreatorPanicsOnReport
  <1>5. ASSUME NEW b \in Actors PROVE DrainedActor(b)'
    <2>0. DrainedActor(b)
      BY <1>0
    <2>1. CASE GroupExit(g)
      <3>1. mailboxClosed'[b] = (mailboxClosed[b] \/ (GroupOf[b] = g /\ actorContexts[b] # NoContext))
        BY <2>1 DEF GroupExit
      <3>2. groupRunning'[GroupOf[b]] = IF GroupOf[b] = g THEN FALSE ELSE groupRunning[GroupOf[b]]
        BY <1>0, <2>1 DEF GroupExit, TypeOK
      <3> QED BY <2>0, <2>1, <3>1, <3>2 DEF GroupExit, DrainedActor
    <2>2. CASE GroupDequeue(g)
      BY <2>0, <2>2 DEF GroupDequeue, DrainedActor
    <2>3. CASE GroupTick(g)
      <3>1. groupRunning[g]
        BY <1>0, <2>3 DEF GroupTick, DrainedGroup
      <3>2. actorMailbox'[b] # actorMailbox[b] => GroupOf[b] = g /\ actorContexts[b] # NoContext
        BY <2>3 DEF GroupTick
      <3> QED BY <2>0, <2>3, <3>1, <3>2 DEF GroupTick, DrainedActor
    <2>4. ASSUME NEW a \in Actors, Deliver(g, a) PROVE DrainedActor(b)'
      <3>1. AtEnvelope(g, a)
        BY <2>4 DEF Deliver
      <3>2. actorMailbox'[b] # actorMailbox[b] => b = a
        BY <1>0, <2>4 DEF Deliver, TypeOK
      <3> QED BY <1>3, <2>0, <2>4, <3>1, <3>2 DEF Deliver, DrainedActor
    <2>5. ASSUME NEW a \in Actors, ActivateAndDeliver(g, a) PROVE DrainedActor(b)'
      <3>1. AtEnvelope(g, a)
        BY <2>5 DEF ActivateAndDeliver
      <3>2. PICK c \in Contexts : /\ Free(c)
                                  /\ ctx' = [ctx EXCEPT ![c] = NewContext(a, actorCaches[a])]
                                  /\ actorContexts' = [actorContexts EXCEPT ![a] = c]
        BY <2>5 DEF ActivateAndDeliver, Activate
      <3>3. CASE b = a
        <4>1. /\ actorContexts'[b] = c /\ c # NoContext /\ ctx'[c].phase \in Early
          BY <1>0, <3>2, <3>3, ContextAssumption DEF TypeOK, NewContext, Early
        <4> QED BY <1>3, <2>5, <3>1, <3>3, <4>1 DEF ActivateAndDeliver, DrainedActor
      <3>4. CASE b # a
        <4>1. actorContexts'[b] = actorContexts[b] /\ actorContexts[b] # c
          BY <1>0, <3>2, <3>4 DEF TypeOK, Free
        <4>2. actorContexts[b] # NoContext => ctx'[actorContexts[b]] = ctx[actorContexts[b]]
          BY <1>0, <3>2, <4>1 DEF TypeOK
        <4>3. actorMailbox'[b] = actorMailbox[b]
          BY <1>0, <2>5, <3>4 DEF ActivateAndDeliver, TypeOK
        <4> QED BY <2>0, <2>5, <4>1, <4>2, <4>3 DEF ActivateAndDeliver, DrainedActor
      <3> QED BY <3>3, <3>4
    <2>6. ASSUME NEW a \in Actors,
                 DropOverflow(g, a) \/ DropUnregistered(g, a) \/ CreatorPanicsOnEnvelope(g, a)
          PROVE  DrainedActor(b)'
      BY <2>0, <2>6 DEF DropOverflow, DropUnregistered, CreatorPanicsOnEnvelope, DrainedActor
    <2>7. ASSUME NEW a \in Actors
          PROVE  ~(Deactivate(g, a) \/ Reactivate(g, a) \/ CreatorPanicsOnReport(g, a))
      BY <1>2 DEF Deactivate, Reactivate, CreatorPanicsOnReport
    <2> QED BY <2>1, <2>2, <2>3, <2>4, <2>5, <2>6, <2>7 DEF GroupStep, GroupProcess
  <1> QED BY <1>1, <1>4, <1>5 DEF DrainInv

(* The other steps. *)
LEMMA DrainStep ==
  ASSUME Recyclable = {}, Invalidating = {}, OneInstanceInv, Placed, DrainInv, [Next]_vars
  PROVE  DrainInv'
  <1> USE DEF groupVars, actorVars
  <1>0. TypeOK /\ (\A g \in Groups : DrainedGroup(g)) /\ \A a \in Actors : DrainedActor(a)
    BY DEF OneInstanceInv, DrainInv
  <1>1. ASSUME NEW g \in Groups, NEW y \in MailboxItems, ~groupClosed[g],
               groupMailbox' = [groupMailbox EXCEPT ![g] = Append(@, y)],
               UNCHANGED <<groupClosed, groupBatch, groupRunning, actorVars, ctx>>
        PROVE  DrainInv'
    <2>1. Append(groupMailbox[g], y) \in Seq(MailboxItems) /\ groupRunning[g]
      BY <1>0, <1>1, AppendProperties DEF DrainedGroup
    <2>2. ASSUME NEW h \in Groups PROVE DrainedGroup(h)'
      BY <1>0, <1>1, <2>1 DEF DrainedGroup, TypeOK
    <2>3. \A a \in Actors : DrainedActor(a)'
      BY <1>0, <1>1 DEF DrainedActor
    <2> QED BY <1>1, <2>2, <2>3 DEF DrainInv
  <1>2. ASSUME NEW e \in Envelopes, Accept(e) PROVE DrainInv'
    BY <1>1, <1>2, GroupOfAssumption, EnvelopeAssumption DEF Accept, MailboxItems
  <1>3. ASSUME NEW g \in Groups, TickerFires(g) PROVE DrainInv'
    BY <1>1, <1>3 DEF TickerFires, MailboxItems
  <1>4. ASSUME NEW g \in Groups, CloseGroup(g) PROVE DrainInv'
    <2>1. \A h \in Groups : DrainedGroup(h)'
      BY <1>0, <1>4 DEF CloseGroup, DrainedGroup, TypeOK
    <2>2. \A a \in Actors : DrainedActor(a)'
      BY <1>0, <1>4 DEF CloseGroup, DrainedActor
    <2> QED BY <1>4, <2>1, <2>2 DEF CloseGroup, DrainInv
  <1>5. CASE Stop \/ UNCHANGED vars
    <2>1. UNCHANGED <<groupVars, actorVars, ctx>>
      BY <1>5 DEF Stop, vars
    <2> QED BY <2>1 DEF DrainInv, DrainedGroup, DrainedActor
  <1> QED BY <1>2, <1>3, <1>4, <1>5, DrainByGroup, DrainByActor DEF Next

(* Stop drains a system whose actors are not recycled: when its Wait returns, no
   accepted envelope is left, also with a depth limit and with creators that
   panic, for what these drop is dropped at once. With recycling it is false, as
   the run group_stop_loss shows. *)
THEOREM StopDrainsWithoutRecycling ==
  ASSUME Recyclable = {}, Invalidating = {}
  PROVE  Spec => []StopDrains
  <1>1. Init => OneInstanceInv /\ Placed /\ DrainInv
    <2> SUFFICES ASSUME Init PROVE OneInstanceInv /\ Placed /\ DrainInv
      OBVIOUS
    <2>1. OneInstanceInv /\ Placed
      BY CoreInit DEF RefinementInv
    <2>2. \A c \in Contexts : ~ctx[c].stopInterval
      BY DEF Init, NewContext
    <2>3. \A g \in Groups : DrainedGroup(g)
      BY DEF Init, DrainedGroup
    <2>4. \A a \in Actors : DrainedActor(a)
      BY DEF Init, DrainedActor
    <2> QED BY <2>1, <2>2, <2>3, <2>4 DEF DrainInv
  <1>2. OneInstanceInv /\ Placed /\ DrainInv /\ [Next]_vars
          => (OneInstanceInv /\ Placed /\ DrainInv)'
    BY OneInstanceStep, PlacedStep, DrainStep
  <1>3. OneInstanceInv /\ Placed /\ DrainInv /\ QuietAfterStop => StopDrains
    <2> SUFFICES ASSUME OneInstanceInv, Placed, DrainInv, QuietAfterStop, stopped, wg = 0,
                        NEW a \in Actors
                 PROVE  Inbox(a) = <<>>
      BY DEF StopDrains
    <2>1. /\ \A g \in Groups : ~groupRunning[g]
          /\ \A c \in Contexts : ctx[c].phase = "gone"
      BY DEF QuietAfterStop
    <2>2. groupBatch[GroupOf[a]] = <<>> /\ groupMailbox[GroupOf[a]] = <<>>
      BY <2>1, GroupOfAssumption DEF DrainInv, DrainedGroup
    <2>3. BatchOf(a) = <<>> /\ actorMailbox[a] = <<>>
      <3>1. CASE actorContexts[a] = NoContext
        BY <3>1 DEF BatchOf, DrainInv, DrainedActor
      <3>2. CASE actorContexts[a] # NoContext
        <4>1. actorContexts[a] \in Contexts /\ ctx[actorContexts[a]].phase \notin Early
          BY <2>1, <3>2 DEF OneInstanceInv, TypeOK, Early
        <4> QED BY <2>1, <3>2, <4>1 DEF BatchOf, DrainInv, DrainedActor, Placed, PlacedContext
      <3> QED BY <3>1, <3>2
    <2>4. <<>> \o <<>> = <<>>
      OBVIOUS
    <2> QED BY <2>2, <2>3, <2>4, FilterEmpty DEF Inbox, Path
  <1> QED BY <1>1, <1>2, <1>3, Quiet, PTL DEF Spec

(* A registered context has a goroutine or its stop report is under way, as long
   as the group's entry is open, when no creator panics. With one that panics it
   is false, as the run group_creator_panic shows. *)
THEOREM RegisteredIsServed ==
  ASSUME PanicCreators = {}
  PROVE  Spec => []RegisteredServed
  <1>1. Init => OneInstanceInv /\ ServedInv
    BY OneInstanceInit DEF Init, ServedInv, MailboxOwned, RegisteredServed
  <1>2. OneInstanceInv /\ ServedInv /\ [Next]_vars => (OneInstanceInv /\ ServedInv)'
    BY OneInstanceStep, ServedStep
  <1>3. ServedInv => RegisteredServed
    BY DEF ServedInv
  <1> QED BY <1>1, <1>2, <1>3, PTL DEF Spec
=============================================================================
