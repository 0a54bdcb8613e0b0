---------------------------- MODULE AsyncRequest ----------------------------
(***************************************************************************)
(* Asynchronous requests between actors (RequestAsync, its table of        *)
(* callbacks, timeouts found by ticks) and requests from outside           *)
(* (System.Request): src/actor_context.go, src/envelope_context.go,        *)
(* src/system.go.                                                          *)
(*                                                                         *)
(* Instances of an actor take turns as in SyncRequest.  Here requests,     *)
(* responses and ticks all go through the mailbox, of which the actor      *)
(* takes a batch at a time: left[a] of the envelopes at its front are the  *)
(* rest of the batch.  Unlike a synchronous response, an asynchronous one  *)
(* activates its target.  User code may call RequestAsync at any moment:   *)
(* in a handler, in a callback, or on MsgOnStop.  An envelope to a full    *)
(* mailbox, or to a type nobody registered, leaves a line in the log only. *)
(***************************************************************************)
EXTENDS Integers, Sequences, FiniteSets

CONSTANTS
  Actors,
  Calls,          \* <<a, b>>: a may send requests to b, itself included
  Timeouts,       \* whether a request may have one (TRUE) or none (FALSE)
  TickOff,        \* actors that called SetTickEnabled(false)
  Lasting,        \* actors that called SetStopInterval(0), never to be recycled
  Mangled,        \* actors to whom a response may come without its payload
  Refusing,       \* actors whose mailbox others may have filled, or without a creator
  Duplicating,    \* whether the transport may deliver a response twice
  OuterCalls,     \* calls of System.Request, each with a channel of its own
  OuterTarget,    \* the actor they go to
  Untimed,        \* those of them without a timeout
  Deferring,      \* actors whose handlers may leave an outer call for later
  MaxRequests,    \* bound: requests of one instance
  MaxInstances    \* bound: instances of all actors

CallIds == (1 .. MaxInstances) \X (1 .. MaxRequests)

Tick == [kind |-> "tick"]
Requests == [kind : {"request"}, to : Actors, from : Actors, id : Nat, address : Nat]
Responses == [kind : {"response"}, to : Actors, id : Nat, address : Nat, payload : BOOLEAN]
OuterRequests == [kind : {"outer"}, to : Actors, call : OuterCalls]
Envelopes == Requests \union Responses \union OuterRequests
Infos == [id : Nat, timed : BOOLEAN, out : BOOLEAN]

ASSUME CallsAssumption == /\ Calls \subseteq Actors \X Actors
                          /\ Timeouts \subseteq BOOLEAN
                          /\ OuterTarget \in Actors
                          /\ Untimed \subseteq OuterCalls
ASSUME NumberAssumption == Duplicating \in BOOLEAN /\ MaxRequests \in Nat /\ MaxInstances \in Nat

VARIABLES
  instances,      \* actorInstanceSeq
  instance,       \* instance[a]: instanceId of the registered context, 0 if none
  phase,          \* phase[a]: where its goroutine is
  callbackIdBase, \* callbackIdBase[a]
  infos,          \* waitingAsyncCallbackInfos[a]; out: its time is over
  pendingAsync,   \* pendingAsyncCallback[a], the mirror its group reads
  mailbox, left,  \* mailbox[a], of which the first left[a] are being processed
  owed,           \* owed[a]: counted in processingRequestCount
  deferred,       \* deferred[a]: outer calls a was shown and did not answer
  network,        \* envelopes on their way
  rspChan, outer, \* rspChan[q], and where the call q is
  lost,           \* history: outer calls that were accepted and dropped
  issued, timed, ran \* history: calls, those that must end, runs of callbacks

instanceVars == <<instances, instance, phase>>
callVars == <<callbackIdBase, infos, pendingAsync>>
serverVars == <<owed, deferred>>
outerVars == <<rspChan, outer, lost>>
history == <<issued, timed, ran>>
vars == <<instanceVars, callVars, mailbox, left, serverVars, network, outerVars, history>>

RequestTo(b, a) == [kind |-> "request", to |-> b, from |-> a,
                    id |-> callbackIdBase[a] + 1, address |-> instance[a]]
ResponseTo(r) == [kind |-> "response", to |-> r.from, id |-> r.id,
                  address |-> r.address, payload |-> TRUE]
OuterRequest(q) == [kind |-> "outer", to |-> OuterTarget, call |-> q]

Init ==
  /\ instances = 0
  /\ instance = [a \in Actors |-> 0]
  /\ phase = [a \in Actors |-> "left"]
  /\ callbackIdBase = [a \in Actors |-> 0]
  /\ infos = [a \in Actors |-> {}]
  /\ pendingAsync = [a \in Actors |-> 0]
  /\ mailbox = [a \in Actors |-> <<>>]
  /\ left = [a \in Actors |-> 0]
  /\ owed = [a \in Actors |-> {}]
  /\ deferred = [a \in Actors |-> {}]
  /\ network = {}
  /\ rspChan = [q \in OuterCalls |-> <<>>]
  /\ outer = [q \in OuterCalls |-> "new"]
  /\ lost = {}
  /\ issued = {}
  /\ timed = {}
  /\ ran = [c \in CallIds |-> <<>>]

-----------------------------------------------------------------------------
(* The caller *)

InUserCode(a) == phase[a] # "left" /\ callbackIdBase[a] < MaxRequests

ThisCall(a) == <<instance[a], callbackIdBase[a] + 1>>

(* The table gets the entry before the envelope leaves.  An actor on its way
   out, on MsgOnStop, has no tick to come and promises nothing any more. *)
RequestAsync(a, b, t) ==
  /\ <<a, b>> \in Calls
  /\ InUserCode(a)
  /\ callbackIdBase' = [callbackIdBase EXCEPT ![a] = @ + 1]
  /\ infos' = [infos EXCEPT ![a] = @ \union
                 {[id |-> callbackIdBase[a] + 1, timed |-> t, out |-> FALSE]}]
  /\ pendingAsync' = [pendingAsync EXCEPT ![a] = @ + 1]
  /\ network' = network \union {RequestTo(b, a)}
  /\ issued' = issued \union {ThisCall(a)}
  /\ timed' = IF t /\ phase[a] = "running" THEN timed \union {ThisCall(a)} ELSE timed
  /\ UNCHANGED <<instanceVars, mailbox, left, serverVars, outerVars, ran>>

Ran(c, how) == ran' = [ran EXCEPT ![c] = Append(@, how)]

(* A refused send: the registration is taken back and the callback runs here
   and now, inside of RequestAsync. *)
RequestRefused(a, b) ==
  /\ <<a, b>> \in Calls
  /\ InUserCode(a)
  /\ callbackIdBase' = [callbackIdBase EXCEPT ![a] = @ + 1]
  /\ issued' = issued \union {ThisCall(a)}
  /\ Ran(ThisCall(a), "refused")
  /\ UNCHANGED <<instanceVars, infos, pendingAsync, mailbox, left, serverVars,
                 network, outerVars, timed>>

(* The time of a call runs out; only a tick will notice. *)
Expire(a) ==
  \E i \in infos[a] :
    /\ i.timed /\ ~i.out
    /\ infos' = [infos EXCEPT ![a] = (@ \ {i}) \union {[i EXCEPT !.out = TRUE]}]
    /\ UNCHANGED <<instanceVars, callbackIdBase, pendingAsync, mailbox, left,
                   serverVars, network, outerVars, history>>

-----------------------------------------------------------------------------
(* The group goroutine *)

(* A new actorContext for a (bound: Recycle sees to it that there is one). *)
Create(a) ==
  /\ instances < MaxInstances
  /\ instances' = instances + 1
  /\ instance' = [instance EXCEPT ![a] = instances + 1]
  /\ phase' = [phase EXCEPT ![a] = "running"]
  /\ callbackIdBase' = [callbackIdBase EXCEPT ![a] = 0]
  /\ infos' = [infos EXCEPT ![a] = {}]
  /\ pendingAsync' = [pendingAsync EXCEPT ![a] = 0]
  /\ owed' = [owed EXCEPT ![a] = {}]
  /\ deferred' = [deferred EXCEPT ![a] = {}]

InMailbox(m) == \E i \in 1 .. Len(mailbox[m.to]) : mailbox[m.to][i] = m
WithoutPayload(m) == [m EXCEPT !.payload = FALSE]

(* A response may come again and again, or once without its payload (bound: not
   twice in the mailbox). *)
Arrives(m) ==
  \/ /\ ~InMailbox(m)
     /\ mailbox' = [mailbox EXCEPT ![m.to] = Append(@, m)]
     /\ \/ network' = network \ {m}
        \/ Duplicating /\ m.kind = "response" /\ UNCHANGED network
  \/ /\ m.kind = "response" /\ m.to \in Mangled
     /\ mailbox' = [mailbox EXCEPT ![m.to] = Append(@, WithoutPayload(m))]
     /\ network' = network \ {m}

Deliver(m) ==
  /\ Arrives(m)
  /\ IF instance[m.to] = 0
     THEN Create(m.to)
     ELSE UNCHANGED <<instanceVars, callVars, serverVars>>
  /\ UNCHANGED <<left, outerVars, history>>

(* The mailbox is full, or there is no creator: who sent m is not told. *)
Drop(m) ==
  /\ m.to \in Refusing
  /\ network' = network \ {m}
  /\ lost' = lost \union {q \in OuterCalls : m = OuterRequest(q)}
  /\ UNCHANGED <<instanceVars, callVars, mailbox, left, serverVars, rspChan, outer, history>>

(* Any other message, a send for instance, activates the actor. *)
Activate(a) ==
  /\ instance[a] = 0
  /\ Create(a)
  /\ UNCHANGED <<mailbox, left, network, outerVars, history>>

(* Mutant: a pending callback asks for no tick. *)
NeedTick_IdleOnly(a, idle) == a \notin TickOff \/ (idle /\ a \notin Lasting)

(* needTick, where idle says whether the stop interval has passed. *)
NeedTick(a, idle) == a \notin TickOff \/ pendingAsync[a] > 0 \/ (idle /\ a \notin Lasting)

(* Bound: one tick in the mailbox. *)
GroupTick(a, idle) ==
  /\ instance[a] # 0
  /\ NeedTick(a, idle)
  /\ \A i \in 1 .. Len(mailbox[a]) : mailbox[a][i] # Tick
  /\ mailbox' = [mailbox EXCEPT ![a] = Append(@, Tick)]
  /\ UNCHANGED <<instanceVars, callVars, left, serverVars, network, outerVars, history>>

(* The report of a goroutine that left. *)
StopReported(a) ==
  /\ instance[a] # 0 /\ phase[a] = "left"
  /\ IF mailbox[a] = <<>>
     THEN /\ instance' = [instance EXCEPT ![a] = 0]
          /\ UNCHANGED <<instances, phase, callVars, serverVars>>
     ELSE Create(a)
  /\ UNCHANGED <<mailbox, left, network, outerVars, history>>

-----------------------------------------------------------------------------
(* The actor goroutine *)

Dequeue(a) ==
  /\ phase[a] = "running" /\ left[a] = 0 /\ mailbox[a] # <<>>
  /\ left' = [left EXCEPT ![a] = Len(mailbox[a])]
  /\ UNCHANGED <<instanceVars, callVars, mailbox, serverVars, network, outerVars, history>>

(* The envelope to be processed; the handler of the one before has returned,
   and has answered the outer call it was shown unless it may do so later. *)
At(a, kind) == /\ phase[a] = "running" /\ left[a] > 0
               /\ Head(mailbox[a]).kind = kind
               /\ deferred[a] = {} \/ a \in Deferring

Consumed(a) == /\ mailbox' = [mailbox EXCEPT ![a] = Tail(@)]
               /\ left' = [left EXCEPT ![a] = @ - 1]

(* Mutant: the rest of the batch is gone, and is gone through all the same. *)
LoseBatch_ReadOn(a) == /\ mailbox' = [mailbox EXCEPT ![a] = SubSeq(@, left[a] + 1, Len(@))]
                       /\ left' = [left EXCEPT ![a] = @ - 1]

(* A panic outside of a handler costs the rest of the batch. *)
LoseBatch(a) == /\ mailbox' = [mailbox EXCEPT ![a] = SubSeq(@, left[a] + 1, Len(@))]
                /\ left' = [left EXCEPT ![a] = 0]

ServeRequest(a) ==
  /\ At(a, "request")
  /\ Consumed(a)
  /\ owed' = [owed EXCEPT ![a] = @ \union {Head(mailbox[a])}]
  /\ UNCHANGED <<instanceVars, callVars, deferred, network, outerVars, history>>

(* An outer call is not counted. *)
ServeOuter(a) ==
  /\ At(a, "outer")
  /\ Consumed(a)
  /\ deferred' = [deferred EXCEPT ![a] = @ \union {Head(mailbox[a]).call}]
  /\ UNCHANGED <<instanceVars, callVars, owed, network, outerVars, history>>

(* Response, by the user or, after a panic, by respondErrorOnce; doSendRsp
   makes it once. *)
Answer(a) ==
  /\ phase[a] # "left"
  /\ \E r \in owed[a] : /\ owed' = [owed EXCEPT ![a] = @ \ {r}]
                        /\ network' = network \union {ResponseTo(r)}
  /\ UNCHANGED <<instanceVars, callVars, mailbox, left, deferred, outerVars, history>>

(* Mutant: a handler that panics leaves its caller without an answer. *)
AnswerOuter_UnlessPanic(a) ==
  /\ phase[a] # "left"
  /\ \E q \in deferred[a] :
       /\ deferred' = [deferred EXCEPT ![a] = @ \ {q}]
       /\ \/ rspChan' = [rspChan EXCEPT ![q] = IF @ = <<>> THEN <<"answer">> ELSE @]
          \/ UNCHANGED rspChan
  /\ UNCHANGED <<instanceVars, callVars, mailbox, left, owed, network, outer, lost, history>>

(* The write does not block, and drops the answer if the channel is full. *)
AnswerOuter(a) ==
  /\ phase[a] # "left"
  /\ \E q \in deferred[a] :
       /\ deferred' = [deferred EXCEPT ![a] = @ \ {q}]
       /\ rspChan' = [rspChan EXCEPT ![q] = IF @ = <<>> THEN <<"answer">> ELSE @]
  /\ UNCHANGED <<instanceVars, callVars, mailbox, left, owed, network, outer, lost, history>>

(* Mutants: any entry with the number will do; the mirror keeps counting it. *)
Awaits_AnyInstance(a, m) == {i \in infos[a] : i.id = m.id}
Forgets_Counted(a, I) == /\ infos' = [infos EXCEPT ![a] = @ \ I]
                         /\ UNCHANGED pendingAsync

(* The entry that response m is for, if it is for this instance. *)
Awaits(a, m) == {i \in infos[a] : i.id = m.id /\ m.address = instance[a]}

(* The entries I leave the table and the mirror. *)
Forgets(a, I) == /\ infos' = [infos EXCEPT ![a] = @ \ I]
                 /\ pendingAsync' = [pendingAsync EXCEPT ![a] = @ - Cardinality(I)]

(* A panic of the callback is recovered around the call. *)
HandleResponse(a) ==
  /\ At(a, "response")
  /\ LET m == Head(mailbox[a]) IN
     \/ /\ m.payload
        /\ \E i \in Awaits(a, m) :
             /\ Ran(<<instance[a], i.id>>, IF m.address = instance[a] THEN "answer" ELSE "foreign")
             /\ Forgets(a, {i})
        /\ Consumed(a)
     \/ /\ Awaits(a, m) = {}
        /\ Consumed(a)
        /\ UNCHANGED <<infos, pendingAsync, ran>>
     \/ /\ ~m.payload /\ Awaits(a, m) # {}
        /\ LoseBatch(a)
        /\ UNCHANGED <<infos, pendingAsync, ran>>
  /\ UNCHANGED <<instanceVars, callbackIdBase, serverVars, network, outerVars, issued, timed>>

(* Mutant: open callbacks do not keep the actor. *)
MayRecycle_Waiting(a) == left[a] = 1 /\ owed[a] = {} /\ a \notin Lasting

MayRecycle(a) == left[a] = 1 /\ owed[a] = {} /\ infos[a] = {} /\ a \notin Lasting

Late(a) == {i \in infos[a] : i.timed /\ i.out}

(* Every call that is late is told so; what the callbacks register meanwhile
   is as if registered afterwards. *)
HandleTick(a) ==
  /\ At(a, "tick")
  /\ ran' = [c \in CallIds |-> IF \E i \in Late(a) : c = <<instance[a], i.id>>
                               THEN Append(ran[c], "timeout") ELSE ran[c]]
  /\ Forgets(a, Late(a))
  /\ Consumed(a)
  /\ UNCHANGED <<instanceVars, callbackIdBase, serverVars, network, outerVars, issued, timed>>

(* Idle for long enough, with the tick as the last of its batch (bound: whoever
   is away can come back). *)
Recycle(a) ==
  /\ At(a, "tick")
  /\ MayRecycle(a)
  /\ instances + Cardinality({b \in Actors : phase[b] # "running"}) < MaxInstances
  /\ phase' = [phase EXCEPT ![a] = "stopping"]
  /\ Consumed(a)
  /\ UNCHANGED <<instances, instance, callVars, serverVars, network, outerVars, history>>

(* MsgOnStop has been handled and the report is sent. *)
Leave(a) ==
  /\ phase[a] = "stopping"
  /\ phase' = [phase EXCEPT ![a] = "left"]
  /\ UNCHANGED <<instances, instance, callVars, mailbox, left, serverVars, network, outerVars, history>>

-----------------------------------------------------------------------------
(* Callers from outside *)

OuterCall(q) ==
  /\ outer[q] = "new"
  /\ \/ /\ outer' = [outer EXCEPT ![q] = "waiting"]
        /\ network' = network \union {OuterRequest(q)}
     \/ /\ outer' = [outer EXCEPT ![q] = "refused"]
        /\ UNCHANGED network
  /\ UNCHANGED <<instanceVars, callVars, mailbox, left, serverVars, rspChan, lost, history>>

(* It was answered, or timed out; an answer that comes later stays unread. *)
OuterReturn(q) ==
  /\ outer[q] = "waiting"
  /\ \/ /\ rspChan[q] # <<>>
        /\ rspChan' = [rspChan EXCEPT ![q] = Tail(@)]
        /\ outer' = [outer EXCEPT ![q] = "answered"]
     \/ /\ q \notin Untimed
        /\ outer' = [outer EXCEPT ![q] = "timeout"]
        /\ UNCHANGED rspChan
  /\ UNCHANGED <<instanceVars, callVars, mailbox, left, serverVars, network, lost, history>>

GroupStep(a) == \/ Activate(a) \/ StopReported(a)
                \/ \E idle \in BOOLEAN : GroupTick(a, idle)
                \/ \E m \in network : m.to = a /\ (Deliver(m) \/ Drop(m))

ActorStep(a) == \/ Dequeue(a) \/ ServeRequest(a) \/ ServeOuter(a)
                \/ HandleResponse(a) \/ HandleTick(a) \/ Leave(a)

UserStep(a) == \/ Answer(a) \/ AnswerOuter(a) \/ Recycle(a) \/ Expire(a)
               \/ \E b \in Actors : \/ \E t \in Timeouts : RequestAsync(a, b, t)
                                    \/ RequestRefused(a, b)

Next == \/ \E a \in Actors : GroupStep(a) \/ ActorStep(a) \/ UserStep(a)
        \/ \E q \in OuterCalls : OuterCall(q) \/ OuterReturn(q)

(* Goroutines run, ticks come and time passes; the transport owes nothing to
   asynchronous requests, nor do their servers. *)
Fairness ==
  /\ \A a \in Actors : /\ WF_vars(ActorStep(a)) /\ WF_vars(GroupTick(a, FALSE))
                       /\ WF_vars(Expire(a)) /\ WF_vars(AnswerOuter(a) /\ a \notin Deferring)
                       /\ WF_vars(StopReported(a))
  /\ \A q \in OuterCalls : /\ WF_vars(OuterReturn(q))
                           /\ WF_vars(/\ OuterRequest(q) \in network
                                      /\ Deliver(OuterRequest(q)) \/ Drop(OuterRequest(q)))

Spec == Init /\ [][Next]_vars
FairSpec == Spec /\ Fairness

-----------------------------------------------------------------------------
(* Properties *)

(* Every variable has its type; no entry of the table twice. *)
TypeOK ==
  /\ instances \in Nat
  /\ instance \in [Actors -> 0 .. instances]
  /\ phase \in [Actors -> {"running", "stopping", "left"}]
  /\ callbackIdBase \in [Actors -> Nat]
  /\ DOMAIN infos = Actors
  /\ \A a \in Actors : infos[a] \subseteq Infos
  /\ \A a \in Actors : \A i, j \in infos[a] : i.id = j.id => i = j
  /\ pendingAsync \in [Actors -> Int]
  /\ mailbox \in [Actors -> Seq(Envelopes \union {Tick})]
  /\ left \in [Actors -> Nat]
  /\ \A a \in Actors : left[a] <= Len(mailbox[a])
  /\ DOMAIN owed = Actors /\ \A a \in Actors : owed[a] \subseteq Requests
  /\ deferred \in [Actors -> SUBSET OuterCalls]
  /\ network \subseteq Envelopes
  /\ DOMAIN rspChan = OuterCalls
  /\ outer \in [OuterCalls -> {"new", "waiting", "answered", "timeout", "refused"}]
  /\ lost \subseteq OuterCalls
  /\ issued \subseteq CallIds /\ timed \subseteq issued /\ DOMAIN ran = CallIds

(* The mirror by which the group decides whether an actor needs ticks says how
   many callbacks wait: were it too small, a timeout would never be noticed; too
   large, and an actor that wants no ticks would get them for ever. *)
MirrorExact == \A a \in Actors : pendingAsync[a] = Cardinality(infos[a])

(* A call that must still end is in the table of the instance that made it, and
   that instance is there and will see ticks: no recycling, no late answer to
   another call and no abandoned batch takes it away. *)
OpenIsRegistered ==
  \A c \in timed : ran[c] = <<>> =>
    \E a \in Actors : /\ instance[a] = c[1] /\ phase[a] = "running"
                      /\ \E i \in infos[a] : i.id = c[2] /\ i.timed

(* Callbacks run once, for their own call, and if there is a timeout they do
   run: whatever the transport loses, repeats, reorders or cuts short. *)
AC == INSTANCE AsyncCall
ImplementsAsyncCall == AC!FairSpec

(* A caller from outside with a timeout gets its turn; one without gets it when
   the handler answers before it returns, no abandoned batch takes its call, and
   no full mailbox or missing creator does so after the call was accepted. *)
OuterReturns ==
  \A q \in OuterCalls :
    q \notin Untimed \/ OuterTarget \notin Deferring \union Mangled =>
      (outer[q] = "waiting" ~> outer[q] # "waiting" \/ (q \in Untimed /\ q \in lost))
=============================================================================
