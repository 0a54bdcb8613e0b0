----------------------------- MODULE SyncRequest -----------------------------
(***************************************************************************)
(* Synchronous requests between actors: Request blocks the goroutine of    *)
(* the caller on a channel of capacity one, which only its group goroutine *)
(* writes (src/actor_context.go, src/group.go, src/envelope_context.go).   *)
(*                                                                         *)
(* An actor lives through several instances, the actorContext objects that *)
(* take turns at its reference.  The transport is any Router: envelopes in *)
(* flight arrive in any order, responses may come twice.  Request numbers start *)
(* again with every instance, so a late answer can meet a caller that was  *)
(* recycled, or one that waits for another answer by now.                  *)
(*                                                                         *)
(* A group delivers to one actor at a time; what it delivers to another    *)
(* actor meanwhile is not related.  How a mailbox survives its actor is    *)
(* ActorGroup's subject: here one that is left non-empty finds a new       *)
(* instance.                                                               *)
(*                                                                         *)
(* Three things leave nothing behind but a line in the log: a request to a *)
(* full mailbox or to a type nobody registered, what a panic outside of a  *)
(* handler cuts from a batch, and an answer without payload.  Left out are *)
(* Stop, and what a creator that panics takes with it.                     *)
(***************************************************************************)
EXTENDS Integers, Sequences, FiniteSets

CONSTANTS
  Actors,
  Nobody,         \* no actor: the FromActorRef of an envelope made by hand
  NoEnvelope,
  Calls,          \* <<a, b>>: a may send requests to b
  Unbounded,      \* actors whose requests have no timeout (timeout <= 0)
  Forgetful,      \* actors whose handlers may return without an answer
  Legacy,         \* actors whose answers carry CallbackAddress 0
  Strangers,      \* actors that may be sent a request by Nobody
  Refusing,       \* actors whose mailbox others may have filled, or without a creator
  Mangled,        \* actors that may be sent envelopes with something missing
  Duplicating,    \* whether the transport may deliver a response twice
  MaxRequests,    \* bound: requests of one instance
  MaxInstances    \* bound: instances of all actors

Requests == [kind : {"request"}, to : Actors, from : Actors \union {Nobody},
             id : Nat, address : Nat]
Responses == [kind : {"response"}, to : Actors, from : Actors,
              id : Nat, address : Nat, asker : Nat, payload : BOOLEAN]

ASSUME NobodyAssumption == Nobody \notin Actors /\ NoEnvelope \notin Requests \union Responses
ASSUME CallsAssumption == /\ Calls \subseteq Actors \X Actors
                          /\ \A a \in Actors : <<a, a>> \notin Calls  \* isSelf
                          /\ Unbounded \subseteq Actors
ASSUME NumberAssumption == Duplicating \in BOOLEAN /\ MaxRequests \in Nat /\ MaxInstances \in Nat

VARIABLES
  instances,      \* actorInstanceSeq
  instance,       \* instance[a]: instanceId of the registered context, 0 if none
  running,        \* running[a]: its goroutine has not left
  requestIdBase,  \* requestIdBase[a]
  waiting,        \* waitingSyncRequestId[a]: 0 outside of Request
  syncRspChan,    \* syncRspChan[a]: at most one response
  lastSyncRsp,    \* lastSyncRspRequestId[a], the group's own variable
  delivering,     \* delivering[a]: what a's group is about to put into the channel
  mailbox,        \* mailbox[a]: the requests in it
  serving,        \* serving[a]: the request a's handler was called with
  pending,        \* pending[a]: requests a was shown and has not answered
  count,          \* processingRequestCount[a]
  network,        \* envelopes on their way
  outcome,        \* outcome[a]: what the last Request of a returned
  forsaken        \* history: what a's last Request waits for was dropped

callerVars == <<requestIdBase, waiting, outcome, forsaken>>
channelVars == <<syncRspChan, lastSyncRsp, delivering>>
serverVars == <<mailbox, serving, pending, count>>
instanceVars == <<instances, instance, running>>
vars == <<instanceVars, callerVars, channelVars, serverVars, network>>

(* The asker of a response is not in the envelope: it is who the answered
   request came from.  address is, and is 0 from a peer that does not know it. *)
RequestTo(b, a) == [kind |-> "request", to |-> b, from |-> a,
                    id |-> requestIdBase[a] + 1, address |-> instance[a]]
ResponseTo(r, b, p) == [kind |-> "response", to |-> r.from, from |-> b, id |-> r.id,
                        address |-> IF b \in Legacy THEN 0 ELSE r.address,
                        asker |-> r.address, payload |-> p]

(* What may arrive of b's answer to r: the payload can be lost on the way. *)
Answers(r, b) == {ResponseTo(r, b, p) : p \in {TRUE} \union {q \in {FALSE} : r.from \in Mangled}}

(* A request made by hand and given to LocalRouter. *)
Unsigned(a) == [kind |-> "request", to |-> a, from |-> Nobody, id |-> 0, address |-> 0]

Init ==
  /\ instances = 0
  /\ instance = [a \in Actors |-> 0]
  /\ running = [a \in Actors |-> FALSE]
  /\ requestIdBase = [a \in Actors |-> 0]
  /\ waiting = [a \in Actors |-> 0]
  /\ syncRspChan = [a \in Actors |-> <<>>]
  /\ lastSyncRsp = [a \in Actors |-> 0]
  /\ delivering = [a \in Actors |-> NoEnvelope]
  /\ mailbox = [a \in Actors |-> <<>>]
  /\ serving = [a \in Actors |-> NoEnvelope]
  /\ pending = [a \in Actors |-> {}]
  /\ count = [a \in Actors |-> 0]
  /\ network = {}
  /\ outcome = [a \in Actors |-> NoEnvelope]
  /\ forsaken = [a \in Actors |-> FALSE]

(* m is the request that a waits for, or the answer to it. *)
Concerns(m, a) ==
  /\ m.id = waiting[a]
  /\ \/ m.kind = "request" /\ m.from = a /\ m.address = instance[a]
     \/ m.kind = "response" /\ m.to = a /\ m.asker = instance[a]

(* The envelopes D are dropped with a line in the log. *)
Forsake(D) == forsaken' = [a \in Actors |-> forsaken[a] \/ \E m \in D : Concerns(m, a)]

-----------------------------------------------------------------------------
(* The caller *)

(* User code of the actor runs: it is not blocked in Request. *)
InHandler(a) == running[a] /\ waiting[a] = 0

Request(a, b) ==
  /\ <<a, b>> \in Calls
  /\ InHandler(a)
  /\ requestIdBase[a] < MaxRequests
  /\ requestIdBase' = [requestIdBase EXCEPT ![a] = @ + 1]
  /\ waiting' = [waiting EXCEPT ![a] = requestIdBase[a] + 1]
  /\ network' = network \union {RequestTo(b, a)}
  /\ outcome' = [outcome EXCEPT ![a] = NoEnvelope]
  /\ forsaken' = [forsaken EXCEPT ![a] = FALSE]
  /\ UNCHANGED <<instanceVars, channelVars, serverVars>>

(* sendEnvelope reports an error: Request returns it, the number is used up. *)
RequestRefused(a, b) ==
  /\ <<a, b>> \in Calls
  /\ InHandler(a)
  /\ requestIdBase[a] < MaxRequests
  /\ requestIdBase' = [requestIdBase EXCEPT ![a] = @ + 1]
  /\ outcome' = [outcome EXCEPT ![a] = NoEnvelope]
  /\ UNCHANGED <<instanceVars, waiting, forsaken, channelVars, serverVars, network>>

(* Mutant: any response will do. *)
Matches_Any(a, r) == r.address = 0 \/ r.address = instance[a]

(* matchSyncResponse *)
Matches(a, r) == r.id = waiting[a] /\ (r.address = 0 \/ r.address = instance[a])

(* Request looks at what came through the channel; a response to something
   else is dropped and the wait goes on. *)
Receive(a) ==
  /\ waiting[a] # 0
  /\ syncRspChan[a] # <<>>
  /\ syncRspChan' = [syncRspChan EXCEPT ![a] = <<>>]
  /\ IF Matches(a, Head(syncRspChan[a]))
     THEN /\ waiting' = [waiting EXCEPT ![a] = 0]
          /\ outcome' = [outcome EXCEPT ![a] = Head(syncRspChan[a])]
     ELSE UNCHANGED <<waiting, outcome>>
  /\ UNCHANGED <<instanceVars, requestIdBase, forsaken, lastSyncRsp, delivering, serverVars, network>>

(* The timer fires; select may prefer it to a response that is there. *)
Timeout(a) ==
  /\ a \notin Unbounded
  /\ waiting[a] # 0
  /\ waiting' = [waiting EXCEPT ![a] = 0]
  /\ UNCHANGED <<instanceVars, requestIdBase, outcome, forsaken, channelVars, serverVars, network>>

-----------------------------------------------------------------------------
(* The group goroutine *)

(* A new actorContext for a: every field starts afresh. *)
Create(a) ==
  /\ instances' = instances + 1
  /\ instance' = [instance EXCEPT ![a] = instances + 1]
  /\ running' = [running EXCEPT ![a] = TRUE]
  /\ requestIdBase' = [requestIdBase EXCEPT ![a] = 0]
  /\ waiting' = [waiting EXCEPT ![a] = 0]
  /\ syncRspChan' = [syncRspChan EXCEPT ![a] = <<>>]
  /\ lastSyncRsp' = [lastSyncRsp EXCEPT ![a] = 0]
  /\ serving' = [serving EXCEPT ![a] = NoEnvelope]
  /\ pending' = [pending EXCEPT ![a] = {}]
  /\ count' = [count EXCEPT ![a] = 0]
  /\ outcome' = [outcome EXCEPT ![a] = NoEnvelope]
  /\ forsaken' = [forsaken EXCEPT ![a] = FALSE]

(* Any other message, a send for instance, activates the actor. *)
Activate(a) ==
  /\ instance[a] = 0
  /\ delivering[a] = NoEnvelope
  /\ Create(a)
  /\ UNCHANGED <<delivering, mailbox, network>>

DeliverRequest(m) ==
  /\ m.kind = "request"
  /\ delivering[m.to] = NoEnvelope
  /\ network' = network \ {m}
  /\ mailbox' = [mailbox EXCEPT ![m.to] = Append(@, m)]
  /\ IF instance[m.to] = 0
     THEN Create(m.to) /\ UNCHANGED delivering
     ELSE UNCHANGED <<instanceVars, callerVars, channelVars, serving, pending, count>>

(* The mailbox is full, or there is no creator: the caller is not told. *)
DropRequest(m) ==
  /\ m.kind = "request"
  /\ m.to \in Refusing
  /\ delivering[m.to] = NoEnvelope
  /\ network' = network \ {m}
  /\ Forsake({m})
  /\ UNCHANGED <<instanceVars, requestIdBase, waiting, outcome, channelVars, serverVars>>

(* Mutants: without the check of the instance, without the check of the number. *)
IsStale_AnyInstance(r) == \/ instance[r.to] = 0
                          \/ r.id <= lastSyncRsp[r.to]
IsStale_AnyNumber(r) == \/ instance[r.to] = 0
                        \/ r.address # 0 /\ r.address # instance[r.to]

(* The context is gone, or it is a later one, or it was given this answer or a
   later one already. *)
IsStale(r) == \/ instance[r.to] = 0
              \/ r.address # 0 /\ r.address # instance[r.to]
              \/ r.id <= lastSyncRsp[r.to]

(* It leaves the network, unless the transport delivers it again. *)
Arrives(r) == /\ r.kind = "response"
              /\ delivering[r.to] = NoEnvelope
              /\ \/ network' = network \ {r}
                 \/ Duplicating /\ network' = network

(* No payload: dropped before its age is looked at. *)
DropEmpty(r) ==
  /\ Arrives(r)
  /\ instance[r.to] # 0
  /\ ~r.payload
  /\ Forsake({r})
  /\ UNCHANGED <<instanceVars, requestIdBase, waiting, outcome, channelVars, serverVars>>

DropResponse(r) ==
  /\ Arrives(r)
  /\ instance[r.to] # 0 => r.payload
  /\ IsStale(r)
  /\ UNCHANGED <<instanceVars, callerVars, channelVars, serverVars>>

AcceptResponse(r) ==
  /\ Arrives(r)
  /\ r.payload
  /\ ~IsStale(r)
  /\ delivering' = [delivering EXCEPT ![r.to] = r]
  /\ UNCHANGED <<instanceVars, callerVars, syncRspChan, lastSyncRsp, serverVars>>

(* What is left in the channel is older and goes ... *)
DrainChannel(a) ==
  /\ delivering[a] # NoEnvelope
  /\ syncRspChan[a] # <<>>
  /\ syncRspChan' = [syncRspChan EXCEPT ![a] = <<>>]
  /\ UNCHANGED <<instanceVars, callerVars, lastSyncRsp, delivering, serverVars, network>>

(* Mutant: what is left in the channel stays there. *)
HandOver_Undrained(a) ==
  /\ delivering[a] # NoEnvelope
  /\ syncRspChan' = [syncRspChan EXCEPT ![a] = Append(@, delivering[a])]
  /\ lastSyncRsp' = [lastSyncRsp EXCEPT ![a] = delivering[a].id]
  /\ delivering' = [delivering EXCEPT ![a] = NoEnvelope]
  /\ UNCHANGED <<instanceVars, callerVars, serverVars, network>>

(* ... and as nobody else writes to it, there is room then. *)
HandOver(a) ==
  /\ delivering[a] # NoEnvelope
  /\ syncRspChan[a] = <<>>
  /\ syncRspChan' = [syncRspChan EXCEPT ![a] = <<delivering[a]>>]
  /\ lastSyncRsp' = [lastSyncRsp EXCEPT ![a] = delivering[a].id]
  /\ delivering' = [delivering EXCEPT ![a] = NoEnvelope]
  /\ UNCHANGED <<instanceVars, callerVars, serverVars, network>>

(* Mutant: the mailbox is not looked at. *)
StopReported_Unchecked(a) ==
  /\ instance[a] # 0 /\ ~running[a]
  /\ delivering[a] = NoEnvelope
  /\ instance' = [instance EXCEPT ![a] = 0]
  /\ UNCHANGED <<instances, running, callerVars, channelVars, serverVars, network>>

(* The report of a context that left: gone for good, or replaced at once when
   something reached the mailbox since. *)
StopReported(a) ==
  /\ instance[a] # 0 /\ ~running[a]
  /\ delivering[a] = NoEnvelope
  /\ IF mailbox[a] = <<>>
     THEN /\ instance' = [instance EXCEPT ![a] = 0]
          /\ UNCHANGED <<instances, running, callerVars, syncRspChan, lastSyncRsp,
                         serving, pending, count>>
     ELSE Create(a)
  /\ UNCHANGED <<delivering, mailbox, network>>

-----------------------------------------------------------------------------
(* The server *)

(* A handler is called with the next request. *)
Serve(a) ==
  /\ InHandler(a)
  /\ serving[a] = NoEnvelope
  /\ mailbox[a] # <<>>
  /\ mailbox' = [mailbox EXCEPT ![a] = Tail(@)]
  /\ serving' = [serving EXCEPT ![a] = Head(mailbox[a])]
  /\ pending' = [pending EXCEPT ![a] = @ \union {Head(mailbox[a])}]
  /\ count' = [count EXCEPT ![a] = @ + 1]
  /\ UNCHANGED <<instanceVars, callerVars, channelVars, network>>

(* Mutant: a request without a sender is not given back. *)
Response_Leaks(a, r) ==
  /\ count' = [count EXCEPT ![a] = IF r.from = Nobody THEN @ ELSE @ - 1]
  /\ pending' = [pending EXCEPT ![a] = @ \ {r}]
  /\ network' \in IF r.from = Nobody THEN {network}
                  ELSE {network \union {m} : m \in Answers(r, a)}

(* envelopeContextRequest.Response.  A second one for the same request does
   nothing (doSendRsp) unless there is no sender: then it counts again. *)
Response(a, r) ==
  /\ count' = [count EXCEPT ![a] = @ - 1]
  /\ pending' = [pending EXCEPT ![a] = @ \ {r}]
  /\ network' \in IF r.from = Nobody THEN {network}
                  ELSE {network \union {m} : m \in Answers(r, a)}

(* User code answers, now or in the handler of a later message; the handler of
   a request without a sender may do so again (bound: once). *)
Answer(a) ==
  /\ InHandler(a)
  /\ \E r \in pending[a] \union (IF serving[a] = Unsigned(a) /\ count[a] >= 0
                                 THEN {serving[a]} ELSE {}) : Response(a, r)
  /\ UNCHANGED <<instanceVars, callerVars, channelVars, mailbox, serving>>

(* An envelope panics outside of its handler: the rest of the batch goes. *)
LoseBatch(a) ==
  /\ a \in Mangled
  /\ InHandler(a)
  /\ serving[a] = NoEnvelope
  /\ \E n \in 1 .. Len(mailbox[a]) :
       /\ mailbox' = [mailbox EXCEPT ![a] = SubSeq(@, n + 1, Len(@))]
       /\ Forsake({mailbox[a][i] : i \in 1 .. n})
  /\ UNCHANGED <<instanceVars, requestIdBase, waiting, outcome, channelVars,
                 serving, pending, count, network>>

HandlerReturns(a) ==
  /\ InHandler(a)
  /\ serving[a] # NoEnvelope
  /\ serving[a] \in pending[a] => a \in Forgetful
  /\ serving' = [serving EXCEPT ![a] = NoEnvelope]
  /\ UNCHANGED <<instanceVars, callerVars, channelVars, mailbox, pending, count, network>>

(* processMessage recovers, and respondErrorOnce answers unless doSendRsp. *)
HandlerPanics(a) ==
  /\ InHandler(a)
  /\ serving[a] # NoEnvelope
  /\ IF serving[a] \in pending[a] \/ serving[a] = Unsigned(a)
     THEN Response(a, serving[a])
     ELSE UNCHANGED <<pending, count, network>>
  /\ serving' = [serving EXCEPT ![a] = NoEnvelope]
  /\ UNCHANGED <<instanceVars, callerVars, channelVars, mailbox>>

(* Mutant: what the actor owes does not keep it. *)
MayRetire_Owing(a) == InHandler(a) /\ serving[a] = NoEnvelope

MayRetire(a) == InHandler(a) /\ serving[a] = NoEnvelope /\ count[a] <= 0

(* A tick finds the actor idle, and its goroutine leaves (bound: whoever is
   away can come back). *)
Retire(a) ==
  /\ MayRetire(a)
  /\ instances + Cardinality({b \in Actors : ~running[b]}) < MaxInstances
  /\ running' = [running EXCEPT ![a] = FALSE]
  /\ UNCHANGED <<instances, instance, callerVars, channelVars, serverVars, network>>

-----------------------------------------------------------------------------
(* Bound: not after a request was counted as answered twice. *)
StrangerAsks(a) ==
  /\ a \in Strangers
  /\ count[a] >= 0
  /\ Unsigned(a) \notin network \union pending[a] \union {serving[a]}
  /\ \A i \in 1 .. Len(mailbox[a]) : mailbox[a][i] # Unsigned(a)
  /\ network' = network \union {Unsigned(a)}
  /\ UNCHANGED <<instanceVars, callerVars, channelVars, serverVars>>

(* The group takes m. *)
Takes(m) == \/ DeliverRequest(m) \/ DropRequest(m)
            \/ DropEmpty(m) \/ DropResponse(m) \/ AcceptResponse(m)

GroupStep(a) == \/ Activate(a) \/ DrainChannel(a) \/ HandOver(a) \/ StopReported(a)
                \/ \E m \in network :
                     m.to = a /\ Takes(m)

ActorStep(a) == \/ \E b \in Actors : Request(a, b) \/ RequestRefused(a, b)
                \/ Receive(a) \/ Timeout(a)
                \/ Serve(a) \/ Answer(a) \/ HandlerReturns(a) \/ HandlerPanics(a)
                \/ LoseBatch(a)
                \/ Retire(a)

Next == \E a \in Actors : GroupStep(a) \/ ActorStep(a) \/ StrangerAsks(a)

(* Goroutines run, timers fire, the transport delivers, handlers end; nobody
   has to make a request, and a forgetful handler need not answer. *)
Fairness ==
  \A a \in Actors :
    /\ WF_vars(Receive(a)) /\ WF_vars(Timeout(a)) /\ WF_vars(Serve(a))
    /\ WF_vars(Answer(a)) /\ WF_vars(HandlerReturns(a))
    /\ WF_vars(DrainChannel(a)) /\ WF_vars(HandOver(a)) /\ WF_vars(StopReported(a))
    /\ WF_vars(\E m \in network :
                 m.to = a /\ Takes(m))

Spec == Init /\ [][Next]_vars
FairSpec == Spec /\ Fairness

-----------------------------------------------------------------------------
(* Properties *)

(* Every variable has its type; the channel holds one response at most, which is
   why the group's send never finds it full; an actor waits for its last request. *)
TypeOK ==
  /\ instances \in Nat
  /\ instance \in [Actors -> 0 .. instances]
  /\ running \in [Actors -> BOOLEAN]
  /\ requestIdBase \in [Actors -> Nat]
  /\ waiting \in [Actors -> Nat]
  /\ \A a \in Actors : waiting[a] \in {0, requestIdBase[a]}
  /\ syncRspChan \in [Actors -> Seq(Responses)]
  /\ \A a \in Actors : Len(syncRspChan[a]) <= 1
  /\ lastSyncRsp \in [Actors -> Nat]
  /\ delivering \in [Actors -> Responses \union {NoEnvelope}]
  /\ mailbox \in [Actors -> Seq(Requests)]
  /\ serving \in [Actors -> Requests \union {NoEnvelope}]
  /\ DOMAIN pending = Actors /\ \A a \in Actors : pending[a] \subseteq Requests
  /\ count \in [Actors -> Int]
  /\ network \subseteq Requests \union Responses
  /\ outcome \in [Actors -> Responses \union {NoEnvelope}]
  /\ forsaken \in [Actors -> BOOLEAN]

(* Request never returns the answer to something else: neither one that its own
   earlier request, given up since, got late, nor one to an earlier instance. *)
OwnAnswer ==
  \A a \in Actors : running[a] /\ outcome[a] # NoEnvelope =>
    outcome[a].asker = instance[a] /\ outcome[a].id = requestIdBase[a]

(* Nobody waits for what does not exist, but for the three drops: somebody holds
   the request, as a message or as a request to answer, or the answer is on its
   way, unless a full mailbox, a missing creator, a cut batch or a missing payload
   forsook the caller.  Recycling and the checks for staleness never do.  A
   caller without a timeout depends on it. *)
InCustody ==
  \A a \in Actors : waiting[a] # 0 =>
    \/ forsaken[a]
    \/ \E m \in network : Concerns(m, a)
    \/ \E b \in Actors : \/ \E i \in 1 .. Len(mailbox[b]) : Concerns(mailbox[b][i], a)
                         \/ \E r \in pending[b] : Concerns(r, a)
    \/ delivering[a] # NoEnvelope /\ Concerns(delivering[a], a)
    \/ syncRspChan[a] # <<>> /\ Concerns(Head(syncRspChan[a]), a)

(* What the group drops as stale is old, as the comment at the check says: an
   answer with a payload that its actor is waiting for is handed over, unless the
   channel holds it already. *)
AwaitedIsKept ==
  [][\A r \in network \ network' :
       r.kind = "response" /\ r.payload /\ waiting[r.to] # 0 /\ Concerns(r, r.to)
         => \/ delivering'[r.to] = r
            \/ syncRspChan[r.to] # <<>> /\ Concerns(Head(syncRspChan[r.to]), r.to)]_vars

(* What an actor counts as owed it owes: a request that was answered, in
   whatever way, keeps no actor from being recycled. *)
NothingPinned == \A a \in Actors : count[a] <= Cardinality(pending[a])

(* Where actors do not call in circles and handlers answer, every request
   returns, whatever is recycled meanwhile: with a timeout in any case, without
   one unless the caller, or another one without a timeout that it waits for
   in turn, was forsaken. *)
EveryRequestReturns ==
  \A a \in Actors :
    waiting[a] # 0 ~> \/ waiting[a] = 0
                      \/ a \in Unbounded /\ \E b \in Unbounded : waiting[b] # 0 /\ forsaken[b]
=============================================================================
