----------------------------- MODULE ActorGroup -----------------------------
(***************************************************************************)
(* The core of vactor: group goroutines that dispatch envelopes to actor   *)
(* mailboxes and activate actors on demand, one goroutine per activated    *)
(* actor, idle recycling driven by ticks, and Stop.                        *)
(* src/group.go, src/actor_context.go, and from src/system.go the entry    *)
(* points (LocalRouter, the ticker goroutine, StopWithContext).            *)
(*                                                                         *)
(* Grain.  One action is one envelope handled by one goroutine, or one     *)
(* critical section of a queue.  A group's checks on a mailbox (its depth, *)
(* its emptiness) and the Enqueue or Close that follow are one action:     *)
(* only the group puts anything into its actors' mailboxes, so the answer  *)
(* can only become more favourable in between.  The fan-out of a tick is   *)
(* one action: each delivery goes to another actor's mailbox.  A batch or  *)
(* notify envelope is, per group, a run of envelopes with one target each. *)
(***************************************************************************)
EXTENDS Integers, Sequences, FiniteSets, Filter

CONSTANTS
  Groups, Actors, Watchers,
  GroupOf,         \* the group of an actor (slot - 1 modulo the group count)
  Envelopes,       \* every envelope a caller may send, each at most once
  Contexts,        \* bound: identities of actorContext objects, reused when dead
  NoContext,
  Registered,      \* actors whose type has a creator
  PanicCreators,   \* those whose creator may panic
  Recyclable,      \* those whose DefaultStopInterval is positive
  TickOff,         \* those that call SetTickEnabled(false) on MsgOnStart
  Invalidating,    \* those that may call SetSelfInvalid
  MaxMailboxDepth, \* 0 stands for no limit
  MaxTicks,        \* bound: ticks waiting in one actor mailbox
  MaxRepeats,      \* bound: how far repeated answers take a count below zero
  MayStop          \* whether somebody calls Stop

ASSUME GroupOfAssumption == Actors # {} /\ GroupOf \in [Actors -> Groups]
ASSUME ContextAssumption == NoContext \notin Contexts
ASSUME FiniteAssumption == IsFiniteSet(Groups) /\ IsFiniteSet(Contexts)
ASSUME NumberAssumption == MaxMailboxDepth \in Nat /\ MaxTicks \in Nat /\ MaxRepeats \in Nat
ASSUME EnvelopeAssumption ==
  \A e \in Envelopes : /\ e.kind \in {"send", "request", "senderless", "watch", "unwatch"}
                       /\ e.to \in Actors
                       /\ e.who \in Watchers

VARIABLES
  sent,           \* envelopes the router accepted so far
  stopped,        \* system.stopped
  wg,             \* system.wg: what StopWithContext waits for
  groupMailbox,   \* groupMailbox[g]: the group's entry queue
  groupClosed,    \* groupClosed[g]: that queue is closed
  groupBatch,     \* groupBatch[g]: taken from it and not processed yet
  groupRunning,   \* groupRunning[g]: the group goroutine has not returned
  actorMailbox,   \* actorMailbox[a]: <<>> also when the map has no entry
  mailboxClosed,  \* mailboxClosed[a]: closed by the group on its way out
  actorContexts,  \* actorContexts[a]: the registered context, or NoContext
  actorCaches,    \* actorCaches[a]: watchers kept while no context exists
  ctx             \* ctx[c]: the actorContext object and its goroutine

groupVars == <<groupMailbox, groupClosed, groupBatch, groupRunning>>
actorVars == <<actorMailbox, mailboxClosed, actorContexts, actorCaches>>
vars == <<sent, stopped, wg, groupVars, actorVars, ctx>>

Tick == [kind |-> "tick"]
StopReport(a) == [kind |-> "stopped", from |-> a]

(* Where the goroutine of a context is: about to deliver MsgOnStart, in its
   loop, in the deferred function (MsgOnStop, then the report to the group),
   past the report but still counted by wg, or gone. *)
Phases == {"start", "loop", "stopping", "exit", "gone"}

Members(g) == {a \in Actors : GroupOf[a] = g}

-----------------------------------------------------------------------------
(* Contexts *)

NewContext(a, cache) ==
  [phase |-> "start", owner |-> a, batch |-> <<>>, cache |-> cache,
   processingRequestCount |-> 0, senderless |-> FALSE,
   idle |-> FALSE, isInvalid |-> FALSE,
   stopInterval |-> a \in Recyclable, tickDisabled |-> FALSE]

Free(c) == ctx[c].phase = "gone" /\ \A a \in Actors : actorContexts[a] # c

(* How low the count may go: doSendRsp lets a request be answered once, but is
   set for requests with a sender only.  One without (kind "senderless") counts
   again with every Response, also from the handlers of later messages. *)
Floor(r) == IF r.senderless THEN -MaxRepeats ELSE 0

(* Mutant: any second Response gives the request back again. *)
Answered_Twice(r, n) == {[r EXCEPT !.processingRequestCount = k] :
                           k \in (IF n > 0 THEN -1 ELSE Floor(r)) .. n}

(* The contexts r may have become when its handler returns, n requests being
   in its hands: it may have answered some, and it may have called
   SetSelfInvalid, which also arms a one second stop interval. *)
Answered(r, n) == {[r EXCEPT !.processingRequestCount = k] : k \in Floor(r) .. n}
SelfInvalid(r) == [r EXCEPT !.isInvalid = TRUE, !.stopInterval = TRUE, !.idle = FALSE]
HandlerOutcomes(r, n) ==
  Answered(r, n) \union
  {SelfInvalid(q) : q \in IF r.owner \in Invalidating THEN Answered(r, n) ELSE {}}

(* processMessage: an invalid actor answers a request with an error itself and
   shows its handler nothing. *)
ProcessMessage(r, isRequest) ==
  IF r.isInvalid
  THEN {r}
  ELSE HandlerOutcomes(r, r.processingRequestCount + IF isRequest THEN 1 ELSE 0)

Touch(r) == [r EXCEPT !.idle = FALSE]

(* Mutant: an actor that switched ticks off gets none at all. *)
NeedTick_Never(r) == ~r.tickDisabled

(* needTick: an actor that switched ticks off only gets one to be recycled. *)
NeedTick(r) == ~r.tickDisabled \/ (r.stopInterval /\ r.idle)

(* Mutant: the tick need not be the last message of the batch. *)
Recycles_NotLast(r) == /\ r.processingRequestCount <= 0
                       /\ r.stopInterval
                       /\ r.idle

(* The idle actor gives itself up, unless its batch holds more to do or it
   still owes an answer. *)
Recycles(r) == /\ Len(r.batch) = 1
               /\ r.processingRequestCount <= 0
               /\ r.stopInterval
               /\ r.idle

CacheAfter(e, cache) == IF e.kind = "watch" THEN cache \union {e.who}
                                            ELSE cache \ {e.who}

-----------------------------------------------------------------------------
Init ==
  /\ sent = {}
  /\ stopped = FALSE
  /\ wg = Cardinality(Groups)
  /\ groupMailbox = [g \in Groups |-> <<>>]
  /\ groupClosed = [g \in Groups |-> FALSE]
  /\ groupBatch = [g \in Groups |-> <<>>]
  /\ groupRunning = [g \in Groups |-> TRUE]
  /\ actorMailbox = [a \in Actors |-> <<>>]
  /\ mailboxClosed = [a \in Actors |-> FALSE]
  /\ actorContexts = [a \in Actors |-> NoContext]
  /\ actorCaches = [a \in Actors |-> {}]
  /\ ctx = [c \in Contexts |-> [NewContext(CHOOSE a \in Actors : TRUE, {})
                                 EXCEPT !.phase = "gone"]]

(* The router accepts e: some goroutine, a handler or an outside caller. *)
Accept(e) ==
  LET g == GroupOf[e.to] IN
  /\ e \notin sent
  /\ ~groupClosed[g]
  /\ sent' = sent \union {e}
  /\ groupMailbox' = [groupMailbox EXCEPT ![g] = Append(@, e)]
  /\ UNCHANGED <<stopped, wg, groupClosed, groupBatch, groupRunning, actorVars, ctx>>

Ticks(q) == Cardinality({i \in 1 .. Len(q) : q[i] = Tick})

(* The ticker goroutine; a round under way when Stop begins still finishes. *)
TickerFires(g) ==
  /\ ~groupClosed[g]
  /\ MaxTicks > Ticks(groupMailbox[g] \o groupBatch[g])
  /\ \A a \in Members(g) : MaxTicks > Ticks(actorMailbox[a])
  /\ groupMailbox' = [groupMailbox EXCEPT ![g] = Append(@, Tick)]
  /\ UNCHANGED <<sent, stopped, wg, groupClosed, groupBatch, groupRunning, actorVars, ctx>>

-----------------------------------------------------------------------------
(* The group goroutine *)

GroupDequeue(g) ==
  /\ groupRunning[g]
  /\ groupBatch[g] = <<>>
  /\ groupMailbox[g] # <<>>
  /\ groupBatch' = [groupBatch EXCEPT ![g] = groupMailbox[g]]
  /\ groupMailbox' = [groupMailbox EXCEPT ![g] = <<>>]
  /\ UNCHANGED <<sent, stopped, wg, groupClosed, groupRunning, actorVars, ctx>>

(* Mutant: the group leaves without closing its actors' mailboxes. *)
GroupExit_Silent(g) ==
  /\ groupRunning[g]
  /\ groupClosed[g]
  /\ groupBatch[g] = <<>>
  /\ groupMailbox[g] = <<>>
  /\ groupRunning' = [groupRunning EXCEPT ![g] = FALSE]
  /\ wg' = wg - 1
  /\ UNCHANGED <<sent, stopped, groupMailbox, groupClosed, groupBatch, actorVars, ctx>>

(* The closed entry queue is drained: let the registered actors go. *)
GroupExit(g) ==
  /\ groupRunning[g]
  /\ groupClosed[g]
  /\ groupBatch[g] = <<>>
  /\ groupMailbox[g] = <<>>
  /\ groupRunning' = [groupRunning EXCEPT ![g] = FALSE]
  /\ mailboxClosed' = [a \in Actors |-> mailboxClosed[a]
                         \/ (GroupOf[a] = g /\ actorContexts[a] # NoContext)]
  /\ wg' = wg - 1
  /\ UNCHANGED <<sent, stopped, groupMailbox, groupClosed, groupBatch,
                 actorMailbox, actorContexts, actorCaches, ctx>>

(* The group is at an envelope for actor a, resp. at a's stop report. *)
AtEnvelope(g, a) == /\ groupBatch[g] # <<>>
                    /\ Head(groupBatch[g]) \in Envelopes
                    /\ Head(groupBatch[g]).to = a
AtStopReport(g, a) == /\ groupBatch[g] # <<>>
                      /\ Head(groupBatch[g]) = StopReport(a)

(* Mutant: one envelope too many. *)
Full_OneMore(a) == MaxMailboxDepth > 0 /\ Len(actorMailbox[a]) > MaxMailboxDepth
Full(a) == MaxMailboxDepth > 0 /\ Len(actorMailbox[a]) >= MaxMailboxDepth

NextEnvelope(g) == groupBatch' = [groupBatch EXCEPT ![g] = Tail(@)]
LoseBatch(g) == groupBatch' = [groupBatch EXCEPT ![g] = <<>>]

(* Mutant: the new goroutine is not counted. *)
Activate_Uncounted(a, cache) ==
  \E c \in Contexts :
    /\ Free(c)
    /\ ctx' = [ctx EXCEPT ![c] = NewContext(a, cache)]
    /\ actorContexts' = [actorContexts EXCEPT ![a] = c]
    /\ UNCHANGED wg

(* Register a new context for a and start its goroutine. *)
Activate(a, cache) ==
  \E c \in Contexts :
    /\ Free(c)
    /\ ctx' = [ctx EXCEPT ![c] = NewContext(a, cache)]
    /\ actorContexts' = [actorContexts EXCEPT ![a] = c]
    /\ wg' = wg + 1

(* processEnvelope for an actor that is registered. *)
Deliver(g, a) ==
  /\ AtEnvelope(g, a)
  /\ ~Full(a)
  /\ actorContexts[a] # NoContext
  /\ actorMailbox' = [actorMailbox EXCEPT ![a] = Append(@, Head(groupBatch[g]))]
  /\ NextEnvelope(g)
  /\ UNCHANGED <<sent, stopped, wg, groupMailbox, groupClosed, groupRunning,
                 mailboxClosed, actorContexts, actorCaches, ctx>>

(* ... and for one that is not: it comes to life with the watchers it had. *)
ActivateAndDeliver(g, a) ==
  /\ AtEnvelope(g, a)
  /\ ~Full(a)
  /\ actorContexts[a] = NoContext
  /\ a \in Registered
  /\ Activate(a, actorCaches[a])
  /\ actorCaches' = [actorCaches EXCEPT ![a] = {}]
  /\ actorMailbox' = [actorMailbox EXCEPT ![a] = Append(@, Head(groupBatch[g]))]
  /\ NextEnvelope(g)
  /\ UNCHANGED <<sent, stopped, groupMailbox, groupClosed, groupRunning, mailboxClosed>>

(* The depth limit and the unknown actor type drop the envelope. *)
DropOverflow(g, a) ==
  /\ AtEnvelope(g, a)
  /\ Full(a)
  /\ NextEnvelope(g)
  /\ UNCHANGED <<sent, stopped, wg, groupMailbox, groupClosed, groupRunning, actorVars, ctx>>

DropUnregistered(g, a) ==
  /\ AtEnvelope(g, a)
  /\ ~Full(a)
  /\ actorContexts[a] = NoContext
  /\ a \notin Registered
  /\ actorCaches' = [actorCaches EXCEPT ![a] = {}]
  /\ NextEnvelope(g)
  /\ UNCHANGED <<sent, stopped, wg, groupMailbox, groupClosed, groupRunning,
                 actorMailbox, mailboxClosed, actorContexts, ctx>>

(* creator() panics inside newActorContext: recover abandons the batch, and
   the cache was already taken out of the map. *)
CreatorPanicsOnEnvelope(g, a) ==
  /\ AtEnvelope(g, a)
  /\ ~Full(a)
  /\ actorContexts[a] = NoContext
  /\ a \in Registered \intersect PanicCreators
  /\ actorCaches' = [actorCaches EXCEPT ![a] = {}]
  /\ LoseBatch(g)
  /\ UNCHANGED <<sent, stopped, wg, groupMailbox, groupClosed, groupRunning,
                 actorMailbox, mailboxClosed, actorContexts, ctx>>

(* onActorStoped: what the context remembered, and the two ways on. *)
CacheOf(a) == IF actorContexts[a] = NoContext THEN {} ELSE ctx[actorContexts[a]].cache

(* Mutants: the mailbox is not looked at again; the watchers are not kept. *)
Deactivate_Unchecked(g, a) ==
  /\ AtStopReport(g, a)
  /\ actorContexts' = [actorContexts EXCEPT ![a] = NoContext]
  /\ actorCaches' = [actorCaches EXCEPT ![a] = CacheOf(a)]
  /\ NextEnvelope(g)
  /\ UNCHANGED <<sent, stopped, wg, groupMailbox, groupClosed, groupRunning,
                 actorMailbox, mailboxClosed, ctx>>
Deactivate_Forgetful(g, a) ==
  /\ AtStopReport(g, a)
  /\ actorMailbox[a] = <<>>
  /\ actorContexts' = [actorContexts EXCEPT ![a] = NoContext]
  /\ NextEnvelope(g)
  /\ UNCHANGED <<sent, stopped, wg, groupMailbox, groupClosed, groupRunning,
                 actorMailbox, mailboxClosed, actorCaches, ctx>>

Deactivate(g, a) ==
  /\ AtStopReport(g, a)
  /\ actorMailbox[a] = <<>>
  /\ actorContexts' = [actorContexts EXCEPT ![a] = NoContext]
  /\ actorCaches' = [actorCaches EXCEPT ![a] = IF CacheOf(a) = {} THEN @ ELSE CacheOf(a)]
  /\ NextEnvelope(g)
  /\ UNCHANGED <<sent, stopped, wg, groupMailbox, groupClosed, groupRunning,
                 actorMailbox, mailboxClosed, ctx>>

(* Envelopes arrived while the actor was on its way out: start it again. *)
Reactivate(g, a) ==
  /\ AtStopReport(g, a)
  /\ actorMailbox[a] # <<>>
  /\ a \in Registered
  /\ Activate(a, CacheOf(a))
  /\ NextEnvelope(g)
  /\ UNCHANGED <<sent, stopped, groupMailbox, groupClosed, groupRunning,
                 actorMailbox, mailboxClosed, actorCaches>>

CreatorPanicsOnReport(g, a) ==
  /\ AtStopReport(g, a)
  /\ actorMailbox[a] # <<>>
  /\ a \in Registered \intersect PanicCreators
  /\ actorContexts' = [actorContexts EXCEPT ![a] = NoContext]
  /\ LoseBatch(g)
  /\ UNCHANGED <<sent, stopped, wg, groupMailbox, groupClosed, groupRunning,
                 actorMailbox, mailboxClosed, actorCaches, ctx>>

(* A tick goes to every registered actor of the group that needs it. *)
GroupTick(g) ==
  /\ groupBatch[g] # <<>>
  /\ Head(groupBatch[g]) = Tick
  /\ actorMailbox' = [a \in Actors |->
       IF /\ GroupOf[a] = g
          /\ actorContexts[a] # NoContext
          /\ NeedTick(ctx[actorContexts[a]])
       THEN Append(actorMailbox[a], Tick)
       ELSE actorMailbox[a]]
  /\ NextEnvelope(g)
  /\ UNCHANGED <<sent, stopped, wg, groupMailbox, groupClosed, groupRunning,
                 mailboxClosed, actorContexts, actorCaches, ctx>>

GroupProcess(g) ==
  \/ GroupTick(g)
  \/ \E a \in Actors :
       \/ Deliver(g, a) \/ ActivateAndDeliver(g, a)
       \/ DropOverflow(g, a) \/ DropUnregistered(g, a)
       \/ CreatorPanicsOnEnvelope(g, a)
       \/ Deactivate(g, a) \/ Reactivate(g, a) \/ CreatorPanicsOnReport(g, a)

GroupStep(g) == GroupDequeue(g) \/ GroupProcess(g) \/ GroupExit(g)

-----------------------------------------------------------------------------
(* The goroutine of an actor context *)

(* touch, then MsgOnStart *)
ActorStart(c) ==
  /\ ctx[c].phase = "start"
  /\ \E r \in ProcessMessage([Touch(ctx[c]) EXCEPT !.phase = "loop",
                                !.tickDisabled = ctx[c].owner \in TickOff], FALSE) :
       ctx' = [ctx EXCEPT ![c] = r]
  /\ UNCHANGED <<sent, stopped, wg, groupVars, actorVars>>

ActorDequeue(c) ==
  LET a == ctx[c].owner IN
  /\ ctx[c].phase = "loop"
  /\ ctx[c].batch = <<>>
  /\ actorMailbox[a] # <<>>
  /\ ctx' = [ctx EXCEPT ![c].batch = actorMailbox[a]]
  /\ actorMailbox' = [actorMailbox EXCEPT ![a] = <<>>]
  /\ UNCHANGED <<sent, stopped, wg, groupVars, mailboxClosed, actorContexts, actorCaches>>

(* Mutant: a closed mailbox ends the loop although it still holds envelopes. *)
ActorMailboxClosed_Undrained(c) ==
  /\ ctx[c].phase = "loop"
  /\ ctx[c].batch = <<>>
  /\ mailboxClosed[ctx[c].owner]
  /\ ctx' = [ctx EXCEPT ![c].phase = "stopping"]
  /\ UNCHANGED <<sent, stopped, wg, groupVars, actorVars>>

ActorMailboxClosed(c) ==
  LET a == ctx[c].owner IN
  /\ ctx[c].phase = "loop"
  /\ ctx[c].batch = <<>>
  /\ actorMailbox[a] = <<>>
  /\ mailboxClosed[a]
  /\ ctx' = [ctx EXCEPT ![c].phase = "stopping"]
  /\ UNCHANGED <<sent, stopped, wg, groupVars, actorVars>>

AtMessage(c, kinds) == /\ ctx[c].phase = "loop"
                       /\ ctx[c].batch # <<>>
                       /\ Head(ctx[c].batch).kind \in kinds

Consumed(c) == [ctx[c] EXCEPT !.batch = Tail(@)]

(* What the handler gets to see, from here on, of requests without a sender. *)
Shown(c) == [Touch(Consumed(c)) EXCEPT
               !.senderless = @ \/ Head(ctx[c].batch).kind = "senderless"]

(* Watch and Unwatch never reach the handler and do not count as activity. *)
ActorWatch(c) ==
  /\ AtMessage(c, {"watch", "unwatch"})
  /\ ctx' = [ctx EXCEPT ![c] = [Consumed(c) EXCEPT
                                  !.cache = CacheAfter(Head(ctx[c].batch), @)]]
  /\ UNCHANGED <<sent, stopped, wg, groupVars, actorVars>>

ActorMessage(c) ==
  /\ AtMessage(c, {"send", "request", "senderless"})
  /\ \E r \in ProcessMessage(Shown(c), Head(ctx[c].batch).kind # "send") :
       ctx' = [ctx EXCEPT ![c] = r]
  /\ UNCHANGED <<sent, stopped, wg, groupVars, actorVars>>

(* A tick recycles an idle actor, or reaches the handler without a touch. *)
ActorTick(c) ==
  /\ AtMessage(c, {"tick"})
  /\ ~Recycles(ctx[c])
  /\ \E r \in ProcessMessage(Consumed(c), FALSE) : ctx' = [ctx EXCEPT ![c] = r]
  /\ UNCHANGED <<sent, stopped, wg, groupVars, actorVars>>

(* Mutant: the actor takes itself out of the group's table at once. *)
ActorRecycle_Unregisters(c) ==
  /\ AtMessage(c, {"tick"})
  /\ Recycles(ctx[c])
  /\ ctx' = [ctx EXCEPT ![c] = [@ EXCEPT !.phase = "stopping", !.batch = <<>>]]
  /\ actorContexts' = [actorContexts EXCEPT ![ctx[c].owner] = NoContext]
  /\ UNCHANGED <<sent, stopped, wg, groupVars, actorMailbox, mailboxClosed, actorCaches>>

ActorRecycle(c) ==
  /\ AtMessage(c, {"tick"})
  /\ Recycles(ctx[c])
  /\ ctx' = [ctx EXCEPT ![c] = [@ EXCEPT !.phase = "stopping", !.batch = <<>>]]
  /\ UNCHANGED <<sent, stopped, wg, groupVars, actorVars>>

(* MsgOnStop, then the stop report, which a closed group queue refuses. *)
ActorStop(c) ==
  LET g == GroupOf[ctx[c].owner] IN
  /\ ctx[c].phase = "stopping"
  /\ ctx' = [ctx EXCEPT ![c].phase = "exit"]
  /\ groupMailbox' = [groupMailbox EXCEPT ![g] =
                        IF groupClosed[g] THEN @ ELSE Append(@, StopReport(ctx[c].owner))]
  /\ UNCHANGED <<sent, stopped, wg, groupClosed, groupBatch, groupRunning, actorVars>>

ActorDone(c) ==
  /\ ctx[c].phase = "exit"
  /\ ctx' = [ctx EXCEPT ![c].phase = "gone"]
  /\ wg' = wg - 1
  /\ UNCHANGED <<sent, stopped, groupVars, actorVars>>

ActorStep(c) ==
  \/ ActorStart(c) \/ ActorDequeue(c) \/ ActorMailboxClosed(c)
  \/ ActorWatch(c) \/ ActorMessage(c) \/ ActorTick(c) \/ ActorRecycle(c)
  \/ ActorStop(c) \/ ActorDone(c)

(* The stop interval runs out since the last touch. *)
IdleElapses(c) ==
  /\ ctx[c].phase = "loop"
  /\ ctx[c].stopInterval
  /\ ~ctx[c].idle
  /\ ctx' = [ctx EXCEPT ![c].idle = TRUE]
  /\ UNCHANGED <<sent, stopped, wg, groupVars, actorVars>>

-----------------------------------------------------------------------------
(* StopWithContext: the flag first, then the entry queues one by one. *)

Stop ==
  /\ MayStop
  /\ ~stopped
  /\ stopped' = TRUE
  /\ UNCHANGED <<sent, wg, groupVars, actorVars, ctx>>

CloseGroup(g) ==
  /\ stopped
  /\ ~groupClosed[g]
  /\ groupClosed' = [groupClosed EXCEPT ![g] = TRUE]
  /\ UNCHANGED <<sent, stopped, wg, groupMailbox, groupBatch, groupRunning, actorVars, ctx>>

Next ==
  \/ Stop
  \/ \E e \in Envelopes : Accept(e)
  \/ \E g \in Groups : TickerFires(g) \/ GroupStep(g) \/ CloseGroup(g)
  \/ \E c \in Contexts : ActorStep(c) \/ IdleElapses(c)

(* The Go scheduler runs every goroutine that can run, handlers return, the
   ticker ticks and time passes.  Nobody has to send or to call Stop. *)
Fairness ==
  /\ \A g \in Groups : /\ WF_vars(GroupStep(g))
                       /\ WF_vars(TickerFires(g))
                       /\ WF_vars(CloseGroup(g))
  /\ \A c \in Contexts : WF_vars(ActorStep(c)) /\ WF_vars(IdleElapses(c))

Spec == Init /\ [][Next]_vars
FairSpec == Spec /\ Fairness

-----------------------------------------------------------------------------
(* Properties *)

Items == Envelopes \union {Tick} \union {StopReport(a) : a \in Actors}
MailboxItems == Envelopes \union {Tick}

Context ==
  {r \in [phase : Phases, owner : Actors, batch : Seq(MailboxItems),
          cache : SUBSET Watchers, processingRequestCount : Int, senderless : BOOLEAN,
          idle : BOOLEAN, isInvalid : BOOLEAN, stopInterval : BOOLEAN,
          tickDisabled : BOOLEAN] :
     r.processingRequestCount < 0 => r.senderless}

(* Every variable has its type: in particular stop reports only ever travel
   through group queues, and the count of open requests is only negative in an
   actor that was shown a request without a sender, whatever it answers twice. *)
TypeOK ==
  /\ sent \subseteq Envelopes
  /\ stopped \in BOOLEAN
  /\ wg \in Int
  /\ groupMailbox \in [Groups -> Seq(Items)]
  /\ groupClosed \in [Groups -> BOOLEAN]
  /\ groupBatch \in [Groups -> Seq(Items)]
  /\ groupRunning \in [Groups -> BOOLEAN]
  /\ actorMailbox \in [Actors -> Seq(MailboxItems)]
  /\ mailboxClosed \in [Actors -> BOOLEAN]
  /\ actorContexts \in [Actors -> Contexts \union {NoContext}]
  /\ actorCaches \in [Actors -> SUBSET Watchers]
  /\ ctx \in [Contexts -> Context]

(* A goroutine that still runs the actor's code. *)
LivePhases == {"start", "loop", "stopping"}
Instance(c, a) == ctx[c].owner = a /\ ctx[c].phase \in LivePhases

(* At no time do two goroutines run code of the same actor, however its
   recycling, its stop report and its reactivation interleave. *)
AtMostOneInstance ==
  \A a \in Actors : \A c, d \in Contexts :
    Instance(c, a) /\ Instance(d, a) => c = d

In(x, q) == \E i \in DOMAIN q : q[i] = x
ReportPending(a) == \/ In(StopReport(a), groupBatch[GroupOf[a]])
                    \/ In(StopReport(a), groupMailbox[GroupOf[a]])

(* No envelope sits in a mailbox nobody will ever look at: a goroutine serves
   it, or the report on which the group starts the actor again is on its way.
   Not promised once Stop closed the group's entry. *)
NoStranded ==
  \A a \in Actors : actorMailbox[a] # <<>> =>
    \/ \E c \in Contexts : Instance(c, a) /\ actorContexts[a] = c
    \/ ReportPending(a)
    \/ groupClosed[GroupOf[a]]

(* A registered context has a goroutine, or its stop report is under way: the
   group never keeps delivering to the mailbox of a dead actor. *)
RegisteredServed ==
  \A a \in Actors : actorContexts[a] # NoContext =>
    \/ Instance(actorContexts[a], a)
    \/ ReportPending(a)
    \/ groupClosed[GroupOf[a]]

(* When the Wait of Stop returns, no goroutine of the system is left. *)
QuietAfterStop ==
  stopped /\ wg = 0 => /\ \A g \in Groups : ~groupRunning[g]
                       /\ \A c \in Contexts : ctx[c].phase = "gone"

(* "MaxMailboxDepth: the limit of an actor mailbox" (src/system.go): it holds for
   the envelopes of callers. Ticks are put into the mailbox without a look at it. *)
EnvelopesBounded ==
  MaxMailboxDepth > 0 =>
    \A a \in Actors : Len(Filter(actorMailbox[a], Envelopes)) <= MaxMailboxDepth

(* The way of an envelope to the actor, from its end; the actor's accepted and
   unhandled envelopes, oldest first, wherever they are on it; and the actor's
   watchers, whether it is active or not. *)
BatchOf(a) == IF actorContexts[a] = NoContext THEN <<>> ELSE ctx[actorContexts[a]].batch
Path(a) == BatchOf(a) \o actorMailbox[a]
                      \o (groupBatch[GroupOf[a]] \o groupMailbox[GroupOf[a]])
Addressed(a) == {e \in Envelopes : e.to = a}
Inbox(a) == Filter(Path(a), Addressed(a))
Subscribers(a) == IF actorContexts[a] = NoContext THEN actorCaches[a] ELSE CacheOf(a)

(* Groups, batches, recycling and reactivation are invisible: the system
   handles every accepted envelope, per actor one at a time and in order of
   acceptance, and no recycling loses a watcher. *)
VA == INSTANCE VirtualActor WITH accepted <- sent,
                                 inbox <- [a \in Actors |-> Inbox(a)],
                                 subs <- [a \in Actors |-> Subscribers(a)]
ImplementsVirtualActor == VA!Spec

(* Only a creator that never panics keeps the watchers of an actor: "the
   subscription cache is never evicted" (src/group.go). Watchers only leave by
   an Unwatch the actor handled. *)
WatchersKept ==
  [][\A a \in Actors : \A w \in Subscribers(a) \ Subscribers(a)' :
       \E c \in Contexts : /\ ctx[c].owner = a
                           /\ AtMessage(c, {"unwatch"})
                           /\ Head(ctx[c].batch).who = w]_vars

(* Stop "closes the entry and handles what is on its way" (src/system.go):
   when its Wait returns, no accepted envelope is left unhandled. *)
StopDrains == stopped /\ wg = 0 => \A a \in Actors : Inbox(a) = <<>>

(* Stop returns: the groups drain, the actors leave, wg comes down to zero. *)
StopTerminates == stopped ~> wg = 0

(* An actor without traffic that owes no answer is recycled in the end, though
   ticks alone would keep waking it. *)
IdleIsRecycled ==
  \A c \in Contexts :
    (/\ ctx[c].phase = "loop"
     /\ ctx[c].stopInterval
     /\ sent = Envelopes) ~> (ctx[c].phase = "gone" \/ ctx[c].processingRequestCount > 0)
=============================================================================
