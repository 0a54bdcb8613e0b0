----------------------------- MODULE WatchNotify -----------------------------
(***************************************************************************)
(* Watching an actor, the event hub included (src/actor_context.go, Watch  *)
(* to FireEvent and processBatch; src/system.go, Watch to FireEvent;       *)
(* src/group.go): the tables of watchers, their way through recycling, the *)
(* fan-out to actors through their groups and to external queues.          *)
(*                                                                         *)
(* One watched actor.  Its group queue and its mailbox are one queue here  *)
(* (requests).  A notify envelope is, per group, a run of envelopes with   *)
(* one target each; those for different actors do not meet, so each actor  *)
(* has its own queue of what its group still has to dispatch (transit).    *)
(***************************************************************************)
EXTENDS Naturals, Sequences

CONSTANTS
  Actors, Queues,      \* watchers inside of the system and queues outside
  Groups, GroupOf,     \* where those actors live
  Crowded,             \* groups with queues or mailboxes that may reach their limit
  Types,               \* watch types, or event ids of one event group
  Interests,           \* <<s, t>>: s may watch and unwatch t
  Closable,            \* queues that their consumer may close
  OuterQueueMaxDepth,  \* 0 stands for no limit
  MaxAsked             \* bound: envelopes accepted for the watched actor

Subscribers == Actors \union Queues

ASSUME SubscribersAssumption == Actors \intersect Queues = {}
ASSUME InterestsAssumption == Interests \subseteq Subscribers \X Types /\ Closable \subseteq Queues
ASSUME GroupAssumption == GroupOf \in [Actors -> Groups]
ASSUME NumberAssumption == OuterQueueMaxDepth \in Nat /\ MaxAsked \in Nat

Watches == [kind : {"watch", "unwatch"}, who : Subscribers, type : Types]
Events == [kind : {"fire"}, type : Types, n : 0 .. MaxAsked - 1]

VARIABLES
  accepted,        \* how many envelopes were accepted for the watched actor
  requests,        \* those it did not handle yet
  context,         \* its actorContext: "running", "leaving" or "none"
  watcherss,       \* the tables of that context, and what the group
  outerWatcherss,  \* keeps of them while there is none
  actorCaches,
  transit,         \* transit[a]: on its way through the group of a
  mailbox,         \* mailbox[a]
  queue, closed,   \* the external queue q
  maxDepth         \* maxDepth[q]: its limit in force

tableVars == <<context, watcherss, outerWatcherss, actorCaches>>
queueVars == <<queue, closed, maxDepth>>
vars == <<accepted, requests, tableVars, transit, mailbox, queueVars>>

Nobody == [t \in Types |-> {}]
NoCache == <<Nobody, Nobody>>

Init ==
  /\ accepted = 0
  /\ requests = <<>>
  /\ context = "none"
  /\ watcherss = Nobody /\ outerWatcherss = Nobody
  /\ actorCaches = NoCache
  /\ transit = [a \in Actors |-> <<>>]
  /\ mailbox = [a \in Actors |-> <<>>]
  /\ queue = [q \in Queues |-> <<>>]
  /\ closed = [q \in Queues |-> FALSE]
  /\ maxDepth = [q \in Queues |-> 0]

-----------------------------------------------------------------------------
(* Callers *)

(* An envelope that is refused changes nothing, and nobody is told. *)
Accept(op) == /\ accepted < MaxAsked
              /\ accepted' = accepted + 1
              /\ requests' = Append(requests, op)

Watch(a, t, kind) ==
  /\ a \in Actors /\ <<a, t>> \in Interests
  /\ Accept([kind |-> kind, who |-> a, type |-> t])
  /\ UNCHANGED <<tableVars, transit, mailbox, queueVars>>

(* Mutant: the limit comes after the envelope, if the queue was not filled yet. *)
LimitDepth_Later(q) == maxDepth' \in {maxDepth, [maxDepth EXCEPT ![q] = OuterQueueMaxDepth]}

LimitDepth(q) == IF OuterQueueMaxDepth > 0
                 THEN maxDepth' = [maxDepth EXCEPT ![q] = OuterQueueMaxDepth]
                 ELSE UNCHANGED maxDepth

(* System.Watch: the queue gets its limit first, also when the envelope is
   refused. *)
OuterWatch(q, t) ==
  /\ q \in Queues /\ <<q, t>> \in Interests
  /\ LimitDepth(q)
  /\ \/ Accept([kind |-> "watch", who |-> q, type |-> t])
     \/ UNCHANGED <<accepted, requests>>
  /\ UNCHANGED <<tableVars, transit, mailbox, queue, closed>>

OuterUnwatch(q, t) ==
  /\ q \in Queues /\ <<q, t>> \in Interests
  /\ Accept([kind |-> "unwatch", who |-> q, type |-> t])
  /\ UNCHANGED <<tableVars, transit, mailbox, queueVars>>

(* FireEvent, or a message whose handler calls Notify. *)
Fire(t) ==
  /\ Accept([kind |-> "fire", type |-> t, n |-> accepted])
  /\ UNCHANGED <<tableVars, transit, mailbox, queueVars>>

(* The consumer of an external queue. *)
OuterTake(q) ==
  /\ queue[q] # <<>>
  /\ queue' = [queue EXCEPT ![q] = Tail(@)]
  /\ UNCHANGED <<accepted, requests, tableVars, transit, mailbox, closed, maxDepth>>

OuterClose(q) ==
  /\ q \in Closable /\ ~closed[q]
  /\ closed' = [closed EXCEPT ![q] = TRUE]
  /\ UNCHANGED <<accepted, requests, tableVars, transit, mailbox, queue, maxDepth>>

-----------------------------------------------------------------------------
(* The watched actor comes and goes *)

(* Mutant: what was saved stays saved. *)
Activate_Keeps ==
  /\ context = "none" /\ requests # <<>>
  /\ context' = "running"
  /\ watcherss' = actorCaches[1] /\ outerWatcherss' = actorCaches[2]
  /\ UNCHANGED <<accepted, requests, actorCaches, transit, mailbox, queueVars>>

(* The first envelope after a pause: the new context gets the saved tables. *)
Activate ==
  /\ context = "none" /\ requests # <<>>
  /\ context' = "running"
  /\ watcherss' = actorCaches[1] /\ outerWatcherss' = actorCaches[2]
  /\ actorCaches' = NoCache
  /\ UNCHANGED <<accepted, requests, transit, mailbox, queueVars>>

(* Mutant: outer watchers alone are not worth keeping. *)
NeedSaveCache_Actors == IF watcherss = Nobody THEN NoCache ELSE <<watcherss, outerWatcherss>>

NeedSaveCache == IF watcherss = Nobody /\ outerWatcherss = Nobody
                 THEN NoCache ELSE <<watcherss, outerWatcherss>>

(* Idle, with the recycling tick as the last of the batch. *)
Recycle ==
  /\ context = "running" /\ requests = <<>>
  /\ context' = "leaving"
  /\ UNCHANGED <<accepted, requests, watcherss, outerWatcherss, actorCaches,
                 transit, mailbox, queueVars>>

(* Its stop report.  What came in meanwhile is for a new context, which gets the
   tables without a detour. *)
StopReported ==
  /\ context = "leaving"
  /\ IF requests = <<>>
     THEN /\ context' = "none"
          /\ actorCaches' = NeedSaveCache
          /\ watcherss' = Nobody /\ outerWatcherss' = Nobody
     ELSE /\ context' = "running"
          /\ watcherss' = NeedSaveCache[1] /\ outerWatcherss' = NeedSaveCache[2]
          /\ UNCHANGED actorCaches
  /\ UNCHANGED <<accepted, requests, transit, mailbox, queueVars>>

-----------------------------------------------------------------------------
(* The watched actor at work *)

Handles(kind) == /\ context = "running" /\ requests # <<>>
                 /\ Head(requests).kind = kind
                 /\ requests' = Tail(requests)

AddWatcher ==
  /\ Handles("watch")
  /\ LET op == Head(requests) IN
     IF op.who \in Actors
     THEN /\ watcherss' = [watcherss EXCEPT ![op.type] = @ \union {op.who}]
          /\ UNCHANGED outerWatcherss
     ELSE /\ outerWatcherss' = [outerWatcherss EXCEPT ![op.type] = @ \union {op.who}]
          /\ UNCHANGED watcherss
  /\ UNCHANGED <<accepted, context, actorCaches, transit, mailbox, queueVars>>

RemoveWatcher ==
  /\ Handles("unwatch")
  /\ LET op == Head(requests) IN
     /\ watcherss' = [watcherss EXCEPT ![op.type] = @ \ {op.who}]
     /\ outerWatcherss' = [outerWatcherss EXCEPT ![op.type] = @ \ {op.who}]
  /\ UNCHANGED <<accepted, context, actorCaches, transit, mailbox, queueVars>>

(* Each group may refuse its bucket, and nobody is told. *)
NotifyActors(e) ==
  \E full \in SUBSET (Crowded \intersect {GroupOf[a] : a \in watcherss[e.type]}) :
    transit' = [a \in Actors |-> IF a \in watcherss[e.type] /\ GroupOf[a] \notin full
                                 THEN Append(transit[a], e) ELSE transit[a]]

TakesMore(q) == ~closed[q] /\ (maxDepth[q] = 0 \/ Len(queue[q]) < maxDepth[q])

(* Mutant: a queue that refuses keeps its subscription. *)
NotifyQueues_Kept(e) ==
  /\ queue' = [q \in Queues |-> IF q \in outerWatcherss[e.type] /\ TakesMore(q)
                                THEN Append(queue[q], e) ELSE queue[q]]
  /\ UNCHANGED outerWatcherss

(* A queue that refuses, closed or full, loses this subscription. *)
NotifyQueues(e) ==
  /\ queue' = [q \in Queues |-> IF q \in outerWatcherss[e.type] /\ TakesMore(q)
                                THEN Append(queue[q], e) ELSE queue[q]]
  /\ outerWatcherss' = [outerWatcherss EXCEPT ![e.type] = {q \in @ : TakesMore(q)}]

Notify ==
  /\ Handles("fire")
  /\ NotifyActors(Head(requests))
  /\ NotifyQueues(Head(requests))
  /\ UNCHANGED <<accepted, context, watcherss, actorCaches, mailbox, closed, maxDepth>>

-----------------------------------------------------------------------------
(* The watchers *)

(* The group passes a notification on, unless the mailbox is at its limit. *)
Dispatch(a) ==
  /\ transit[a] # <<>>
  /\ transit' = [transit EXCEPT ![a] = Tail(@)]
  /\ \/ mailbox' = [mailbox EXCEPT ![a] = Append(@, Head(transit[a]))]
     \/ GroupOf[a] \in Crowded /\ UNCHANGED mailbox
  /\ UNCHANGED <<accepted, requests, tableVars, queueVars>>

HandleNotify(a) ==
  /\ mailbox[a] # <<>>
  /\ mailbox' = [mailbox EXCEPT ![a] = Tail(@)]
  /\ UNCHANGED <<accepted, requests, tableVars, transit, queueVars>>

HubStep == Activate \/ StopReported \/ AddWatcher \/ RemoveWatcher \/ Notify

Next ==
  \/ HubStep \/ Recycle
  \/ \E t \in Types : Fire(t)
  \/ \E a \in Actors : \/ Dispatch(a) \/ HandleNotify(a)
                       \/ \E t \in Types, kind \in {"watch", "unwatch"} : Watch(a, t, kind)
  \/ \E q \in Queues : \/ OuterTake(q) \/ OuterClose(q)
                       \/ \E t \in Types : OuterWatch(q, t) \/ OuterUnwatch(q, t)

(* Goroutines of groups and actors run; consumers of queues owe nothing. *)
Fairness == WF_vars(HubStep) /\ \A a \in Actors : WF_vars(Dispatch(a)) /\ WF_vars(HandleNotify(a))

Spec == Init /\ [][Next]_vars
FairSpec == Spec /\ Fairness

-----------------------------------------------------------------------------
(* Properties *)

Tables(S) == [Types -> SUBSET S]

(* Every variable has its type, and tables are saved only while no context uses
   them: a copy left behind would bring back watchers that left. *)
TypeOK ==
  /\ accepted \in Nat
  /\ requests \in Seq(Watches \union Events)
  /\ context \in {"running", "leaving", "none"}
  /\ watcherss \in Tables(Actors) /\ outerWatcherss \in Tables(Queues)
  /\ actorCaches \in Tables(Actors) \X Tables(Queues)
  /\ context # "none" => actorCaches = NoCache
  /\ transit \in [Actors -> Seq(Events)] /\ mailbox \in [Actors -> Seq(Events)]
  /\ queue \in [Queues -> Seq(Events)]
  /\ closed \in [Queues -> BOOLEAN]
  /\ maxDepth \in [Queues -> {0, OuterQueueMaxDepth}]

(* A queue is never above OuterQueueMaxDepth, from its first notification on:
   whatever is subscribed, or still on its way to be, has had its limit set. *)
OuterBounded ==
  OuterQueueMaxDepth > 0 => \A q \in Queues : Len(queue[q]) <= OuterQueueMaxDepth

(* What the group saved stands in for the tables of a context that is gone. *)
ActorMembers == IF context = "none" THEN actorCaches[1] ELSE watcherss
QueueMembers == IF context = "none" THEN actorCaches[2] ELSE outerWatcherss

T == INSTANCE Topic WITH
       asked <- requests, Operations <- Watches \union Events,
       Lossy <- {a \in Actors : GroupOf[a] \in Crowded},
       members <- [t \in Types |-> ActorMembers[t] \union QueueMembers[t]],
       due <- [s \in Subscribers |-> IF s \in Actors THEN mailbox[s] \o transit[s] ELSE queue[s]]

(* The watched actor may come and go, groups and queues may refuse, and still
   each subscriber gets what Topic says, in order, and at last. *)
ImplementsTopic == T!FairSpec
=============================================================================
