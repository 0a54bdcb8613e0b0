-------------------------------- MODULE System --------------------------------
(***************************************************************************)
(* The system as its callers see it (src/system.go): Start and Stop by any *)
(* number of goroutines, also at the same time, the router that cuts an    *)
(* envelope into one bucket per group, the ticker, and what wg counts.     *)
(*                                                                         *)
(* The queues of groups and actors are sets here, as nothing depends on    *)
(* their order, and actors are never recycled (no DefaultStopInterval):    *)
(* ActorGroup has both.  An actor is the slot of its reference.            *)
(***************************************************************************)
EXTENDS Integers, Sequences, FiniteSets

CONSTANTS
  Starters, Stoppers,  \* goroutines that call Start, and Stop
  Deadlines,           \* those that call StopWithContext, with an end to the context
  Senders,
  GroupCount,
  To,                  \* To[p]: slots of the actors that p sends to, several for
                       \* BatchSend, none for a nil reference
  Registered,          \* actors whose type has a creator
  MayBlock,            \* actors with a handler that may never return
  MaxMailboxDepth,     \* limit of an actor's mailbox, 0 for none
  GroupMailboxDepthFactor,
  MaxSends, MaxTicks   \* bounds: envelopes of each sender, rounds of the ticker

Groups == 0 .. GroupCount - 1

(* uint16(slot-1) % uint16(n): slot 0 comes after all others. *)
GroupIndex(slot) == ((slot + 65535) % 65536) % GroupCount

Slots == UNION {To[p] : p \in Senders}

(* groupMailboxDepthLimit *)
DepthLimit == MaxMailboxDepth * GroupMailboxDepthFactor

ASSUME CallersAssumption == /\ Deadlines \subseteq Stoppers
                            /\ IsFiniteSet(Senders)
ASSUME NumberAssumption == /\ GroupCount \in Nat /\ 0 < GroupCount /\ GroupCount < 65536
                           /\ MaxMailboxDepth \in Nat /\ GroupMailboxDepthFactor \in Nat
                           /\ MaxTicks \in Nat
                           /\ MaxSends \in [Senders -> Nat]
ASSUME ToAssumption == /\ To \in [Senders -> SUBSET Nat]
                       /\ \A s \in Slots : s < 65536

VARIABLES
  started, stopped,  \* the atomic flags
  start, stop,       \* start[p], stop[p]: where these calls are
  made,              \* slots of actorGroups that are filled, -1 before there is a slice
  router,            \* whether it is set
  launched,          \* groups that Start started
  closing,           \* groups that Stop closed
  raced,             \* whether Stop came while a call of Start was under way
  mailbox, closed,   \* the group queues, but for
  ticks,             \* the ticks in them
  group, actor,      \* the goroutines that wg counts
  ticker, tickAt,    \* the one that it does not, and the group it comes to next
  ticked,            \* its rounds so far
  work,              \* work[s]: what actor s was given and did not handle
  handled,           \* envelopes and actors that handled them
  lost,              \* envelopes and actors that never got them from their group
  pc, todo, dropped, \* routing of p: buckets to go, reasons for drops so far
  result             \* result[p]: what the calls of p returned

startVars == <<started, start, made, router, launched>>
stopVars == <<stopped, stop, closing, raced>>
queueVars == <<mailbox, closed, ticks>>
tickerVars == <<ticker, tickAt, ticked>>
workVars == <<group, actor, work, handled, lost>>
sendVars == <<pc, todo, dropped, result>>
vars == <<startVars, stopVars, queueVars, tickerVars, workVars, sendVars>>

Init ==
  /\ started = FALSE /\ stopped = FALSE /\ raced = FALSE /\ router = FALSE
  /\ start = [p \in Starters |-> "idle"]
  /\ stop = [p \in Stoppers |-> "idle"]
  /\ made = -1 /\ launched = 0 /\ closing = 0
  /\ mailbox = [g \in Groups |-> {}]
  /\ closed = [g \in Groups |-> FALSE]
  /\ ticks = [g \in Groups |-> 0]
  /\ group = [g \in Groups |-> "none"]
  /\ ticker = "none" /\ tickAt = GroupCount /\ ticked = 0
  /\ actor = [s \in Slots |-> "none"]
  /\ work = [s \in Slots |-> {}]
  /\ handled = {} /\ lost = {}
  /\ pc = [p \in Senders |-> "idle"]
  /\ todo = [p \in Senders |-> {}]
  /\ dropped = [p \in Senders |-> {}]
  /\ result = [p \in Senders |-> <<>>]

-----------------------------------------------------------------------------
(* Start.  Nothing but the flags orders it and Stop. *)

StartGoes(p, from, to) == start[p] = from /\ start' = [start EXCEPT ![p] = to]

CheckStopped(p) ==
  /\ StartGoes(p, "idle", IF stopped THEN "done" ELSE "checked")
  /\ UNCHANGED <<started, made, router, launched,
                 stopVars, queueVars, tickerVars, workVars, sendVars>>

(* Mutant: the flag is set whatever it was. *)
Claim_Stores(p) ==
  /\ StartGoes(p, "checked", "claimed")
  /\ started' = TRUE
  /\ UNCHANGED <<made, router, launched,
                 stopVars, queueVars, tickerVars, workVars, sendVars>>

Claim(p) ==
  /\ StartGoes(p, "checked", IF started THEN "done" ELSE "claimed")
  /\ started' = TRUE
  /\ UNCHANGED <<made, router, launched,
                 stopVars, queueVars, tickerVars, workVars, sendVars>>

AllocateGroups(p) ==
  /\ StartGoes(p, "claimed", "making")
  /\ made' = 0
  /\ UNCHANGED <<started, router, launched,
                 stopVars, queueVars, tickerVars, workVars, sendVars>>

NewGroup(p) ==
  /\ start[p] = "making" /\ made < GroupCount
  /\ made' = made + 1
  /\ mailbox' = [mailbox EXCEPT ![made] = {}]
  /\ closed' = [closed EXCEPT ![made] = FALSE]
  /\ ticks' = [ticks EXCEPT ![made] = 0]
  /\ UNCHANGED <<started, start, router, launched,
                 stopVars, tickerVars, workVars, sendVars>>

SetRouter(p) ==
  /\ made = GroupCount
  /\ StartGoes(p, "making", "launching")
  /\ router' = TRUE /\ launched' = 0
  /\ UNCHANGED <<started, made, stopVars, queueVars, tickerVars, workVars, sendVars>>

LaunchGroup(p) ==
  /\ start[p] = "launching" /\ launched < GroupCount
  /\ launched' = launched + 1
  /\ group' = [group EXCEPT ![launched] = "running"]
  /\ UNCHANGED <<started, start, made, router, stopVars, queueVars, tickerVars,
                 actor, work, handled, lost, sendVars>>

LaunchTicker(p) ==
  /\ launched = GroupCount
  /\ StartGoes(p, "launching", "done")
  /\ ticker' = "running"
  /\ UNCHANGED <<started, made, router, launched, stopVars, queueVars,
                 tickAt, ticked, workVars, sendVars>>

-----------------------------------------------------------------------------
(* Stop *)

Starting == \E p \in Starters : start[p] \notin {"idle", "done"}

StopGoes(p, from, to) == stop[p] = from /\ stop' = [stop EXCEPT ![p] = to]

(* The first call stops the system, the others return at once. *)
BeginStop(p) ==
  /\ StopGoes(p, "idle", IF stopped THEN "second" ELSE "begun")
  /\ stopped' = TRUE
  /\ raced' = (raced \/ Starting)
  /\ UNCHANGED <<closing, startVars, queueVars, tickerVars, workVars, sendVars>>

(* Mutant: the ticker is stopped, its goroutine is not told. *)
StopTicker_Only(p) ==
  /\ StopGoes(p, "begun", "ticker")
  /\ UNCHANGED <<stopped, closing, raced, startVars, queueVars, tickerVars,
                 workVars, sendVars>>

StopTicker(p) ==
  /\ StopGoes(p, "begun", "ticker")
  /\ ticker' = IF ticker = "running" THEN "told" ELSE ticker
  /\ UNCHANGED <<stopped, closing, raced, startVars, queueVars, tickAt, ticked,
                 workVars, sendVars>>

ReadGroups(p) ==
  /\ StopGoes(p, "ticker", IF made < 0 THEN "waiting" ELSE "closing")
  /\ UNCHANGED <<stopped, closing, raced, startVars, queueVars, tickerVars,
                 workVars, sendVars>>

CloseGroup(p) ==
  /\ closing < made
  /\ StopGoes(p, "closing", IF closing + 1 < GroupCount THEN "closing" ELSE "waiting")
  /\ closed' = [closed EXCEPT ![closing] = TRUE]
  /\ closing' = closing + 1
  /\ UNCHANGED <<stopped, raced, startVars, mailbox, ticks, tickerVars,
                 workVars, sendVars>>

(* A slot that Start did not fill yet: a nil pointer in the caller of Stop. *)
StopPanics(p) ==
  /\ closing >= made
  /\ StopGoes(p, "closing", "panicked")
  /\ UNCHANGED <<stopped, closing, raced, startVars, queueVars, tickerVars,
                 workVars, sendVars>>

(* wg is zero. *)
Quiet == /\ \A g \in Groups : group[g] # "running"
         /\ \A s \in Slots : actor[s] \notin {"running", "blocked"}

(* Mutant: only the groups are waited for. *)
WaitReturns_Groups(p) ==
  /\ \A g \in Groups : group[g] # "running"
  /\ StopGoes(p, "waiting", "nil")
  /\ UNCHANGED <<stopped, closing, raced, startVars, queueVars, tickerVars,
                 workVars, sendVars>>

WaitReturns(p) ==
  /\ Quiet
  /\ StopGoes(p, "waiting", "nil")
  /\ UNCHANGED <<stopped, closing, raced, startVars, queueVars, tickerVars,
                 workVars, sendVars>>

DeadlineExpires(p) ==
  /\ p \in Deadlines
  /\ StopGoes(p, "waiting", "late")
  /\ UNCHANGED <<stopped, closing, raced, startVars, queueVars, tickerVars,
                 workVars, sendVars>>

-----------------------------------------------------------------------------
(* The ticker goroutine, at tickAt = GroupCount while it waits *)

(* The one tick that was in its channel may still be taken after it was told. *)
TickerFires ==
  /\ ticker \in {"running", "told"} /\ tickAt = GroupCount
  /\ ticked < MaxTicks
  /\ tickAt' = 0 /\ ticked' = ticked + 1
  /\ ticker' = IF ticker = "told" THEN "last" ELSE ticker
  /\ UNCHANGED <<startVars, stopVars, queueVars, workVars, sendVars>>

(* No limit for ticks; a closed queue refuses them too. *)
TickGroup ==
  /\ tickAt < GroupCount
  /\ tickAt' = tickAt + 1
  /\ ticks' = [ticks EXCEPT ![tickAt] = IF closed[tickAt] THEN @ ELSE @ + 1]
  /\ UNCHANGED <<ticker, ticked, mailbox, closed, startVars, stopVars, workVars, sendVars>>

TickerExits ==
  /\ ticker \in {"told", "last"} /\ tickAt = GroupCount
  /\ ticker' = "gone"
  /\ UNCHANGED <<tickAt, ticked, startVars, stopVars, queueVars, workVars, sendVars>>

-----------------------------------------------------------------------------
(* Senders *)

Buckets(p) == {GroupIndex(s) : s \in To[p]}
Current(p) == <<p, Len(result[p]) + 1>>

(* The group of the bucket that is next. *)
Bucket(p) == CHOOSE g \in todo[p] : \A h \in todo[p] : g <= h

Returns(p, verdict) == result' = [result EXCEPT ![p] = Append(@, verdict)]

(* Without a router there is nothing to route with, without a target nowhere. *)
Send(p) ==
  /\ pc[p] = "idle" /\ Len(result[p]) < MaxSends[p]
  /\ IF router
     THEN /\ pc' = [pc EXCEPT ![p] = "routing"]
          /\ todo' = [todo EXCEPT ![p] = Buckets(p)]
          /\ UNCHANGED result
     ELSE /\ Returns(p, "not_started")
          /\ UNCHANGED <<pc, todo>>
  /\ dropped' = [dropped EXCEPT ![p] = IF To[p] = {} THEN {"invalid"} ELSE {}]
  /\ UNCHANGED <<startVars, stopVars, queueVars, tickerVars, workVars>>

(* Drop p's bucket for a reason. *)
Drop(p, reason) == /\ todo' = [todo EXCEPT ![p] = @ \ {Bucket(p)}]
                   /\ dropped' = [dropped EXCEPT ![p] = @ \union {reason}]

(* Mutant: lets one envelope too many pass. *)
Passes_OneMore(g) == DepthLimit > 0 => Cardinality(mailbox[g]) + ticks[g] <= DepthLimit
Passes(g) == DepthLimit > 0 => Cardinality(mailbox[g]) + ticks[g] < DepthLimit

(* enqueueGroup looks at the depth ... *)
CheckDepth(p) ==
  /\ pc[p] = "routing" /\ todo[p] # {}
  /\ IF Passes(Bucket(p))
     THEN pc' = [pc EXCEPT ![p] = "checked"] /\ UNCHANGED <<todo, dropped>>
     ELSE Drop(p, "overflow") /\ UNCHANGED pc
  /\ UNCHANGED <<result, startVars, stopVars, queueVars, tickerVars, workVars>>

(* ... and then enqueues, whatever the depth is now. *)
Enqueue(p) ==
  /\ pc[p] = "checked"
  /\ pc' = [pc EXCEPT ![p] = "routing"]
  /\ IF closed[Bucket(p)]
     THEN Drop(p, "closed") /\ UNCHANGED mailbox
     ELSE /\ mailbox' = [mailbox EXCEPT ![Bucket(p)] = @ \union {Current(p)}]
          /\ todo' = [todo EXCEPT ![p] = @ \ {Bucket(p)}]
          /\ UNCHANGED dropped
  /\ UNCHANGED <<closed, ticks, result, startVars, stopVars, tickerVars, workVars>>

(* Mutant: an overflow is not worth an error if the system goes on. *)
Verdict_ClosedOnly(d) == IF "closed" \in d THEN "not_started" ELSE "nil"

(* One error stands for all buckets. *)
Verdict(d) == IF "closed" \in d THEN "not_started"
              ELSE IF "overflow" \in d THEN "overflow"
              ELSE IF "invalid" \in d THEN "invalid_actor" ELSE "nil"

RouterReturns(p) ==
  /\ pc[p] = "routing" /\ todo[p] = {}
  /\ pc' = [pc EXCEPT ![p] = "idle"]
  /\ Returns(p, Verdict(dropped[p]))
  /\ UNCHANGED <<todo, dropped, startVars, stopVars, queueVars, tickerVars, workVars>>

-----------------------------------------------------------------------------
(* Groups and actors *)

Members(g) == {s \in Slots : GroupIndex(s) = g}

(* Envelopes that wait in group g, with the actors they are for. *)
Due(g) == {d \in mailbox[g] \X Members(g) : d[2] \in To[d[1][1]]}

(* Whether the mailbox of s may be full with this work.  Ticks that were not
   taken count too; a new mailbox has room for the first envelope. *)
MayBeFull(s, w) == /\ MaxMailboxDepth > 0
                   /\ Cardinality(w) + ticked >= MaxMailboxDepth
                   /\ actor[s] = "none" => w # {}

(* A batch of group g goes to its actors, and starts those that are not there.
   What a full mailbox refuses is lost, and all that goes to an actor without a
   creator; the sender has its verdict already. *)
GroupDispatches(g) ==
  /\ group[g] = "running"
  /\ mailbox[g] # {} \/ ticks[g] > 0
  /\ \E refused \in SUBSET Due(g) :
       LET taken(s) == {e \in mailbox[g] : <<e, s>> \in Due(g) \ refused} IN
       /\ \A s \in Slots \ Registered : taken(s) = {}
       /\ \A d \in refused : d[2] \in Registered => MayBeFull(d[2], work[d[2]] \union taken(d[2]))
       /\ work' = [s \in Slots |-> work[s] \union taken(s)]
       /\ actor' = [s \in Slots |-> IF taken(s) # {} /\ actor[s] = "none" THEN "running" ELSE actor[s]]
       /\ lost' = lost \union refused
  /\ mailbox' = [mailbox EXCEPT ![g] = {}]
  /\ ticks' = [ticks EXCEPT ![g] = 0]
  /\ UNCHANGED <<closed, group, handled, startVars, stopVars, tickerVars, sendVars>>

(* Mutant: what the queue still has is left behind. *)
GroupExits_AtOnce(g) ==
  /\ group[g] = "running" /\ closed[g]
  /\ group' = [group EXCEPT ![g] = "gone"]
  /\ UNCHANGED <<actor, work, handled, lost, startVars, stopVars, queueVars, tickerVars, sendVars>>

GroupExits(g) ==
  /\ group[g] = "running" /\ closed[g]
  /\ mailbox[g] = {} /\ ticks[g] = 0
  /\ group' = [group EXCEPT ![g] = "gone"]
  /\ UNCHANGED <<actor, work, handled, lost, startVars, stopVars, queueVars, tickerVars, sendVars>>

Handle(s) ==
  /\ actor[s] = "running"
  /\ \E e \in work[s] : /\ work' = [work EXCEPT ![s] = @ \ {e}]
                        /\ handled' = handled \union {<<e, s>>}
  /\ UNCHANGED <<group, actor, lost, startVars, stopVars, queueVars, tickerVars, sendVars>>

HandlerBlocks(s) ==
  /\ s \in MayBlock
  /\ actor[s] = "running" /\ work[s] # {}
  /\ actor' = [actor EXCEPT ![s] = "blocked"]
  /\ UNCHANGED <<group, work, handled, lost, startVars, stopVars, queueVars, tickerVars, sendVars>>

(* Its group closed its mailbox on the way out. *)
ActorExits(s) ==
  /\ actor[s] = "running" /\ work[s] = {}
  /\ group[GroupIndex(s)] = "gone"
  /\ actor' = [actor EXCEPT ![s] = "gone"]
  /\ UNCHANGED <<group, work, handled, lost, startVars, stopVars, queueVars, tickerVars, sendVars>>

-----------------------------------------------------------------------------
StartStep(p) == \/ Claim(p) \/ AllocateGroups(p) \/ NewGroup(p) \/ SetRouter(p)
                \/ LaunchGroup(p) \/ LaunchTicker(p)
StopStep(p) == \/ StopTicker(p) \/ ReadGroups(p) \/ CloseGroup(p) \/ StopPanics(p)
               \/ WaitReturns(p) \/ DeadlineExpires(p)
SendStep(p) == CheckDepth(p) \/ Enqueue(p) \/ RouterReturns(p)
GroupStep(g) == GroupDispatches(g) \/ GroupExits(g)
ActorStep(s) == Handle(s) \/ ActorExits(s)

Next ==
  \/ \E p \in Starters : CheckStopped(p) \/ StartStep(p)
  \/ \E p \in Stoppers : BeginStop(p) \/ StopStep(p)
  \/ TickerFires \/ TickGroup \/ TickerExits
  \/ \E p \in Senders : Send(p) \/ SendStep(p)
  \/ \E g \in Groups : GroupStep(g)
  \/ \E s \in Slots : ActorStep(s) \/ HandlerBlocks(s)

(* Calls once begun go on, goroutines run; nobody has to call, no clock to tick. *)
Fairness ==
  /\ \A p \in Starters : WF_vars(StartStep(p))
  /\ \A p \in Stoppers : WF_vars(StopStep(p))
  /\ WF_vars(TickGroup \/ TickerExits)
  /\ \A p \in Senders : WF_vars(SendStep(p))
  /\ \A g \in Groups : WF_vars(GroupStep(g))
  /\ \A s \in Slots : WF_vars(ActorStep(s))

Spec == Init /\ [][Next]_vars
FairSpec == Spec /\ Fairness

-----------------------------------------------------------------------------
(* Properties *)

Envelopes == Senders \X (Nat \ {0})

(* Every variable has its type, and who finds a router finds all groups behind
   it: Start makes them once, whoever calls it meanwhile. *)
TypeOK ==
  /\ router => started /\ made = GroupCount
  /\ started \in BOOLEAN /\ stopped \in BOOLEAN /\ raced \in BOOLEAN /\ router \in BOOLEAN
  /\ start \in [Starters -> {"idle", "checked", "claimed", "making", "launching", "done"}]
  /\ stop \in [Stoppers -> {"idle", "second", "begun", "ticker", "closing", "waiting",
                            "nil", "late", "panicked"}]
  /\ made \in -1 .. GroupCount /\ launched \in 0 .. GroupCount /\ closing \in 0 .. GroupCount
  /\ mailbox \in [Groups -> SUBSET Envelopes]
  /\ closed \in [Groups -> BOOLEAN]
  /\ ticks \in [Groups -> Nat]
  /\ group \in [Groups -> {"none", "running", "gone"}]
  /\ ticker \in {"none", "running", "told", "last", "gone"}
  /\ tickAt \in 0 .. GroupCount /\ ticked \in 0 .. MaxTicks
  /\ actor \in [Slots -> {"none", "running", "blocked", "gone"}]
  /\ work \in [Slots -> SUBSET Envelopes]
  /\ handled \subseteq Envelopes \X Slots /\ lost \subseteq Envelopes \X Slots
  /\ pc \in [Senders -> {"idle", "routing", "checked"}]
  /\ todo \in [Senders -> SUBSET Groups]
  /\ dropped \in [Senders -> SUBSET {"overflow", "closed", "invalid"}]
  /\ result \in [Senders -> Seq({"nil", "overflow", "not_started", "invalid_actor"})]
  /\ \A p \in Senders : Len(result[p]) <= MaxSends[p]

(* Where envelope e is, for actor s. *)
Waits(e, s) == e \in mailbox[GroupIndex(s)]
Given(e, s) == e \in work[s]
Handled(e, s) == <<e, s>> \in handled
Lost(e, s) == <<e, s>> \in lost

(* What a verdict says, with Start, Stop and full groups in between the steps of
   a send: nil that there are recipients and each one's group took the envelope,
   an error that at least one's group never did.  From then on it is in one place
   for each of them: nobody has it twice, and it is lost only at an actor without
   a creator, or where mailboxes have a limit. *)
VerdictTrue ==
  \A p \in Senders :
    /\ \A n \in 1 .. Len(result[p]) :
         result[p][n] = "nil" <=>
           /\ To[p] # {}
           /\ \A s \in To[p] : LET e == <<p, n>> IN
                Waits(e, s) \/ Given(e, s) \/ Handled(e, s) \/ Lost(e, s)
    /\ \A n \in 1 .. Len(result[p]) + 1, s \in To[p] :
         LET e == <<p, n>> IN
         /\ Waits(e, s) => ~Given(e, s) /\ ~Handled(e, s) /\ ~Lost(e, s)
         /\ Given(e, s) => ~Handled(e, s) /\ ~Lost(e, s)
         /\ Handled(e, s) => ~Lost(e, s)
         /\ Lost(e, s) => MaxMailboxDepth > 0 \/ s \notin Registered

SendersTo(g) == {p \in Senders : g \in Buckets(p)}

(* The limit that enqueueGroup checks before it enqueues is not the limit that
   holds: of those who send to the group, all but one may be past their check
   already.  Ticks come on top. *)
EntryOvershoot ==
  DepthLimit > 0 =>
    \A g \in Groups : Cardinality(mailbox[g]) <= DepthLimit + Cardinality(SendersTo(g)) - 1

(* When the call that stopped the system returns nil, nothing runs any more
   and nothing waits any more to be handed out or handled, then or later:
   unless Start was under way when it came. *)
StopIsQuiet ==
  \A p \in Stoppers :
    stop[p] = "nil" /\ ~raced =>
      /\ Quiet
      /\ \A g \in Groups : mailbox[g] = {} /\ ticks[g] = 0
      /\ \A s \in Slots : work[s] = {}

Stuck == \E s \in Slots : actor[s] = "blocked"

(* What a group took is handled by each recipient or refused by its mailbox, also
   when Stop comes: nothing is left between queues that are closed one after the
   other.  Unless a handler hangs. *)
NilIsHandled ==
  \A p \in Senders : \A n \in 1 .. MaxSends[p] :
    (n \in DOMAIN result[p] /\ result[p][n] = "nil")
      ~> (Stuck \/ \A s \in To[p] : Handled(<<p, n>>, s) \/ Lost(<<p, n>>, s))

Ended(p) == \/ stop[p] \in {"idle", "second", "nil", "late", "panicked"}
            \/ p \notin Deadlines /\ Stuck

(* Stop with a deadline returns whatever the handlers do, without one it
   returns unless a handler hangs; and the ticker's goroutine ends, though wg
   does not count it. *)
ShutdownEnds ==
  stopped ~> (raced \/ (ticker \in {"none", "gone"} /\ \A p \in Stoppers : Ended(p)))
=============================================================================
