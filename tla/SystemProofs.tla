----------------------------- MODULE SystemProofs -----------------------------
(* Proofs about System, for any number of callers, groups and actors: Start    *)
(* happens once, a Stop that waited leaves nothing behind, the verdict of a    *)
(* send is true, and the entry limit is overrun by no more than it may.        *)
EXTENDS System, FiniteSetTheorems, WellFoundedInduction, TLAPS

(* What the conjuncts of TypeOK say of each variable, without the first. *)
Types ==
  /\ started \in BOOLEAN /\ stopped \in BOOLEAN /\ raced \in BOOLEAN /\ router \in BOOLEAN
  /\ start \in [Starters -> {"idle", "checked", "claimed", "making", "launching", "done"}]
  /\ stop \in [Stoppers -> {"idle", "second", "begun", "ticker", "closing", "waiting",
                            "nil", "late", "panicked"}]
  /\ made \in -1 .. GroupCount /\ launched \in 0 .. GroupCount /\ closing \in 0 .. GroupCount
  /\ mailbox \in [Groups -> SUBSET Envelopes]
  /\ closed \in [Groups -> BOOLEAN]
  /\ ticks \in [Groups -> Nat]
  /\ group \in [Groups -> {"none", "running", "gone"}]
  /\ ticker \in {"none", "running", "told", "last", "gone"}
  /\ tickAt \in 0 .. GroupCount /\ ticked \in 0 .. MaxTicks
  /\ actor \in [Slots -> {"none", "running", "blocked", "gone"}]
  /\ work \in [Slots -> SUBSET Envelopes]
  /\ handled \subseteq Envelopes \X Slots /\ lost \subseteq Envelopes \X Slots
  /\ pc \in [Senders -> {"idle", "routing", "checked"}]
  /\ todo \in [Senders -> SUBSET Groups]
  /\ dropped \in [Senders -> SUBSET {"overflow", "closed", "invalid"}]
  /\ result \in [Senders -> Seq({"nil", "overflow", "not_started", "invalid_actor"})]
  /\ \A p \in Senders : Len(result[p]) <= MaxSends[p]

Active(p) == start[p] \in {"claimed", "making", "launching"}

(* At most one call of Start is beyond the flag, and what it has done so far is
   what its place says. *)
Once ==
  /\ router => started /\ made = GroupCount
  /\ ~router => launched = 0
  /\ started \/ made = -1
  /\ \A p \in Starters : Active(p) => started
  /\ \A p, q \in Starters : Active(p) /\ Active(q) => p = q
  /\ \A p \in Starters : /\ start[p] = "claimed" => made = -1
                         /\ start[p] = "making" => ~router /\ made >= 0
                         /\ start[p] = "launching" => router
  /\ started => launched = GroupCount \/ \E p \in Starters : Active(p)

(* A sender under way found a router, and has a result to come. *)
UnderWay ==
  \A p \in Senders : /\ pc[p] # "idle" => router /\ Len(result[p]) < MaxSends[p]
                     /\ pc[p] = "checked" => todo[p] # {}

StartInv == Types /\ Once

LEMMA Numbers == GroupCount \in Nat /\ GroupCount >= 1 /\ Groups \subseteq Nat
BY NumberAssumption DEF Groups

LEMMA LimitIsNumber == DepthLimit \in Nat
BY NumberAssumption DEF DepthLimit

LEMMA SlotsAreNumbers == /\ \A p \in Senders : To[p] \subseteq Slots
                         /\ \A s \in Slots : s \in Nat
<1>1. \A p \in Senders : To[p] \in SUBSET Nat
  BY ToAssumption
<1> QED  BY <1>1 DEF Slots

(* A slot has a group, slot 0 too. *)
LEMMA IndexInRange == \A s \in Slots : GroupIndex(s) \in Groups
<1> SUFFICES ASSUME NEW s \in Slots PROVE GroupIndex(s) \in Groups
  OBVIOUS
<1>1. s + 65535 \in Nat  BY SlotsAreNumbers
<1>2. (s + 65535) % 65536 \in Nat  BY <1>1
<1>3. \A k \in Nat : k % GroupCount \in 0 .. GroupCount - 1  BY Numbers
<1> QED  BY <1>2, <1>3 DEF GroupIndex, Groups

-----------------------------------------------------------------------------
(* Steps that concern Start alone, and those that do not *)

LEMMA OnceInit == Init => Once
BY Numbers DEF Init, Once, Active

LEMMA TypesInit == Init => Types
<1> SUFFICES ASSUME Init PROVE Types
  OBVIOUS
<1>1. \A p \in Senders : MaxSends[p] \in Nat /\ Len(result[p]) = 0
  BY NumberAssumption DEF Init
<1>2. /\ result \in [Senders -> Seq({"nil", "overflow", "not_started", "invalid_actor"})]
      /\ pc \in [Senders -> {"idle", "routing", "checked"}]
      /\ todo \in [Senders -> SUBSET Groups]
      /\ dropped \in [Senders -> SUBSET {"overflow", "closed", "invalid"}]
  BY DEF Init
<1>3. /\ made \in -1 .. GroupCount /\ launched \in 0 .. GroupCount
      /\ closing \in 0 .. GroupCount
      /\ tickAt \in 0 .. GroupCount /\ ticked \in 0 .. MaxTicks
  BY Numbers, NumberAssumption DEF Init
<1>4. /\ actor \in [Slots -> {"none", "running", "blocked", "gone"}]
      /\ work \in [Slots -> SUBSET Envelopes]
      /\ handled \subseteq Envelopes \X Slots /\ lost \subseteq Envelopes \X Slots
  BY DEF Init
<1>5. /\ mailbox \in [Groups -> SUBSET Envelopes]
      /\ closed \in [Groups -> BOOLEAN]
      /\ ticks \in [Groups -> Nat]
      /\ group \in [Groups -> {"none", "running", "gone"}]
  BY DEF Init
<1>6. \A p \in Senders : Len(result[p]) <= MaxSends[p]  BY <1>1
<1> QED  BY <1>2, <1>3, <1>4, <1>5, <1>6 DEF Init, Types

LEMMA OnceFrame ==
  ASSUME Once, UNCHANGED startVars
  PROVE  Once'
BY DEF Once, Active, startVars

LEMMA OnceStart ==
  ASSUME StartInv, NEW p \in Starters, CheckStopped(p) \/ StartStep(p)
  PROVE  Once'
<1> USE Numbers DEF StartInv, Types, Once, Active, StartGoes
<1>1. CASE CheckStopped(p)  BY <1>1 DEF CheckStopped
<1>2. CASE Claim(p)
  <2>1. CASE started  BY <1>2, <2>1 DEF Claim
  <2>2. CASE ~started  BY <1>2, <2>2 DEF Claim
  <2> QED  BY <2>1, <2>2
<1>3. CASE AllocateGroups(p)  BY <1>3 DEF AllocateGroups
<1>4. CASE NewGroup(p)  BY <1>4 DEF NewGroup
<1>5. CASE SetRouter(p)  BY <1>5 DEF SetRouter
<1>6. CASE LaunchGroup(p)  BY <1>6 DEF LaunchGroup
<1>7. CASE LaunchTicker(p)  BY <1>7 DEF LaunchTicker
<1> QED  BY <1>1, <1>2, <1>3, <1>4, <1>5, <1>6, <1>7 DEF StartStep

LEMMA TypesStart ==
  ASSUME StartInv, NEW p \in Starters, CheckStopped(p) \/ StartStep(p)
  PROVE  Types'
<1> USE Numbers DEF StartInv, Types, StartGoes, stopVars, queueVars, tickerVars, workVars, sendVars
<1>1. CASE CheckStopped(p)  BY <1>1 DEF CheckStopped
<1>2. CASE Claim(p)  BY <1>2 DEF Claim
<1>3. CASE AllocateGroups(p)  BY <1>3 DEF AllocateGroups
<1>4. CASE NewGroup(p)
  <2>1. made \in Groups  BY <1>4 DEF NewGroup, Once, Groups
  <2> QED  BY <1>4, <2>1 DEF NewGroup
<1>5. CASE SetRouter(p)  BY <1>5 DEF SetRouter
<1>6. CASE LaunchGroup(p)
  <2>1. launched \in Groups  BY <1>6 DEF LaunchGroup, Groups
  <2> QED  BY <1>6, <2>1 DEF LaunchGroup
<1>7. CASE LaunchTicker(p)  BY <1>7 DEF LaunchTicker
<1> QED  BY <1>1, <1>2, <1>3, <1>4, <1>5, <1>6, <1>7 DEF StartStep

LEMMA TypesStop ==
  ASSUME StartInv, NEW p \in Stoppers, BeginStop(p) \/ StopStep(p)
  PROVE  Types' /\ UNCHANGED startVars
<1> USE Numbers DEF StartInv, Types, StopGoes, startVars, queueVars, tickerVars, workVars, sendVars
<1>1. CASE BeginStop(p)
  <2>1. raced' \in BOOLEAN  BY <1>1 DEF BeginStop, Starting
  <2> QED  BY <1>1, <2>1 DEF BeginStop
<1>2. CASE StopTicker(p)  BY <1>2 DEF StopTicker
<1>3. CASE ReadGroups(p)  BY <1>3 DEF ReadGroups
<1>4. CASE CloseGroup(p)
  <2>1. closing \in Groups  BY <1>4 DEF CloseGroup, Groups
  <2> QED  BY <1>4, <2>1 DEF CloseGroup
<1>5. CASE StopPanics(p)  BY <1>5 DEF StopPanics
<1>6. CASE WaitReturns(p)  BY <1>6 DEF WaitReturns
<1>7. CASE DeadlineExpires(p)  BY <1>7 DEF DeadlineExpires
<1> QED  BY <1>1, <1>2, <1>3, <1>4, <1>5, <1>6, <1>7 DEF StopStep

LEMMA TypesTicker ==
  ASSUME StartInv, TickerFires \/ TickGroup \/ TickerExits
  PROVE  Types' /\ UNCHANGED startVars
<1>1. CASE TickerFires  
  BY <1>1, NumberAssumption
  DEF TickerFires, StartInv, Types, startVars, stopVars, queueVars, workVars, sendVars
<1>2. CASE TickGroup
  <2>1. tickAt \in Groups  BY <1>2, Numbers DEF TickGroup, Groups, StartInv, Types
  <2> QED  
    BY <1>2, <2>1, Numbers DEF TickGroup, StartInv, Types, startVars, stopVars, workVars, sendVars
<1>3. CASE TickerExits  
  BY <1>3 DEF TickerExits, StartInv, Types, startVars, stopVars, queueVars, workVars, sendVars
<1> QED  BY <1>1, <1>2, <1>3

(* The next bucket is one of those to go. *)
LeastOf(T) == CHOOSE g \in T : \A h \in T : g <= h

LEMMA LeastExists ==
  ASSUME NEW T \in SUBSET Groups, T # {}
  PROVE  LeastOf(T) \in T
<1> DEFINE R == {ss \in Nat \X Nat : ss[1] < ss[2]}
<1>1. T \subseteq Nat  BY Numbers
<1>2. IsWellFoundedOn(R, Nat)  BY NatLessThanWellFounded DEF OpToRel
<1>3. \E g \in T : \A h \in T : ~(<<h, g>> \in R)
  <2> HIDE DEF R
  <2> QED  BY <1>1, <1>2, WFMin
<1>4. PICK g \in T : \A h \in T : ~(h < g)  BY <1>1, <1>3
<1>5. \A h \in T : g <= h  BY <1>1, <1>4
<1> QED  BY <1>5 DEF LeastOf

LEMMA BucketIsToGo ==
  ASSUME Types, NEW p \in Senders, todo[p] # {}
  PROVE  Bucket(p) \in todo[p] /\ Bucket(p) \in Groups
BY LeastExists DEF Types, Bucket, LeastOf

LEMMA TypesSend ==
  ASSUME StartInv, UnderWay, NEW p \in Senders, Send(p) \/ SendStep(p)
  PROVE  Types' /\ UNCHANGED startVars
<1> USE DEF StartInv, Types, startVars, stopVars, queueVars, tickerVars, workVars
<1>0. /\ MaxSends \in [Senders -> Nat]
      /\ \A q \in Senders : Len(result[q]) \in Nat /\ Len(result[q]) <= MaxSends[q]
  BY NumberAssumption
<1>a. ASSUME Len(result[p]) < MaxSends[p],
             NEW v \in {"nil", "overflow", "not_started", "invalid_actor"}, Returns(p, v)
      PROVE  /\ result' \in [Senders -> Seq({"nil", "overflow", "not_started", "invalid_actor"})]
             /\ \A q \in Senders : Len(result'[q]) <= MaxSends[q]
  <2>1. /\ Append(result[p], v) \in Seq({"nil", "overflow", "not_started", "invalid_actor"})
        /\ Len(Append(result[p], v)) = Len(result[p]) + 1
    OBVIOUS
  <2>2. result' = [result EXCEPT ![p] = Append(result[p], v)]  BY <1>a DEF Returns
  <2> QED  BY <1>0, <1>a, <2>1, <2>2
<1>b. ASSUME NEW r \in {"overflow", "closed"}, Drop(p, r)
      PROVE  todo' \in [Senders -> SUBSET Groups] /\ dropped' \in [Senders -> SUBSET {"overflow", "closed", "invalid"}]
  BY <1>b DEF Drop
<1>1. CASE Send(p)
  <2>1. Buckets(p) \subseteq Groups  BY IndexInRange, SlotsAreNumbers DEF Buckets
  <2>0. dropped' \in [Senders -> SUBSET {"overflow", "closed", "invalid"}]
    <3>1. PICK D \in SUBSET {"overflow", "closed", "invalid"} : dropped' = [dropped EXCEPT ![p] = D]
      BY <1>1 DEF Send
    <3>2. dropped \in [Senders -> SUBSET {"overflow", "closed", "invalid"}]  OBVIOUS
    <3> QED  BY ONLY <3>1, <3>2
  <2>2. CASE router
    <3>1. todo' = [todo EXCEPT ![p] = Buckets(p)]  BY <1>1, <2>2 DEF Send
    <3>2. todo' \in [Senders -> SUBSET Groups]  BY <2>1, <3>1
    <3> QED  BY <1>1, <2>0, <2>2, <3>2 DEF Send
  <2>3. CASE ~router  BY <1>1, <2>0, <2>3, <1>a DEF Send
  <2> QED  BY <2>2, <2>3
<1>2. CASE CheckDepth(p)
  <2>1. UNCHANGED <<result, startVars, stopVars, queueVars, tickerVars, workVars>>
    BY <1>2 DEF CheckDepth
  <2>2. \/ pc' = [pc EXCEPT ![p] = "checked"] /\ UNCHANGED <<todo, dropped>>
        \/ Drop(p, "overflow") /\ UNCHANGED pc
    BY <1>2 DEF CheckDepth
  <2>3. /\ pc' \in [Senders -> {"idle", "routing", "checked"}]
        /\ todo' \in [Senders -> SUBSET Groups]
        /\ dropped' \in [Senders -> SUBSET {"overflow", "closed", "invalid"}]
    <3>1. CASE pc' = [pc EXCEPT ![p] = "checked"] /\ UNCHANGED <<todo, dropped>>  BY <3>1
    <3>2. CASE Drop(p, "overflow") /\ UNCHANGED pc  BY <3>2, <1>b
    <3> QED  BY <2>2, <3>1, <3>2
  <2> QED  BY <2>1, <2>3
<1>3. CASE Enqueue(p)
  <2>1. CASE closed[Bucket(p)]  BY <1>3, <2>1, <1>b DEF Enqueue
  <2>2. CASE ~closed[Bucket(p)]
    <3>1. Bucket(p) \in Groups  BY <1>3, BucketIsToGo DEF Enqueue, UnderWay
    <3>2. Current(p) \in Envelopes  BY <1>0 DEF Current, Envelopes
    <3>0. /\ mailbox' = [mailbox EXCEPT ![Bucket(p)] = mailbox[Bucket(p)] \union {Current(p)}]
          /\ todo' = [todo EXCEPT ![p] = todo[p] \ {Bucket(p)}]
      BY <1>3, <2>2 DEF Enqueue
    <3>3. mailbox' \in [Groups -> SUBSET Envelopes]  BY <3>0, <3>1, <3>2
    <3>4. todo' \in [Senders -> SUBSET Groups]  BY <3>0
    <3>5. pc' \in [Senders -> {"idle", "routing", "checked"}]  BY <1>3 DEF Enqueue
    <3>6. UNCHANGED <<closed, ticks, result, startVars, stopVars, tickerVars, workVars, dropped>>
      BY <1>3, <2>2 DEF Enqueue
    <3> QED  BY <3>3, <3>4, <3>5, <3>6
  <2> QED  BY <2>1, <2>2
<1>4. CASE RouterReturns(p)
  <2>1. Verdict(dropped[p]) \in {"nil", "overflow", "not_started", "invalid_actor"}  BY DEF Verdict
  <2>2. Len(result[p]) < MaxSends[p] /\ Returns(p, Verdict(dropped[p]))
    BY <1>4 DEF RouterReturns, UnderWay
  <2>3. /\ result' \in [Senders -> Seq({"nil", "overflow", "not_started", "invalid_actor"})]
        /\ \A q \in Senders : Len(result'[q]) <= MaxSends[q]
    BY <2>1, <2>2, <1>a
  <2> QED  BY <1>4, <2>3 DEF RouterReturns
<1> QED  BY <1>1, <1>2, <1>3, <1>4 DEF SendStep

LEMMA UnderWaySend ==
  ASSUME Types, UnderWay, NEW p \in Senders, Send(p) \/ SendStep(p)
  PROVE  UnderWay'
<1> USE DEF UnderWay, startVars
<1>1. CASE Send(p)  BY <1>1 DEF Types, Send
<1>2. CASE CheckDepth(p)
  <2>1. \A q \in Senders \ {p} : pc'[q] = pc[q] /\ todo'[q] = todo[q]
    BY <1>2 DEF Types, CheckDepth, Drop
  <2>2. /\ pc[p] = "routing" /\ todo[p] # {} /\ result' = result /\ router' = router
        /\ pc'[p] = "checked" => todo'[p] = todo[p]
    BY <1>2 DEF Types, CheckDepth, Drop
  <2>3. router /\ Len(result[p]) < MaxSends[p]  BY <2>2
  <2>4. ASSUME NEW q \in Senders
        PROVE  /\ pc'[q] # "idle" => router' /\ Len(result'[q]) < MaxSends[q]
               /\ pc'[q] = "checked" => todo'[q] # {}
    BY <2>1, <2>2, <2>3, <2>4
  <2> QED  BY <2>4
<1>3. CASE Enqueue(p)  BY <1>3 DEF Types, Enqueue, Drop
<1>4. CASE RouterReturns(p)  BY <1>4 DEF Types, RouterReturns, Returns
<1> QED  BY <1>1, <1>2, <1>3, <1>4 DEF SendStep

-----------------------------------------------------------------------------
(* Groups and actors *)

(* The envelopes of group g's queue that s takes, if the others are refused. *)
Taken(g, refused, s) == {e \in mailbox[g] : <<e, s>> \in Due(g) \ refused}

(* A dispatch for a given set of refusals. *)
Dispatch(g, refused) ==
  /\ refused \subseteq Due(g)
  /\ work' = [s \in Slots |-> work[s] \union Taken(g, refused, s)]
  /\ actor' = [s \in Slots |-> IF Taken(g, refused, s) # {} /\ actor[s] = "none"
                               THEN "running" ELSE actor[s]]
  /\ lost' = lost \union refused
  /\ \A d \in refused : MaxMailboxDepth > 0 \/ d[2] \notin Registered

LEMMA DispatchGives ==
  ASSUME NEW g \in Groups, GroupDispatches(g)
  PROVE  \E refused \in SUBSET Due(g) : Dispatch(g, refused)
<1>1. PICK refused \in SUBSET Due(g) :
        /\ \A d \in refused : d[2] \in Registered =>
                               MayBeFull(d[2], work[d[2]] \union Taken(g, refused, d[2]))
        /\ work' = [s \in Slots |-> work[s] \union Taken(g, refused, s)]
        /\ actor' = [s \in Slots |-> IF Taken(g, refused, s) # {} /\ actor[s] = "none"
                                     THEN "running" ELSE actor[s]]
        /\ lost' = lost \union refused
  BY DEF GroupDispatches, Taken
<1>2. \A d \in refused : MaxMailboxDepth > 0 \/ d[2] \notin Registered
  BY <1>1 DEF MayBeFull
<1> QED  BY <1>1, <1>2 DEF Dispatch

LEMMA TypesGroup ==
  ASSUME StartInv, NEW g \in Groups, GroupStep(g)
  PROVE  Types' /\ UNCHANGED <<startVars, sendVars>>
<1>1. CASE GroupDispatches(g)
  <2>0. PICK refused \in SUBSET Due(g) : Dispatch(g, refused)  BY <1>1, DispatchGives
  <2>1. \A s \in Slots : Taken(g, refused, s) \subseteq Envelopes  BY DEF StartInv, Types, Taken
  <2>2. work' \in [Slots -> SUBSET Envelopes]
    BY <2>0, <2>1 DEF StartInv, Types, Dispatch
  <2>3. actor' \in [Slots -> {"none", "running", "blocked", "gone"}]
    <3>1. actor \in [Slots -> {"none", "running", "blocked", "gone"}]  BY DEF StartInv, Types
    <3>2. actor' = [s \in Slots |-> IF Taken(g, refused, s) # {} /\ actor[s] = "none"
                                    THEN "running" ELSE actor[s]]
      BY <2>0 DEF Dispatch
    <3> QED  BY <3>1, <3>2
  <2>6. lost' \subseteq Envelopes \X Slots
    <3>1. Due(g) \subseteq Envelopes \X Slots  BY DEF Due, Members, StartInv, Types
    <3> QED  BY <2>0, <3>1 DEF Dispatch, StartInv, Types
  <2>4. mailbox' \in [Groups -> SUBSET Envelopes] /\ ticks' \in [Groups -> Nat]
    BY <1>1 DEF GroupDispatches, StartInv, Types
  <2>5. UNCHANGED <<closed, group, handled, startVars, stopVars, tickerVars, sendVars>>
    BY <1>1 DEF GroupDispatches
  <2> QED
    BY <2>2, <2>3, <2>4, <2>5, <2>6 DEF StartInv, Types, startVars, stopVars, tickerVars, sendVars
<1>2. CASE GroupExits(g)
  BY <1>2 DEF GroupExits, StartInv, Types, startVars, stopVars, queueVars, tickerVars, sendVars
<1> QED  BY <1>1, <1>2 DEF GroupStep

LEMMA TypesActor ==
  ASSUME StartInv, NEW s \in Slots, ActorStep(s) \/ HandlerBlocks(s)
  PROVE  Types' /\ UNCHANGED <<startVars, sendVars>>
<1> USE DEF StartInv, Types, startVars, stopVars, queueVars, tickerVars, sendVars
<1>1. CASE Handle(s)
  <2>1. PICK e \in work[s] : /\ work' = [work EXCEPT ![s] = work[s] \ {e}]
                             /\ handled' = handled \union {<<e, s>>}
    BY <1>1 DEF Handle
  <2>2. e \in Envelopes  OBVIOUS
  <2>3. work' \in [Slots -> SUBSET Envelopes] /\ handled' \subseteq Envelopes \X Slots
    BY <2>1, <2>2
  <2> QED  BY <1>1, <2>3 DEF Handle
<1>2. CASE ActorExits(s)  BY <1>2 DEF ActorExits
<1>3. CASE HandlerBlocks(s)  BY <1>3 DEF HandlerBlocks
<1> QED  BY <1>1, <1>2, <1>3 DEF ActorStep

(* Start happens once, and types are right. *)
BaseInv == StartInv /\ UnderWay

LEMMA BaseInit == Init => BaseInv
<1>1. Init => UnderWay  BY DEF Init, UnderWay
<1> QED  BY <1>1, OnceInit, TypesInit DEF BaseInv, StartInv

LEMMA BaseStep == BaseInv /\ [Next]_vars => BaseInv'
<1> SUFFICES ASSUME BaseInv, [Next]_vars PROVE BaseInv'
  OBVIOUS
<1> USE DEF BaseInv, StartInv
<1>a. ASSUME UNCHANGED startVars, UNCHANGED sendVars PROVE UnderWay'
  BY <1>a DEF UnderWay, startVars, sendVars
<1>1. CASE UNCHANGED vars
  <2>1. Types' = Types  BY <1>1 DEF vars, Types, startVars, stopVars, queueVars, tickerVars, workVars, sendVars
  <2> QED  BY <1>1, <1>a, <2>1, OnceFrame DEF vars
<1>2. ASSUME NEW p \in Starters, CheckStopped(p) \/ StartStep(p) PROVE BaseInv'
  <2>1. UNCHANGED sendVars /\ (router => router')
    BY <1>2 DEF CheckStopped, StartStep, Claim, AllocateGroups, NewGroup, SetRouter, LaunchGroup, LaunchTicker
  <2>2. UnderWay'  BY <2>1 DEF UnderWay, sendVars
  <2> QED  BY <1>2, <2>2, OnceStart, TypesStart
<1>3. ASSUME NEW p \in Stoppers, BeginStop(p) \/ StopStep(p) PROVE BaseInv'
  <2>1. UNCHANGED sendVars
    BY <1>3 DEF BeginStop, StopStep, StopTicker, ReadGroups, CloseGroup, StopPanics, WaitReturns, DeadlineExpires
  <2> QED  BY <1>3, <2>1, <1>a, TypesStop, OnceFrame
<1>4. CASE TickerFires \/ TickGroup \/ TickerExits
  <2>1. UNCHANGED sendVars  BY <1>4 DEF TickerFires, TickGroup, TickerExits
  <2> QED  BY <1>4, <2>1, <1>a, TypesTicker, OnceFrame
<1>5. ASSUME NEW p \in Senders, Send(p) \/ SendStep(p) PROVE BaseInv'
  BY <1>5, TypesSend, UnderWaySend, OnceFrame
<1>6. ASSUME NEW g \in Groups, GroupStep(g) PROVE BaseInv'
  BY <1>6, <1>a, TypesGroup, OnceFrame
<1>7. ASSUME NEW s \in Slots, ActorStep(s) \/ HandlerBlocks(s) PROVE BaseInv'
  BY <1>7, <1>a, TypesActor, OnceFrame
<1> QED  BY <1>1, <1>2, <1>3, <1>4, <1>5, <1>6, <1>7 DEF Next

LEMMA BaseHolds == Spec => []BaseInv
BY BaseInit, BaseStep, PTL DEF Spec

(* The types of all variables; and whoever finds a router finds all groups behind *)
(* it, however many calls of Start there are.                                    *)
THEOREM TypeCorrect == Spec => []TypeOK
<1>1. BaseInv => TypeOK  BY DEF BaseInv, StartInv, Types, Once, TypeOK
<1> QED  BY <1>1, BaseHolds, PTL

-----------------------------------------------------------------------------
(* The entry limit: a sender past its check counts as if its envelope were there. *)

Past(g) == {p \in Senders : pc[p] = "checked" /\ Bucket(p) = g}

BookedAt(g) == /\ IsFiniteSet(mailbox[g])
               /\ Cardinality(mailbox[g]) + Cardinality(Past(g))
                    <= DepthLimit - 1 + Cardinality(SendersTo(g))
Booked == \A g \in Groups : BookedAt(g)

(* Whoever is past a check sends to the group of the bucket. *)
ToGo == \A p \in Senders : todo[p] \subseteq Buckets(p)

LEMMA Finite == /\ IsFiniteSet(Senders) /\ Cardinality(Senders) \in Nat
                /\ \A S \in SUBSET Senders : /\ IsFiniteSet(S) /\ Cardinality(S) \in Nat
                                              /\ Cardinality(S) <= Cardinality(Senders)
<1>1. IsFiniteSet(Senders)  BY CallersAssumption
<1>2. ASSUME NEW S \in SUBSET Senders
      PROVE  IsFiniteSet(S) /\ Cardinality(S) \in Nat /\ Cardinality(S) <= Cardinality(Senders)
  BY <1>1, FS_Subset, FS_CardinalityType
<1> QED  BY <1>1, <1>2, FS_CardinalityType

LEMMA BucketIsLeast ==
  ASSUME NEW p \in Senders
  PROVE  Bucket(p) = LeastOf(todo[p]) /\ Bucket(p)' = LeastOf(todo'[p])
<1>1. Bucket(p) = LeastOf(todo[p])  BY DEF Bucket, LeastOf
<1>2. Bucket(p)' = LeastOf(todo'[p])  BY DEF Bucket, LeastOf
<1> QED  BY <1>1, <1>2

LEMMA FewPast ==
  ASSUME BaseInv', ToGo', NEW g \in Groups
  PROVE  /\ Cardinality(Past(g)') \in Nat
         /\ Cardinality(Past(g)') <= Cardinality(SendersTo(g))
<1>0. SendersTo(g)' = SendersTo(g)  BY DEF SendersTo, Buckets
<1>1. ASSUME NEW p \in Past(g)' PROVE p \in SendersTo(g)
  <2>1. p \in Senders /\ pc'[p] = "checked" /\ Bucket(p)' = g  BY DEF Past
  <2>2. todo'[p] # {} /\ todo'[p] \in SUBSET Groups
    BY <2>1 DEF BaseInv, StartInv, Types, UnderWay
  <2>3. g \in todo'[p]  BY <2>1, <2>2, LeastExists, BucketIsLeast
  <2>4. todo'[p] \subseteq Buckets(p)  BY <2>1 DEF ToGo, Buckets
  <2> QED  BY <2>1, <2>3, <2>4 DEF SendersTo
<1>2. SendersTo(g) \in SUBSET Senders /\ Past(g)' \in SUBSET Senders  BY DEF SendersTo, Past
<1>3. Past(g)' \subseteq SendersTo(g)  BY <1>1
<1>4. IsFiniteSet(SendersTo(g)) /\ Cardinality(SendersTo(g)) \in Nat /\ Cardinality(Past(g)') \in Nat
  BY <1>2, Finite
<1> QED  BY <1>3, <1>4, FS_Subset

(* A step of one sender leaves the others where they are. *)
LEMMA OthersStay ==
  ASSUME Types, NEW p \in Senders, Send(p) \/ SendStep(p), NEW q \in Senders, q # p
  PROVE  pc'[q] = pc[q] /\ todo'[q] = todo[q] /\ Bucket(q)' = Bucket(q)
         /\ dropped'[q] = dropped[q] /\ result'[q] = result[q]
<1>1. pc'[q] = pc[q]
  BY DEF Types, SendStep, Send, CheckDepth, Enqueue, RouterReturns
<1>2. todo'[q] = todo[q] /\ dropped'[q] = dropped[q]
  BY DEF Types, SendStep, Send, CheckDepth, Enqueue, RouterReturns, Drop
<1>3. result'[q] = result[q]
  BY DEF Types, SendStep, Send, CheckDepth, Enqueue, RouterReturns, Returns
<1> QED  BY <1>1, <1>2, <1>3, BucketIsLeast

(* Where no more waits and nobody new is past the check, nothing is booked. *)
LEMMA BooksLess ==
  ASSUME NEW g \in Groups, BookedAt(g), mailbox'[g] \subseteq mailbox[g], Past(g)' \subseteq Past(g)
  PROVE  BookedAt(g)'
<1>1. Past(g) \in SUBSET Senders /\ Past(g)' \in SUBSET Senders  BY DEF Past
<1>2. /\ Cardinality(Past(g)) \in Nat /\ Cardinality(Past(g)') \in Nat
      /\ Cardinality(Past(g)') <= Cardinality(Past(g))
  BY <1>1, Finite, FS_Subset
<1>3. /\ IsFiniteSet(mailbox'[g]) /\ Cardinality(mailbox'[g]) \in Nat
      /\ Cardinality(mailbox[g]) \in Nat
      /\ Cardinality(mailbox'[g]) <= Cardinality(mailbox[g])
  BY FS_Subset, FS_CardinalityType DEF BookedAt
<1>4. Cardinality(SendersTo(g)) \in Nat /\ SendersTo(g)' = SendersTo(g)
  <2>1. SendersTo(g) \in SUBSET Senders  BY DEF SendersTo
  <2> QED  BY <2>1, Finite DEF SendersTo, Buckets
<1> QED  BY <1>2, <1>3, <1>4, LimitIsNumber DEF BookedAt

LEMMA BookedSend ==
  ASSUME DepthLimit > 0, BaseInv, BaseInv', ToGo', Booked,
         NEW p \in Senders, Send(p) \/ SendStep(p), NEW g \in Groups
  PROVE  BookedAt(g)'
<1> USE DEF BaseInv, StartInv
<1>0. Past(g)' \ {p} \subseteq Past(g)  BY OthersStay DEF Past
<1>a. BookedAt(g)  BY DEF Booked
<1>c. Cardinality(SendersTo(g)) \in Nat /\ SendersTo(g)' = SendersTo(g)
  <2>1. SendersTo(g) \in SUBSET Senders  BY DEF SendersTo
  <2> QED  BY <2>1, Finite DEF SendersTo, Buckets
<1>b. ASSUME pc'[p] # "checked", mailbox'[g] = mailbox[g] PROVE BookedAt(g)'
  <2>1. Past(g)' \subseteq Past(g)  BY <1>0, <1>b DEF Past
  <2> QED  BY <1>a, <1>b, <2>1, BooksLess
<1>1. CASE Send(p)
  <2>1. pc'[p] # "checked" /\ mailbox' = mailbox
    BY <1>1 DEF Send, Types, queueVars
  <2> QED  BY <2>1, <1>b
<1>2. CASE CheckDepth(p)
  <2>0. pc[p] = "routing" /\ mailbox' = mailbox  BY <1>2 DEF CheckDepth, queueVars
  <2>1. CASE ~Passes(Bucket(p))
    <3>1. pc'[p] # "checked"  BY <1>2, <2>0, <2>1 DEF CheckDepth
    <3> QED  BY <2>0, <3>1, <1>b
  <2>2. CASE Passes(Bucket(p)) /\ Bucket(p) = g
    <3>1. ticks[g] \in Nat  BY DEF Types
    <3>2. Cardinality(mailbox[g]) + ticks[g] < DepthLimit  BY <2>2 DEF Passes
    <3>3. IsFiniteSet(mailbox[g]) /\ Cardinality(mailbox[g]) \in Nat
      BY <1>a, FS_CardinalityType DEF BookedAt
    <3>4. Cardinality(Past(g)') \in Nat /\ Cardinality(Past(g)') <= Cardinality(SendersTo(g))
      BY FewPast
    <3> QED  BY <1>c, <2>0, <3>1, <3>2, <3>3, <3>4, LimitIsNumber DEF BookedAt
  <2>3. CASE Passes(Bucket(p)) /\ Bucket(p) # g
    <3>1. UNCHANGED todo  BY <1>2, <2>3 DEF CheckDepth
    <3>2. Bucket(p)' # g  BY <2>3, <3>1, BucketIsLeast
    <3>3. Past(g)' \subseteq Past(g)  BY <1>0, <3>2 DEF Past
    <3> QED  BY <1>a, <2>0, <3>3, BooksLess
  <2> QED  BY <2>1, <2>2, <2>3
<1>3. CASE Enqueue(p)
  <2>0. pc[p] = "checked" /\ pc'[p] # "checked"  BY <1>3 DEF Enqueue, Types
  <2>1. CASE closed[Bucket(p)] \/ Bucket(p) # g
    <3>1. mailbox'[g] = mailbox[g]  BY <1>3, <2>1 DEF Enqueue, Types
    <3> QED  BY <2>0, <3>1, <1>b
  <2>2. CASE ~closed[Bucket(p)] /\ Bucket(p) = g
    <3>1. mailbox'[g] = mailbox[g] \union {Current(p)}  BY <1>3, <2>2 DEF Enqueue, Types
    <3>2. /\ IsFiniteSet(mailbox[g]) /\ IsFiniteSet(mailbox'[g])
          /\ Cardinality(mailbox[g]) \in Nat /\ Cardinality(mailbox'[g]) \in Nat
          /\ Cardinality(mailbox'[g]) <= Cardinality(mailbox[g]) + 1
      <4>1. IsFiniteSet(mailbox[g])  BY <1>a DEF BookedAt
      <4>2. Cardinality(mailbox[g]) \in Nat  BY <4>1, FS_CardinalityType
      <4>3. /\ IsFiniteSet(mailbox[g] \cup {Current(p)})
            /\ Cardinality(mailbox[g] \cup {Current(p)}) =
                 IF Current(p) \in mailbox[g] THEN Cardinality(mailbox[g]) ELSE Cardinality(mailbox[g]) + 1
        BY <4>1, FS_AddElement
      <4> QED  BY <3>1, <4>1, <4>2, <4>3
    <3>3. Past(g)' \subseteq Past(g) \ {p} /\ p \in Past(g)
      BY <1>0, <2>0, <2>2 DEF Past
    <3>4. Past(g) \in SUBSET Senders /\ Past(g)' \in SUBSET Senders  BY DEF Past
    <3>5. Cardinality(Past(g) \ {p}) = Cardinality(Past(g)) - 1 /\ IsFiniteSet(Past(g) \ {p})
      BY <3>3, <3>4, Finite, FS_RemoveElement
    <3>6. Cardinality(Past(g)') <= Cardinality(Past(g)) - 1
      BY <3>3, <3>5, FS_Subset
    <3>7. Cardinality(Past(g)) \in Nat /\ Cardinality(Past(g)') \in Nat  BY <3>4, Finite
    <3> QED  BY <1>a, <1>c, <3>2, <3>6, <3>7, LimitIsNumber DEF BookedAt
  <2> QED  BY <2>1, <2>2
<1>4. CASE RouterReturns(p)
  <2>1. pc'[p] # "checked" /\ mailbox' = mailbox
    BY <1>4 DEF RouterReturns, Types, queueVars
  <2> QED  BY <2>1, <1>b
<1> QED  BY <1>1, <1>2, <1>3, <1>4 DEF SendStep

(* Everybody else only takes from the queues. *)
LEMMA MailboxesShrink ==
  ASSUME BaseInv, [Next]_vars
  PROVE  \/ \E p \in Senders : Send(p) \/ SendStep(p)
         \/ UNCHANGED sendVars /\ \A g \in Groups : mailbox'[g] \subseteq mailbox[g]
<1> USE DEF BaseInv, StartInv
<1> DEFINE Shrinks == UNCHANGED sendVars /\ \A g \in Groups : mailbox'[g] \subseteq mailbox[g]
<1>1. CASE UNCHANGED vars  BY <1>1 DEF vars, queueVars
<1>2. ASSUME NEW p \in Starters, CheckStopped(p) \/ StartStep(p) PROVE Shrinks
  <2>1. CASE NewGroup(p)
    <3>1. UNCHANGED sendVars /\ mailbox' = [mailbox EXCEPT ![made] = {}]  BY <2>1 DEF NewGroup
    <3> QED  BY <3>1 DEF Types
  <2>2. CASE ~NewGroup(p)
    BY <1>2, <2>2 DEF CheckStopped, StartStep, Claim, AllocateGroups, SetRouter, LaunchGroup,
                      LaunchTicker, queueVars
  <2> QED  BY <2>1, <2>2
<1>3. ASSUME NEW p \in Stoppers, BeginStop(p) \/ StopStep(p) PROVE Shrinks
  BY <1>3 DEF BeginStop, StopStep, StopTicker, ReadGroups, CloseGroup, StopPanics, WaitReturns,
              DeadlineExpires, queueVars
<1>4. CASE TickerFires \/ TickGroup \/ TickerExits
  BY <1>4 DEF TickerFires, TickGroup, TickerExits, queueVars
<1>6. ASSUME NEW g \in Groups, GroupStep(g) PROVE Shrinks
  <2>1. UNCHANGED sendVars  BY <1>6, TypesGroup
  <2>2. mailbox' = [mailbox EXCEPT ![g] = {}] \/ mailbox' = mailbox
    BY <1>6 DEF GroupStep, GroupDispatches, GroupExits, queueVars
  <2> QED  BY <2>1, <2>2 DEF Types
<1>7. ASSUME NEW s \in Slots, ActorStep(s) \/ HandlerBlocks(s) PROVE Shrinks
  BY <1>7 DEF ActorStep, Handle, ActorExits, HandlerBlocks, queueVars
<1> QED  BY <1>1, <1>2, <1>3, <1>4, <1>6, <1>7 DEF Next

LEMMA ToGoStep ==
  ASSUME BaseInv, ToGo, [Next]_vars
  PROVE  ToGo'
<1>1. CASE UNCHANGED sendVars  BY <1>1 DEF ToGo, Buckets, sendVars
<1>2. ASSUME NEW p \in Senders, Send(p) \/ SendStep(p) PROVE ToGo'
  <2>1. todo'[p] = Buckets(p) \/ todo'[p] \subseteq todo[p]
    BY <1>2 DEF Send, SendStep, CheckDepth, Enqueue, RouterReturns, Drop, BaseInv, StartInv, Types
  <2>2. \A q \in Senders : q # p => todo'[q] = todo[q]
    BY <1>2, OthersStay DEF BaseInv, StartInv
  <2>3. \A q \in Senders : Buckets(q)' = Buckets(q)  BY DEF Buckets
  <2> QED  BY <2>1, <2>2, <2>3 DEF ToGo
<1> QED  BY <1>1, <1>2, MailboxesShrink

LEMMA BookedStep ==
  ASSUME DepthLimit > 0, BaseInv, BaseInv', ToGo, Booked, [Next]_vars
  PROVE  ToGo' /\ Booked'
<1>0. ToGo'  BY ToGoStep
<1>1. CASE \E p \in Senders : Send(p) \/ SendStep(p)
  <2>1. \A g \in Groups : BookedAt(g)'  BY <1>0, <1>1, BookedSend
  <2> QED  BY <1>0, <2>1 DEF Booked
<1>2. CASE UNCHANGED sendVars /\ \A g \in Groups : mailbox'[g] \subseteq mailbox[g]
  <2>1. ASSUME NEW g \in Groups PROVE BookedAt(g)'
    <3>1. \A q \in Senders : Bucket(q)' = Bucket(q)  BY <1>2, BucketIsLeast DEF sendVars
    <3>2. Past(g)' \subseteq Past(g)  BY <1>2, <3>1 DEF Past, sendVars
    <3> QED  BY <1>2, <3>2, BooksLess DEF Booked
  <2> QED  BY <1>0, <2>1 DEF Booked
<1> QED  BY <1>0, <1>1, <1>2, MailboxesShrink

(* Those who send to a group overrun the limit that enqueueGroup checks by no more *)
(* than one each, for all of them but one.                                         *)
THEOREM EntryOvershootBounded == Spec => []EntryOvershoot
<1>1. CASE DepthLimit > 0
  <2>0. \A g \in Groups : Cardinality(SendersTo(g)) \in Nat
    <3>1. \A g \in Groups : SendersTo(g) \in SUBSET Senders  BY DEF SendersTo
    <3> QED  BY <3>1, Finite
  <2>1. Init => ToGo /\ Booked
    <3> SUFFICES ASSUME Init, NEW g \in Groups PROVE BookedAt(g)
      BY DEF Booked, Init, ToGo
    <3>1. Past(g) = {} /\ mailbox[g] = {}  BY DEF Init, Past
    <3>2. IsFiniteSet(mailbox[g]) /\ Cardinality(mailbox[g]) = 0 /\ Cardinality(Past(g)) = 0
      BY <3>1, FS_EmptySet
    <3> QED  BY <1>1, <2>0, <3>2, LimitIsNumber DEF BookedAt
  <2>2. BaseInv /\ BaseInv' /\ ToGo /\ Booked /\ [Next]_vars => ToGo' /\ Booked'
    BY <1>1, BookedStep
  <2>3. Booked => EntryOvershoot
    <3> SUFFICES ASSUME Booked, NEW g \in Groups
                 PROVE  Cardinality(mailbox[g]) <= DepthLimit + Cardinality(SendersTo(g)) - 1
      BY DEF EntryOvershoot
    <3>1. Past(g) \in SUBSET Senders  BY DEF Past
    <3>2. Cardinality(Past(g)) \in Nat  BY <3>1, Finite
    <3>3. Cardinality(mailbox[g]) \in Nat  BY FS_CardinalityType DEF Booked, BookedAt
    <3> QED  BY <2>0, <3>2, <3>3, LimitIsNumber DEF Booked, BookedAt
  <2> QED  BY <2>1, <2>2, <2>3, BaseHolds, PTL DEF Spec
<1>2. CASE ~(DepthLimit > 0)
  <2>1. EntryOvershoot  BY <1>2 DEF EntryOvershoot
  <2> QED  BY <2>1, PTL
<1> QED  BY <1>1, <1>2

-----------------------------------------------------------------------------
(* Stop.  Groups are launched in order, the ticker after all of them. *)
Launch ==
  /\ \A g \in Groups : group[g] = "none" <=> g >= launched
  /\ ticker # "none" => launched = GroupCount
  /\ tickAt < GroupCount => ticker # "none"

(* A group that is gone stays empty, and without a router there is nothing. *)
Drained ==
  /\ \A g \in Groups : group[g] = "gone" => closed[g] /\ mailbox[g] = {} /\ ticks[g] = 0
  /\ \A g \in Groups : g < closing => closed[g]
  /\ closing <= made \/ closing = 0
  /\ ~router => \A g \in Groups : mailbox[g] = {} /\ ticks[g] = 0

(* An actor leaves behind its group, with nothing to do. *)
Workers ==
  \A s \in Slots : /\ actor[s] = "none" => work[s] = {}
                   /\ actor[s] = "gone" => work[s] = {} /\ group[GroupIndex(s)] = "gone"

(* Who waits has closed all groups that there are. *)
Stopping ==
  /\ \A p \in Stoppers : stop[p] \notin {"idle", "second"} => stopped
  /\ stopped /\ ~raced => ~Starting
  /\ \A p \in Stoppers : stop[p] \in {"waiting", "nil", "late"} /\ ~raced
                           => made < 0 \/ closing = GroupCount

LEMMA LaunchStep ==
  ASSUME BaseInv, Launch, [Next]_vars
  PROVE  Launch'
<1> USE Numbers DEF BaseInv, StartInv
<1>a. ASSUME UNCHANGED <<launched, group, ticker, tickAt>> PROVE Launch'
  BY <1>a DEF Launch
<1>1. CASE UNCHANGED vars  BY <1>1, <1>a DEF vars, startVars, tickerVars, workVars
<1>2. ASSUME NEW p \in Starters, CheckStopped(p) \/ StartStep(p) PROVE Launch'
  <2>1. CASE CheckStopped(p) \/ Claim(p) \/ AllocateGroups(p) \/ NewGroup(p)
    BY <2>1, <1>a DEF CheckStopped, Claim, AllocateGroups, NewGroup, tickerVars, workVars
  <2>2. CASE SetRouter(p)
    <3>1. launched = 0 /\ launched' = 0 /\ UNCHANGED <<group, ticker, tickAt>>
      BY <2>2 DEF SetRouter, StartGoes, Once, tickerVars, workVars
    <3> QED  BY <3>1, <1>a
  <2>3. CASE LaunchGroup(p)
    <3>1. /\ launched < GroupCount /\ launched' = launched + 1 /\ launched \in Groups
          /\ group' = [group EXCEPT ![launched] = "running"]
          /\ UNCHANGED <<ticker, tickAt>>
      BY <2>3 DEF LaunchGroup, tickerVars, Types, Groups
    <3> QED  BY <3>1 DEF Launch, Types
  <2>4. CASE LaunchTicker(p)
    BY <2>4 DEF LaunchTicker, Launch, workVars
  <2> QED  BY <1>2, <2>1, <2>2, <2>3, <2>4 DEF StartStep
<1>3. ASSUME NEW p \in Stoppers, BeginStop(p) \/ StopStep(p) PROVE Launch'
  <2>1. CASE StopTicker(p)  BY <2>1 DEF StopTicker, Launch, startVars, workVars
  <2>2. CASE ~StopTicker(p)
    BY <1>3, <2>2, <1>a DEF BeginStop, StopStep, ReadGroups, CloseGroup, StopPanics, WaitReturns,
       DeadlineExpires, startVars, tickerVars, workVars
  <2> QED  BY <2>1, <2>2
<1>4. CASE TickerFires \/ TickGroup \/ TickerExits
  BY <1>4 DEF TickerFires, TickGroup, TickerExits, Launch, startVars, workVars, Types
<1>5. ASSUME NEW p \in Senders, Send(p) \/ SendStep(p) PROVE Launch'
  BY <1>5, <1>a DEF Send, SendStep, CheckDepth, Enqueue, RouterReturns, startVars, tickerVars, workVars
<1>6. ASSUME NEW g \in Groups, GroupStep(g) PROVE Launch'
  <2>1. UNCHANGED <<launched, ticker, tickAt>>
    BY <1>6 DEF GroupStep, GroupDispatches, GroupExits, startVars, tickerVars
  <2>2. CASE GroupDispatches(g)  BY <2>1, <2>2, <1>a DEF GroupDispatches
  <2>3. CASE GroupExits(g)
    <3>1. group[g] = "running" /\ group' = [group EXCEPT ![g] = "gone"]  BY <2>3 DEF GroupExits
    <3> QED  BY <2>1, <3>1 DEF Launch, Types
  <2> QED  BY <1>6, <2>2, <2>3 DEF GroupStep
<1>7. ASSUME NEW s \in Slots, ActorStep(s) \/ HandlerBlocks(s) PROVE Launch'
  BY <1>7, <1>a DEF ActorStep, Handle, ActorExits, HandlerBlocks, startVars, tickerVars
<1> QED  BY <1>1, <1>2, <1>3, <1>4, <1>5, <1>6, <1>7 DEF Next

LEMMA DrainedStep ==
  ASSUME BaseInv, Launch, Drained, [Next]_vars
  PROVE  Drained'
<1> USE Numbers DEF BaseInv, StartInv
<1>a. ASSUME UNCHANGED <<group, closed, mailbox, ticks, closing, made, router>> PROVE Drained'
  BY <1>a DEF Drained
<1>1. CASE UNCHANGED vars
  BY <1>1, <1>a DEF vars, startVars, stopVars, queueVars, tickerVars, workVars
<1>2. ASSUME NEW p \in Starters, CheckStopped(p) \/ StartStep(p) PROVE Drained'
  <2>1. CASE CheckStopped(p) \/ Claim(p) \/ LaunchTicker(p)
    BY <2>1, <1>a DEF CheckStopped, Claim, LaunchTicker, stopVars, queueVars, workVars
  <2>2. CASE AllocateGroups(p)
    <3>1. made = -1 /\ made' = 0 /\ UNCHANGED <<group, closed, mailbox, ticks, closing, router>>
      BY <2>2 DEF AllocateGroups, StartGoes, Once, stopVars, queueVars, workVars
    <3> QED  BY <3>1 DEF Drained, Types
  <2>3. CASE NewGroup(p)
    <3>1. /\ ~router /\ made >= 0 /\ made < GroupCount /\ made' = made + 1 /\ made \in Groups
          /\ UNCHANGED <<group, closing, router>>
      BY <2>3 DEF NewGroup, Once, Types, Groups, stopVars, workVars
    <3>2. launched = 0 /\ group[made] = "none"
      <4>1. launched = 0  BY <3>1 DEF Once
      <4> QED  BY <3>1, <4>1 DEF Launch
    <3>3. /\ mailbox' = [mailbox EXCEPT ![made] = {}]
          /\ closed' = [closed EXCEPT ![made] = FALSE]
          /\ ticks' = [ticks EXCEPT ![made] = 0]
      BY <2>3 DEF NewGroup
    <3>4. \A g \in Groups : mailbox'[g] = {} /\ ticks'[g] = 0
      BY <3>1, <3>3 DEF Drained, Types
    <3>5. \A g \in Groups : g # made => closed'[g] = closed[g]  BY <3>3 DEF Types
    <3>6. \A g \in Groups : g < closing => g # made  BY <3>1 DEF Drained, Types
    <3>7. closing <= made'  BY <3>1 DEF Drained, Types
    <3> QED  BY <3>1, <3>2, <3>4, <3>5, <3>6, <3>7 DEF Drained
  <2>4. CASE SetRouter(p)
    BY <2>4 DEF SetRouter, Drained, stopVars, queueVars, workVars
  <2>5. CASE LaunchGroup(p)
    <3>1. /\ UNCHANGED <<closed, mailbox, ticks, closing, made, router>>
          /\ group' = [group EXCEPT ![launched] = "running"]
      BY <2>5 DEF LaunchGroup, stopVars, queueVars
    <3> QED  BY <3>1 DEF Drained, Types
  <2> QED  BY <1>2, <2>1, <2>2, <2>3, <2>4, <2>5 DEF StartStep
<1>3. ASSUME NEW p \in Stoppers, BeginStop(p) \/ StopStep(p) PROVE Drained'
  <2>1. CASE CloseGroup(p)
    <3>1. /\ closing < made /\ closing' = closing + 1 /\ closing \in Groups
          /\ closed' = [closed EXCEPT ![closing] = TRUE]
          /\ UNCHANGED <<group, mailbox, ticks, made, router>>
      BY <2>1 DEF CloseGroup, startVars, workVars, Types, Groups
    <3>2. \A g \in Groups : closed[g] => closed'[g]  BY <3>1 DEF Types
    <3>3. \A g \in Groups : g < closing' => closed'[g]  BY <3>1, <3>2 DEF Drained, Types
    <3>4. closing' <= made'  BY <3>1 DEF Types
    <3> QED  BY <3>1, <3>2, <3>3, <3>4 DEF Drained
  <2>2. CASE ~CloseGroup(p)
    BY <1>3, <2>2, <1>a DEF BeginStop, StopStep, StopTicker, ReadGroups, StopPanics, WaitReturns,
       DeadlineExpires, startVars, queueVars, workVars
  <2> QED  BY <2>1, <2>2
<1>4. CASE TickerFires \/ TickerExits
  BY <1>4, <1>a DEF TickerFires, TickerExits, startVars, stopVars, queueVars, workVars
<1>5. CASE TickGroup
  <2>1. router /\ tickAt \in Groups
    BY <1>5 DEF TickGroup, Launch, Once, Types, Groups
  <2>2. /\ UNCHANGED <<group, closed, mailbox, closing, made, router>>
        /\ ticks' = [ticks EXCEPT ![tickAt] = IF closed[tickAt] THEN ticks[tickAt] ELSE ticks[tickAt] + 1]
    BY <1>5 DEF TickGroup, startVars, stopVars, workVars
  <2>3. \A g \in Groups : closed[g] => ticks'[g] = ticks[g]  BY <2>2 DEF Types
  <2> QED  BY <2>1, <2>2, <2>3 DEF Drained
<1>6. ASSUME NEW p \in Senders, Send(p) \/ SendStep(p) PROVE Drained'
  <2>1. CASE Enqueue(p)
    <3>1. router /\ UNCHANGED <<group, closed, ticks, closing, made, router>>
      BY <2>1 DEF Enqueue, UnderWay, startVars, stopVars, workVars
    <3>2. \A g \in Groups : closed[g] => mailbox'[g] = mailbox[g]
      BY <2>1 DEF Enqueue, Types
    <3> QED  BY <3>1, <3>2 DEF Drained
  <2>2. CASE ~Enqueue(p)
    BY <1>6, <2>2, <1>a DEF Send, SendStep, CheckDepth, RouterReturns, startVars, stopVars, queueVars, workVars
  <2> QED  BY <2>1, <2>2
<1>7. ASSUME NEW g \in Groups, GroupStep(g) PROVE Drained'
  <2>1. CASE GroupDispatches(g)
    <3>1. /\ UNCHANGED <<group, closed, closing, made, router>>
          /\ mailbox' = [mailbox EXCEPT ![g] = {}] /\ ticks' = [ticks EXCEPT ![g] = 0]
      BY <2>1 DEF GroupDispatches, startVars, stopVars
    <3>2. \A h \in Groups : /\ mailbox'[h] = {} \/ mailbox'[h] = mailbox[h]
                            /\ ticks'[h] = 0 \/ ticks'[h] = ticks[h]
      BY <3>1 DEF Types
    <3> QED  BY <3>1, <3>2 DEF Drained
  <2>2. CASE GroupExits(g)
    <3>1. /\ UNCHANGED <<closed, mailbox, ticks, closing, made, router>>
          /\ group' = [group EXCEPT ![g] = "gone"]
          /\ closed[g] /\ mailbox[g] = {} /\ ticks[g] = 0
      BY <2>2 DEF GroupExits, startVars, stopVars, queueVars
    <3> QED  BY <3>1 DEF Drained, Types
  <2> QED  BY <1>7, <2>1, <2>2 DEF GroupStep
<1>8. ASSUME NEW s \in Slots, ActorStep(s) \/ HandlerBlocks(s) PROVE Drained'
  BY <1>8, <1>a DEF ActorStep, Handle, ActorExits, HandlerBlocks, startVars, stopVars, queueVars
<1> QED  BY <1>1, <1>2, <1>3, <1>4, <1>5, <1>6, <1>7, <1>8 DEF Next

LEMMA WorkersStep ==
  ASSUME BaseInv, Launch, Workers, [Next]_vars
  PROVE  Workers'
<1> USE DEF BaseInv, StartInv
<1>a. ASSUME UNCHANGED <<actor, work, group>> PROVE Workers'
  BY <1>a DEF Workers
<1>1. CASE UNCHANGED vars  BY <1>1, <1>a DEF vars, workVars
<1>2. ASSUME NEW p \in Starters, CheckStopped(p) \/ StartStep(p) PROVE Workers'
  <2>1. CASE LaunchGroup(p)
    <3>1. /\ launched \in Groups /\ group[launched] = "none"
          /\ UNCHANGED <<actor, work>> /\ group' = [group EXCEPT ![launched] = "running"]
      BY <2>1, Numbers DEF LaunchGroup, Launch, Types, Groups
    <3>2. \A g \in Groups : group[g] = "gone" => group'[g] = "gone"  BY <3>1 DEF Types
    <3> QED  BY <3>1, <3>2, IndexInRange DEF Workers
  <2>2. CASE ~LaunchGroup(p)
    BY <1>2, <2>2, <1>a DEF CheckStopped, StartStep, Claim, AllocateGroups, NewGroup, SetRouter,
       LaunchTicker, workVars
  <2> QED  BY <2>1, <2>2
<1>3. ASSUME NEW p \in Stoppers, BeginStop(p) \/ StopStep(p) PROVE Workers'
  BY <1>3, <1>a DEF BeginStop, StopStep, StopTicker, ReadGroups, CloseGroup, StopPanics, WaitReturns,
     DeadlineExpires, workVars
<1>4. CASE TickerFires \/ TickGroup \/ TickerExits
  BY <1>4, <1>a DEF TickerFires, TickGroup, TickerExits, workVars
<1>5. ASSUME NEW p \in Senders, Send(p) \/ SendStep(p) PROVE Workers'
  BY <1>5, <1>a DEF Send, SendStep, CheckDepth, Enqueue, RouterReturns, workVars
<1>6. ASSUME NEW g \in Groups, GroupStep(g) PROVE Workers'
  <2>1. CASE GroupDispatches(g)
    <3>1. group[g] = "running" /\ group' = group  BY <2>1 DEF GroupDispatches
    <3>0. PICK refused \in SUBSET Due(g) : Dispatch(g, refused)  BY <2>1, DispatchGives
    <3>2. ASSUME NEW s \in Slots
          PROVE  /\ actor'[s] = "none" => work'[s] = {}
                 /\ actor'[s] = "gone" => work'[s] = {} /\ group'[GroupIndex(s)] = "gone"
      <4>1. GroupIndex(s) # g => Taken(g, refused, s) = {}  BY DEF Taken, Due, Members
      <4>2. /\ work'[s] = work[s] \union Taken(g, refused, s)
            /\ actor'[s] = IF Taken(g, refused, s) # {} /\ actor[s] = "none" THEN "running" ELSE actor[s]
        BY <3>0 DEF Dispatch
      <4> QED  BY <3>1, <4>1, <4>2 DEF Workers
    <3> QED  BY <3>2 DEF Workers
  <2>2. CASE GroupExits(g)
    <3>1. group' = [group EXCEPT ![g] = "gone"] /\ UNCHANGED <<actor, work>>
      BY <2>2 DEF GroupExits
    <3>2. \A h \in Groups : group[h] = "gone" => group'[h] = "gone"  BY <3>1 DEF Types
    <3> QED  BY <3>1, <3>2, IndexInRange DEF Workers
  <2> QED  BY <1>6, <2>1, <2>2 DEF GroupStep
<1>7. ASSUME NEW s \in Slots, ActorStep(s) \/ HandlerBlocks(s) PROVE Workers'
  <2>1. CASE Handle(s)
    <3>1. /\ actor[s] = "running" /\ UNCHANGED <<actor, group>>
          /\ \A t \in Slots : t # s => work'[t] = work[t]
      BY <2>1 DEF Handle, Types
    <3> QED  BY <3>1 DEF Workers
  <2>2. CASE ActorExits(s)
    <3>1. /\ actor' = [actor EXCEPT ![s] = "gone"] /\ UNCHANGED <<group, work>>
          /\ work[s] = {} /\ group[GroupIndex(s)] = "gone"
      BY <2>2 DEF ActorExits
    <3>2. \A t \in Slots : actor'[t] = IF t = s THEN "gone" ELSE actor[t]  BY <3>1 DEF Types
    <3> QED  BY <3>1, <3>2 DEF Workers
  <2>3. CASE HandlerBlocks(s)
    <3>1. actor' = [actor EXCEPT ![s] = "blocked"] /\ UNCHANGED <<group, work>>
      BY <2>3 DEF HandlerBlocks
    <3>2. \A t \in Slots : actor'[t] = IF t = s THEN "blocked" ELSE actor[t]  BY <3>1 DEF Types
    <3> QED  BY <3>1, <3>2 DEF Workers
  <2> QED  BY <1>7, <2>1, <2>2, <2>3 DEF ActorStep
<1> QED  BY <1>1, <1>2, <1>3, <1>4, <1>5, <1>6, <1>7 DEF Next

LEMMA StoppingStep ==
  ASSUME BaseInv, Stopping, [Next]_vars
  PROVE  Stopping'
<1> USE Numbers DEF BaseInv, StartInv
<1>a. ASSUME UNCHANGED <<start, stop, stopped, raced, made, closing>> PROVE Stopping'
  BY <1>a DEF Stopping, Starting
<1>1. CASE UNCHANGED vars  BY <1>1, <1>a DEF vars, startVars, stopVars
<1>2. ASSUME NEW p \in Starters, CheckStopped(p) \/ StartStep(p) PROVE Stopping'
  <2>1. UNCHANGED <<stop, stopped, raced, closing>>
    BY <1>2 DEF CheckStopped, StartStep, Claim, AllocateGroups, NewGroup, SetRouter, LaunchGroup,
       LaunchTicker, stopVars
  <2>2. CASE ~stopped \/ raced  BY <2>1, <2>2 DEF Stopping
  <2>3. CASE stopped /\ ~raced
    <3>1. start[p] \in {"idle", "done"}  BY <2>3 DEF Stopping, Starting, Types
    <3>2. CheckStopped(p)
      BY <1>2, <3>1 DEF StartStep, StartGoes, Claim, AllocateGroups, NewGroup, SetRouter,
         LaunchGroup, LaunchTicker
    <3>3. start' = [start EXCEPT ![p] = "done"] /\ made' = made
      BY <2>3, <3>2 DEF CheckStopped, StartGoes
    <3> QED  BY <2>1, <3>3 DEF Stopping, Starting, Types
  <2> QED  BY <2>2, <2>3
<1>3. ASSUME NEW p \in Stoppers, BeginStop(p) \/ StopStep(p) PROVE Stopping'
  <2>0. UNCHANGED startVars  BY <1>3, TypesStop
  <2>1. CASE BeginStop(p)
    <3>1. /\ stop' = [stop EXCEPT ![p] = IF stopped THEN "second" ELSE "begun"]
          /\ stopped' = TRUE /\ raced' = (raced \/ Starting) /\ closing' = closing
      BY <2>1 DEF BeginStop, StopGoes
    <3>2. ~raced' => ~raced /\ ~Starting  BY <3>1
    <3>3. Starting' <=> Starting  BY <2>0 DEF Starting, startVars
    <3> QED  BY <2>0, <3>1, <3>2, <3>3 DEF Stopping, startVars, Types
  <2>2. CASE StopTicker(p) \/ ReadGroups(p) \/ StopPanics(p) \/ WaitReturns(p) \/ DeadlineExpires(p)
    <3>1. PICK to : /\ stop' = [stop EXCEPT ![p] = to]
                    /\ stop[p] \notin {"idle", "second"}
                    /\ to \in {"waiting", "nil", "late"} => stop[p] = "waiting" \/ made < 0
      BY <2>2 DEF StopTicker, ReadGroups, StopPanics, WaitReturns, DeadlineExpires, StopGoes
    <3>2. UNCHANGED <<stopped, raced, closing>>
      BY <2>2 DEF StopTicker, ReadGroups, StopPanics, WaitReturns, DeadlineExpires
    <3> QED  BY <2>0, <3>1, <3>2 DEF Stopping, Starting, startVars, Types
  <2>3. CASE CloseGroup(p)
    <3>1. /\ closing < made /\ closing' = closing + 1 /\ UNCHANGED <<stopped, raced>>
          /\ stop[p] = "closing"
          /\ stop' = [stop EXCEPT ![p] = IF closing + 1 < GroupCount THEN "closing" ELSE "waiting"]
      BY <2>3 DEF CloseGroup, StopGoes
    <3>0. ~(made < 0) /\ closing # GroupCount  BY <3>1 DEF Types
    <3>2. \A q \in Stoppers : stop[q] \in {"waiting", "nil", "late"} => raced
      BY <3>0 DEF Stopping
    <3>3. stop'[p] = "waiting" => closing' = GroupCount  BY <3>1 DEF Types
    <3>4. \A q \in Stoppers : q # p => stop'[q] = stop[q]  BY <3>1 DEF Types
    <3>5. stop'[p] \in {"closing", "waiting"} /\ stopped  BY <3>1 DEF Types, Stopping
    <3>6. Starting' <=> Starting  BY <2>0 DEF Starting, startVars
    <3> QED  BY <2>0, <3>1, <3>2, <3>3, <3>4, <3>5, <3>6 DEF Stopping, startVars
  <2> QED  BY <1>3, <2>1, <2>2, <2>3 DEF StopStep
<1>4. CASE TickerFires \/ TickGroup \/ TickerExits
  BY <1>4, <1>a DEF TickerFires, TickGroup, TickerExits, startVars, stopVars
<1>5. ASSUME NEW p \in Senders, Send(p) \/ SendStep(p) PROVE Stopping'
  BY <1>5, <1>a DEF Send, SendStep, CheckDepth, Enqueue, RouterReturns, startVars, stopVars
<1>6. ASSUME NEW g \in Groups, GroupStep(g) PROVE Stopping'
  BY <1>6, <1>a DEF GroupStep, GroupDispatches, GroupExits, startVars, stopVars
<1>7. ASSUME NEW s \in Slots, ActorStep(s) \/ HandlerBlocks(s) PROVE Stopping'
  BY <1>7, <1>a DEF ActorStep, Handle, ActorExits, HandlerBlocks, startVars, stopVars
<1> QED  BY <1>1, <1>2, <1>3, <1>4, <1>5, <1>6, <1>7 DEF Next

(* Nothing runs and nothing is left. *)
Rest == /\ Quiet
        /\ \A g \in Groups : mailbox[g] = {} /\ ticks[g] = 0
        /\ \A s \in Slots : work[s] = {}

LEMMA RestStays ==
  ASSUME BaseInv, Launch, Drained, Stopping, [Next]_vars,
         stopped, ~raced, made < 0 \/ closing = GroupCount, Rest
  PROVE  Rest'
<1> USE Numbers DEF BaseInv, StartInv
<1>a. ASSUME UNCHANGED <<group, actor, mailbox, ticks, work>> PROVE Rest'
  BY <1>a DEF Rest, Quiet
<1>b. router => \A g \in Groups : closed[g]
  BY DEF Once, Drained, Groups
<1>1. CASE UNCHANGED vars  BY <1>1, <1>a DEF vars, workVars, queueVars
<1>2. ASSUME NEW p \in Starters, CheckStopped(p) \/ StartStep(p) PROVE Rest'
  <2>1. start[p] \in {"idle", "done"}  BY DEF Stopping, Starting, Types
  <2>2. CheckStopped(p)
    BY <1>2, <2>1 DEF StartStep, StartGoes, Claim, AllocateGroups, NewGroup, SetRouter,
       LaunchGroup, LaunchTicker
  <2> QED  BY <2>2, <1>a DEF CheckStopped, workVars, queueVars
<1>3. ASSUME NEW p \in Stoppers, BeginStop(p) \/ StopStep(p) PROVE Rest'
  BY <1>3, <1>a DEF BeginStop, StopStep, StopTicker, ReadGroups, CloseGroup, StopPanics, WaitReturns,
     DeadlineExpires, workVars, queueVars
<1>4. CASE TickerFires \/ TickerExits
  BY <1>4, <1>a DEF TickerFires, TickerExits, workVars, queueVars
<1>5. CASE TickGroup
  <2>1. tickAt \in Groups /\ router
    BY <1>5 DEF TickGroup, Launch, Once, Types, Groups
  <2>2. ticks' = ticks  BY <1>5, <2>1, <1>b DEF TickGroup, Types
  <2> QED  BY <1>5, <2>2, <1>a DEF TickGroup, workVars
<1>6. ASSUME NEW p \in Senders, Send(p) \/ SendStep(p) PROVE Rest'
  <2>1. CASE Enqueue(p)
    <3>1. closed[Bucket(p)]  BY <2>1, <1>b, BucketIsToGo DEF Enqueue, UnderWay
    <3> QED  BY <2>1, <3>1, <1>a DEF Enqueue, workVars
  <2>2. CASE ~Enqueue(p)
    BY <1>6, <2>2, <1>a DEF Send, SendStep, CheckDepth, RouterReturns, workVars, queueVars
  <2> QED  BY <2>1, <2>2
<1>7. ASSUME NEW g \in Groups, GroupStep(g) PROVE FALSE
  BY <1>7 DEF GroupStep, GroupDispatches, GroupExits, Rest, Quiet
<1>8. ASSUME NEW s \in Slots, ActorStep(s) \/ HandlerBlocks(s) PROVE FALSE
  BY <1>8 DEF ActorStep, Handle, ActorExits, HandlerBlocks, Rest, Quiet
<1> QED  BY <1>1, <1>2, <1>3, <1>4, <1>5, <1>6, <1>7, <1>8 DEF Next

(* The wait is over: then all groups are gone, or there never were any. *)
LEMMA RestComes ==
  ASSUME BaseInv, Launch, Drained, Workers, Stopping, stopped, ~raced, Quiet
  PROVE  Rest
<1> USE Numbers DEF BaseInv, StartInv
<1>1. ASSUME NEW g \in Groups PROVE mailbox[g] = {} /\ ticks[g] = 0
  <2>1. CASE ~started
    <3>1. ~router  BY <2>1 DEF Once
    <3> QED  BY <3>1 DEF Drained
  <2>2. CASE started
    <3>1. launched = GroupCount  BY <2>2 DEF Once, Active, Stopping, Starting
    <3>2. group[g] = "gone"  BY <3>1 DEF Launch, Quiet, Types, Groups
    <3> QED  BY <3>2 DEF Drained
  <2> QED  BY <2>1, <2>2
<1>2. ASSUME NEW s \in Slots PROVE work[s] = {}
  BY DEF Workers, Quiet, Types
<1> QED  BY <1>1, <1>2 DEF Rest

LEMMA QuietStep ==
  ASSUME BaseInv, Launch, Drained, Workers, Stopping, StopIsQuiet, [Next]_vars
  PROVE  StopIsQuiet'
<1> SUFFICES ASSUME NEW p \in Stoppers, stop'[p] = "nil", ~raced' PROVE Rest'
  BY DEF StopIsQuiet, Rest
<1>1. CASE stop[p] = "nil" /\ ~raced
  <2>1. Rest  BY <1>1 DEF StopIsQuiet, Rest
  <2> QED  BY <1>1, <2>1, RestStays DEF Stopping
<1>2. CASE ~(stop[p] = "nil" /\ ~raced)
  <2>1. WaitReturns(p)
    <3>1. CASE \E q \in Stoppers : BeginStop(q) \/ StopStep(q)
      BY <1>2, <3>1 DEF BaseInv, StartInv, Types, BeginStop, StopStep, StopTicker, ReadGroups, CloseGroup,
         StopPanics, WaitReturns, DeadlineExpires, StopGoes
    <3>2. CASE ~\E q \in Stoppers : BeginStop(q) \/ StopStep(q)
      <4>1. UNCHANGED stopVars
        BY <3>2 DEF Next, vars, CheckStopped, StartStep, Claim, AllocateGroups, NewGroup, SetRouter,
           LaunchGroup, LaunchTicker, TickerFires, TickGroup, TickerExits, Send, SendStep, CheckDepth,
           Enqueue, RouterReturns, GroupStep, GroupDispatches, GroupExits, ActorStep, Handle,
           ActorExits, HandlerBlocks
      <4> QED  BY <1>2, <4>1 DEF stopVars
    <3> QED  BY <3>1, <3>2
  <2>2. Quiet /\ ~raced /\ stop[p] = "waiting"  BY <2>1 DEF WaitReturns, StopGoes
  <2>3. Rest  BY <2>2, RestComes DEF Stopping
  <2>4. Rest' = Rest
    BY <2>1 DEF WaitReturns, Rest, Quiet, workVars, queueVars
  <2> QED  BY <2>3, <2>4
<1> QED  BY <1>1, <1>2

(* Start and Stop together. *)
LifeInv == Launch /\ Drained /\ Workers /\ Stopping /\ StopIsQuiet

LEMMA LifeHolds == Spec => []LifeInv
<1>1. Init => LifeInv
  <2> SUFFICES ASSUME Init PROVE LifeInv
    OBVIOUS
  <2>1. Launch  BY Numbers DEF Init, Launch, Groups
  <2>2. Drained /\ Workers  BY Numbers DEF Init, Drained, Workers, Groups
  <2>3. Stopping /\ StopIsQuiet  BY DEF Init, Stopping, StopIsQuiet
  <2> QED  BY <2>1, <2>2, <2>3 DEF LifeInv
<1>2. BaseInv /\ LifeInv /\ [Next]_vars => LifeInv'
  BY LaunchStep, DrainedStep, WorkersStep, StoppingStep, QuietStep DEF LifeInv
<1> QED  BY <1>1, <1>2, BaseHolds, PTL DEF Spec

(* When the call that stopped the system returns nil, nothing runs and nothing is *)
(* left, from then on, if no call of Start was under way.                         *)
THEOREM StopLeavesNothing == Spec => []StopIsQuiet
<1>1. LifeInv => StopIsQuiet  BY DEF LifeInv
<1> QED  BY <1>1, LifeHolds, PTL

-----------------------------------------------------------------------------
(* Verdicts.  An envelope that a group took for an actor is in one place for it:   *)
(* before it, given to it, behind it or lost.                                      *)
Has(e, s) == Waits(e, s) \/ Given(e, s) \/ Handled(e, s) \/ Lost(e, s)
AtMostOnce(e, s) == /\ Waits(e, s) => ~Given(e, s) /\ ~Handled(e, s) /\ ~Lost(e, s)
                    /\ Given(e, s) => ~Handled(e, s) /\ ~Lost(e, s)
                    /\ Handled(e, s) => ~Lost(e, s)

(* Groups lose nothing without a reason. *)
Reasons == \A x \in lost : MaxMailboxDepth > 0 \/ x[2] \notin Registered

(* The verdicts so far are true. *)
Told(p) == \A n \in 1 .. Len(result[p]) :
             result[p][n] = "nil" <=> To[p] # {} /\ \A s \in To[p] : Has(<<p, n>>, s)

(* Envelopes to come are nowhere. *)
Unsent(p) == \A n \in Nat, s \in To[p] :
               n > Len(result[p]) /\ (pc[p] # "idle" => n # Len(result[p]) + 1) => ~Has(<<p, n>>, s)

(* The envelope under way is where its buckets are done, but for those dropped. *)
Partly(p) ==
  pc[p] # "idle" =>
    /\ todo[p] \subseteq Buckets(p)
    /\ \A s \in To[p] : GroupIndex(s) \in todo[p] => ~Has(Current(p), s)
    /\ dropped[p] = {} => /\ To[p] # {}
                          /\ \A s \in To[p] : GroupIndex(s) \notin todo[p] => Has(Current(p), s)
    /\ dropped[p] # {} => \/ To[p] = {}
                          \/ \E s \in To[p] : GroupIndex(s) \notin todo[p] /\ ~Has(Current(p), s)

Single(p) == \A n \in Nat, s \in To[p] : AtMostOnce(<<p, n>>, s)

Sent(p) == Told(p) /\ Unsent(p) /\ Partly(p) /\ Single(p)

(* Steps of others move envelopes on, and make and lose none. *)
LEMMA Moves ==
  ASSUME BaseInv, Drained, [Next]_vars, ~\E q \in Senders : Send(q) \/ SendStep(q),
         NEW p \in Senders, NEW n \in Nat, NEW s \in To[p], AtMostOnce(<<p, n>>, s)
  PROVE  (Has(<<p, n>>, s)' <=> Has(<<p, n>>, s)) /\ AtMostOnce(<<p, n>>, s)'
<1> DEFINE e == <<p, n>>
<1> USE DEF BaseInv, StartInv
<1>0. s \in Slots /\ GroupIndex(s) \in Groups /\ e[1] = p  BY SlotsAreNumbers, IndexInRange
<1> HIDE DEF e
<1>e. e = <<p, n>>  BY DEF e
<1>s. SUFFICES (Has(e, s)' <=> Has(e, s)) /\ AtMostOnce(e, s)'
  BY <1>e
<1>o. AtMostOnce(e, s)  BY <1>e
<1>a. ASSUME UNCHANGED <<mailbox, work, handled, lost>> PROVE (Has(e, s)' <=> Has(e, s)) /\ AtMostOnce(e, s)'
  BY <1>a, <1>o DEF Has, AtMostOnce, Waits, Given, Handled, Lost
<1>1. CASE UNCHANGED vars  BY <1>1, <1>a DEF vars, queueVars, workVars
<1>2. ASSUME NEW q \in Starters, CheckStopped(q) \/ StartStep(q)
      PROVE  (Has(e, s)' <=> Has(e, s)) /\ AtMostOnce(e, s)'
  <2>1. CASE NewGroup(q)
    <3>1. mailbox[GroupIndex(s)] = {}  BY <2>1, <1>0 DEF NewGroup, Once, Drained
    <3>2. mailbox'[GroupIndex(s)] = {}  BY <2>1, <1>0, <3>1 DEF NewGroup, Types
    <3>3. UNCHANGED <<work, handled, lost>>  BY <2>1 DEF NewGroup, workVars
    <3> QED  BY <3>1, <3>2, <3>3, <1>o DEF Has, AtMostOnce, Waits, Given, Handled, Lost
  <2>2. CASE ~NewGroup(q)
    BY <1>2, <2>2, <1>a DEF CheckStopped, StartStep, Claim, AllocateGroups, SetRouter, LaunchGroup,
       LaunchTicker, queueVars, workVars
  <2> QED  BY <2>1, <2>2
<1>3. ASSUME NEW q \in Stoppers, BeginStop(q) \/ StopStep(q)
      PROVE  (Has(e, s)' <=> Has(e, s)) /\ AtMostOnce(e, s)'
  BY <1>3, <1>a DEF BeginStop, StopStep, StopTicker, ReadGroups, CloseGroup, StopPanics, WaitReturns,
     DeadlineExpires, queueVars, workVars
<1>4. CASE TickerFires \/ TickGroup \/ TickerExits
  BY <1>4, <1>a DEF TickerFires, TickGroup, TickerExits, queueVars, workVars
<1>6. ASSUME NEW g \in Groups, GroupStep(g)
      PROVE  (Has(e, s)' <=> Has(e, s)) /\ AtMostOnce(e, s)'
  <2>1. CASE GroupDispatches(g)
    <3>5. PICK refused \in SUBSET Due(g) : Dispatch(g, refused)  BY <2>1, DispatchGives
    <3>0. work'[s] = work[s] \union Taken(g, refused, s) /\ lost' = lost \union refused
      BY <3>5, <1>0 DEF Dispatch
    <3>3. handled' = handled /\ mailbox' = [mailbox EXCEPT ![g] = {}]
      BY <2>1 DEF GroupDispatches
    <3>4. mailbox'[GroupIndex(s)] = IF GroupIndex(s) = g THEN {} ELSE mailbox[GroupIndex(s)]
      BY <3>3, <1>0 DEF Types
    <3>1. /\ work'[s] = work[s] \union Taken(g, refused, s) /\ handled' = handled
          /\ lost' = lost \union refused
          /\ mailbox'[GroupIndex(s)] = IF GroupIndex(s) = g THEN {} ELSE mailbox[GroupIndex(s)]
      BY <3>0, <3>3, <3>4
    <3>6. <<e, s>> \in Due(g) <=> GroupIndex(s) = g /\ e \in mailbox[g]
      BY <1>0 DEF Due, Members
    <3>2. /\ e \in Taken(g, refused, s) <=> GroupIndex(s) = g /\ e \in mailbox[g] /\ <<e, s>> \notin refused
          /\ <<e, s>> \in refused => GroupIndex(s) = g /\ e \in mailbox[g]
      BY <3>6 DEF Taken
    <3> QED  BY <3>1, <3>2, <1>o DEF Has, AtMostOnce, Waits, Given, Handled, Lost
  <2>2. CASE GroupExits(g)  BY <2>2, <1>a DEF GroupExits, queueVars
  <2> QED  BY <1>6, <2>1, <2>2 DEF GroupStep
<1>7. ASSUME NEW t \in Slots, ActorStep(t) \/ HandlerBlocks(t)
      PROVE  (Has(e, s)' <=> Has(e, s)) /\ AtMostOnce(e, s)'
  <2>1. CASE Handle(t)
    <3>1. PICK f \in work[t] : /\ work' = [work EXCEPT ![t] = work[t] \ {f}]
                               /\ handled' = handled \union {<<f, t>>}
      BY <2>1 DEF Handle
    <3>2. mailbox' = mailbox /\ lost' = lost  BY <2>1 DEF Handle, queueVars
    <3>3. CASE t = s /\ f = e
      BY <3>1, <3>2, <3>3, <1>0, <1>o DEF Has, AtMostOnce, Waits, Given, Handled, Lost, Types
    <3>4. CASE ~(t = s /\ f = e)
      BY <3>1, <3>2, <3>4, <1>0, <1>o DEF Has, AtMostOnce, Waits, Given, Handled, Lost, Types
    <3> QED  BY <3>3, <3>4
  <2>2. CASE ActorExits(t) \/ HandlerBlocks(t)
    BY <2>2, <1>a DEF ActorExits, HandlerBlocks, queueVars
  <2> QED  BY <1>7, <2>1, <2>2 DEF ActorStep
<1> QED  BY <1>1, <1>2, <1>3, <1>4, <1>6, <1>7 DEF Next

LEMMA SentKept ==
  ASSUME NEW p \in Senders, Sent(p), pc'[p] = pc[p], todo'[p] = todo[p],
         dropped'[p] = dropped[p], result'[p] = result[p], Len(result[p]) \in Nat,
         \A n \in Nat, s \in To[p] : (Has(<<p, n>>, s)' <=> Has(<<p, n>>, s)) /\ AtMostOnce(<<p, n>>, s)'
  PROVE  Sent(p)'
<1>1. Told(p)'  BY DEF Sent, Told
<1>2. Unsent(p)'  BY DEF Sent, Unsent
<1>3. Current(p)' = Current(p) /\ Current(p) = <<p, Len(result[p]) + 1>>  BY DEF Current
<1>4. \A s \in To[p] : Has(Current(p), s)' <=> Has(Current(p), s)
  <2> SUFFICES ASSUME NEW s \in To[p] PROVE Has(Current(p), s)' <=> Has(Current(p), s)
    OBVIOUS
  <2>1. Has(<<p, Len(result[p]) + 1>>, s)' <=> Has(<<p, Len(result[p]) + 1>>, s)
    OBVIOUS
  <2>2. Has(Current(p), s) <=> Has(<<p, Len(result[p]) + 1>>, s)  BY <1>3
  <2>3. Has(Current(p), s)' <=> Has(<<p, Len(result[p]) + 1>>, s)'
    BY <1>3 DEF Has, Waits, Given, Handled, Lost
  <2> QED  BY <2>1, <2>2, <2>3
<1>5. Partly(p)'  BY <1>4 DEF Sent, Partly, Buckets
<1>6. Single(p)'  BY DEF Single
<1> QED  BY <1>1, <1>2, <1>5, <1>6 DEF Sent

LEMMA SentByNone ==
  ASSUME BaseInv, Drained, [Next]_vars, ~\E q \in Senders : Send(q) \/ SendStep(q),
         NEW p \in Senders, Sent(p)
  PROVE  Sent(p)'
<1>1. UNCHANGED sendVars  BY MailboxesShrink
<1>2. Len(result[p]) \in Nat  BY DEF BaseInv, StartInv, Types
<1>3. \A n \in Nat, s \in To[p] : (Has(<<p, n>>, s)' <=> Has(<<p, n>>, s)) /\ AtMostOnce(<<p, n>>, s)'
  BY Moves DEF Sent, Single
<1> QED  BY <1>1, <1>2, <1>3, SentKept DEF sendVars

(* What a sender's step leaves alone. *)
LEMMA SendFrame ==
  ASSUME Types, NEW q \in Senders, Send(q) \/ SendStep(q)
  PROVE  /\ UNCHANGED <<work, handled, lost>>
         /\ \/ mailbox' = mailbox
            \/ mailbox' = [mailbox EXCEPT ![Bucket(q)] = mailbox[Bucket(q)] \union {Current(q)}]
BY DEF Send, SendStep, CheckDepth, Enqueue, RouterReturns, workVars, queueVars

LEMMA SentByOther ==
  ASSUME BaseInv, NEW q \in Senders, Send(q) \/ SendStep(q), NEW p \in Senders, p # q, Sent(p)
  PROVE  Sent(p)'
<1> USE DEF BaseInv, StartInv
<1>1. ASSUME NEW n \in Nat, NEW s \in To[p]
      PROVE  (Has(<<p, n>>, s)' <=> Has(<<p, n>>, s)) /\ AtMostOnce(<<p, n>>, s)'
  <2>1. s \in Slots /\ GroupIndex(s) \in Groups  BY SlotsAreNumbers, IndexInRange
  <2>2. <<p, n>> # Current(q)  BY DEF Current
  <2>3. <<p, n>> \in mailbox'[GroupIndex(s)] <=> <<p, n>> \in mailbox[GroupIndex(s)]
    <3>1. CASE mailbox' = mailbox  BY <3>1
    <3>2. CASE mailbox' = [mailbox EXCEPT ![Bucket(q)] = mailbox[Bucket(q)] \union {Current(q)}]
      <4>1. mailbox'[GroupIndex(s)] \in {mailbox[GroupIndex(s)], mailbox[GroupIndex(s)] \union {Current(q)}}
        BY <2>1, <3>2 DEF Types
      <4> QED  BY <2>2, <4>1
    <3> QED  BY <3>1, <3>2, SendFrame
  <2>4. AtMostOnce(<<p, n>>, s)  BY DEF Sent, Single
  <2> QED  BY <2>3, <2>4, SendFrame DEF Has, AtMostOnce, Waits, Given, Handled, Lost
<1>2. Len(result[p]) \in Nat  BY DEF Types
<1> QED  BY <1>1, <1>2, OthersStay, SentKept

(* A bucket is dropped: its actors are those that do not get the envelope. *)
LEMMA SentDrops ==
  ASSUME BaseInv, NEW p \in Senders, pc[p] # "idle", pc'[p] # "idle", Sent(p), todo[p] # {},
         NEW r \in {"overflow", "closed"}, Drop(p, r),
         UNCHANGED <<mailbox, work, handled, lost, result>>
  PROVE  Sent(p)'
<1> USE DEF BaseInv, StartInv
<1>1. \A e, s : (Has(e, s)' <=> Has(e, s)) /\ (AtMostOnce(e, s)' <=> AtMostOnce(e, s))
  BY DEF Has, AtMostOnce, Waits, Given, Handled, Lost
<1>2. /\ todo'[p] = todo[p] \ {Bucket(p)} /\ dropped'[p] = dropped[p] \union {r}
  BY DEF Drop, Types
<1>3. Current(p)' = Current(p)  BY DEF Current
<1>4. Told(p)' /\ Single(p)'  BY <1>1 DEF Sent, Told, Single
<1>5. Unsent(p)'
  BY <1>1 DEF Sent, Unsent
<1>6. PICK s \in To[p] : GroupIndex(s) = Bucket(p)
  BY BucketIsToGo DEF Sent, Partly, Buckets
<1>7. ~Has(Current(p), s)  BY <1>6, BucketIsToGo DEF Sent, Partly
<1>8. Partly(p)'
  BY <1>1, <1>2, <1>3, <1>6, <1>7 DEF Sent, Partly, Buckets
<1> QED  BY <1>4, <1>5, <1>8 DEF Sent

LEMMA SentBySend ==
  ASSUME BaseInv, NEW p \in Senders, Send(p), Sent(p)
  PROVE  Sent(p)'
<1> USE DEF BaseInv, StartInv
<1>1. \A e, s : (Has(e, s)' <=> Has(e, s)) /\ (AtMostOnce(e, s)' <=> AtMostOnce(e, s))
  BY DEF Send, queueVars, workVars, Has, AtMostOnce, Waits, Given, Handled, Lost
<1>2. Single(p)'  BY <1>1 DEF Sent, Single
<1>3. \A n \in Nat, s \in To[p] : n > Len(result[p]) => ~Has(<<p, n>>, s)
  BY DEF Send, Sent, Unsent
<1>4. Len(result[p]) \in Nat /\ (dropped'[p] = {} <=> To[p] # {})
  BY DEF Send, Types
<1>5. CASE router
  <2>1. pc'[p] = "routing" /\ todo'[p] = Buckets(p) /\ result' = result
    BY <1>5 DEF Send, Types
  <2>2. Current(p)' = <<p, Len(result[p]) + 1>>  BY <2>1 DEF Current
  <2>3. Told(p)'  BY <1>1, <2>1 DEF Sent, Told
  <2>4. Unsent(p)'  BY <1>1, <1>3, <2>1 DEF Unsent
  <2>5. \A s \in To[p] : ~Has(Current(p), s)'
    BY <1>1, <1>3, <1>4, <2>2 DEF Has, Waits, Given, Handled, Lost
  <2>6. \A s \in To[p] : GroupIndex(s) \in Buckets(p)  BY DEF Buckets
  <2>7. Partly(p)'
    BY <1>4, <2>1, <2>5, <2>6 DEF Partly, Buckets
  <2> QED  BY <1>2, <2>3, <2>4, <2>7 DEF Sent
<1>6. CASE ~router
  <2>1. pc'[p] = "idle" /\ result'[p] = Append(result[p], "not_started")
    BY <1>6 DEF Send, Returns, Types
  <2>2. /\ Len(result'[p]) = Len(result[p]) + 1
        /\ \A n \in 1 .. Len(result[p]) : result'[p][n] = result[p][n]
        /\ result'[p][Len(result[p]) + 1] = "not_started"
    BY <2>1 DEF Types
  <2>3. Told(p)'
    <3> SUFFICES ASSUME NEW n \in 1 .. Len(result'[p])
                 PROVE  result'[p][n] = "nil" <=> To[p] # {} /\ \A s \in To[p] : Has(<<p, n>>, s)'
      BY DEF Told
    <3>1. CASE n \in 1 .. Len(result[p])  BY <1>1, <2>2, <3>1 DEF Sent, Told
    <3>2. CASE n = Len(result[p]) + 1
      <4>1. \A s \in To[p] : ~Has(<<p, n>>, s)'  BY <1>1, <1>3, <1>4, <3>2
      <4> QED  BY <2>2, <3>2, <4>1
    <3> QED  BY <1>4, <2>2, <3>1, <3>2
  <2>4. Unsent(p)'  BY <1>1, <1>3, <1>4, <2>2 DEF Unsent
  <2>5. Partly(p)'  BY <2>1 DEF Partly
  <2> QED  BY <1>2, <2>3, <2>4, <2>5 DEF Sent
<1> QED  BY <1>5, <1>6

LEMMA SentByCheck ==
  ASSUME BaseInv, NEW p \in Senders, CheckDepth(p), Sent(p)
  PROVE  Sent(p)'
<1> USE DEF BaseInv, StartInv
<1>1. pc[p] = "routing" /\ todo[p] # {} /\ result' = result /\ UNCHANGED <<mailbox, work, handled, lost>>
  BY DEF CheckDepth, queueVars, workVars
<1>2. CASE Passes(Bucket(p))
  <2>1. pc'[p] = "checked" /\ UNCHANGED <<todo, dropped>>  BY <1>2 DEF CheckDepth, Types
  <2>2. \A e, s : (Has(e, s)' <=> Has(e, s)) /\ (AtMostOnce(e, s)' <=> AtMostOnce(e, s))
    BY <1>1 DEF Has, AtMostOnce, Waits, Given, Handled, Lost
  <2>3. Current(p)' = Current(p)  BY <1>1 DEF Current
  <2>4. Told(p)' /\ Single(p)'  BY <1>1, <2>2 DEF Sent, Told, Single
  <2>5. Unsent(p)'  BY <1>1, <2>1, <2>2 DEF Sent, Unsent
  <2>6. Partly(p)'  BY <1>1, <2>1, <2>2, <2>3 DEF Sent, Partly, Buckets
  <2> QED  BY <2>4, <2>5, <2>6 DEF Sent
<1>3. CASE ~Passes(Bucket(p))
  <2>1. Drop(p, "overflow") /\ pc' = pc  BY <1>3 DEF CheckDepth
  <2> QED  BY <1>1, <2>1, SentDrops
<1> QED  BY <1>2, <1>3

LEMMA SentByEnqueue ==
  ASSUME BaseInv, NEW p \in Senders, Enqueue(p), Sent(p)
  PROVE  Sent(p)'
<1> USE DEF BaseInv, StartInv
<1>1. /\ pc[p] = "checked" /\ pc'[p] = "routing" /\ todo[p] # {} /\ result' = result
      /\ UNCHANGED <<work, handled, lost>>
  BY DEF Enqueue, UnderWay, Types, workVars
<1>2. CASE closed[Bucket(p)]
  <2>1. Drop(p, "closed") /\ mailbox' = mailbox  BY <1>2 DEF Enqueue
  <2> QED  BY <1>1, <2>1, SentDrops
<1>3. CASE ~closed[Bucket(p)]
  <2> DEFINE b == Bucket(p)
  <2>0. b \in todo[p] /\ b \in Groups  BY <1>1, BucketIsToGo
  <2>1. /\ mailbox' = [mailbox EXCEPT ![b] = mailbox[b] \union {Current(p)}]
        /\ todo'[p] = todo[p] \ {b} /\ dropped' = dropped
    BY <1>3 DEF Enqueue, Types
  <2> HIDE DEF b
  <2>2. Current(p)' = Current(p) /\ Current(p) = <<p, Len(result[p]) + 1>>
    BY <1>1 DEF Current
  <2>3. \A s \in To[p] : s \in Slots /\ GroupIndex(s) \in Groups
    BY SlotsAreNumbers, IndexInRange
  <2>4. \A e : \A s \in To[p] :
          Waits(e, s)' <=> Waits(e, s) \/ (GroupIndex(s) = b /\ e = Current(p))
    <3> SUFFICES ASSUME NEW e, NEW s \in To[p]
                 PROVE  Waits(e, s)' <=> Waits(e, s) \/ (GroupIndex(s) = b /\ e = Current(p))
      OBVIOUS
    <3>1. mailbox'[GroupIndex(s)] = IF GroupIndex(s) = b THEN mailbox[b] \union {Current(p)}
                                                         ELSE mailbox[GroupIndex(s)]
      BY <2>0, <2>1, <2>3 DEF Types
    <3> QED  BY <3>1 DEF Waits
  <2>5. \A e : \A s \in To[p] : /\ (Given(e, s)' <=> Given(e, s))
                              /\ (Handled(e, s)' <=> Handled(e, s))
                              /\ (Lost(e, s)' <=> Lost(e, s))
    BY <1>1 DEF Given, Handled, Lost
  <2>6. \A e : \A s \in To[p] :
          Has(e, s)' <=> Has(e, s) \/ (GroupIndex(s) = b /\ e = Current(p))
    BY <2>4, <2>5 DEF Has
  <2>7. \A s \in To[p] : GroupIndex(s) = b => ~Has(Current(p), s)
    BY <1>1, <2>0 DEF Sent, Partly
  <2>8. Single(p)'
    <3> SUFFICES ASSUME NEW n \in Nat, NEW s \in To[p] PROVE AtMostOnce(<<p, n>>, s)'
      BY DEF Single
    <3>1. AtMostOnce(<<p, n>>, s)  BY DEF Sent, Single
    <3> QED  BY <2>4, <2>5, <2>7, <3>1 DEF AtMostOnce, Has
  <2>9. \A n \in Nat : n # Len(result[p]) + 1 => <<p, n>> # Current(p)  BY <2>2
  <2>10. Len(result[p]) \in Nat  BY DEF Types
  <2>11. Told(p)'
    <3> SUFFICES ASSUME NEW n \in 1 .. Len(result[p])
                 PROVE  result[p][n] = "nil" <=> To[p] # {} /\ \A s \in To[p] : Has(<<p, n>>, s)'
      BY <1>1 DEF Told
    <3>1. <<p, n>> # Current(p)  BY <2>9, <2>10
    <3> QED  BY <2>6, <3>1 DEF Sent, Told
  <2>12. Unsent(p)'
    <3> SUFFICES ASSUME NEW n \in Nat, NEW s \in To[p], n > Len(result[p]), n # Len(result[p]) + 1
                 PROVE  ~Has(<<p, n>>, s)'
      BY <1>1 DEF Unsent
    <3>1. ~Has(<<p, n>>, s)  BY DEF Sent, Unsent
    <3> QED  BY <2>6, <2>9, <3>1
  <2>13. \A s \in To[p] : Has(Current(p), s)' <=> Has(Current(p), s) \/ GroupIndex(s) = b
    <3> SUFFICES ASSUME NEW s \in To[p]
                 PROVE  Has(Current(p), s)' <=> Has(Current(p), s) \/ GroupIndex(s) = b
      OBVIOUS
    <3>1. Has(Current(p), s)' <=> (Waits(Current(p), s) \/ GroupIndex(s) = b \/ Given(Current(p), s)
                                   \/ Handled(Current(p), s) \/ Lost(Current(p), s))
      <4> DEFINE e == Current(p)
      <4>1. e' = e  BY <2>2
      <4>2. Has(e, s)' <=> e' \in mailbox'[GroupIndex(s)] \/ e' \in work'[s] \/ <<e', s>> \in handled'
                             \/ <<e', s>> \in lost'
        BY DEF Has, Waits, Given, Handled, Lost
      <4>3. mailbox'[GroupIndex(s)] = IF GroupIndex(s) = b THEN mailbox[b] \union {e}
                                                           ELSE mailbox[GroupIndex(s)]
        BY <2>0, <2>1, <2>3 DEF Types
      <4> QED  BY <1>1, <4>1, <4>2, <4>3 DEF Waits, Given, Handled, Lost
    <3> QED  BY <3>1 DEF Has
  <2>14. Partly(p)'
    BY <1>1, <2>0, <2>1, <2>7, <2>13 DEF Sent, Partly, Buckets
  <2> QED  BY <2>8, <2>11, <2>12, <2>14 DEF Sent
<1> QED  BY <1>2, <1>3

LEMMA SentByReturn ==
  ASSUME BaseInv, NEW p \in Senders, RouterReturns(p), Sent(p)
  PROVE  Sent(p)'
<1> USE DEF BaseInv, StartInv
<1>1. /\ pc[p] = "routing" /\ pc'[p] = "idle" /\ todo[p] = {}
      /\ result'[p] = Append(result[p], Verdict(dropped[p]))
      /\ UNCHANGED <<mailbox, work, handled, lost>>
  BY DEF RouterReturns, Returns, Types, queueVars, workVars
<1>2. \A e, s : (Has(e, s)' <=> Has(e, s)) /\ (AtMostOnce(e, s)' <=> AtMostOnce(e, s))
  BY <1>1 DEF Has, AtMostOnce, Waits, Given, Handled, Lost
<1>3. Verdict(dropped[p]) = "nil" <=> dropped[p] = {}
  <2>1. dropped[p] \subseteq {"overflow", "closed", "invalid"}  BY DEF Types
  <2> QED  BY <2>1 DEF Verdict
<1>4. Current(p) = <<p, Len(result[p]) + 1>>  BY DEF Current
<1>5. dropped[p] = {} <=> To[p] # {} /\ \A s \in To[p] : Has(<<p, Len(result[p]) + 1>>, s)
  BY <1>1, <1>4 DEF Sent, Partly
<1>6. /\ Len(result[p]) \in Nat /\ Len(result'[p]) = Len(result[p]) + 1
      /\ \A n \in 1 .. Len(result[p]) : result'[p][n] = result[p][n]
      /\ result'[p][Len(result[p]) + 1] = Verdict(dropped[p])
  BY <1>1 DEF Types
<1>7. Told(p)'
  <2> SUFFICES ASSUME NEW n \in 1 .. Len(result'[p])
               PROVE  result'[p][n] = "nil" <=> To[p] # {} /\ \A s \in To[p] : Has(<<p, n>>, s)'
    BY DEF Told
  <2>1. CASE n \in 1 .. Len(result[p])  BY <1>2, <1>6, <2>1 DEF Sent, Told
  <2>2. CASE n = Len(result[p]) + 1  BY <1>2, <1>3, <1>5, <1>6, <2>2
  <2> QED  BY <1>6, <2>1, <2>2
<1>8. Unsent(p)'
  <2> SUFFICES ASSUME NEW n \in Nat, NEW s \in To[p], n > Len(result[p]) + 1
               PROVE  ~Has(<<p, n>>, s)'
    BY <1>6 DEF Unsent
  <2>1. ~Has(<<p, n>>, s)  BY <1>6 DEF Sent, Unsent
  <2> QED  BY <1>2, <2>1
<1>9. Partly(p)' /\ Single(p)'  BY <1>1, <1>2 DEF Partly, Sent, Single
<1> QED  BY <1>7, <1>8, <1>9 DEF Sent

LEMMA SentStep ==
  ASSUME BaseInv, Drained, [Next]_vars, NEW p \in Senders, Sent(p)
  PROVE  Sent(p)'
<1>1. CASE ~\E q \in Senders : Send(q) \/ SendStep(q)  BY <1>1, SentByNone
<1>2. ASSUME NEW q \in Senders, Send(q) \/ SendStep(q) PROVE Sent(p)'
  <2>1. CASE p # q  BY <1>2, <2>1, SentByOther
  <2>2. CASE p = q
    BY <1>2, <2>2, SentBySend, SentByCheck, SentByEnqueue, SentByReturn DEF SendStep
  <2> QED  BY <2>1, <2>2
<1> QED  BY <1>1, <1>2

LEMMA ReasonsStep ==
  ASSUME Reasons, [Next]_vars
  PROVE  Reasons'
<1>1. ASSUME NEW g \in Groups, GroupDispatches(g) PROVE Reasons'
  <2>1. PICK refused \in SUBSET Due(g) : Dispatch(g, refused)  BY <1>1, DispatchGives
  <2> QED  BY <2>1 DEF Dispatch, Reasons
<1>2. CASE ~\E g \in Groups : GroupDispatches(g)
  <2>1. lost' = lost
    BY <1>2 DEF Next, vars, workVars, CheckStopped, StartStep, Claim, AllocateGroups, NewGroup,
       SetRouter, LaunchGroup, LaunchTicker, BeginStop, StopStep, StopTicker, ReadGroups, CloseGroup,
       StopPanics, WaitReturns, DeadlineExpires, TickerFires, TickGroup, TickerExits, Send, SendStep,
       CheckDepth, Enqueue, RouterReturns, GroupStep, GroupExits, ActorStep, Handle, ActorExits,
       HandlerBlocks
  <2> QED  BY <2>1 DEF Reasons
<1> QED  BY <1>1, <1>2

(* Of every envelope, nil says that it has recipients and that each one's group   *)
(* took it, an error that not all did.  What a group took is then in one place,   *)
(* handled at most once, and lost only at an actor without a creator or where     *)
(* mailboxes have a limit.                                                        *)
THEOREM VerdictIsTrue == Spec => []VerdictTrue
<1> DEFINE AllSent == \A p \in Senders : Sent(p)
<1>1. Init => AllSent
  <2> SUFFICES ASSUME Init, NEW p \in Senders PROVE Sent(p)
    OBVIOUS
  <2>1. \A n, s : s \in To[p] => /\ ~Waits(<<p, n>>, s) /\ ~Given(<<p, n>>, s)
                                 /\ ~Handled(<<p, n>>, s) /\ ~Lost(<<p, n>>, s)
    BY SlotsAreNumbers, IndexInRange DEF Init, Waits, Given, Handled, Lost
  <2> QED  BY <2>1 DEF Init, Sent, Told, Unsent, Partly, Single, AtMostOnce, Has
<1>2. LifeInv => Drained  BY DEF LifeInv
<1>3. BaseInv /\ Drained /\ AllSent /\ [Next]_vars => AllSent'  BY SentStep
<1>4. (Init => Reasons) /\ (Reasons /\ [Next]_vars => Reasons')
  BY ReasonsStep DEF Init, Reasons
<1>5. BaseInv /\ AllSent /\ Reasons => VerdictTrue
  <2> SUFFICES ASSUME BaseInv, AllSent, Reasons, NEW p \in Senders
               PROVE  /\ \A n \in 1 .. Len(result[p]) :
                           result[p][n] = "nil" <=> To[p] # {} /\ \A s \in To[p] : Has(<<p, n>>, s)
                      /\ \A n \in 1 .. Len(result[p]) + 1, s \in To[p] :
                           /\ AtMostOnce(<<p, n>>, s)
                           /\ Lost(<<p, n>>, s) => MaxMailboxDepth > 0 \/ s \notin Registered
    BY DEF VerdictTrue, Has, AtMostOnce
  <2>1. Len(result[p]) \in Nat  BY DEF BaseInv, StartInv, Types
  <2>2. \A e, s : Lost(e, s) => MaxMailboxDepth > 0 \/ s \notin Registered
    BY DEF Lost, Reasons
  <2> QED  BY <2>1, <2>2 DEF Sent, Told, Single
<1> HIDE DEF AllSent
<1> QED  BY <1>1, <1>2, <1>3, <1>4, <1>5, BaseHolds, LifeHolds, PTL DEF Spec
=============================================================================
