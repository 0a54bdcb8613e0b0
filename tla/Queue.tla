-------------------------------- MODULE Queue --------------------------------
(***************************************************************************)
(* The blocking queue behind every mailbox (src/queue.go), with its mutex, *)
(* its condition variable and the goroutines that call it.                 *)
(*                                                                         *)
(* One action is one critical section of the mutex.  Signal and Broadcast  *)
(* come after the unlock, so that anything may happen in between.  The     *)
(* ring buffer is a sequence here: RingBuffer implements one.  Elements    *)
(* are numbered in the order they were accepted.                           *)
(***************************************************************************)
EXTENDS Integers, Sequences, FiniteSets

CONSTANTS
  Producers, Consumers,
  BatchSizes,   \* lengths of the slices given to EnqueueBatch
  Depths,       \* arguments of SetMaxDepth, 0 for no limit
  MaxAccepted   \* bound: elements accepted in one behaviour

ASSUME ProcessAssumption == IsFiniteSet(Producers) /\ IsFiniteSet(Consumers)
ASSUME NumberAssumption == /\ BatchSizes \subseteq Nat
                           /\ Depths \subseteq Nat
                           /\ MaxAccepted \in Nat

VARIABLES
  buffer, closed, maxDepth,
  notEmpty,   \* the condition variable: who waits, in the order of arrival
  pc,         \* pc[p]: where a producer or a consumer is
  want,       \* want[c]: how much the call of consumer c asks for
  accepted,   \* how many elements were ever accepted
  taken       \* how many elements consumers were ever given

vars == <<buffer, closed, maxDepth, notEmpty, pc, want, accepted, taken>>

Processes == Producers \union Consumers

Init ==
  /\ buffer = <<>>
  /\ closed = FALSE
  /\ maxDepth \in Depths
  /\ notEmpty = <<>>
  /\ pc = [p \in Processes |-> "ready"]
  /\ want = [c \in Consumers |-> "one"]
  /\ accepted = 0
  /\ taken = 0

Goto(p, where) == pc' = [pc EXCEPT ![p] = where]

-----------------------------------------------------------------------------
(* Producers *)

Push(n) == /\ accepted + n <= MaxAccepted
           /\ accepted' = accepted + n
           /\ buffer' = buffer \o [i \in 1 .. n |-> accepted + i]

(* Mutant: nobody is woken. *)
Enqueue_Silent(p) ==
  /\ pc[p] = "ready"
  /\ ~closed
  /\ ~(maxDepth > 0 /\ Len(buffer) >= maxDepth)
  /\ Push(1)
  /\ Goto(p, "ready")
  /\ UNCHANGED <<closed, maxDepth, notEmpty, want, taken>>

(* A closed or full queue refuses, which changes nothing. *)
Enqueue(p) ==
  /\ pc[p] = "ready"
  /\ ~closed
  /\ ~(maxDepth > 0 /\ Len(buffer) >= maxDepth)
  /\ Push(1)
  /\ Goto(p, "signal")
  /\ UNCHANGED <<closed, maxDepth, notEmpty, want, taken>>

(* Mutants: one waiter is woken whatever the size; the limit is compared with
   what is there, and not with what will be. *)
EnqueueBatch_SignalsOnce(p, n) ==
  /\ pc[p] = "ready"
  /\ ~closed
  /\ ~(maxDepth > 0 /\ Len(buffer) + n > maxDepth)
  /\ Push(n)
  /\ Goto(p, "signal")
  /\ UNCHANGED <<closed, maxDepth, notEmpty, want, taken>>
EnqueueBatch_ChecksBefore(p, n) ==
  /\ pc[p] = "ready"
  /\ ~closed
  /\ ~(maxDepth > 0 /\ Len(buffer) >= maxDepth)
  /\ Push(n)
  /\ Goto(p, IF n > 1 THEN "broadcast" ELSE IF n = 1 THEN "signal" ELSE "ready")
  /\ UNCHANGED <<closed, maxDepth, notEmpty, want, taken>>

(* The whole batch or nothing. *)
EnqueueBatch(p, n) ==
  /\ pc[p] = "ready"
  /\ ~closed
  /\ ~(maxDepth > 0 /\ Len(buffer) + n > maxDepth)
  /\ Push(n)
  /\ Goto(p, IF n > 1 THEN "broadcast" ELSE IF n = 1 THEN "signal" ELSE "ready")
  /\ UNCHANGED <<closed, maxDepth, notEmpty, want, taken>>

(* notEmpty.Signal() wakes the first waiter, if there is one. *)
Signal(p) ==
  /\ pc[p] = "signal"
  /\ IF notEmpty = <<>>
     THEN Goto(p, "ready") /\ UNCHANGED notEmpty
     ELSE /\ pc' = [pc EXCEPT ![p] = "ready", ![Head(notEmpty)] = "awake"]
          /\ notEmpty' = Tail(notEmpty)
  /\ UNCHANGED <<buffer, closed, maxDepth, want, accepted, taken>>

(* Everybody who waits, woken; f is pc apart from that. *)
AllAwake(f) == [q \in Processes |-> IF f[q] = "waiting" THEN "awake" ELSE f[q]]

Broadcast(p) ==
  /\ pc[p] = "broadcast"
  /\ pc' = AllAwake([pc EXCEPT ![p] = "ready"])
  /\ notEmpty' = <<>>
  /\ UNCHANGED <<buffer, closed, maxDepth, want, accepted, taken>>

-----------------------------------------------------------------------------
(* Consumers *)

Take(n) == /\ taken' = taken + n
           /\ buffer' = SubSeq(buffer, n + 1, Len(buffer))

Amount(w) == IF w = "one" THEN 1 ELSE Len(buffer)

(* Mutants: closed is looked at before the buffer; a woken consumer takes
   without looking again. *)
Attempt_ClosedFirst(c, w) ==
  \/ /\ buffer = <<>> /\ ~closed
     /\ notEmpty' = Append(notEmpty, c)
     /\ Goto(c, "waiting")
     /\ UNCHANGED <<buffer, taken>>
  \/ /\ closed
     /\ Goto(c, "done")
     /\ UNCHANGED <<buffer, taken, notEmpty>>
  \/ /\ buffer # <<>> /\ ~closed
     /\ Take(Amount(w))
     /\ Goto(c, "ready")
     /\ UNCHANGED notEmpty
Attempt_WakesBlindly(c, w) ==
  \/ /\ buffer = <<>> /\ ~closed /\ pc[c] = "ready"
     /\ notEmpty' = Append(notEmpty, c)
     /\ Goto(c, "waiting")
     /\ UNCHANGED <<buffer, taken>>
  \/ /\ buffer = <<>> /\ closed
     /\ Goto(c, "done")
     /\ UNCHANGED <<buffer, taken, notEmpty>>
  \/ /\ buffer # <<>> \/ (pc[c] = "awake" /\ ~closed)
     /\ Take(Amount(w))
     /\ Goto(c, "ready")
     /\ UNCHANGED notEmpty

(* One turn with the mutex held: wait, or learn that the queue is closed and
   drained, or take something. *)
Attempt(c, w) ==
  \/ /\ buffer = <<>> /\ ~closed
     /\ notEmpty' = Append(notEmpty, c)
     /\ Goto(c, "waiting")
     /\ UNCHANGED <<buffer, taken>>
  \/ /\ buffer = <<>> /\ closed
     /\ Goto(c, "done")
     /\ UNCHANGED <<buffer, taken, notEmpty>>
  \/ /\ buffer # <<>>
     /\ Take(Amount(w))
     /\ Goto(c, "ready")
     /\ UNCHANGED notEmpty

Dequeue(c) ==
  /\ pc[c] = "ready"
  /\ want' = [want EXCEPT ![c] = "one"]
  /\ Attempt(c, "one")
  /\ UNCHANGED <<closed, maxDepth, accepted>>

DequeueAll(c) ==
  /\ pc[c] = "ready"
  /\ want' = [want EXCEPT ![c] = "all"]
  /\ Attempt(c, "all")
  /\ UNCHANGED <<closed, maxDepth, accepted>>

(* Wait returns and the loop around it looks again. *)
Resume(c) ==
  /\ pc[c] = "awake"
  /\ Attempt(c, want[c])
  /\ UNCHANGED <<closed, maxDepth, want, accepted>>

(* The calls that never wait; on an empty queue they change nothing, but for
   the consumer that TryDequeueAll tells that the queue is closed. *)
TryDequeue(c) ==
  /\ pc[c] = "ready"
  /\ buffer # <<>>
  /\ Take(1)
  /\ UNCHANGED <<closed, maxDepth, notEmpty, pc, want, accepted>>

TryDequeueAll(c) ==
  /\ pc[c] = "ready"
  /\ \/ buffer # <<>> /\ Take(Len(buffer)) /\ UNCHANGED pc
     \/ buffer = <<>> /\ closed /\ Goto(c, "done") /\ UNCHANGED <<buffer, taken>>
  /\ UNCHANGED <<closed, maxDepth, notEmpty, want, accepted>>

-----------------------------------------------------------------------------
(* Mutant: the waiters are left alone. *)
Close_Silent ==
  /\ ~closed
  /\ closed' = TRUE
  /\ UNCHANGED <<buffer, maxDepth, notEmpty, pc, want, accepted, taken>>

(* Close broadcasts with the mutex held. *)
Close ==
  /\ ~closed
  /\ closed' = TRUE
  /\ pc' = AllAwake(pc)
  /\ notEmpty' = <<>>
  /\ UNCHANGED <<buffer, maxDepth, want, accepted, taken>>

SetMaxDepth(d) ==
  /\ maxDepth' = d
  /\ UNCHANGED <<buffer, closed, notEmpty, pc, want, accepted, taken>>

Next ==
  \/ Close
  \/ \E d \in Depths : SetMaxDepth(d)
  \/ \E p \in Producers : \/ Enqueue(p) \/ Signal(p) \/ Broadcast(p)
                          \/ \E n \in BatchSizes : EnqueueBatch(p, n)
  \/ \E c \in Consumers : \/ Dequeue(c) \/ DequeueAll(c) \/ Resume(c)
                          \/ TryDequeue(c) \/ TryDequeueAll(c)

(* A call once begun goes on; nobody has to call. *)
Fairness ==
  /\ \A p \in Producers : WF_vars(Signal(p)) /\ WF_vars(Broadcast(p))
  /\ \A c \in Consumers : WF_vars(Resume(c))

Spec == Init /\ [][Next]_vars
FairSpec == Spec /\ Fairness

-----------------------------------------------------------------------------
(* Properties *)

At(where) == {p \in Processes : pc[p] = where}

(* Every variable has its type, as much is there as was accepted and not taken,
   and the waiters are the consumers that wait, each of them once. *)
TypeOK ==
  /\ buffer \in Seq(Nat)
  /\ closed \in BOOLEAN
  /\ maxDepth \in Depths
  /\ notEmpty \in Seq(Consumers)
  /\ pc \in [Processes -> {"ready", "signal", "broadcast", "waiting", "awake", "done"}]
  /\ want \in [Consumers -> {"one", "all"}]
  /\ accepted \in Nat
  /\ taken \in Nat
  /\ Len(buffer) = accepted - taken
  /\ \A c \in Processes : pc[c] = "waiting" <=> \E i \in 1 .. Len(notEmpty) : notEmpty[i] = c
  /\ \A i, j \in 1 .. Len(notEmpty) : notEmpty[i] = notEmpty[j] => i = j

(* No wakeup is lost, though Signal comes after the unlock and other consumers
   may steal what it announced: whenever somebody waits, everything in the
   buffer has a wakeup of its own under way. *)
NoLostWakeup ==
  notEmpty # <<>> =>
    \/ At("broadcast") # {}
    \/ Len(buffer) <= Cardinality(At("signal")) + Cardinality(At("awake"))

(* Consumers are given every accepted element once and in order: what is left
   is exactly what comes after what was taken. *)
ExactlyOnce == buffer = [i \in 1 .. accepted - taken |-> taken + i]

(* A consumer that was told to stop leaves nothing behind, neither then nor
   later: dequeueAllInto answers false only for a closed and drained queue, on
   which the mailbox loops rely when they return. *)
DoneMeansDrained == At("done") # {} => closed /\ buffer = <<>>

(* Nobody waits on a closed queue. *)
ClosedWakesAll == closed => notEmpty = <<>>

(* Closing loses no element and forgets no consumer (queue.go, Close and
   dequeueAllInto): both of the above. *)
CloseIsClean == DoneMeansDrained /\ ClosedWakesAll

(* What is accepted fits, whatever the size of the batch and however the limit
   moves. *)
DepthRespected ==
  [][Len(buffer') > Len(buffer) /\ maxDepth > 0 => Len(buffer') <= maxDepth]_vars

(* A consumer does not sleep on a queue that has something for it. *)
WaiterServed ==
  \A c \in Consumers :
    (pc[c] = "waiting" /\ buffer # <<>>) ~> (pc[c] # "waiting" \/ buffer = <<>>)

(* Every blocked call returns once the queue is closed. *)
CloseReleases == \A c \in Consumers : closed ~> pc[c] \notin {"waiting", "awake"}
=============================================================================
