----------------------------- MODULE QueueProofs -----------------------------
(* Proofs about Queue, for any number of producers and consumers: no wakeup is *)
(* lost, elements are handed out exactly once, and closing strands nobody.     *)
EXTENDS Queue, FiniteSetTheorems, SequenceTheorems, TLAPS

(* Sequences: the elements of an extended and of a shortened sequence. *)
LEMMA AppendElements ==
  ASSUME NEW S, NEW q \in Seq(S), NEW x \in S
  PROVE  /\ Append(q, x) \in Seq(S) /\ Len(Append(q, x)) = Len(q) + 1
         /\ \A i \in 1 .. Len(q) : Append(q, x)[i] = q[i]
         /\ Append(q, x)[Len(q) + 1] = x
OBVIOUS

(* The tail of a sequence is the sequence moved by one. *)
LEMMA TailElements ==
  ASSUME NEW S, NEW q \in Seq(S), q # <<>>
  PROVE  /\ Len(q) \in Nat \ {0} /\ Head(q) = q[1] /\ Head(q) \in S
         /\ Tail(q) \in Seq(S) /\ Len(Tail(q)) = Len(q) - 1
         /\ \A i \in 1 .. Len(q) - 1 : Tail(q)[i] = q[i + 1]
OBVIOUS

(* The part of TypeOK about one variable each. *)
Types ==
  /\ buffer \in Seq(Nat)
  /\ closed \in BOOLEAN
  /\ maxDepth \in Depths
  /\ notEmpty \in Seq(Consumers)
  /\ pc \in [Processes -> {"ready", "signal", "broadcast", "waiting", "awake", "done"}]
  /\ want \in [Consumers -> {"one", "all"}]
  /\ accepted \in Nat
  /\ taken \in Nat

(* The part about the condition variable: it lists exactly those who wait. *)
Listed ==
  /\ \A c \in Processes : pc[c] = "waiting" <=> \E i \in 1 .. Len(notEmpty) : notEmpty[i] = c
  /\ \A i, j \in 1 .. Len(notEmpty) : notEmpty[i] = notEmpty[j] => i = j

(* These two parts, on which everything else rests. *)
Basics == Types /\ Listed

(* Pushing accepts the next n numbers. *)
LEMMA PushTypes ==
  ASSUME Types, NEW n \in Nat, Push(n)
  PROVE  /\ accepted' = accepted + n /\ accepted' \in Nat
         /\ buffer' \in Seq(Nat) /\ Len(buffer') = Len(buffer) + n
<1> DEFINE new == [i \in 1 .. n |-> accepted + i]
<1>1. new \in Seq(Nat) /\ Len(new) = n  BY DEF Types
<1>2. buffer' = buffer \o new /\ accepted' = accepted + n  BY DEF Push
<1> HIDE DEF new
<1>3. buffer \o new \in Seq(Nat) /\ Len(buffer \o new) = Len(buffer) + n
  BY <1>1, ConcatProperties DEF Types
<1> QED  BY <1>2, <1>3 DEF Types

(* Taking n elements leaves the others. *)
LEMMA TakeTypes ==
  ASSUME Types, NEW n \in 0 .. Len(buffer), Take(n)
  PROVE  /\ taken' = taken + n /\ taken' \in Nat
         /\ buffer' \in Seq(Nat) /\ Len(buffer') = Len(buffer) - n
BY DEF Types, Take

(* What a call takes when there is something: at least one, at most all. *)
LEMMA AmountTaken ==
  ASSUME Types, buffer # <<>>, NEW w
  PROVE  Amount(w) \in 1 .. Len(buffer)
BY DEF Types, Amount

(* One turn at the mutex keeps the types. *)
LEMMA AttemptTypes ==
  ASSUME Types, NEW c \in Consumers, NEW w \in {"one", "all"}, Attempt(c, w)
  PROVE  /\ buffer' \in Seq(Nat) /\ taken' \in Nat /\ notEmpty' \in Seq(Consumers)
         /\ \E x \in {"waiting", "done", "ready"} : pc' = [pc EXCEPT ![c] = x]
<1>1. CASE buffer = <<>> /\ ~closed /\ notEmpty' = Append(notEmpty, c)
           /\ Goto(c, "waiting") /\ UNCHANGED <<buffer, taken>>
  BY <1>1 DEF Types, Goto
<1>2. CASE buffer = <<>> /\ closed /\ Goto(c, "done")
           /\ UNCHANGED <<buffer, taken, notEmpty>>
  BY <1>2 DEF Types, Goto
<1>3. CASE buffer # <<>> /\ Take(Amount(w)) /\ Goto(c, "ready") /\ UNCHANGED notEmpty
  <2>1. Amount(w) \in 0 .. Len(buffer)  BY <1>3, AmountTaken DEF Types
  <2> QED  BY <1>3, <2>1, TakeTypes DEF Types, Goto
<1> QED  BY <1>1, <1>2, <1>3 DEF Attempt

(* Every step keeps the types. *)
LEMMA TypesStep ==
  ASSUME Types, [Next]_vars
  PROVE  Types'
<1> USE DEF Processes
<1>1. CASE UNCHANGED vars  BY <1>1 DEF vars, Types
<1>2. CASE Close  BY <1>2 DEF Close, AllAwake, Types
<1>3. ASSUME NEW d \in Depths, SetMaxDepth(d) PROVE Types'
  BY <1>3 DEF SetMaxDepth, Types
<1>5. ASSUME NEW p \in Producers, Enqueue(p) PROVE Types'
  <2>1. accepted' \in Nat /\ buffer' \in Seq(Nat)  BY <1>5, PushTypes DEF Enqueue
  <2> QED  BY <1>5, <2>1 DEF Enqueue, Goto, Types
<1>6. ASSUME NEW p \in Producers, NEW n \in BatchSizes, EnqueueBatch(p, n) PROVE Types'
  <2>1. n \in Nat  BY NumberAssumption
  <2>2. accepted' \in Nat /\ buffer' \in Seq(Nat)
    BY <1>6, <2>1, PushTypes DEF EnqueueBatch
  <2> QED  BY <1>6, <2>1, <2>2 DEF EnqueueBatch, Goto, Types
<1>7. ASSUME NEW p \in Producers, Signal(p) PROVE Types'
  <2>1. CASE notEmpty = <<>>  BY <1>7, <2>1 DEF Signal, Goto, Types
  <2>2. CASE notEmpty # <<>>
    <3>1. Head(notEmpty) \in Consumers /\ Tail(notEmpty) \in Seq(Consumers)
      BY <2>2, TailElements DEF Types
    <3> QED  BY <1>7, <2>2, <3>1 DEF Signal, Types
  <2> QED  BY <2>1, <2>2
<1>8. ASSUME NEW p \in Producers, Broadcast(p) PROVE Types'
  BY <1>8 DEF Broadcast, AllAwake, Types
<1>9. ASSUME NEW c \in Consumers, Dequeue(c) PROVE Types'
  <2>1. /\ buffer' \in Seq(Nat) /\ taken' \in Nat /\ notEmpty' \in Seq(Consumers)
        /\ \E x \in {"waiting", "done", "ready"} : pc' = [pc EXCEPT ![c] = x]
    BY <1>9, AttemptTypes DEF Dequeue
  <2> QED  BY <1>9, <2>1 DEF Dequeue, Types
<1>10. ASSUME NEW c \in Consumers, DequeueAll(c) PROVE Types'
  <2>1. /\ buffer' \in Seq(Nat) /\ taken' \in Nat /\ notEmpty' \in Seq(Consumers)
        /\ \E x \in {"waiting", "done", "ready"} : pc' = [pc EXCEPT ![c] = x]
    BY <1>10, AttemptTypes DEF DequeueAll
  <2> QED  BY <1>10, <2>1 DEF DequeueAll, Types
<1>11. ASSUME NEW c \in Consumers, Resume(c) PROVE Types'
  <2>1. /\ buffer' \in Seq(Nat) /\ taken' \in Nat /\ notEmpty' \in Seq(Consumers)
        /\ \E x \in {"waiting", "done", "ready"} : pc' = [pc EXCEPT ![c] = x]
    BY <1>11, AttemptTypes DEF Resume, Types
  <2> QED  BY <1>11, <2>1 DEF Resume, Types
<1>12. ASSUME NEW c \in Consumers, TryDequeue(c) PROVE Types'
  <2>1. 1 \in 0 .. Len(buffer)  BY <1>12 DEF TryDequeue, Types
  <2>2. taken' \in Nat /\ buffer' \in Seq(Nat)  BY <1>12, <2>1, TakeTypes DEF TryDequeue
  <2> QED  BY <1>12, <2>2 DEF TryDequeue, Types
<1>13. ASSUME NEW c \in Consumers, TryDequeueAll(c) PROVE Types'
  <2>1. Len(buffer) \in 0 .. Len(buffer)  BY DEF Types
  <2>2. taken' \in Nat /\ buffer' \in Seq(Nat)
    BY <1>13, <2>1, TakeTypes DEF TryDequeueAll, Types
  <2> QED  BY <1>13, <2>2 DEF TryDequeueAll, Goto, Types
<1> QED
  BY <1>1, <1>2, <1>3, <1>5, <1>6, <1>7, <1>8, <1>9, <1>10, <1>11, <1>12, <1>13
  DEF Next

(* One turn at the mutex lists the consumer if and only if it waits. *)
LEMMA AttemptListed ==
  ASSUME Types, Listed, NEW c \in Consumers, NEW w, Attempt(c, w), pc[c] # "waiting"
  PROVE  Listed'
<1> USE DEF Processes
<1>1. CASE buffer = <<>> /\ ~closed /\ notEmpty' = Append(notEmpty, c)
           /\ Goto(c, "waiting") /\ UNCHANGED <<buffer, taken>>
  <2>1. /\ pc' = [pc EXCEPT ![c] = "waiting"] /\ notEmpty' = Append(notEmpty, c)
        /\ Len(notEmpty) \in Nat
    BY <1>1 DEF Goto, Types
  <2>2. /\ Len(notEmpty') = Len(notEmpty) + 1
        /\ \A i \in 1 .. Len(notEmpty) : notEmpty'[i] = notEmpty[i]
        /\ notEmpty'[Len(notEmpty) + 1] = c
    BY <2>1, AppendElements DEF Types
  <2>3. \A i \in 1 .. Len(notEmpty) : notEmpty[i] # c  BY DEF Listed
  <2>4. \A q \in Processes : pc'[q] = "waiting" <=>
          \E i \in 1 .. Len(notEmpty') : notEmpty'[i] = q
    <3> SUFFICES ASSUME NEW q \in Processes
                 PROVE  pc'[q] = "waiting" <=> \E i \in 1 .. Len(notEmpty') : notEmpty'[i] = q
      OBVIOUS
    <3>1. CASE q = c
      <4>1. pc'[q] = "waiting"  BY <2>1, <3>1 DEF Types
      <4>2. Len(notEmpty) + 1 \in 1 .. Len(notEmpty')  BY <2>1, <2>2
      <4> QED  BY <2>2, <3>1, <4>1, <4>2
    <3>2. CASE q # c
      <4>1. pc'[q] = pc[q]  BY <2>1, <3>2 DEF Types
      <4>2. (\E i \in 1 .. Len(notEmpty') : notEmpty'[i] = q)
              <=> (\E i \in 1 .. Len(notEmpty) : notEmpty[i] = q)
        BY <2>1, <2>2, <3>2
      <4> QED  BY <4>1, <4>2 DEF Listed
    <3> QED  BY <3>1, <3>2
  <2>5. \A i, j \in 1 .. Len(notEmpty') : notEmpty'[i] = notEmpty'[j] => i = j
    BY <2>1, <2>2, <2>3 DEF Listed
  <2> QED  BY <2>4, <2>5 DEF Listed
<1>2. CASE buffer = <<>> /\ closed /\ Goto(c, "done")
           /\ UNCHANGED <<buffer, taken, notEmpty>>
  BY <1>2 DEF Types, Listed, Goto
<1>3. CASE buffer # <<>> /\ Take(Amount(w)) /\ Goto(c, "ready") /\ UNCHANGED notEmpty
  BY <1>3 DEF Types, Listed, Goto
<1> QED  BY <1>1, <1>2, <1>3 DEF Attempt

(* Waking everybody leaves nobody listed. *)
LEMMA NobodyListed ==
  ASSUME NEW f, pc' = AllAwake(f), notEmpty' = <<>>
  PROVE  Listed'
<1>1. \A q \in Processes : pc'[q] # "waiting"  BY DEF AllAwake
<1>2. Len(notEmpty') = 0 /\ \A i \in 1 .. Len(notEmpty') : FALSE  OBVIOUS
<1> QED  BY <1>1, <1>2 DEF Listed

(* A goroutine that neither waits nor is going to changes nothing in the list. *)
LEMMA OtherListed ==
  ASSUME Types, Listed, NEW p \in Processes, NEW x, x # "waiting", pc[p] # "waiting",
         pc' = [pc EXCEPT ![p] = x], notEmpty' = notEmpty
  PROVE  Listed'
<1>1. \A q \in Processes : pc'[q] = "waiting" <=> pc[q] = "waiting"  BY DEF Types
<1> QED  BY <1>1 DEF Listed

(* Signal takes the first waiter from the list. *)
LEMMA SignalListed ==
  ASSUME Types, Listed, NEW p \in Producers, Signal(p)
  PROVE  Listed'
<1> USE DEF Processes
<1>1. CASE notEmpty = <<>>
  BY <1>1, OtherListed DEF Signal, Goto
<1>2. CASE notEmpty # <<>>
  <2> DEFINE h == notEmpty[1]
             n == Len(notEmpty)
  <2>1. /\ n \in Nat \ {0} /\ Head(notEmpty) = h /\ h \in Consumers
        /\ Len(Tail(notEmpty)) = n - 1
        /\ \A i \in 1 .. n - 1 : Tail(notEmpty)[i] = notEmpty[i + 1]
    BY <1>2, TailElements DEF Types
  <2>2. /\ pc' = [pc EXCEPT ![p] = "ready", ![h] = "awake"]
        /\ notEmpty' = Tail(notEmpty) /\ pc[p] = "signal"
    BY <1>2, <2>1 DEF Signal
  <2>3. \A i \in 1 .. n : notEmpty[i] = h => i = 1  BY <2>1 DEF Listed
  <2>4. Len(notEmpty') = n - 1 /\ \A i \in 1 .. n - 1 : notEmpty'[i] = notEmpty[i + 1]
    BY <2>1, <2>2
  <2> HIDE DEF h, n
  <2>5. ASSUME NEW q \in Processes
        PROVE  pc'[q] = "waiting" <=> \E i \in 1 .. Len(notEmpty') : notEmpty'[i] = q
    <3>1. CASE q = h
      <4>1. pc'[q] # "waiting"  BY <2>2, <3>1 DEF Types
      <4>2. \A i \in 1 .. n - 1 : notEmpty[i + 1] # q
        <5> SUFFICES ASSUME NEW i \in 1 .. n - 1 PROVE notEmpty[i + 1] # q
          OBVIOUS
        <5>1. i + 1 \in 1 .. n /\ i + 1 # 1  BY <2>1
        <5> QED  BY <5>1, <2>3, <3>1
      <4> QED  BY <2>4, <4>1, <4>2
    <3>2. CASE q # h /\ q = p
      <4>1. pc'[q] # "waiting" /\ pc[q] # "waiting"  BY <2>2, <3>2 DEF Types
      <4>2. \A i \in 1 .. n : notEmpty[i] # q  BY <4>1 DEF Listed, n
      <4>3. \A i \in 1 .. n - 1 : notEmpty[i + 1] # q
        <5> SUFFICES ASSUME NEW i \in 1 .. n - 1 PROVE notEmpty[i + 1] # q
          OBVIOUS
        <5>1. i + 1 \in 1 .. n  BY <2>1
        <5> QED  BY <5>1, <4>2
      <4> QED  BY <2>4, <4>1, <4>3
    <3>3. CASE q # h /\ q # p
      <4>1. pc'[q] = pc[q]  BY <2>2, <3>3 DEF Types
      <4>2. pc[q] = "waiting" <=> \E i \in 1 .. n : notEmpty[i] = q  BY DEF Listed, n
      <4>3. notEmpty[1] # q  BY <3>3 DEF h
      <4>4. (\E i \in 1 .. n : notEmpty[i] = q) <=> (\E i \in 1 .. n - 1 : notEmpty[i + 1] = q)
        <5>1. ASSUME NEW i \in 1 .. n, notEmpty[i] = q
              PROVE  \E j \in 1 .. n - 1 : notEmpty[j + 1] = q
          <6>1. i # 1  BY <4>3, <5>1
          <6>2. i - 1 \in 1 .. n - 1 /\ (i - 1) + 1 = i  BY <6>1, <2>1
          <6> QED  BY <6>2, <5>1
        <5>2. ASSUME NEW i \in 1 .. n - 1, notEmpty[i + 1] = q
              PROVE  \E j \in 1 .. n : notEmpty[j] = q
          <6>1. i + 1 \in 1 .. n  BY <2>1
          <6> QED  BY <6>1, <5>2
        <5> QED  BY <5>1, <5>2
      <4> QED  BY <2>4, <4>1, <4>2, <4>4
    <3> QED  BY <3>1, <3>2, <3>3
  <2>6. ASSUME NEW i \in 1 .. n - 1, NEW j \in 1 .. n - 1, notEmpty'[i] = notEmpty'[j]
        PROVE  i = j
    <3>1. i + 1 \in 1 .. n /\ j + 1 \in 1 .. n  BY <2>1
    <3>2. notEmpty[i + 1] = notEmpty[j + 1]  BY <2>4, <2>6
    <3>3. i + 1 = j + 1  BY <3>1, <3>2 DEF Listed, n
    <3> QED  BY <3>3
  <2> QED  BY <2>4, <2>5, <2>6 DEF Listed
<1> QED  BY <1>1, <1>2

(* Every step keeps the list of waiters right. *)
LEMMA ListedStep ==
  ASSUME Types, Listed, [Next]_vars
  PROVE  Listed'
<1> USE DEF Processes
<1>1. CASE UNCHANGED vars  BY <1>1 DEF vars, Listed
<1>2. CASE Close  BY <1>2, NobodyListed DEF Close
<1>3. ASSUME NEW d \in Depths, SetMaxDepth(d) PROVE Listed'
  BY <1>3 DEF SetMaxDepth, Listed
<1>4. ASSUME NEW p \in Producers, Enqueue(p) PROVE Listed'
  <2>1. pc[p] # "waiting" /\ notEmpty' = notEmpty /\ Goto(p, "signal")  BY <1>4 DEF Enqueue
  <2> QED  BY <2>1, OtherListed DEF Goto
<1>5. ASSUME NEW p \in Producers, NEW n \in BatchSizes, EnqueueBatch(p, n) PROVE Listed'
  <2>1. pc[p] # "waiting"  BY <1>5 DEF EnqueueBatch
  <2>2. notEmpty' = notEmpty /\ \E x \in {"broadcast", "ready", "signal"} : Goto(p, x)
    BY <1>5 DEF EnqueueBatch
  <2> QED  BY <2>1, <2>2, OtherListed DEF Goto
<1>6. ASSUME NEW p \in Producers, Signal(p) PROVE Listed'
  BY <1>6, SignalListed
<1>7. ASSUME NEW p \in Producers, Broadcast(p) PROVE Listed'
  BY <1>7, NobodyListed DEF Broadcast
<1>8. ASSUME NEW c \in Consumers, Dequeue(c) \/ DequeueAll(c) \/ Resume(c) PROVE Listed'
  <2>1. pc[c] # "waiting" /\ \E w \in {"one", "all"} : Attempt(c, w)
    BY <1>8 DEF Dequeue, DequeueAll, Resume, Types
  <2> QED  BY <2>1, AttemptListed
<1>9. ASSUME NEW c \in Consumers, TryDequeue(c) PROVE Listed'
  BY <1>9 DEF TryDequeue, Listed
<1>10. ASSUME NEW c \in Consumers, TryDequeueAll(c) PROVE Listed'
  <2>1. pc[c] # "waiting" /\ notEmpty' = notEmpty  BY <1>10 DEF TryDequeueAll
  <2>2. CASE UNCHANGED pc  BY <2>1, <2>2 DEF Listed
  <2>3. CASE Goto(c, "done")  BY <2>1, <2>3, OtherListed DEF Goto
  <2> QED  BY <1>10, <2>2, <2>3 DEF TryDequeueAll
<1> QED
  BY <1>1, <1>2, <1>3, <1>4, <1>5, <1>6, <1>7, <1>8, <1>9, <1>10 DEF Next

(* The types and the list are right in every state. *)
LEMMA BasicsHold == Spec => []Basics
<1>1. Init => Basics
  <2> SUFFICES ASSUME Init PROVE Types /\ Listed
    BY DEF Basics
  <2>1. Types
    <3>1. buffer \in Seq(Nat) /\ notEmpty \in Seq(Consumers)  BY DEF Init
    <3>2. /\ pc \in [Processes -> {"ready", "signal", "broadcast", "waiting", "awake", "done"}]
          /\ want \in [Consumers -> {"one", "all"}]
      BY DEF Init
    <3>3. closed \in BOOLEAN /\ maxDepth \in Depths /\ accepted \in Nat /\ taken \in Nat
      BY DEF Init
    <3> QED  BY <3>1, <3>2, <3>3 DEF Types
  <2>2. Listed  BY DEF Init, Listed, Processes
  <2> QED  BY <2>1, <2>2
<1>2. Basics /\ [Next]_vars => Basics'
  BY TypesStep, ListedStep DEF Basics
<1> QED  BY <1>1, <1>2, PTL DEF Spec

-----------------------------------------------------------------------------
(* Counting wakeups *)

(* The goroutines at one place are finitely many. *)
LEMMA AtFinite ==
  ASSUME NEW x
  PROVE  IsFiniteSet(At(x)) /\ Cardinality(At(x)) \in Nat
<1>1. IsFiniteSet(Processes)  BY ProcessAssumption, FS_Union DEF Processes
<1>2. IsFiniteSet(At(x))  BY <1>1, FS_Subset DEF At
<1> QED  BY <1>2, FS_CardinalityType

(* The count at a place after goroutine p went from there, came there, or      *)
(* moved between other places.                                                 *)
LEMMA CountMove ==
  ASSUME Types, NEW p \in Processes, NEW y, NEW x, pc' = [pc EXCEPT ![p] = y]
  PROVE  /\ pc[p] = x /\ y # x => Cardinality(At(x)') = Cardinality(At(x)) - 1
         /\ pc[p] # x /\ y = x => Cardinality(At(x)') = Cardinality(At(x)) + 1
         /\ pc[p] # x /\ y # x => At(x)' = At(x)
         /\ y = x => At(x)' # {}
<1>1. At(x)' = {q \in Processes : pc'[q] = x}  BY DEF At
<1>2. \A q \in Processes : pc'[q] = IF q = p THEN y ELSE pc[q]  BY DEF Types
<1>3. CASE pc[p] = x /\ y # x
  <2>1. At(x)' = At(x) \ {p} /\ p \in At(x)  BY <1>1, <1>2, <1>3 DEF At
  <2> QED  BY <2>1, <1>3, AtFinite, FS_RemoveElement
<1>4. CASE pc[p] # x /\ y = x
  <2>1. At(x)' = At(x) \union {p} /\ p \notin At(x)  BY <1>1, <1>2, <1>4 DEF At
  <2> QED  BY <2>1, <1>4, AtFinite, FS_AddElement
<1>5. CASE pc[p] # x /\ y # x
  <2>1. At(x)' = At(x)  BY <1>1, <1>2, <1>5 DEF At
  <2> QED  BY <2>1, <1>5
<1>6. CASE pc[p] = x /\ y = x
  BY <1>1, <1>2, <1>6
<1> QED  BY <1>3, <1>4, <1>5, <1>6

(* Signal moves one wakeup from its producer to the first waiter. *)
LEMMA SignalCounts ==
  ASSUME Types, Listed, NEW p \in Producers, Signal(p), notEmpty # <<>>
  PROVE  /\ Cardinality(At("signal")') = Cardinality(At("signal")) - 1
         /\ Cardinality(At("awake")') = Cardinality(At("awake")) + 1
         /\ At("broadcast")' = At("broadcast")
<1> DEFINE h == notEmpty[1]
<1>1. h \in Consumers /\ Head(notEmpty) = h /\ 1 \in 1 .. Len(notEmpty)
  BY TailElements DEF Types
<1>2. p \in Processes /\ h \in Processes  BY <1>1 DEF Processes
<1>3. pc[h] = "waiting" /\ pc[p] = "signal"  BY <1>1, <1>2 DEF Listed, Signal
<1>4. pc' = [pc EXCEPT ![p] = "ready", ![h] = "awake"]  BY <1>1 DEF Signal
<1> HIDE DEF h
<1>5. \A q \in Processes : pc'[q] = IF q = h THEN "awake" ELSE IF q = p THEN "ready" ELSE pc[q]
  BY <1>2, <1>3, <1>4 DEF Types
<1>6. At("signal")' = At("signal") \ {p} /\ p \in At("signal")
  BY <1>2, <1>3, <1>5 DEF At
<1>7. At("awake")' = At("awake") \union {h} /\ h \notin At("awake")
  BY <1>2, <1>3, <1>5 DEF At
<1>8. At("broadcast")' = At("broadcast")  BY <1>2, <1>3, <1>5 DEF At
<1>9. Cardinality(At("signal") \ {p}) = Cardinality(At("signal")) - 1
  BY <1>6, AtFinite, FS_RemoveElement
<1>10. Cardinality(At("awake") \union {h}) = Cardinality(At("awake")) + 1
  BY <1>7, AtFinite, FS_AddElement
<1> QED  BY <1>6, <1>7, <1>8, <1>9, <1>10

(* One turn of consumer c at the mutex uses up at most the wakeup that is its. *)
LEMMA AttemptCounts ==
  ASSUME Types, NEW c \in Consumers, NEW w, Attempt(c, w), pc[c] \in {"ready", "awake"},
         NoLostWakeup
  PROVE  NoLostWakeup'
<1>0. c \in Processes  BY DEF Processes
<1>1. /\ Cardinality(At("signal")) \in Nat /\ Cardinality(At("awake")) \in Nat
      /\ Cardinality(At("signal")') \in Nat /\ Cardinality(At("awake")') \in Nat
  <2>1. PICK x : pc' = [pc EXCEPT ![c] = x]  BY DEF Attempt, Goto
  <2>2. /\ Cardinality(At("signal")) \in Nat /\ Cardinality(At("awake")) \in Nat
    BY AtFinite
  <2>3. IsFiniteSet(Processes)  BY ProcessAssumption, FS_Union DEF Processes
  <2>4. At("signal")' \subseteq Processes /\ At("awake")' \subseteq Processes  BY DEF At
  <2>5. IsFiniteSet(At("signal")') /\ IsFiniteSet(At("awake")')
    BY <2>3, <2>4, FS_Subset
  <2> QED  BY <2>2, <2>5, FS_CardinalityType
<1>2. CASE buffer = <<>> /\ UNCHANGED buffer
  <2>1. Len(buffer') = 0  BY <1>2
  <2> QED  BY <1>1, <2>1 DEF NoLostWakeup
<1>3. CASE buffer # <<>> /\ Take(Amount(w)) /\ Goto(c, "ready") /\ UNCHANGED notEmpty
  <2>1. Amount(w) \in 1 .. Len(buffer) /\ Len(buffer) \in Nat
    BY <1>3, AmountTaken DEF Types
  <2>2. Len(buffer') = Len(buffer) - Amount(w)  BY <1>3, <2>1, TakeTypes
  <2>3. pc' = [pc EXCEPT ![c] = "ready"] /\ notEmpty' = notEmpty  BY <1>3 DEF Goto
  <2>4. At("signal")' = At("signal") /\ At("broadcast")' = At("broadcast")
    BY <1>0, <2>3, CountMove
  <2>5. Cardinality(At("awake")') >= Cardinality(At("awake")) - 1
    <3>1. CASE pc[c] = "awake"
      <4>1. Cardinality(At("awake")') = Cardinality(At("awake")) - 1
        BY <1>0, <2>3, <3>1, CountMove
      <4> QED  BY <4>1, <1>1
    <3>2. CASE pc[c] = "ready"
      <4>1. At("awake")' = At("awake")  BY <1>0, <2>3, <3>2, CountMove
      <4> QED  BY <4>1, <1>1
    <3> QED  BY <3>1, <3>2
  <2> QED  BY <1>1, <2>1, <2>2, <2>3, <2>4, <2>5 DEF NoLostWakeup
<1> QED  BY <1>2, <1>3 DEF Attempt

(* A step of a producer or consumer p between places that are no wakeup. *)
LEMMA NeutralMove ==
  ASSUME Types, NEW p \in Processes, NEW y \in {"ready", "done"},
         pc[p] = "ready", pc' = [pc EXCEPT ![p] = y],
         notEmpty' = notEmpty, Len(buffer') \in Nat, Len(buffer') <= Len(buffer), NoLostWakeup
  PROVE  NoLostWakeup'
<1>1. /\ At("signal")' = At("signal") /\ At("awake")' = At("awake")
      /\ At("broadcast")' = At("broadcast")
  BY CountMove
<1>2. Cardinality(At("signal")) \in Nat /\ Cardinality(At("awake")) \in Nat /\ Len(buffer) \in Nat
  BY AtFinite DEF Types
<1> QED  BY <1>1, <1>2 DEF NoLostWakeup

(* A producer that is about to signal, for the one element it added. *)
LEMMA SignalPending ==
  ASSUME Types, NEW p \in Processes, pc[p] = "ready", Push(1),
         Goto(p, "signal"), notEmpty' = notEmpty, NoLostWakeup
  PROVE  NoLostWakeup'
<1>1. /\ Cardinality(At("signal")') = Cardinality(At("signal")) + 1
      /\ At("awake")' = At("awake") /\ At("broadcast")' = At("broadcast")
  BY CountMove DEF Goto
<1>2. Cardinality(At("signal")) \in Nat /\ Cardinality(At("awake")) \in Nat /\ Len(buffer) \in Nat
  BY AtFinite DEF Types
<1>3. Len(buffer') = Len(buffer) + 1  BY PushTypes
<1> QED  BY <1>1, <1>2, <1>3 DEF NoLostWakeup

(* Every step keeps a wakeup for every element somebody could wait for. *)
LEMMA WakeupStep ==
  ASSUME Types, Listed, NoLostWakeup, [Next]_vars
  PROVE  NoLostWakeup'
<1>0. Len(buffer) \in Nat  BY DEF Types
<1>1. CASE UNCHANGED vars  BY <1>1 DEF vars, NoLostWakeup, At
<1>2. CASE Close  BY <1>2 DEF Close, NoLostWakeup
<1>3. ASSUME NEW d \in Depths, SetMaxDepth(d) PROVE NoLostWakeup'
  BY <1>3 DEF SetMaxDepth, NoLostWakeup, At
<1>5. ASSUME NEW p \in Producers, Enqueue(p) PROVE NoLostWakeup'
  <2>1. /\ pc[p] = "ready" /\ Push(1) /\ Goto(p, "signal")
        /\ notEmpty' = notEmpty
    BY <1>5 DEF Enqueue
  <2> QED  BY <2>1, SignalPending DEF Processes
<1>6. ASSUME NEW p \in Producers, NEW n \in BatchSizes, EnqueueBatch(p, n) PROVE NoLostWakeup'
  <2>0. n \in Nat /\ p \in Processes  BY NumberAssumption DEF Processes
  <2>1. pc[p] = "ready" /\ Push(n) /\ notEmpty' = notEmpty
        /\ Goto(p, IF n > 1 THEN "broadcast" ELSE IF n = 1 THEN "signal" ELSE "ready")
    BY <1>6 DEF EnqueueBatch
  <2>2. CASE n > 1
    <3>1. pc' = [pc EXCEPT ![p] = "broadcast"]  BY <2>1, <2>2 DEF Goto
    <3>2. At("broadcast")' # {}  BY <2>0, <3>1, CountMove
    <3> QED  BY <3>2 DEF NoLostWakeup
  <2>3. CASE n = 1
    BY <2>0, <2>1, <2>3, SignalPending
  <2>4. CASE n = 0
    <3>1. Len(buffer') = Len(buffer)  BY <2>0, <2>1, <2>4, <1>0, PushTypes
    <3>2. pc' = [pc EXCEPT ![p] = "ready"]  BY <2>1, <2>4 DEF Goto
    <3>3. Len(buffer') \in Nat /\ Len(buffer') <= Len(buffer)  BY <1>0, <3>1
    <3>4. pc[p] = "ready" /\ notEmpty' = notEmpty  BY <2>1
    <3> QED  BY <2>0, <3>2, <3>3, <3>4, NeutralMove
  <2> QED  BY <2>0, <2>2, <2>3, <2>4
<1>7. ASSUME NEW p \in Producers, Signal(p) PROVE NoLostWakeup'
  <2>1. CASE notEmpty = <<>>
    <3>1. notEmpty' = notEmpty  BY <1>7, <2>1 DEF Signal
    <3> QED  BY <2>1, <3>1 DEF NoLostWakeup
  <2>2. CASE notEmpty # <<>>
    <3>1. buffer' = buffer  BY <1>7 DEF Signal
    <3>2. /\ Cardinality(At("signal")') = Cardinality(At("signal")) - 1
          /\ Cardinality(At("awake")') = Cardinality(At("awake")) + 1
          /\ At("broadcast")' = At("broadcast")
      BY <1>7, <2>2, SignalCounts
    <3>3. Cardinality(At("signal")) \in Nat /\ Cardinality(At("awake")) \in Nat
      BY AtFinite
    <3> QED  BY <1>0, <2>2, <3>1, <3>2, <3>3 DEF NoLostWakeup
  <2> QED  BY <2>1, <2>2
<1>8. ASSUME NEW p \in Producers, Broadcast(p) PROVE NoLostWakeup'
  BY <1>8 DEF Broadcast, NoLostWakeup
<1>9. ASSUME NEW c \in Consumers, Dequeue(c) \/ DequeueAll(c) \/ Resume(c) PROVE NoLostWakeup'
  <2>1. pc[c] \in {"ready", "awake"} /\ \E w : Attempt(c, w)
    BY <1>9 DEF Dequeue, DequeueAll, Resume
  <2> QED  BY <2>1, AttemptCounts
<1>10. ASSUME NEW c \in Consumers, TryDequeue(c) PROVE NoLostWakeup'
  <2>1. 1 \in 0 .. Len(buffer)  BY <1>10 DEF TryDequeue, Types
  <2>2. Len(buffer') = Len(buffer) - 1  BY <1>10, <2>1, TakeTypes DEF TryDequeue
  <2>3. notEmpty' = notEmpty /\ pc' = pc  BY <1>10 DEF TryDequeue
  <2>4. Cardinality(At("signal")) \in Nat /\ Cardinality(At("awake")) \in Nat
    BY AtFinite
  <2> QED  BY <1>0, <2>1, <2>2, <2>3, <2>4 DEF NoLostWakeup, At
<1>11. ASSUME NEW c \in Consumers, TryDequeueAll(c) PROVE NoLostWakeup'
  <2>1. notEmpty' = notEmpty /\ pc[c] = "ready"  BY <1>11 DEF TryDequeueAll
  <2>2. CASE Take(Len(buffer)) /\ UNCHANGED pc
    <3>1. Len(buffer') = 0
      <4>1. Len(buffer) \in 0 .. Len(buffer)  BY <1>0
      <4> QED  BY <1>0, <4>1, <2>2, TakeTypes
    <3>2. Cardinality(At("signal")) \in Nat /\ Cardinality(At("awake")) \in Nat
      BY AtFinite
    <3> QED  BY <2>1, <2>2, <3>1, <3>2 DEF NoLostWakeup, At
  <2>3. CASE buffer' = buffer /\ Goto(c, "done")
    <3>1. c \in Processes /\ Len(buffer') \in Nat /\ Len(buffer') <= Len(buffer)
      BY <1>0, <2>3 DEF Processes
    <3>2. pc' = [pc EXCEPT ![c] = "done"]  BY <2>3 DEF Goto
    <3>3. pc[c] = "ready"  BY <2>1
    <3> QED  BY <2>1, <3>1, <3>2, <3>3, NeutralMove
  <2> QED  BY <1>11, <2>2, <2>3 DEF TryDequeueAll
<1> QED
  BY <1>1, <1>2, <1>3, <1>5, <1>6, <1>7, <1>8, <1>9, <1>10, <1>11 DEF Next

(* Signalling after the unlock loses no wakeup, however producers, consumers    *)
(* and thieves interleave.                                                      *)
THEOREM NoWakeupIsLost == Spec => []NoLostWakeup
<1>1. Init => NoLostWakeup  BY DEF Init, NoLostWakeup
<1>2. Basics /\ NoLostWakeup /\ [Next]_vars => NoLostWakeup'
  BY WakeupStep DEF Basics
<1> QED  BY <1>1, <1>2, BasicsHold, PTL DEF Spec

-----------------------------------------------------------------------------
(* Exactly once, and closing *)

(* A consumer's turn takes nothing, or what it asks for from a queue that has   *)
(* something.                                                                   *)
LEMMA AttemptTakes ==
  ASSUME Types, NEW c, NEW w, Attempt(c, w)
  PROVE  \/ UNCHANGED <<buffer, taken>>
         \/ \E n \in 1 .. Len(buffer) : Take(n)
<1>1. CASE UNCHANGED <<buffer, taken>>  BY <1>1
<1>2. CASE buffer # <<>> /\ Take(Amount(w))
  BY <1>2, AmountTaken
<1> QED  BY <1>1, <1>2 DEF Attempt

(* Every step leaves the buffer alone, extends it while the queue is open, or   *)
(* takes from it.                                                               *)
LEMMA BufferMoves ==
  ASSUME Types, [Next]_vars
  PROVE  \/ UNCHANGED <<buffer, accepted, taken>>
         \/ ~closed /\ UNCHANGED taken /\ \E n \in Nat : Push(n)
         \/ UNCHANGED accepted /\ \E n \in 0 .. Len(buffer) : Take(n)
<1>0. Len(buffer) \in Nat  BY DEF Types
<1>1. CASE UNCHANGED vars  BY <1>1 DEF vars
<1>2. CASE Close \/ \E d \in Depths : SetMaxDepth(d)
  BY <1>2 DEF Close, SetMaxDepth
<1>3. ASSUME NEW p \in Producers,
             Signal(p) \/ Broadcast(p)
      PROVE  UNCHANGED <<buffer, accepted, taken>>
  BY <1>3 DEF Signal, Broadcast
<1>4. ASSUME NEW p \in Producers, Enqueue(p)
      PROVE  ~closed /\ UNCHANGED taken /\ Push(1)
  BY <1>4 DEF Enqueue
<1>5. ASSUME NEW p \in Producers, NEW n \in BatchSizes, EnqueueBatch(p, n)
      PROVE  ~closed /\ UNCHANGED taken /\ Push(n) /\ n \in Nat
  BY <1>5, NumberAssumption DEF EnqueueBatch
<1>6. ASSUME NEW c \in Consumers, Dequeue(c) \/ DequeueAll(c) \/ Resume(c)
      PROVE  UNCHANGED accepted /\ \E w : Attempt(c, w)
  BY <1>6 DEF Dequeue, DequeueAll, Resume
<1>7. ASSUME NEW c \in Consumers, TryDequeue(c)
      PROVE  UNCHANGED accepted /\ Take(1) /\ 1 \in 0 .. Len(buffer)
  BY <1>7 DEF TryDequeue, Types
<1>8. ASSUME NEW c \in Consumers, TryDequeueAll(c)
      PROVE  UNCHANGED accepted /\ (Take(Len(buffer)) \/ UNCHANGED <<buffer, taken>>)
  BY <1>8 DEF TryDequeueAll
<1>9. Len(buffer) \in 0 .. Len(buffer)  BY <1>0
<1>10. CASE \E p \in Producers : Enqueue(p)  BY <1>4, <1>10
<1>11. CASE \E p \in Producers, n \in BatchSizes : EnqueueBatch(p, n)  BY <1>5, <1>11
<1>12. CASE \E c \in Consumers : Dequeue(c) \/ DequeueAll(c) \/ Resume(c)
  <2>1. UNCHANGED accepted /\ \E c, w : Attempt(c, w)  BY <1>6, <1>12
  <2> QED  BY <2>1, <1>0, AttemptTakes
<1>13. CASE \E c \in Consumers : TryDequeue(c)  BY <1>7, <1>13
<1>14. CASE \E c \in Consumers : TryDequeueAll(c)  BY <1>8, <1>9, <1>14
<1> QED  BY <1>1, <1>2, <1>3, <1>10, <1>11, <1>12, <1>13, <1>14 DEF Next

(* What ExactlyOnce needs to be inductive: the counts differ by what is there.  *)
Accounted == ExactlyOnce /\ Len(buffer) = accepted - taken

(* Every step keeps the books. *)
LEMMA AccountedStep ==
  ASSUME Types, Accounted, [Next]_vars
  PROVE  Accounted'
<1>0. /\ accepted \in Nat /\ taken \in Nat /\ Len(buffer) \in Nat
      /\ Len(buffer) = accepted - taken /\ buffer \in Seq(Nat)
      /\ \A i \in 1 .. Len(buffer) : buffer[i] = taken + i
  <2>1. /\ accepted \in Nat /\ taken \in Nat /\ Len(buffer) \in Nat /\ buffer \in Seq(Nat)
        /\ Len(buffer) = accepted - taken
    BY DEF Types, Accounted
  <2>2. buffer = [i \in 1 .. Len(buffer) |-> taken + i]
    BY <2>1 DEF Accounted, ExactlyOnce
  <2> QED  BY <2>1, <2>2
<1> SUFFICES Types' => Accounted'
  BY TypesStep
<1> SUFFICES ASSUME Types',
                    Len(buffer') = accepted' - taken',
                    \A i \in 1 .. Len(buffer') : buffer'[i] = taken' + i
             PROVE  Accounted'
  <2>1. CASE UNCHANGED <<buffer, accepted, taken>>
    BY <1>0, <2>1
  <2>2. ASSUME NEW n \in Nat, Push(n), UNCHANGED taken
        PROVE  /\ Len(buffer') = accepted' - taken'
               /\ \A i \in 1 .. Len(buffer') : buffer'[i] = taken' + i
    <3> DEFINE new == [i \in 1 .. n |-> accepted + i]
    <3>1. new \in Seq(Nat) /\ Len(new) = n /\ \A i \in 1 .. n : new[i] = accepted + i
      BY <1>0
    <3>2. buffer' = buffer \o new /\ accepted' = accepted + n  BY <2>2 DEF Push
    <3> HIDE DEF new
    <3>3. /\ Len(buffer \o new) = Len(buffer) + n
          /\ \A i \in 1 .. Len(buffer) + n :
               (buffer \o new)[i] = IF i <= Len(buffer) THEN buffer[i] ELSE new[i - Len(buffer)]
      BY <1>0, <3>1, ConcatProperties
    <3>4. ASSUME NEW i \in 1 .. Len(buffer) + n PROVE (buffer \o new)[i] = taken + i
      <4>1. CASE i <= Len(buffer)  BY <1>0, <3>3, <4>1
      <4>2. CASE ~(i <= Len(buffer))
        <5>1. i - Len(buffer) \in 1 .. n  BY <1>0, <4>2
        <5>2. (buffer \o new)[i] = accepted + (i - Len(buffer))  BY <3>1, <3>3, <4>2, <5>1
        <5> QED  BY <1>0, <5>2
      <4> QED  BY <4>1, <4>2
    <3> QED  BY <1>0, <2>2, <3>2, <3>3, <3>4
  <2>3. ASSUME NEW n \in 0 .. Len(buffer), Take(n), UNCHANGED accepted
        PROVE  /\ Len(buffer') = accepted' - taken'
               /\ \A i \in 1 .. Len(buffer') : buffer'[i] = taken' + i
    <3>1. buffer' = SubSeq(buffer, n + 1, Len(buffer)) /\ taken' = taken + n
      BY <2>3 DEF Take
    <3>2. Len(buffer') = Len(buffer) - n  BY <2>3, TakeTypes
    <3>3. ASSUME NEW i \in 1 .. Len(buffer) - n
          PROVE  SubSeq(buffer, n + 1, Len(buffer))[i] = buffer[n + i]
      BY <1>0, <3>3
    <3>4. ASSUME NEW i \in 1 .. Len(buffer) - n PROVE buffer'[i] = (taken + n) + i
      <4>1. n + i \in 1 .. Len(buffer)  BY <1>0
      <4> QED  BY <1>0, <3>1, <3>3, <4>1
    <3> QED  BY <1>0, <2>3, <3>1, <3>2, <3>4
  <2> QED  BY <2>1, <2>2, <2>3, BufferMoves
<1>1. buffer' \in Seq(Nat)  BY DEF Types
<1>2. buffer' = [i \in 1 .. Len(buffer') |-> buffer'[i]]  BY <1>1
<1>3. buffer' = [i \in 1 .. accepted' - taken' |-> taken' + i]  BY <1>2
<1> QED  BY <1>3 DEF Accounted, ExactlyOnce

(* The books are right in every state. *)
LEMMA AccountedHolds == Spec => []Accounted
<1>1. Init => Accounted  BY DEF Init, Accounted, ExactlyOnce
<1>2. Basics /\ Accounted /\ [Next]_vars => Accounted'
  BY AccountedStep DEF Basics
<1> QED  BY <1>1, <1>2, BasicsHold, PTL DEF Spec

(* Every variable has its type, the list of waiters is right, and as much is    *)
(* there as was accepted and not taken.                                         *)
THEOREM TypeCorrect == Spec => []TypeOK
<1>1. Basics /\ Accounted => TypeOK
  BY DEF Basics, Types, Listed, Accounted, TypeOK
<1> QED  BY <1>1, BasicsHold, AccountedHolds, PTL

(* Every accepted element is handed out once and in order. *)
THEOREM HandedOutExactlyOnce == Spec => []ExactlyOnce
<1>1. Accounted => ExactlyOnce  BY DEF Accounted
<1> QED  BY <1>1, AccountedHolds, PTL

(* Every step of an open queue leaves whoever was not told to stop untold, and a *)
(* closed one stays closed and wakes everybody.                                  *)
LEMMA ClosingStep ==
  ASSUME Types, Types', DoneMeansDrained, ClosedWakesAll, [Next]_vars
  PROVE  DoneMeansDrained' /\ ClosedWakesAll'
<1> USE DEF Processes
<1>1. CASE UNCHANGED vars  BY <1>1 DEF vars, DoneMeansDrained, ClosedWakesAll, At
<1>2. CASE Close
  <2>1. \A q \in Processes : pc'[q] = "done" => pc[q] = "done"
    BY <1>2 DEF Close, AllAwake
  <2> QED  BY <1>2, <2>1 DEF Close, DoneMeansDrained, ClosedWakesAll, At
<1>3. ASSUME NEW d \in Depths, SetMaxDepth(d)
      PROVE  DoneMeansDrained' /\ ClosedWakesAll'
  BY <1>3 DEF SetMaxDepth, DoneMeansDrained, ClosedWakesAll, At
<1>5. ASSUME NEW p \in Producers, NEW n, Enqueue(p) \/ EnqueueBatch(p, n)
      PROVE  DoneMeansDrained' /\ ClosedWakesAll'
  <2>1. ~closed /\ closed' = closed  BY <1>5 DEF Enqueue, EnqueueBatch
  <2>2. \A q \in Processes : pc'[q] = "done" => pc[q] = "done"
    BY <1>5 DEF Enqueue, EnqueueBatch, Goto, Types
  <2> QED  BY <2>1, <2>2 DEF DoneMeansDrained, ClosedWakesAll, At
<1>6. ASSUME NEW p \in Producers, Signal(p)
      PROVE  DoneMeansDrained' /\ ClosedWakesAll'
  <2>1. \A q \in Processes : pc'[q] = "done" => pc[q] = "done"
    BY <1>6 DEF Signal, Goto, Types
  <2>2. closed' = closed /\ buffer' = buffer /\ (notEmpty = <<>> => notEmpty' = <<>>)
    BY <1>6 DEF Signal
  <2> QED  BY <2>1, <2>2 DEF DoneMeansDrained, ClosedWakesAll, At
<1>7. ASSUME NEW p \in Producers, Broadcast(p)
      PROVE  DoneMeansDrained' /\ ClosedWakesAll'
  <2>1. \A q \in Processes : pc'[q] = "done" => pc[q] = "done"
    BY <1>7 DEF Broadcast, AllAwake, Types
  <2> QED  BY <1>7, <2>1 DEF Broadcast, DoneMeansDrained, ClosedWakesAll, At
<1>8. ASSUME NEW c \in Consumers, Dequeue(c) \/ DequeueAll(c) \/ Resume(c)
      PROVE  DoneMeansDrained' /\ ClosedWakesAll'
  <2>1. closed' = closed /\ \E w \in {"one", "all"} : Attempt(c, w)
    BY <1>8 DEF Dequeue, DequeueAll, Resume, Types
  <2>2. PICK w : Attempt(c, w)  BY <2>1
  <2>3. CASE buffer = <<>> /\ ~closed
    <3>1. \A q \in Processes : pc'[q] = "done" => pc[q] = "done"
      BY <2>2, <2>3 DEF Attempt, Goto, Types
    <3> QED  BY <2>1, <2>3, <3>1 DEF DoneMeansDrained, ClosedWakesAll, At
  <2>4. CASE buffer = <<>> /\ closed
    <3>1. buffer' = buffer /\ notEmpty' = notEmpty  BY <2>2, <2>4 DEF Attempt
    <3> QED  BY <2>1, <2>4, <3>1 DEF DoneMeansDrained, ClosedWakesAll
  <2>5. CASE buffer # <<>>
    <3>1. At("done") = {}  BY <2>5 DEF DoneMeansDrained
    <3>2. \A q \in Processes : pc'[q] = "done" => pc[q] = "done"
      BY <2>2, <2>5 DEF Attempt, Goto, Types
    <3>3. notEmpty' = notEmpty  BY <2>2, <2>5 DEF Attempt
    <3> QED  BY <2>1, <3>1, <3>2, <3>3 DEF DoneMeansDrained, ClosedWakesAll, At
  <2> QED  BY <2>3, <2>4, <2>5
<1>9. ASSUME NEW c \in Consumers, TryDequeue(c)
      PROVE  DoneMeansDrained' /\ ClosedWakesAll'
  BY <1>9 DEF TryDequeue, DoneMeansDrained, ClosedWakesAll, At
<1>10. ASSUME NEW c \in Consumers, TryDequeueAll(c)
      PROVE  DoneMeansDrained' /\ ClosedWakesAll'
  <2>1. closed' = closed /\ notEmpty' = notEmpty  BY <1>10 DEF TryDequeueAll
  <2>2. CASE buffer # <<>> /\ UNCHANGED pc
    BY <2>1, <2>2 DEF DoneMeansDrained, ClosedWakesAll, At
  <2>3. CASE buffer = <<>> /\ closed /\ buffer' = buffer
    BY <2>1, <2>3 DEF DoneMeansDrained, ClosedWakesAll
  <2> QED  BY <1>10, <2>2, <2>3 DEF TryDequeueAll
<1> QED
  BY <1>1, <1>2, <1>3, <1>5, <1>6, <1>7, <1>8, <1>9, <1>10 DEF Next

(* A consumer told that the queue is closed has left nothing behind, and nobody  *)
(* waits on a closed queue.                                                      *)
THEOREM ClosingIsClean == Spec => []CloseIsClean
<1>1. Init => DoneMeansDrained /\ ClosedWakesAll
  BY DEF Init, DoneMeansDrained, ClosedWakesAll, At
<1>2. Basics /\ Basics' /\ DoneMeansDrained /\ ClosedWakesAll /\ [Next]_vars
        => DoneMeansDrained' /\ ClosedWakesAll'
  BY ClosingStep DEF Basics
<1>3. DoneMeansDrained /\ ClosedWakesAll => CloseIsClean  BY DEF CloseIsClean
<1> QED  BY <1>1, <1>2, <1>3, BasicsHold, PTL DEF Spec

-----------------------------------------------------------------------------
(* An enqueue never goes beyond the limit that holds when it happens, whatever  *)
(* the size of the batch and however SetMaxDepth moves the limit: each of them  *)
(* compares and pushes with the mutex held.                                     *)
THEOREM LimitRespected == Spec => DepthRespected
<1> DEFINE Fits == Len(buffer') > Len(buffer) /\ maxDepth > 0 => Len(buffer') <= maxDepth
<1>1. ASSUME TypeOK, Next PROVE Fits
  <2>0. /\ buffer \in Seq(Nat) /\ Len(buffer) \in Nat /\ maxDepth \in Nat
        /\ accepted \in Nat
    BY <1>1, NumberAssumption DEF TypeOK
  <2>1. ASSUME NEW n \in Nat, Push(n) PROVE Len(buffer') = Len(buffer) + n
    <3>1. [i \in 1 .. n |-> accepted + i] \in Seq(Nat)
          /\ Len([i \in 1 .. n |-> accepted + i]) = n
      BY <2>0
    <3> QED  BY <2>0, <2>1, <3>1 DEF Push
  <2>2. ASSUME NEW p \in Producers, Enqueue(p) PROVE Fits
    BY <2>0, <2>1, <2>2 DEF Enqueue
  <2>3. ASSUME NEW p \in Producers, NEW n \in BatchSizes, EnqueueBatch(p, n) PROVE Fits
    BY <2>0, <2>1, <2>3, NumberAssumption DEF EnqueueBatch
  <2>4. ASSUME NEW n \in Nat, Take(n) PROVE Len(buffer') <= Len(buffer)
    BY <2>0, <2>4 DEF Take
  <2>5. ASSUME NEW c \in Consumers, NEW w \in {"one", "all"}, Attempt(c, w) PROVE Fits
    BY <2>0, <2>4, <2>5 DEF Attempt, Amount
  <2>6. ASSUME NEW c \in Consumers, TryDequeue(c) \/ TryDequeueAll(c) PROVE Fits
    BY <2>0, <2>4, <2>6 DEF TryDequeue, TryDequeueAll
  <2>7. ASSUME NEW c \in Consumers, Resume(c) PROVE Fits
    BY <1>1, <2>5, <2>7 DEF Resume, TypeOK
  <2>8. ASSUME NEW c \in Consumers, Dequeue(c) \/ DequeueAll(c) PROVE Fits
    BY <2>5, <2>8 DEF Dequeue, DequeueAll
  <2>9. CASE buffer' = buffer  BY <2>0, <2>9
  <2> QED
    BY <1>1, <2>2, <2>3, <2>6, <2>7, <2>8, <2>9
    DEF Next, Close, SetMaxDepth, Signal, Broadcast
<1>2. TypeOK /\ [Next]_vars => [Fits]_vars  BY <1>1
<1> QED  BY <1>2, TypeCorrect, PTL DEF Spec, DepthRespected
=============================================================================
