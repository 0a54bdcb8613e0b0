------------------------------ MODULE RingBuffer ------------------------------
(***************************************************************************)
(* The growing ring buffer under every queue (src/ring_buffer.go), with    *)
(* the slice a mailbox loop hands to popAllInto again and again.  Go's     *)
(* `i & mask` is written `i % size`, which it equals because size is a     *)
(* power of two (MCRingBuffer has TLC compare the two).                    *)
(***************************************************************************)
EXTENDS Integers, Sequences

CONSTANTS
  Values,       \* what callers store: envelopes, never the zero value
  Zero,         \* the zero value of T (nil)
  Batches,      \* the sequences of values one call may push
  Sizes,        \* bound: the capacities a buffer may grow to
  InitialSize   \* the argument of NewRingBuffer

ASSUME ZeroAssumption == Zero \notin Values
ASSUME BatchAssumption == Batches \subseteq Seq(Values)
(* 1, 2, 4, ... without a gap *)
ASSUME SizeAssumption ==
  /\ Sizes \subseteq Nat \ {0}
  /\ \A n \in Sizes : n # 1 => n % 2 = 0 /\ n \div 2 \in Sizes
ASSUME InitialAssumption == InitialSize \in Nat \ {0}

VARIABLES
  buffer,  \* buffer[i], i \in 0 .. size - 1
  size, head, tail, count,
  dst,     \* the array behind the reused slice, up to its capacity
  dstLen,  \* the length of that slice
  polled,  \* history: tryDequeueAllInto has truncated the slice
  result   \* what the last call returned

ring == <<buffer, size, head, tail, count>>
slice == <<dst, dstLen, polled>>
vars == <<ring, slice, result>>

Slot(k) == (head + k) % size

(* The live window, oldest element first. *)
Contents == [k \in 1 .. count |-> buffer[Slot(k - 1)]]

(* Mutant: a doubling that may be one slot short. *)
DoubledTo_Short(n, from, need) == /\ n >= from
                                  /\ n >= need - 1
                                  /\ n = from \/ n \div 2 < need - 1

(* n is the first doubling of from that reaches need. *)
DoubledTo(n, from, need) == /\ n >= from
                            /\ n >= need
                            /\ n = from \/ n \div 2 < need

Init ==
  /\ size \in {n \in Sizes : DoubledTo(n, 1, InitialSize)}   \* ceilPowerOfTwo
  /\ buffer = [i \in 0 .. size - 1 |-> Zero]
  /\ head = 0 /\ tail = 0 /\ count = 0
  /\ dst = <<>> /\ dstLen = 0 /\ polled = FALSE
  /\ result = <<>>

-----------------------------------------------------------------------------
(* Mutant: a full buffer, head = tail, is taken for a contiguous one. *)
Relocated_HeadIsTail(n) ==
  [i \in 0 .. n - 1 |->
     IF head <= tail /\ i < tail - head THEN buffer[head + i]
     ELSE IF head > tail /\ i < size - head THEN buffer[head + i]
     ELSE IF head > tail /\ i - (size - head) < tail THEN buffer[i - (size - head)]
     ELSE Zero]

(* grow's two copies: [head, tail), or else [head, size) and [0, tail). *)
Relocated(n) ==
  LET first == IF head < tail THEN tail - head ELSE size - head
      second == IF head < tail THEN 0 ELSE tail
  IN [i \in 0 .. n - 1 |-> IF i < first THEN buffer[head + i]
                           ELSE IF i - first < second THEN buffer[i - first]
                           ELSE Zero]

(* vs written into b, of capacity n, from slot t on, going round its end. *)
Written(b, n, t, vs) ==
  [i \in 0 .. n - 1 |-> LET k == (i - t) % n
                        IN IF k < Len(vs) THEN vs[k + 1] ELSE b[i]]

PushInPlace(vs) ==
  /\ size - count >= Len(vs)
  /\ buffer' = Written(buffer, size, tail, vs)
  /\ tail' = (tail + Len(vs)) % size
  /\ UNCHANGED <<size, head>>

PushGrowing(vs) ==
  /\ size - count < Len(vs)
  /\ \E n \in Sizes :
       /\ DoubledTo(n, size, count + Len(vs))
       /\ size' = n
       /\ buffer' = Written(Relocated(n), n, count, vs)
       /\ head' = 0
       /\ tail' = (count + Len(vs)) % n

(* Push is PushBatch of one value: it grows when the buffer is full. *)
PushBatch(vs) ==
  /\ PushInPlace(vs) \/ PushGrowing(vs)
  /\ count' = count + Len(vs)
  /\ result' = <<>>
  /\ UNCHANGED slice

Pop ==
  /\ count > 0
  /\ buffer' = [buffer EXCEPT ![head] = Zero]
  /\ head' = (head + 1) % size
  /\ count' = count - 1
  /\ result' = <<buffer[head]>>
  /\ UNCHANGED <<size, tail, slice>>

(* Pop and Peek of an empty buffer, and the calls that only read. *)
PopEmpty == count = 0 /\ result' = <<>> /\ UNCHANGED <<ring, slice>>
Peek == count > 0 /\ result' = <<buffer[head]>> /\ UNCHANGED <<ring, slice>>
GetAll == result' = Contents /\ UNCHANGED <<ring, slice>>

(* Mutant: the slots of the window keep what they held. *)
Emptied_Kept == /\ head' = 0 /\ tail' = 0 /\ count' = 0
                /\ UNCHANGED <<buffer, size>>

(* The window is zeroed, whatever part of the array it covers. *)
InWindow(i) == (i - head) % size < count
Emptied ==
  /\ buffer' = [i \in 0 .. size - 1 |-> IF InWindow(i) THEN Zero ELSE buffer[i]]
  /\ head' = 0 /\ tail' = 0 /\ count' = 0
  /\ UNCHANGED size

PopAll == Emptied /\ result' = Contents /\ UNCHANGED slice
Clear == Emptied /\ result' = <<>> /\ UNCHANGED slice

(* Mutant: the rest of the old batch stays where it is. *)
Reused_Uncleared == [i \in 1 .. Len(dst) |-> IF i <= count THEN Contents[i] ELSE dst[i]]

(* dst with the new batch in front, and what the old one left behind it
   zeroed, as far as the old slice went. *)
Reused == [i \in 1 .. Len(dst) |-> IF i <= count THEN Contents[i]
                                   ELSE IF i <= dstLen THEN Zero
                                   ELSE dst[i]]

(* The queue's callers only get here with something to take. *)
PopAllInto ==
  /\ count > 0
  /\ Emptied
  /\ dst' = IF Len(dst) < count THEN Contents ELSE Reused
  /\ dstLen' = count
  /\ result' = SubSeq(dst', 1, count)
  /\ UNCHANGED polled

(* tryDequeueAllInto of an empty queue truncates the slice, and that is all. *)
PollEmpty ==
  /\ count = 0
  /\ dstLen' = 0
  /\ polled' = TRUE
  /\ result' = <<>>
  /\ UNCHANGED <<ring, dst>>

Next == \/ \E vs \in Batches : PushBatch(vs)
        \/ Pop \/ PopEmpty \/ Peek \/ GetAll
        \/ PopAll \/ Clear \/ PopAllInto \/ PollEmpty

Spec == Init /\ [][Next]_vars

-----------------------------------------------------------------------------
(* Properties *)

Cells == Values \union {Zero}

(* The indices stay within the array, and tail is where the window ends. *)
TypeOK ==
  /\ size \in Sizes
  /\ buffer \in [0 .. size - 1 -> Cells]
  /\ head \in 0 .. size - 1
  /\ tail \in 0 .. size - 1
  /\ count \in 0 .. size
  /\ tail = (head + count) % size
  /\ dst \in Seq(Cells)
  /\ dstLen \in 0 .. Len(dst)
  /\ polled \in BOOLEAN
  /\ result \in Seq(Cells)

(* The array holds on to nothing that was taken out: every slot outside the
   window is zero, so that taken envelopes can be collected (ring_buffer.go,
   Pop, popAllInto and Clear write rb.zero). *)
NoResidue == \A i \in 0 .. size - 1 : ~InWindow(i) => buffer[i] = Zero

(* "clears what dst holds beyond the new batch, so that the envelopes can be
   collected" (ring_buffer.go:113): the array behind the reused slice holds
   nothing beyond the slice. Only a poll of an empty queue breaks it, because
   tryDequeueAllInto shortens the slice and clears nothing; no mailbox loop
   polls. *)
DstCleared == polled \/ \A i \in dstLen + 1 .. Len(dst) : dst[i] = Zero

(* Growing, going round the end of the array, and reusing slices are invisible:
   what is popped, peeked at or copied is what a plain sequence would give. *)
FI == INSTANCE Fifo WITH contents <- Contents
ImplementsFifo == FI!Spec
=============================================================================
