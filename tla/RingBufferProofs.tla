--------------------------- MODULE RingBufferProofs ---------------------------
(* Proofs about RingBuffer, for every capacity, value and batch: its indices  *)
(* stay in range, it retains nothing, and it implements Fifo.                 *)
EXTENDS RingBuffer, SequenceTheorems, TLAPS

(* Arithmetic of going round: i % s for the i that occur, one lap either way. *)
LEMMA Small ==
  ASSUME NEW s \in Nat \ {0}, NEW i \in 0 .. s - 1
  PROVE  i % s = i
OBVIOUS

(* One lap too far. *)
LEMMA Over ==
  ASSUME NEW s \in Nat \ {0}, NEW i \in s .. 2 * s - 1
  PROVE  i % s = i - s
OBVIOUS

(* One lap too short. *)
LEMMA Under ==
  ASSUME NEW s \in Nat \ {0}, NEW i \in Int, -s <= i, i < 0
  PROVE  i % s = i + s
OBVIOUS

(* A slot is always a valid index. *)
LEMMA InRange ==
  ASSUME NEW s \in Nat \ {0}, NEW i \in Int
  PROVE  i % s \in 0 .. s - 1
OBVIOUS

(* The slot k places after h is k places after h. *)
LEMMA PlaceOfSlot ==
  ASSUME NEW s \in Nat \ {0}, NEW h \in 0 .. s - 1, NEW k \in 0 .. s - 1
  PROVE  (((h + k) % s) - h) % s = k
<1>1. CASE h + k < s
  <2>1. (h + k) % s = h + k  BY <1>1, Small
  <2>2. k % s = k  BY Small
  <2> QED  BY <2>1, <2>2
<1>2. CASE h + k >= s
  <2>1. (h + k) % s = h + k - s  BY <1>2, Over
  <2>2. (k - s) % s = k  BY Under
  <2>3. h + k - s - h = k - s  OBVIOUS
  <2> QED  BY <2>1, <2>2, <2>3
<1> QED  BY <1>1, <1>2

(* Every slot is the slot that is as many places after h as it is. *)
LEMMA SlotOfPlace ==
  ASSUME NEW s \in Nat \ {0}, NEW h \in 0 .. s - 1, NEW i \in 0 .. s - 1
  PROVE  (h + ((i - h) % s)) % s = i
<1>1. CASE i >= h
  <2>1. (i - h) % s = i - h  BY <1>1, Small
  <2>2. i % s = i  BY Small
  <2> QED  BY <2>1, <2>2
<1>2. CASE i < h
  <2>1. (i - h) % s = i - h + s  BY <1>2, Under
  <2>2. (i + s) % s = i  BY Over
  <2>3. h + (i - h + s) = i + s  OBVIOUS
  <2> QED  BY <2>1, <2>2, <2>3
<1> QED  BY <1>1, <1>2

(* The same slot seen from the end of a window of c slots that starts at h. *)
LEMMA PlaceFromEnd ==
  ASSUME NEW s \in Nat \ {0}, NEW h \in 0 .. s - 1, NEW c \in 0 .. s,
         NEW i \in 0 .. s - 1
  PROVE  (i - ((h + c) % s)) % s =
           IF (i - h) % s >= c THEN ((i - h) % s) - c ELSE (((i - h) % s) - c) + s
<1> DEFINE d == (i - h) % s
<1>1. d \in 0 .. s - 1  BY InRange
<1>2. PICK q \in {-1, 0, 1} : (h + c) % s = h + c - s * q /\ q \in {0, 1}
  <2>1. CASE h + c < s
    BY <2>1, Small
  <2>2. CASE h + c >= s
    BY <2>2, Over
  <2> QED  BY <2>1, <2>2
<1>3. d = i - h \/ d = i - h + s
  <2>1. CASE i >= h  BY <2>1, Small
  <2>2. CASE i < h  BY <2>2, Under
  <2> QED  BY <2>1, <2>2
<1> DEFINE e == i - ((h + c) % s)
<1>4. e \in {d - c - s, d - c, d - c + s, d - c + s + s}
  BY <1>1, <1>2, <1>3
<1>5. e \in -s .. s - 1
  <2>1. (h + c) % s \in 0 .. s - 1  BY InRange
  <2> QED  BY <2>1
<1>6. CASE e >= 0
  <2>1. e % s = e  BY <1>5, <1>6, Small
  <2> QED  BY <2>1, <1>1, <1>4, <1>5, <1>6
<1>7. CASE e < 0
  <2>0. e \in Int /\ -s <= e  BY <1>5
  <2>1. e % s = e + s
    <3> HIDE DEF e
    <3> QED  BY <2>0, <1>7, Under
  <2> QED  BY <2>1, <1>1, <1>4, <1>5, <1>7
<1> QED  BY <1>5, <1>6, <1>7

(* The end of a window that grows by n moves n places on. *)
LEMMA EndMoves ==
  ASSUME NEW s \in Nat \ {0}, NEW h \in 0 .. s - 1, NEW c \in 0 .. s,
         NEW n \in 0 .. s, c + n <= s
  PROVE  (((h + c) % s) + n) % s = (h + (c + n)) % s
<1>1. CASE h + c < s
  BY <1>1, Small
<1>2. CASE h + c >= s
  <2>1. (h + c) % s = h + c - s  BY <1>2, Over
  <2>2. h + c + n - s \in 0 .. s - 1  BY <1>2
  <2>3. (h + c + n - s) % s = h + c + n - s  BY <2>2, Small
  <2>4. (h + (c + n)) % s = h + c + n - s  BY <1>2, Over
  <2> QED  BY <2>1, <2>3, <2>4
<1> QED  BY <1>1, <1>2

(* A window whose start moves one place on. *)
LEMMA StartMoves ==
  ASSUME NEW s \in Nat \ {0}, NEW h \in 0 .. s - 1, NEW k \in 0 .. s - 1
  PROVE  (((h + 1) % s) + k) % s = (h + (k + 1)) % s
<1>1. CASE h + 1 < s
  BY <1>1, Small
<1>2. CASE h + 1 = s
  <2>1. (h + 1) % s = 0  BY <1>2, Over
  <2>2. k % s = k  BY Small
  <2>3. (h + (k + 1)) % s = k  BY <1>2, Over
  <2> QED  BY <2>1, <2>2, <2>3
<1> QED  BY <1>1, <1>2

-----------------------------------------------------------------------------
(* The steps, one part of the state at a time *)

(* Facts about Written: inside and outside the slots it writes. *)
LEMMA WrittenType ==
  ASSUME NEW n \in Nat \ {0}, NEW b \in [0 .. n - 1 -> Cells], NEW t \in 0 .. n - 1,
         NEW vs \in Seq(Values)
  PROVE  Written(b, n, t, vs) \in [0 .. n - 1 -> Cells]
<1> SUFFICES ASSUME NEW i \in 0 .. n - 1
             PROVE  Written(b, n, t, vs)[i] \in Cells
  BY DEF Written
<1> DEFINE k == (i - t) % n
<1>1. k \in 0 .. n - 1  BY InRange
<1>2. Written(b, n, t, vs)[i] = IF k < Len(vs) THEN vs[k + 1] ELSE b[i]
  BY DEF Written
<1> HIDE DEF k
<1>3. k < Len(vs) => vs[k + 1] \in Values  BY <1>1
<1> QED  BY <1>2, <1>3 DEF Cells

(* What grow copies: the window, oldest first, then zeros. *)
LEMMA RelocatedWindow ==
  ASSUME TypeOK, NoResidue, NEW n \in Nat \ {0}, n >= count
  PROVE  /\ Relocated(n) \in [0 .. n - 1 -> Cells]
         /\ \A i \in 0 .. n - 1 :
              Relocated(n)[i] = IF i < count THEN buffer[Slot(i)] ELSE Zero
<1>0. /\ size \in Nat \ {0} /\ head \in 0 .. size - 1 /\ tail \in 0 .. size - 1
      /\ count \in 0 .. size /\ tail = (head + count) % size
  BY SizeAssumption DEF TypeOK
<1> SUFFICES ASSUME NEW i \in 0 .. n - 1
             PROVE  /\ Relocated(n)[i] \in Cells
                    /\ Relocated(n)[i] = IF i < count THEN buffer[Slot(i)] ELSE Zero
  BY DEF Relocated
<1> DEFINE first == IF head < tail THEN tail - head ELSE size - head
           second == IF head < tail THEN 0 ELSE tail
<1>1. Relocated(n)[i] = IF i < first THEN buffer[head + i]
                        ELSE IF i - first < second THEN buffer[i - first]
                        ELSE Zero
  BY DEF Relocated
<1>2. \A j \in 0 .. size - 1 : buffer[j] \in Cells  BY DEF TypeOK
<1>3. CASE count = 0
  <2>1. \A j \in 0 .. size - 1 : buffer[j] = Zero
    <3> SUFFICES ASSUME NEW j \in 0 .. size - 1 PROVE buffer[j] = Zero
      OBVIOUS
    <3>1. j - head \in Int  BY <1>0
    <3>2. (j - head) % size \in 0 .. size - 1  BY <3>1, <1>0, InRange
    <3> QED  BY <3>2, <1>3 DEF NoResidue, InWindow
  <2>2. tail = head
    <3>1. head + 0 = head  BY <1>0
    <3> QED  BY <3>1, <1>0, <1>3, Small
  <2>3. Relocated(n)[i] = Zero
    <3>1. CASE i < first
      <4>1. head + i \in 0 .. size - 1  BY <3>1, <2>2, <1>0
      <4> QED  BY <4>1, <3>1, <2>1, <1>1
    <3>2. CASE i >= first /\ i - first < second
      <4>1. i - first \in 0 .. size - 1  BY <3>2, <2>2, <1>0
      <4>2. ~(i < first)  BY <3>2, <1>0
      <4> QED  BY <4>1, <4>2, <3>2, <2>1, <1>1
    <3>3. CASE i >= first /\ ~(i - first < second)
      <4>2. ~(i < first)  BY <3>3, <1>0
      <4> QED  BY <4>2, <3>3, <1>1
    <3> QED  BY <3>1, <3>2, <3>3, <1>0
  <2> QED  BY <2>3, <1>3 DEF Cells
<1>4. CASE count # 0 /\ head < tail
  <2>1. tail = head + count
    <3>1. CASE head + count < size
      BY <3>1, <1>0, Small
    <3>2. CASE head + count >= size
      <4> DEFINE j == head + count
      <4>0. j \in size .. 2 * size - 1  BY <3>2, <1>0
      <4>1. j % size = j - size
        <5> HIDE DEF j
        <5> QED  BY <4>0, <1>0, Over
      <4> QED  BY <4>1, <1>4, <1>0
    <3> QED  BY <3>1, <3>2, <1>0
  <2>2. i < count => Slot(i) = head + i
    BY <2>1, <1>0, Small DEF Slot
  <2> QED  BY <2>1, <2>2, <1>0, <1>1, <1>2, <1>4 DEF Cells
<1>5. CASE count # 0 /\ head >= tail
  <2>1. head + count >= size
    <3> SUFFICES ASSUME head + count < size PROVE FALSE
      BY <1>0
    <3>1. tail = head + count  BY <1>0, Small
    <3> QED  BY <3>1, <1>0, <1>5
  <2>2. tail = head + count - size
    <3> DEFINE j == head + count
    <3>1. j \in size .. 2 * size - 1  BY <2>1, <1>0
    <3>2. j % size = j - size
      <4> HIDE DEF j
      <4> QED  BY <3>1, <1>0, Over
    <3> QED  BY <3>2, <1>0
  <2>3. CASE i < size - head
    <3>1. Slot(i) = head + i  BY <2>3, <1>0, Small DEF Slot
    <3> QED  BY <3>1, <2>1, <2>2, <2>3, <1>0, <1>1, <1>2, <1>5
  <2>4. CASE i >= size - head /\ i < count
    <3> DEFINE j == head + i
    <3>0. j \in size .. 2 * size - 1  BY <2>4, <1>0
    <3>1. j % size = j - size
      <4> HIDE DEF j
      <4> QED  BY <3>0, <1>0, Over
    <3>2. Slot(i) = head + i - size
      BY <3>1, <1>0 DEF Slot
    <3> QED  BY <3>2, <2>1, <2>2, <2>4, <1>0, <1>1, <1>2, <1>5
  <2>5. CASE i >= count
    BY <2>1, <2>2, <2>5, <1>0, <1>1, <1>5 DEF Cells
  <2> QED  BY <2>3, <2>4, <2>5, <1>0
<1> QED  BY <1>3, <1>4, <1>5, <1>0

(* The inductive invariant: NoResidue is what lets grow copy an empty window
   that sits in the middle of the array without bringing anything back. *)
Inv == TypeOK /\ NoResidue

(* The ranges of the indices, in the form the arithmetic lemmas want. *)
LEMMA Ranges ==
  ASSUME TypeOK
  PROVE  /\ size \in Nat \ {0} /\ head \in 0 .. size - 1 /\ tail \in 0 .. size - 1
         /\ count \in 0 .. size /\ tail = (head + count) % size
         /\ buffer \in [0 .. size - 1 -> Cells]
BY SizeAssumption DEF TypeOK

(* The contents are a sequence of cells, and empty when the count is zero. *)
LEMMA ContentsType ==
  ASSUME TypeOK
  PROVE  /\ Contents \in Seq(Cells)
         /\ Len(Contents) = count
         /\ count = 0 => Contents = <<>>
<1>1. \A k \in 1 .. count : buffer[Slot(k - 1)] \in Cells
  <2> SUFFICES ASSUME NEW k \in 1 .. count PROVE buffer[Slot(k - 1)] \in Cells
    OBVIOUS
  <2> DEFINE j == head + (k - 1)
  <2>1. j \in Int  BY Ranges
  <2>2. j % size \in 0 .. size - 1
    <3> HIDE DEF j
    <3> QED  BY <2>1, Ranges, InRange
  <2> QED  BY <2>2, Ranges DEF Slot
<1>2. count \in Nat  BY Ranges
<1>3. Contents \in Seq(Cells) /\ Len(Contents) = count
  BY <1>1, <1>2 DEF Contents
<1> QED  BY <1>3

(* What a slot holds, by its place from the head. *)
LEMMA SlotContents ==
  ASSUME Inv, NEW i \in 0 .. size - 1
  PROVE  /\ (i - head) % size \in 0 .. size - 1
         /\ buffer[i] = IF (i - head) % size < count
                        THEN Contents[((i - head) % size) + 1] ELSE Zero
<1> DEFINE d == (i - head) % size
<1>1. d \in 0 .. size - 1
  <2> DEFINE j == i - head
  <2>1. j \in Int  BY Ranges DEF Inv
  <2>2. j % size \in 0 .. size - 1
    <3> HIDE DEF j
    <3> QED  BY <2>1, Ranges, InRange DEF Inv
  <2> QED  BY <2>2
<1>2. CASE d < count
  <2>1. Slot(d) = i  BY Ranges, SlotOfPlace DEF Slot, Inv
  <2>2. d + 1 \in 1 .. count  BY <1>1, <1>2, Ranges DEF Inv
  <2> HIDE DEF d
  <2>3. Contents[d + 1] = buffer[Slot(d)]
    <3>1. (d + 1) - 1 = d  BY <1>1, Ranges DEF Inv
    <3> QED  BY <2>2, <3>1 DEF Contents
  <2> QED  BY <2>1, <2>3, <1>1, <1>2 DEF d
<1>3. CASE ~(d < count)
  BY <1>1, <1>3 DEF Inv, NoResidue, InWindow
<1> QED  BY <1>1, <1>2, <1>3

(* Before a push writes anything it has a buffer b of capacity n with room for
   vs, which holds what there was, from slot h on: the old one or the grown one. *)
LEMMA Room ==
  ASSUME Inv, NEW vs \in Batches, PushBatch(vs)
  PROVE  \E n \in Sizes : \E h \in 0 .. n - 1 : \E b \in [0 .. n - 1 -> Cells] :
           /\ size' = n /\ head' = h /\ count' = count + Len(vs)
           /\ count + Len(vs) <= n
           /\ buffer' = Written(b, n, (h + count) % n, vs)
           /\ tail' = (((h + count) % n) + Len(vs)) % n
           /\ \A i \in 0 .. n - 1 :
                b[i] = IF (i - h) % n < count THEN Contents[((i - h) % n) + 1] ELSE Zero
<1>0. Len(vs) \in Nat  BY BatchAssumption
<1>1. CASE PushInPlace(vs)
  <2>1. count + Len(vs) <= size  BY <1>0, <1>1, Ranges DEF PushInPlace, Inv
  <2>2. \A i \in 0 .. size - 1 :
          buffer[i] = IF (i - head) % size < count
                      THEN Contents[((i - head) % size) + 1] ELSE Zero
    BY SlotContents
  <2>3. size \in Sizes  BY DEF Inv, TypeOK
  <2>4. /\ size' = size /\ head' = head /\ count' = count + Len(vs)
        /\ buffer' = Written(buffer, size, tail, vs)
        /\ tail' = (tail + Len(vs)) % size
    BY <1>1 DEF PushBatch, PushInPlace
  <2> QED  BY <2>1, <2>2, <2>3, <2>4, Ranges DEF Inv
<1>2. CASE PushGrowing(vs)
  <2>1. PICK n \in Sizes :
          /\ DoubledTo(n, size, count + Len(vs))
          /\ size' = n
          /\ buffer' = Written(Relocated(n), n, count, vs)
          /\ head' = 0
          /\ tail' = (count + Len(vs)) % n
    BY <1>2 DEF PushGrowing
  <2>2. /\ n \in Nat \ {0} /\ count + Len(vs) <= n /\ count < n
        /\ count \in Nat
    <3>1. n >= size /\ n >= count + Len(vs) /\ size - count < Len(vs)
      BY <1>2, <2>1 DEF DoubledTo, PushGrowing
    <3>2. n \in Nat \ {0}  BY SizeAssumption
    <3>3. n # size
      BY <3>1, <3>2, <1>0, Ranges DEF Inv
    <3> QED  BY <3>1, <3>2, <3>3, <1>0, Ranges DEF Inv
  <2>3. count % n = count /\ (0 + count) % n = count
    <3>1. count \in 0 .. n - 1  BY <2>2
    <3>2. count % n = count  BY <3>1, <2>2, Small
    <3>3. 0 + count = count  BY <2>2
    <3> QED  BY <3>2, <3>3
  <2>4. /\ Relocated(n) \in [0 .. n - 1 -> Cells]
        /\ \A i \in 0 .. n - 1 :
             Relocated(n)[i] = IF i < count THEN buffer[Slot(i)] ELSE Zero
    <3>1. n >= count  BY <2>2
    <3> QED  BY <2>2, <3>1, RelocatedWindow DEF Inv
  <2>5. \A i \in 0 .. n - 1 :
          Relocated(n)[i] = IF (i - 0) % n < count
                            THEN Contents[((i - 0) % n) + 1] ELSE Zero
    <3> SUFFICES ASSUME NEW i \in 0 .. n - 1
                 PROVE  Relocated(n)[i] = IF (i - 0) % n < count
                            THEN Contents[((i - 0) % n) + 1] ELSE Zero
      OBVIOUS
    <3>1. i - 0 = i /\ i % n = i  BY <2>2, Small
    <3>2. i < count => Contents[i + 1] = buffer[Slot(i)]
      <4> SUFFICES ASSUME i < count PROVE Contents[i + 1] = buffer[Slot(i)]
        OBVIOUS
      <4>1. i + 1 \in 1 .. count /\ (i + 1) - 1 = i  BY <2>2
      <4> QED  BY <4>1 DEF Contents
    <3> QED  BY <3>1, <3>2, <2>4
  <2>6. count' = count + Len(vs)  BY DEF PushBatch
  <2>7. 0 \in 0 .. n - 1  BY <2>2
  <2>8. buffer' = Written(Relocated(n), n, (0 + count) % n, vs)
        /\ tail' = (((0 + count) % n) + Len(vs)) % n
    BY <2>1, <2>3
  <2> QED  BY <2>1, <2>2, <2>4, <2>5, <2>6, <2>7, <2>8
<1> QED  BY <1>1, <1>2 DEF PushBatch

(* What the slots hold after a push. *)
LEMMA AfterPush ==
  ASSUME Inv, NEW vs \in Batches, PushBatch(vs)
  PROVE  \E n \in Sizes : \E h \in 0 .. n - 1 :
           /\ size' = n /\ head' = h /\ tail' \in 0 .. n - 1
           /\ count' = count + Len(vs) /\ count + Len(vs) \in 0 .. n
           /\ tail' = (h + (count + Len(vs))) % n
           /\ buffer' \in [0 .. n - 1 -> Cells]
           /\ \A i \in 0 .. n - 1 :
                /\ (i - h) % n \in 0 .. n - 1
                /\ buffer'[i] = IF (i - h) % n < count THEN Contents[((i - h) % n) + 1]
                                ELSE IF (i - h) % n < count + Len(vs)
                                     THEN vs[(((i - h) % n) - count) + 1] ELSE Zero
<1>1. PICK n \in Sizes : \E h \in 0 .. n - 1 : \E b \in [0 .. n - 1 -> Cells] :
           /\ size' = n /\ head' = h /\ count' = count + Len(vs)
           /\ count + Len(vs) <= n
           /\ buffer' = Written(b, n, (h + count) % n, vs)
           /\ tail' = (((h + count) % n) + Len(vs)) % n
           /\ \A i \in 0 .. n - 1 :
                b[i] = IF (i - h) % n < count THEN Contents[((i - h) % n) + 1] ELSE Zero
  BY Room
<1>2. PICK h \in 0 .. n - 1 : \E b \in [0 .. n - 1 -> Cells] :
           /\ size' = n /\ head' = h /\ count' = count + Len(vs)
           /\ count + Len(vs) <= n
           /\ buffer' = Written(b, n, (h + count) % n, vs)
           /\ tail' = (((h + count) % n) + Len(vs)) % n
           /\ \A i \in 0 .. n - 1 :
                b[i] = IF (i - h) % n < count THEN Contents[((i - h) % n) + 1] ELSE Zero
  BY <1>1
<1>3. PICK b \in [0 .. n - 1 -> Cells] :
           /\ size' = n /\ head' = h /\ count' = count + Len(vs)
           /\ count + Len(vs) <= n
           /\ buffer' = Written(b, n, (h + count) % n, vs)
           /\ tail' = (((h + count) % n) + Len(vs)) % n
           /\ \A i \in 0 .. n - 1 :
                b[i] = IF (i - h) % n < count THEN Contents[((i - h) % n) + 1] ELSE Zero
  BY <1>2
<1>4. /\ n \in Nat \ {0} /\ vs \in Seq(Values) /\ Len(vs) \in Nat /\ count \in Nat
      /\ count \in 0 .. n /\ Len(vs) \in 0 .. n
  <2>1. n \in Nat \ {0}  BY SizeAssumption
  <2>2. vs \in Seq(Values) /\ Len(vs) \in Nat  BY BatchAssumption
  <2>3. count \in Nat  BY Ranges DEF Inv
  <2> QED  BY <2>1, <2>2, <2>3, <1>3
<1> DEFINE t == (h + count) % n
<1>5. t \in 0 .. n - 1
  <2> DEFINE j == h + count
  <2>1. j \in Int  BY <1>4
  <2>2. j % n \in 0 .. n - 1
    <3> HIDE DEF j
    <3> QED  BY <2>1, <1>4, InRange
  <2> QED  BY <2>2
<1>6. tail' = (h + (count + Len(vs))) % n  BY <1>3, <1>4, EndMoves
<1>7. tail' \in 0 .. n - 1
  <2> DEFINE j == h + (count + Len(vs))
  <2>1. j \in Int  BY <1>4
  <2>2. j % n \in 0 .. n - 1
    <3> HIDE DEF j
    <3> QED  BY <2>1, <1>4, InRange
  <2> QED  BY <2>2, <1>6
<1>8. buffer' \in [0 .. n - 1 -> Cells]
  <2> HIDE DEF t
  <2>1. Written(b, n, t, vs) \in [0 .. n - 1 -> Cells]
    BY <1>4, <1>5, WrittenType
  <2> QED  BY <2>1, <1>3 DEF t
<1>9. ASSUME NEW i \in 0 .. n - 1
      PROVE  /\ (i - h) % n \in 0 .. n - 1
             /\ buffer'[i] = IF (i - h) % n < count THEN Contents[((i - h) % n) + 1]
                             ELSE IF (i - h) % n < count + Len(vs)
                                  THEN vs[(((i - h) % n) - count) + 1] ELSE Zero
  <2> DEFINE d == (i - h) % n
             k == (i - t) % n
  <2>1. d \in 0 .. n - 1
    <3> DEFINE j == i - h
    <3>1. j \in Int  BY <1>4
    <3>2. j % n \in 0 .. n - 1
      <4> HIDE DEF j
      <4> QED  BY <3>1, <1>4, InRange
    <3> QED  BY <3>2
  <2>2. k = IF d >= count THEN d - count ELSE (d - count) + n
    BY <1>4, PlaceFromEnd
  <2>3. buffer'[i] = IF k < Len(vs) THEN vs[k + 1] ELSE b[i]
    BY <1>3 DEF Written
  <2>4. b[i] = IF d < count THEN Contents[d + 1] ELSE Zero
    BY <1>3
  <2> HIDE DEF d, k
  <2>5. buffer'[i] = IF d < count THEN Contents[d + 1]
                    ELSE IF d < count + Len(vs) THEN vs[(d - count) + 1] ELSE Zero
    <3>1. CASE d < count
      <4>1. ~(k < Len(vs))  BY <3>1, <2>1, <2>2, <1>3, <1>4
      <4> QED  BY <4>1, <3>1, <2>3, <2>4
    <3>2. CASE ~(d < count)
      <4>1. k = d - count  BY <3>2, <2>1, <2>2, <1>4
      <4>2. (k < Len(vs)) <=> (d < count + Len(vs))  BY <4>1, <2>1, <1>4
      <4> QED  BY <4>1, <4>2, <3>2, <2>3, <2>4
    <3> QED  BY <3>1, <3>2
  <2> QED  BY <2>1, <2>5 DEF d
<1>10. count + Len(vs) \in 0 .. n  BY <1>3, <1>4
<1> HIDE DEF t
<1> QED  BY <1>3, <1>6, <1>7, <1>8, <1>9, <1>10

(* Concatenation, element by element. *)
LEMMA Concatenation ==
  ASSUME NEW S, NEW T, NEW q \in Seq(S), NEW r \in Seq(T), NEW n \in Nat, n = Len(q)
  PROVE  q \o r = [k \in 1 .. n + Len(r) |-> IF k <= n THEN q[k] ELSE r[k - n]]
<1> DEFINE U == S \union T
           f == [k \in 1 .. n + Len(r) |-> IF k <= n THEN q[k] ELSE r[k - n]]
<1>1. q \in Seq(U) /\ r \in Seq(U) /\ Len(r) \in Nat
  OBVIOUS
<1>2. /\ q \o r \in Seq(U)
      /\ Len(q \o r) = n + Len(r)
      /\ \A i \in 1 .. n + Len(r) : (q \o r)[i] = IF i <= n THEN q[i] ELSE r[i - n]
  BY <1>1, ConcatProperties
<1>3. DOMAIN (q \o r) = 1 .. n + Len(r)  BY <1>2
<1>4. q \o r = [k \in DOMAIN (q \o r) |-> (q \o r)[k]]
  <2>1. q \o r \in UNION {[1 .. m -> U] : m \in Nat}  BY <1>2, SeqDef
  <2>2. PICK m \in Nat : q \o r \in [1 .. m -> U]  BY <2>1
  <2> QED  BY <2>2
<1> QED  BY <1>2, <1>3, <1>4

(* A push keeps the invariant and appends to the contents. *)
LEMMA PushStep ==
  ASSUME Inv, NEW vs \in Batches, PushBatch(vs)
  PROVE  Inv' /\ Contents' = Contents \o vs /\ result' = <<>>
<1>1. PICK n \in Sizes : \E h \in 0 .. n - 1 :
           /\ size' = n /\ head' = h /\ tail' \in 0 .. n - 1
           /\ count' = count + Len(vs) /\ count + Len(vs) \in 0 .. n
           /\ tail' = (h + (count + Len(vs))) % n
           /\ buffer' \in [0 .. n - 1 -> Cells]
           /\ \A i \in 0 .. n - 1 :
                /\ (i - h) % n \in 0 .. n - 1
                /\ buffer'[i] = IF (i - h) % n < count THEN Contents[((i - h) % n) + 1]
                                ELSE IF (i - h) % n < count + Len(vs)
                                     THEN vs[(((i - h) % n) - count) + 1] ELSE Zero
  BY AfterPush
<1>2. PICK h \in 0 .. n - 1 :
           /\ size' = n /\ head' = h /\ tail' \in 0 .. n - 1
           /\ count' = count + Len(vs) /\ count + Len(vs) \in 0 .. n
           /\ tail' = (h + (count + Len(vs))) % n
           /\ buffer' \in [0 .. n - 1 -> Cells]
           /\ \A i \in 0 .. n - 1 :
                /\ (i - h) % n \in 0 .. n - 1
                /\ buffer'[i] = IF (i - h) % n < count THEN Contents[((i - h) % n) + 1]
                                ELSE IF (i - h) % n < count + Len(vs)
                                     THEN vs[(((i - h) % n) - count) + 1] ELSE Zero
  BY <1>1
<1>3. n \in Nat \ {0} /\ n \in Int  BY SizeAssumption
<1>4. Len(vs) \in Nat /\ vs \in Seq(Values)  BY BatchAssumption
<1>5. count \in Nat /\ Len(Contents) = count /\ Contents \in Seq(Cells)
  BY Ranges, ContentsType DEF Inv
<1>6. dst' = dst /\ dstLen' = dstLen /\ polled' = polled /\ result' = <<>>
  BY DEF PushBatch, slice
<1>7. TypeOK'
  <2>1. /\ size' \in Sizes /\ head' \in 0 .. size' - 1 /\ tail' \in 0 .. size' - 1
        /\ count' \in 0 .. size' /\ tail' = (head' + count') % size'
        /\ buffer' \in [0 .. size' - 1 -> Cells]
    BY <1>2
  <2> QED  BY <2>1, <1>6 DEF Inv, TypeOK
<1>8. NoResidue'
  <2>1. ASSUME NEW i \in 0 .. n - 1, ~((i - h) % n < count + Len(vs))
        PROVE  buffer'[i] = Zero
    <3> DEFINE d == (i - h) % n
    <3>1. /\ d \in 0 .. n - 1
          /\ buffer'[i] = IF d < count THEN Contents[d + 1]
                          ELSE IF d < count + Len(vs) THEN vs[(d - count) + 1] ELSE Zero
      BY <1>2
    <3>2. ~(d < count + Len(vs))  BY <2>1
    <3> HIDE DEF d
    <3>3. ~(d < count)  BY <3>1, <3>2, <1>3, <1>4, <1>5
    <3> QED  BY <3>1, <3>2, <3>3
  <2> QED  BY <2>1, <1>2 DEF NoResidue, InWindow
<1>9. ASSUME NEW k \in 1 .. count + Len(vs)
      PROVE  buffer'[(h + (k - 1)) % n] =
               IF k <= count THEN Contents[k] ELSE vs[k - count]
  <2> DEFINE i == (h + (k - 1)) % n
  <2>1. k - 1 \in 0 .. n - 1  BY <1>2, <1>3, <1>4, <1>5
  <2>2. (i - h) % n = k - 1  BY <2>1, <1>3, PlaceOfSlot
  <2>3. i \in 0 .. n - 1
    <3> DEFINE j == h + (k - 1)
    <3>1. j \in Int  BY <2>1, <1>3
    <3>2. j % n \in 0 .. n - 1
      <4> HIDE DEF j
      <4> QED  BY <3>1, <1>3, InRange
    <3> QED  BY <3>2
  <2> HIDE DEF i
  <2>4. buffer'[i] = IF k - 1 < count THEN Contents[(k - 1) + 1]
                    ELSE IF k - 1 < count + Len(vs) THEN vs[((k - 1) - count) + 1] ELSE Zero
    BY <1>2, <2>2, <2>3
  <2>5. /\ (k - 1) + 1 = k /\ ((k - 1) - count) + 1 = k - count
        /\ (k - 1 < count) <=> (k <= count)
        /\ k - 1 < count + Len(vs)
    BY <1>4, <1>5
  <2> QED  BY <2>4, <2>5 DEF i
<1>10. Contents' = [k \in 1 .. count + Len(vs) |->
                      IF k <= count THEN Contents[k] ELSE vs[k - count]]
  BY <1>2, <1>9 DEF Contents, Slot
<1>11. Contents \o vs = [k \in 1 .. count + Len(vs) |->
                           IF k <= count THEN Contents[k] ELSE vs[k - count]]
  BY <1>4, <1>5, Concatenation
<1> QED  BY <1>6, <1>7, <1>8, <1>10, <1>11 DEF Inv

(* Pop keeps the invariant and takes the oldest element. *)
LEMMA PopStep ==
  ASSUME Inv, Pop
  PROVE  Inv' /\ Contents # <<>> /\ Contents' = Tail(Contents) /\ result' = <<Contents[1]>>
<1>1. /\ size \in Nat \ {0} /\ head \in 0 .. size - 1 /\ tail \in 0 .. size - 1
      /\ count \in 1 .. size /\ tail = (head + count) % size
      /\ buffer \in [0 .. size - 1 -> Cells]
      /\ Len(Contents) = count /\ Contents \in Seq(Cells)
  BY Ranges, ContentsType DEF Inv, Pop
<1>2. /\ size' = size /\ tail' = tail /\ dst' = dst /\ dstLen' = dstLen /\ polled' = polled
      /\ count' = count - 1 /\ head' = (head + 1) % size
      /\ buffer' = [buffer EXCEPT ![head] = Zero]
      /\ result' = <<buffer[head]>>
  BY DEF Pop, slice
<1>3. head' \in 0 .. size - 1
  <2> DEFINE j == head + 1
  <2>1. j \in Int  BY <1>1
  <2>2. j % size \in 0 .. size - 1
    <3> HIDE DEF j
    <3> QED  BY <2>1, <1>1, InRange
  <2> QED  BY <2>2, <1>2
<1>4. buffer[head] = Contents[1]
  <2>1. (head - head) % size = 0
    <3>1. head - head = 0 /\ 0 % size = 0  BY <1>1, Small
    <3> QED  BY <3>1
  <2> QED  BY <2>1, <1>1, SlotContents
<1>5. \A k \in 0 .. size - 1 : (head' + k) % size = (head + (k + 1)) % size
  BY <1>1, <1>2, StartMoves
<1>6. TypeOK'
  <2>1. tail' = (head' + count') % size'
    <3>1. count - 1 \in 0 .. size - 1 /\ (count - 1) + 1 = count  BY <1>1
    <3> QED  BY <3>1, <1>1, <1>2, <1>5
  <2>2. buffer' \in [0 .. size - 1 -> Cells]  BY <1>1, <1>2 DEF Cells
  <2>3. count' \in 0 .. size  BY <1>1, <1>2
  <2>4. result' \in Seq(Cells)  BY <1>1, <1>2
  <2> QED  BY <2>1, <2>2, <2>3, <2>4, <1>1, <1>2, <1>3 DEF Inv, TypeOK
<1>7. ASSUME NEW i \in 0 .. size - 1, ~((i - head') % size < count')
      PROVE  buffer'[i] = Zero
  <2> DEFINE d == (i - head) % size
  <2>1. d \in 0 .. size - 1 /\ (~(d < count) => buffer[i] = Zero)
    BY SlotContents
  <2>2. (i - head') % size = IF d >= 1 THEN d - 1 ELSE (d - 1) + size
    <3>1. 1 \in 0 .. size  BY <1>1
    <3> QED  BY <3>1, <1>1, <1>2, PlaceFromEnd
  <2>3. (head + d) % size = i  BY <1>1, SlotOfPlace
  <2> HIDE DEF d
  <2>4. CASE d >= 1
    <3>1. ~(d < count)  BY <2>1, <2>2, <2>4, <1>1, <1>2, <1>7
    <3> QED  BY <3>1, <2>1, <1>1, <1>2
  <2>5. CASE d = 0
    <3>1. head + 0 = head  BY <1>1
    <3>1a. head % size = head  BY <1>1, Small
    <3>2. i = head  BY <3>1, <3>1a, <2>3, <2>5
    <3> QED  BY <3>2, <1>1, <1>2
  <2> QED  BY <2>1, <2>4, <2>5
<1>8. NoResidue'  BY <1>2, <1>7 DEF NoResidue, InWindow
<1>9. ASSUME NEW k \in 1 .. count - 1
      PROVE  buffer'[(head' + (k - 1)) % size] = Contents[k + 1]
  <2> DEFINE i == (head + k) % size
  <2>1. k \in 0 .. size - 1 /\ k - 1 \in 0 .. size - 1 /\ (k - 1) + 1 = k  BY <1>1
  <2>2. (head' + (k - 1)) % size = i  BY <2>1, <1>5
  <2>3. (i - head) % size = k  BY <2>1, <1>1, PlaceOfSlot
  <2>4. i # head
    <3>1. head - head = 0 /\ 0 % size = 0 /\ k # 0  BY <1>1, Small
    <3> QED  BY <3>1, <2>3
  <2>5. i \in 0 .. size - 1
    <3> DEFINE j == head + k
    <3>1. j \in Int  BY <1>1
    <3>2. j % size \in 0 .. size - 1
      <4> HIDE DEF j
      <4> QED  BY <3>1, <1>1, InRange
    <3> QED  BY <3>2
  <2> HIDE DEF i
  <2>6. buffer'[i] = buffer[i]  BY <2>4, <2>5, <1>1, <1>2
  <2>7. k < count  BY <1>1
  <2>8. buffer[i] = Contents[k + 1]  BY <2>3, <2>5, <2>7, SlotContents
  <2> QED  BY <2>2, <2>6, <2>8
<1>10. Contents' = [k \in 1 .. count - 1 |-> Contents[k + 1]]
  BY <1>2, <1>9 DEF Contents, Slot
<1>11. Contents # <<>> /\ Tail(Contents) = [k \in 1 .. count - 1 |-> Contents[k + 1]]
  BY <1>1
<1> QED  BY <1>2, <1>4, <1>6, <1>8, <1>10, <1>11 DEF Inv

(* Emptying leaves nothing but zeros, with both indices at the start. *)
LEMMA EmptiedStep ==
  ASSUME Inv, Emptied, dst' \in Seq(Cells), dstLen' \in 0 .. Len(dst'), polled' \in BOOLEAN,
         result' \in Seq(Cells)
  PROVE  Inv' /\ Contents' = <<>>
<1>1. size \in Nat \ {0} /\ size \in Sizes /\ buffer \in [0 .. size - 1 -> Cells]
  BY Ranges DEF Inv, TypeOK
<1>2. /\ size' = size /\ head' = 0 /\ tail' = 0 /\ count' = 0
      /\ buffer' = [i \in 0 .. size - 1 |-> IF InWindow(i) THEN Zero ELSE buffer[i]]
  BY DEF Emptied
<1>3. \A i \in 0 .. size - 1 : buffer'[i] = Zero
  BY <1>2 DEF Inv, NoResidue
<1>4. (0 + 0) % size = 0
  <2>1. 0 + 0 = 0 /\ 0 % size = 0  BY <1>1, Small
  <2> QED  BY <2>1
<1>5. TypeOK'
  <2>1. buffer' \in [0 .. size - 1 -> Cells]  BY <1>2, <1>3 DEF Cells
  <2> QED  BY <2>1, <1>1, <1>2, <1>4 DEF TypeOK
<1>6. NoResidue'  BY <1>2, <1>3 DEF NoResidue
<1>7. Contents' = <<>>
  <2>1. Contents' = [k \in 1 .. 0 |-> buffer'[(head' + (k - 1)) % size']]
    BY <1>2 DEF Contents, Slot
  <2>2. \A k \in 1 .. 0 : FALSE  OBVIOUS
  <2>3. Contents' \in Seq(Cells) /\ Len(Contents') = 0  BY <2>1, <2>2
  <2> QED  BY <2>3
<1> QED  BY <1>5, <1>6, <1>7 DEF Inv

(* The front of the window is its oldest element. *)
LEMMA Front ==
  ASSUME Inv, count > 0
  PROVE  /\ Contents # <<>> /\ buffer[head] = Contents[1] /\ buffer[head] \in Cells
<1>1. /\ size \in Nat \ {0} /\ head \in 0 .. size - 1 /\ count \in Nat
      /\ Len(Contents) = count /\ buffer \in [0 .. size - 1 -> Cells]
  BY Ranges, ContentsType DEF Inv
<1>2. (head - head) % size = 0
  <2>1. head - head = 0 /\ 0 % size = 0  BY <1>1, Small
  <2> QED  BY <2>1
<1>3. buffer[head] = Contents[1]  BY <1>1, <1>2, SlotContents
<1> QED  BY <1>1, <1>3

(* The reused slice is exactly the batch, in a new array or in the old one. *)
LEMMA TakeIntoStep ==
  ASSUME Inv, PopAllInto
  PROVE  Inv' /\ Contents' = <<>> /\ result' = Contents
<1>1. /\ Contents \in Seq(Cells) /\ Len(Contents) = count /\ count \in Nat
      /\ dst \in Seq(Cells)
  BY ContentsType, Ranges DEF Inv, TypeOK
<1>2. /\ dst' = (IF Len(dst) < count THEN Contents ELSE Reused)
      /\ dstLen' = count /\ result' = SubSeq(dst', 1, count)
  BY DEF PopAllInto
<1>3. /\ dst' \in Seq(Cells) /\ count <= Len(dst')
      /\ \A i \in 1 .. count : dst'[i] = Contents[i]
  <2>1. CASE Len(dst) < count
    <3>1. dst' = Contents  BY <1>2, <2>1
    <3> QED  BY <3>1, <1>1
  <2>2. CASE ~(Len(dst) < count)
    <3>1. dst' = Reused  BY <1>2, <2>2
    <3>2. Len(dst) \in Nat /\ count <= Len(dst)  BY <1>1, <2>2
    <3>3. Reused \in Seq(Cells) /\ Len(Reused) = Len(dst)
      BY <1>1, <3>2 DEF Reused, Cells
    <3>4. \A i \in 1 .. count : Reused[i] = Contents[i]
      BY <1>1, <3>2 DEF Reused
    <3> QED  BY <3>1, <3>2, <3>3, <3>4
  <2> QED  BY <2>1, <2>2
<1>4. result' = Contents
  <2> DEFINE d == dst'
             q == Contents
  <2>1. d \in Seq(Cells) /\ q \in Seq(Cells) /\ Len(q) = count /\ count <= Len(d)
        /\ \A i \in 1 .. count : d[i] = q[i]
    BY <1>1, <1>3
  <2>2. SubSeq(d, 1, count) = q
    <3> HIDE DEF d, q
    <3>1. SubSeq(d, 1, count) = [i \in 1 .. count |-> d[i]]  BY <1>1, <2>1
    <3>2. q = [i \in 1 .. count |-> q[i]]  BY <1>1, <2>1
    <3> QED  BY <3>1, <3>2, <2>1
  <2> QED  BY <2>2, <1>2
<1>5. dstLen' \in 0 .. Len(dst')  BY <1>1, <1>2, <1>3
<1>6. Inv' /\ Contents' = <<>>
  <2>1. Emptied  BY DEF PopAllInto
  <2>2. polled' \in BOOLEAN  BY DEF PopAllInto, Inv, TypeOK
  <2> QED  BY <2>1, <2>2, <1>1, <1>3, <1>4, <1>5, EmptiedStep
<1> QED  BY <1>4, <1>6

(* The initial buffer is empty. *)
LEMMA InitStep ==
  ASSUME Init
  PROVE  Inv /\ Contents = <<>> /\ result = <<>>
<1>1. /\ size \in Sizes /\ size \in Nat \ {0} /\ head = 0 /\ tail = 0 /\ count = 0
      /\ buffer = [i \in 0 .. size - 1 |-> Zero]
      /\ dst = <<>> /\ dstLen = 0 /\ polled = FALSE /\ result = <<>>
  BY SizeAssumption DEF Init
<1>2. 0 % size = 0 /\ 0 + 0 = 0  BY <1>1, Small
<1>3. buffer \in [0 .. size - 1 -> Cells]  BY <1>1 DEF Cells
<1>4. TypeOK  BY <1>1, <1>2, <1>3 DEF TypeOK
<1>5. NoResidue  BY <1>1 DEF NoResidue
<1> QED  BY <1>1, <1>4, <1>5, ContentsType DEF Inv

(* Calls that leave the ring alone. *)
LEMMA ReadStep ==
  ASSUME Inv, UNCHANGED <<ring, dst>>, result' \in Seq(Cells), dstLen' \in 0 .. Len(dst),
         polled' \in BOOLEAN
  PROVE  Inv' /\ Contents' = Contents
<1>1. /\ buffer' = buffer /\ size' = size /\ head' = head /\ tail' = tail
      /\ count' = count /\ dst' = dst
  BY DEF ring
<1>2. Contents' = Contents  BY <1>1 DEF Contents, Slot
<1>3. NoResidue'  BY <1>1 DEF Inv, NoResidue, InWindow
<1>4. TypeOK'  BY <1>1 DEF Inv, TypeOK
<1> QED  BY <1>2, <1>3, <1>4 DEF Inv

(* Every call keeps the invariant, and is a call of the plain sequence. *)
LEMMA NextStep ==
  ASSUME Inv, Next
  PROVE  Inv' /\ FI!Next
<1>1. Contents \in Seq(Cells)  BY ContentsType DEF Inv
<1>2. dstLen \in 0 .. Len(dst) /\ dst \in Seq(Cells) /\ polled \in BOOLEAN
  BY DEF Inv, TypeOK
<1>3. ASSUME NEW vs \in Batches, PushBatch(vs) PROVE Inv' /\ FI!Next
  BY <1>3, PushStep DEF FI!Next, FI!Put
<1>4. CASE Pop
  BY <1>4, PopStep DEF FI!Next, FI!Get, FI!Younger, FI!Oldest
<1>5. CASE PopEmpty
  <2>1. Contents = <<>> /\ result' = <<>>  BY <1>5, ContentsType DEF PopEmpty, Inv
  <2>2. Inv' /\ Contents' = Contents  BY <1>2, <1>5, <2>1, ReadStep DEF PopEmpty, slice
  <2> QED  BY <2>1, <2>2 DEF FI!Next, FI!Look, FI!Oldest
<1>6. CASE Peek
  <2>1. Contents # <<>> /\ result' = <<Contents[1]>> /\ Contents[1] \in Cells
    BY <1>6, Front DEF Peek
  <2>2. Inv' /\ Contents' = Contents  BY <1>2, <1>6, <2>1, ReadStep DEF Peek, slice
  <2> QED  BY <2>1, <2>2 DEF FI!Next, FI!Look, FI!Oldest
<1>7. CASE GetAll
  <2>1. Inv' /\ Contents' = Contents /\ result' = Contents
    BY <1>1, <1>2, <1>7, ReadStep DEF GetAll, slice
  <2> QED  BY <2>1 DEF FI!Next, FI!LookAtEverything
<1>8. CASE PopAll
  <2>1. result' = Contents /\ dst' = dst /\ dstLen' = dstLen /\ polled' = polled /\ Emptied
    BY <1>8 DEF PopAll, slice
  <2>2. Inv' /\ Contents' = <<>>  BY <1>1, <1>2, <2>1, EmptiedStep
  <2> QED  BY <2>1, <2>2 DEF FI!Next, FI!GetEverything
<1>9. CASE Clear
  <2>1. result' = <<>> /\ dst' = dst /\ dstLen' = dstLen /\ polled' = polled /\ Emptied
    BY <1>9 DEF Clear, slice
  <2>2. Inv' /\ Contents' = <<>>  BY <1>2, <2>1, EmptiedStep
  <2> QED  BY <2>1, <2>2 DEF FI!Next, FI!Discard
<1>10. CASE PopAllInto
  BY <1>10, TakeIntoStep DEF FI!Next, FI!GetEverything
<1>11. CASE PollEmpty
  <2>1. Contents = <<>> /\ result' = <<>>  BY <1>11, ContentsType DEF PollEmpty, Inv
  <2>2. dstLen' \in 0 .. Len(dst) /\ polled' \in BOOLEAN  BY <1>2, <1>11 DEF PollEmpty
  <2>3. Inv' /\ Contents' = Contents  BY <1>11, <2>1, <2>2, ReadStep DEF PollEmpty
  <2> QED  BY <2>1, <2>3 DEF FI!Next, FI!Look, FI!Oldest
<1> QED
  BY <1>3, <1>4, <1>5, <1>6, <1>7, <1>8, <1>9, <1>10, <1>11 DEF Next

(* A step that changes nothing. *)
LEMMA Stutter ==
  ASSUME Inv, UNCHANGED vars
  PROVE  Inv' /\ UNCHANGED <<Contents, result>>
<1>1. UNCHANGED <<ring, dst>> /\ result' = result /\ dstLen' = dstLen /\ polled' = polled
  BY DEF vars, slice
<1>2. result \in Seq(Cells) /\ dstLen \in 0 .. Len(dst) /\ polled \in BOOLEAN
  BY DEF Inv, TypeOK
<1> QED  BY <1>1, <1>2, ReadStep

(* The invariant holds in every state. *)
LEMMA InvHolds == Spec => []Inv
<1>1. Init => Inv  BY InitStep
<1>2. Inv /\ [Next]_vars => Inv'  BY NextStep, Stutter
<1> QED  BY <1>1, <1>2, PTL DEF Spec

(* Whatever the capacities and the batches, head, tail and count stay within   *)
(* the array and agree with each other, also right after it has grown.         *)
THEOREM IndicesCorrect == Spec => []TypeOK
<1>1. Inv => TypeOK  BY DEF Inv
<1> QED  BY <1>1, InvHolds, PTL

(* No call sequence leaves a taken element behind in the array. *)
THEOREM NothingRetained == Spec => []NoResidue
<1>1. Inv => NoResidue  BY DEF Inv
<1> QED  BY <1>1, InvHolds, PTL

(* The slice a mailbox loop reuses retains nothing either, until its owner     *)
(* polls with tryDequeueAllInto, which no mailbox loop does.                   *)
THEOREM ReuseRetainsNothing == Spec => []DstCleared
<1>1. Init => DstCleared  BY DEF Init, DstCleared
<1>2. ASSUME Inv, DstCleared, [Next]_vars PROVE DstCleared'
  <2>1. CASE UNCHANGED slice  BY <1>2, <2>1 DEF DstCleared, slice
  <2>2. CASE PollEmpty  BY <2>2 DEF PollEmpty, DstCleared
  <2>3. CASE polled  BY <1>2, <2>3 DEF DstCleared, Next, vars, slice, PushBatch, Pop, PopEmpty,
                      Peek, GetAll, PopAll, Clear, PopAllInto, PollEmpty
  <2>4. CASE PopAllInto /\ ~polled
    <3>1. /\ Contents \in Seq(Cells) /\ Len(Contents) = count /\ count \in Nat
          /\ dst \in Seq(Cells) /\ dstLen \in 0 .. Len(dst)
      BY <1>2, ContentsType, Ranges DEF Inv, TypeOK
    <3>2. dst' = (IF Len(dst) < count THEN Contents ELSE Reused) /\ dstLen' = count
      BY <2>4 DEF PopAllInto
    <3>3. CASE Len(dst) < count
      BY <3>1, <3>2, <3>3 DEF DstCleared
    <3>4. CASE ~(Len(dst) < count)
      <4>1. dst' = Reused /\ Len(dst) \in Nat  BY <3>1, <3>2, <3>4
      <4>2. Len(Reused) = Len(dst)  BY <3>1 DEF Reused
      <4>3. \A i \in count + 1 .. Len(dst) : Reused[i] = Zero
        BY <1>2, <2>4, <3>1, <4>1 DEF Reused, DstCleared
      <4> QED  BY <3>2, <4>1, <4>2, <4>3 DEF DstCleared
    <3> QED  BY <3>3, <3>4
  <2> QED
    BY <1>2, <2>1, <2>2, <2>3, <2>4 DEF Next, vars, PushBatch, Pop, PopEmpty, Peek, GetAll,
                                  PopAll, Clear
<1> QED  BY <1>1, <1>2, InvHolds, PTL DEF Spec

(* The ring buffer implements the plain first-in first-out sequence.           *)
THEOREM RingIsFifo == Spec => ImplementsFifo
<1>1. Init => FI!Init  BY InitStep DEF FI!Init
<1>2. Inv /\ [Next]_vars => [FI!Next]_<<Contents, result>>  BY NextStep, Stutter
<1> QED  BY <1>1, <1>2, InvHolds, PTL DEF Spec, ImplementsFifo, FI!Spec
=============================================================================
