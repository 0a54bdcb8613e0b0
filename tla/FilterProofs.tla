---------------------------- MODULE FilterProofs ----------------------------
(***************************************************************************)
(* The laws of Filter.  They go by induction over the length of a          *)
(* sequence; induction is used in the form "a set that contains 0 and the  *)
(* successors of its elements contains every number", which follows from   *)
(* the well-foundedness of < and passes no operator as an argument.        *)
(***************************************************************************)
EXTENDS Filter, WellFoundedInduction, SequenceTheorems, TLAPS

-----------------------------------------------------------------------------
(* Induction *)

(* Every set of numbers with an element has a smallest one. *)
LEMMA LeastNatural ==
  ASSUME NEW X \in SUBSET Nat, X # {}
  PROVE  \E n \in X : \A m \in X : n <= m
<1>1. IsWellFoundedOn(OpToRel(<, Nat), Nat)  BY NatLessThanWellFounded
<1>2. \E n \in X : \A m \in X : <<m, n>> \notin OpToRel(<, Nat)
  BY <1>1, WFMin
<1>3. \A m, n \in Nat : m < n => <<m, n>> \in OpToRel(<, Nat)
  BY DEF OpToRel
<1>4. PICK n \in X : \A m \in X : <<m, n>> \notin OpToRel(<, Nat)  BY <1>2
<1>5. ASSUME NEW m \in X PROVE n <= m
  <2>1. ~(m < n)  BY <1>3, <1>4
  <2> QED  BY <2>1
<1> QED  BY <1>5

(* A set of which 0 is an element and that is closed under successor. *)
LEMMA Induction ==
  ASSUME NEW X, 0 \in X, \A n \in Nat : n \in X => n + 1 \in X
  PROVE  Nat \subseteq X
<1> SUFFICES ASSUME Nat \ X # {} PROVE FALSE
  OBVIOUS
<1>1. PICK n \in Nat \ X : \A m \in Nat \ X : n <= m
  <2>1. Nat \ X \in SUBSET Nat  OBVIOUS
  <2> QED  BY <2>1, LeastNatural
<1>2. n # 0 /\ n - 1 \in Nat  BY <1>1
<1>3. n - 1 \in X  BY <1>1, <1>2
<1>4. (n - 1) + 1 \in X  BY <1>2, <1>3
<1>5. (n - 1) + 1 = n  BY <1>1
<1> QED  BY <1>1, <1>4, <1>5

(* Sequences by induction: a set of sequences that holds the empty one and
   all the sequences one longer than one of its own holds them all. *)
LEMMA SequenceInduction ==
  ASSUME NEW T, NEW Y, <<>> \in Y,
         \A q \in Seq(T), x \in T : q \in Y => Append(q, x) \in Y
  PROVE  Seq(T) \subseteq Y
<1> DEFINE X == {n \in Nat : \A q \in Seq(T) : Len(q) = n => q \in Y}
<1>1. 0 \in X
  <2>1. \A q \in Seq(T) : Len(q) = 0 => q = <<>>  BY EmptySeq
  <2> QED  BY <2>1
<1>2. ASSUME NEW n \in Nat, n \in X PROVE n + 1 \in X
  <2> SUFFICES ASSUME NEW q \in Seq(T), Len(q) = n + 1 PROVE q \in Y
    OBVIOUS
  <2>1. q # <<>>
    <3>1. Len(<<>>) = 0  OBVIOUS
    <3> QED  BY <3>1
  <2>2. PICK p \in Seq(T), x \in T : q = Append(p, x)  BY <2>1, SequenceEmptyOrAppend
  <2>3. Len(p) = n  BY <2>2, AppendProperties
  <2>4. p \in Y  BY <1>2, <2>3
  <2> QED  BY <2>2, <2>4
<1>3. Nat \subseteq X
  <2> HIDE DEF X
  <2> QED  BY <1>1, <1>2, Induction
<1>4. \A q \in Seq(T) : Len(q) \in Nat  OBVIOUS
<1> QED  BY <1>3, <1>4

-----------------------------------------------------------------------------
(* Filter satisfies its recursion *)

(* How the filtered prefix of length i comes out of the shorter one. *)
Longer(f, i, q, S) == IF i = 0 THEN <<>>
                      ELSE IF q[i] \in S THEN Append(f[i - 1], q[i]) ELSE f[i - 1]

(* f holds the filtered prefixes up to length n. *)
Unfolds(f, n, q, S) == f = [i \in 0 .. n |-> Longer(f, i, q, S)]

(* There is such an f for every length. *)
LEMMA PrefixesExist ==
  ASSUME NEW q, NEW S
  PROVE  \A n \in Nat : \E f : Unfolds(f, n, q, S)
<1> DEFINE X == {k \in Nat : \E f : f = [i \in 0 .. k |-> Longer(f, i, q, S)]}
<1>1. 0 \in X
  <2> DEFINE f == [i \in 0 .. 0 |-> <<>>]
  <2>1. \A i \in 0 .. 0 : Longer(f, i, q, S) = <<>>  BY DEF Longer
  <2>2. f = [i \in 0 .. 0 |-> Longer(f, i, q, S)]  BY <2>1
  <2> QED  BY <2>2
<1>2. ASSUME NEW k \in Nat, k \in X PROVE k + 1 \in X
  <2>1. PICK f : f = [i \in 0 .. k |-> Longer(f, i, q, S)]  BY <1>2
  <2> DEFINE h == [i \in 0 .. k + 1 |-> IF i = k + 1 THEN Longer(f, k + 1, q, S) ELSE f[i]]
  <2>2. \A i \in 0 .. k + 1 : Longer(h, i, q, S) = Longer(f, i, q, S)
    <3> TAKE i \in 0 .. k + 1
    <3>1. CASE i = 0  BY <3>1 DEF Longer
    <3>2. CASE i # 0
      <4>1. i - 1 \in 0 .. k + 1 /\ i - 1 # k + 1  BY <3>2
      <4>2. h[i - 1] = f[i - 1]  BY <4>1
      <4> QED  BY <4>2 DEF Longer
    <3> QED  BY <3>1, <3>2
  <2>3. \A i \in 0 .. k : f[i] = Longer(f, i, q, S)  BY <2>1
  <2>4. \A i \in 0 .. k + 1 : h[i] = Longer(h, i, q, S)
    <3> TAKE i \in 0 .. k + 1
    <3>1. CASE i = k + 1
      <4>1. h[i] = Longer(f, k + 1, q, S)  BY <3>1
      <4> QED  BY <2>2, <3>1, <4>1
    <3>2. CASE i # k + 1
      <4>1. i \in 0 .. k  BY <3>2
      <4>2. h[i] = f[i]  BY <3>2
      <4> QED  BY <2>2, <2>3, <4>1, <4>2
    <3> QED  BY <3>1, <3>2
  <2>5. h = [i \in 0 .. k + 1 |-> h[i]]  OBVIOUS
  <2>6. h = [i \in 0 .. k + 1 |-> Longer(h, i, q, S)]
    <3> HIDE DEF h
    <3> QED  BY <2>4, <2>5
  <2> HIDE DEF h
  <2>7. \E ff : ff = [i \in 0 .. k + 1 |-> Longer(ff, i, q, S)]  BY <2>6
  <2> QED  BY <2>7
<1>3. Nat \subseteq X
  <2> HIDE DEF X
  <2> QED  BY <1>1, <1>2, Induction
<1> QED  BY <1>3 DEF Unfolds

(* Prefixes satisfies the equation that defines it. *)
LEMMA PrefixesUnfold ==
  ASSUME NEW q, Len(q) \in Nat, NEW S
  PROVE  /\ Prefixes(q, S)[0] = <<>>
         /\ \A i \in 1 .. Len(q) :
              Prefixes(q, S)[i] = IF q[i] \in S THEN Append(Prefixes(q, S)[i - 1], q[i])
                                                ELSE Prefixes(q, S)[i - 1]
<1> DEFINE F == CHOOSE f : Unfolds(f, Len(q), q, S)
<1>1. Prefixes(q, S) = F  BY DEF Prefixes, Longer, Unfolds
<1>2. F = [i \in 0 .. Len(q) |-> Longer(F, i, q, S)]
  <2>1. Len(q) \in Nat  OBVIOUS
  <2>2. \E f : Unfolds(f, Len(q), q, S)  BY <2>1, PrefixesExist
  <2>3. Unfolds(F, Len(q), q, S)  BY <2>2
  <2> QED  BY <2>3 DEF Unfolds
<1> HIDE DEF F
<1>3. \A i \in 0 .. Len(q) : F[i] = Longer(F, i, q, S)  BY <1>2
<1>4. F[0] = <<>>  BY <1>3 DEF Longer
<1>5. \A i \in 1 .. Len(q) : F[i] = IF q[i] \in S THEN Append(F[i - 1], q[i]) ELSE F[i - 1]
  BY <1>3 DEF Longer
<1> QED  BY <1>1, <1>4, <1>5

(* Nothing is left of nothing. *)
LEMMA FilterEmpty == ASSUME NEW S PROVE Filter(<<>>, S) = <<>>
<1>1. PICK e : e = <<>> /\ Len(e) = 0  OBVIOUS
<1>2. Len(e) \in Nat  BY <1>1
<1>3. Prefixes(e, S)[0] = <<>>
  <2> QED  BY <1>2, PrefixesUnfold
<1>4. Filter(e, S) = <<>>  BY <1>1, <1>3 DEF Filter
<1> QED  BY <1>1, <1>4

(* One more element is kept if it is in the set: the prefixes of q are
   prefixes of Append(q, x), and are filtered alike. *)
LEMMA FilterAppend ==
  ASSUME NEW T, NEW q \in Seq(T), NEW x \in T, NEW S
  PROVE  Filter(Append(q, x), S) = IF x \in S THEN Append(Filter(q, S), x) ELSE Filter(q, S)
<1> DEFINE r == Append(q, x)
<1>1. /\ r \in Seq(T) /\ Len(r) = Len(q) + 1 /\ r[Len(q) + 1] = x
      /\ \A i \in 1 .. Len(q) : r[i] = q[i]
  BY AppendProperties
<1> HIDE DEF r
<1> DEFINE f == Prefixes(q, S)
           h == Prefixes(r, S)
<1>2. /\ f[0] = <<>>
      /\ \A i \in 1 .. Len(q) : f[i] = IF q[i] \in S THEN Append(f[i - 1], q[i]) ELSE f[i - 1]
  BY PrefixesUnfold
<1>3. /\ h[0] = <<>>
      /\ \A i \in 1 .. Len(r) : h[i] = IF r[i] \in S THEN Append(h[i - 1], r[i]) ELSE h[i - 1]
  BY <1>1, PrefixesUnfold
<1>4. Filter(q, S) = f[Len(q)] /\ Filter(r, S) = h[Len(q) + 1]
  BY <1>1 DEF Filter
<1> HIDE DEF f, h
<1> DEFINE X == {n \in Nat : n <= Len(q) => h[n] = f[n]}
<1>5. 0 \in X  BY <1>2, <1>3
<1>6. ASSUME NEW n \in Nat, n \in X PROVE n + 1 \in X
  <2> SUFFICES ASSUME n + 1 <= Len(q) PROVE h[n + 1] = f[n + 1]
    OBVIOUS
  <2>1. h[n] = f[n] /\ n + 1 \in 1 .. Len(q) /\ n + 1 \in 1 .. Len(r) /\ (n + 1) - 1 = n
    BY <1>1, <1>6
  <2>2. r[n + 1] = q[n + 1]  BY <1>1, <2>1
  <2>3. f[n + 1] = IF q[n + 1] \in S THEN Append(f[n], q[n + 1]) ELSE f[n]  BY <1>2, <2>1
  <2>4. h[n + 1] = IF r[n + 1] \in S THEN Append(h[n], r[n + 1]) ELSE h[n]  BY <1>3, <2>1
  <2> QED  BY <2>1, <2>2, <2>3, <2>4
<1>7. Nat \subseteq X
  <2> HIDE DEF X
  <2> QED  BY <1>5, <1>6, Induction
<1>8. Len(q) \in Nat /\ h[Len(q)] = f[Len(q)]  BY <1>7
<1>9. h[Len(q) + 1] = IF r[Len(q) + 1] \in S THEN Append(h[Len(q)], r[Len(q) + 1]) ELSE h[Len(q)]
  <2>1. Len(q) + 1 \in 1 .. Len(r) /\ (Len(q) + 1) - 1 = Len(q)  BY <1>1, <1>8
  <2> QED  BY <1>3, <2>1
<1> QED  BY <1>1, <1>4, <1>8, <1>9 DEF r

-----------------------------------------------------------------------------
(* What follows from the recursion *)

(* Filtering keeps the type of a sequence and makes it no longer. *)
LEMMA FilterType ==
  ASSUME NEW T, NEW q \in Seq(T), NEW S
  PROVE  /\ Filter(q, S) \in Seq(T)
         /\ Len(Filter(q, S)) <= Len(q)
<1> DEFINE Y == {p \in Seq(T) : Filter(p, S) \in Seq(T) /\ Len(Filter(p, S)) <= Len(p)}
<1>1. <<>> \in Y
  <2>1. Filter(<<>>, S) = <<>>  BY FilterEmpty
  <2>2. <<>> \in Seq(T) /\ Len(<<>>) <= Len(<<>>)  BY EmptySeq
  <2> QED  BY <2>1, <2>2
<1>2. ASSUME NEW p \in Seq(T), NEW x \in T, p \in Y PROVE Append(p, x) \in Y
  <2>1. Filter(p, S) \in Seq(T) /\ Len(Filter(p, S)) <= Len(p)  BY <1>2
  <2>2. Filter(Append(p, x), S) = IF x \in S THEN Append(Filter(p, S), x) ELSE Filter(p, S)
    BY FilterAppend
  <2>3. Append(p, x) \in Seq(T) /\ Len(Append(p, x)) = Len(p) + 1  BY AppendProperties
  <2>4. /\ Append(Filter(p, S), x) \in Seq(T)
        /\ Len(Append(Filter(p, S), x)) = Len(Filter(p, S)) + 1
    BY <2>1, AppendProperties
  <2>5. Len(p) \in Nat /\ Len(Filter(p, S)) \in Nat  BY <2>1
  <2>6. /\ Filter(Append(p, x), S) \in Seq(T)
        /\ Len(Filter(Append(p, x), S)) <= Len(p) + 1
    <3>1. CASE x \in S  BY <2>1, <2>2, <2>4, <2>5, <3>1
    <3>2. CASE x \notin S  BY <2>1, <2>2, <2>5, <3>2
    <3> QED  BY <3>1, <3>2
  <2> QED  BY <2>3, <2>6
<1>3. Seq(T) \subseteq Y
  <2> HIDE DEF Y
  <2> QED  BY <1>1, <1>2, SequenceInduction
<1> QED  BY <1>3

(* Filtering a concatenation is concatenating what is left of its parts. *)
LEMMA FilterConcat ==
  ASSUME NEW T, NEW S
  PROVE  \A p, q \in Seq(T) : Filter(p \o q, S) = Filter(p, S) \o Filter(q, S)
<1> TAKE p \in Seq(T), q \in Seq(T)
<1> DEFINE Y == {r \in Seq(T) : Filter(p \o r, S) = Filter(p, S) \o Filter(r, S)}
<1>0. Filter(p, S) \in Seq(T)  BY FilterType
<1>1. <<>> \in Y
  <2>1. p \o <<>> = p /\ Filter(p, S) \o <<>> = Filter(p, S)  BY <1>0, ConcatEmptySeq
  <2>2. Filter(<<>>, S) = <<>> /\ <<>> \in Seq(T)  BY FilterEmpty, EmptySeq
  <2> QED  BY <2>1, <2>2
<1>2. ASSUME NEW r \in Seq(T), NEW x \in T, r \in Y PROVE Append(r, x) \in Y
  <2>1. Filter(p \o r, S) = Filter(p, S) \o Filter(r, S)  BY <1>2
  <2>2. Append(r, x) \in Seq(T) /\ p \o r \in Seq(T) /\ Filter(r, S) \in Seq(T)
    BY AppendProperties, ConcatProperties, FilterType
  <2>3. \A u, v \in Seq(T) : u \o Append(v, x) = Append(u \o v, x)
    <3> TAKE u \in Seq(T), v \in Seq(T)
    <3>1. Append(v, x) = v \o <<x>> /\ Append(u \o v, x) = (u \o v) \o <<x>>
      BY AppendIsConcat, ConcatProperties
    <3>2. (u \o v) \o <<x>> = u \o (v \o <<x>>)
      <4>1. <<x>> \in Seq(T)  OBVIOUS
      <4> QED  BY <4>1, ConcatAssociative
    <3> QED  BY <3>1, <3>2
  <2>4. Filter(Append(p \o r, x), S) = IF x \in S THEN Append(Filter(p \o r, S), x)
                                                  ELSE Filter(p \o r, S)
    BY <2>2, FilterAppend
  <2>5. Filter(Append(r, x), S) = IF x \in S THEN Append(Filter(r, S), x) ELSE Filter(r, S)
    BY FilterAppend
  <2>6. p \o Append(r, x) = Append(p \o r, x)  BY <2>3
  <2>7. Filter(p, S) \o Append(Filter(r, S), x) = Append(Filter(p, S) \o Filter(r, S), x)
    BY <1>0, <2>2, <2>3
  <2>8. Filter(p \o Append(r, x), S) = Filter(p, S) \o Filter(Append(r, x), S)
    <3>1. CASE x \in S  BY <2>1, <2>4, <2>5, <2>6, <2>7, <3>1
    <3>2. CASE x \notin S  BY <2>1, <2>4, <2>5, <2>6, <3>2
    <3> QED  BY <3>1, <3>2
  <2> QED  BY <2>2, <2>8
<1>3. Seq(T) \subseteq Y
  <2> HIDE DEF Y
  <2> QED  BY <1>1, <1>2, SequenceInduction
<1> QED  BY <1>3

(* A sequence of one element. *)
LEMMA FilterOne ==
  ASSUME NEW T, NEW x \in T, NEW S
  PROVE  Filter(<<x>>, S) = IF x \in S THEN <<x>> ELSE <<>>
<1>1. <<x>> = Append(<<>>, x) /\ <<>> \in Seq(T)  OBVIOUS
<1>2. Filter(Append(<<>>, x), S) = IF x \in S THEN Append(Filter(<<>>, S), x)
                                              ELSE Filter(<<>>, S)
  BY <1>1, FilterAppend
<1> QED  BY <1>1, <1>2, FilterEmpty

-----------------------------------------------------------------------------
(* Sequences and their concatenation under names of their own: what is proved
   with these laws alone needs no look at lengths and elements. *)

Words(T) == Seq(T)
Cat(p, q) == p \o q

LEMMA WordsLaws ==
  ASSUME NEW T
  PROVE  /\ <<>> \in Words(T)
         /\ \A p, q \in Words(T) : Cat(p, q) \in Words(T)
BY EmptySeq, ConcatProperties DEF Words, Cat

LEMMA Associative ==
  ASSUME NEW T
  PROVE  \A p, q, r \in Words(T) : Cat(Cat(p, q), r) = Cat(p, Cat(q, r))
BY ConcatAssociative DEF Words, Cat

LEMMA Neutral ==
  ASSUME NEW T
  PROVE  \A p \in Words(T) : Cat(p, <<>>) = p /\ Cat(<<>>, p) = p
BY ConcatEmptySeq DEF Words, Cat

LEMMA AppendLaws ==
  ASSUME NEW T
  PROVE  \A q \in Words(T), x \in T : /\ Append(q, x) \in Words(T)
                                      /\ <<x>> \in Words(T)
                                      /\ Append(q, x) = Cat(q, <<x>>)
<1> SUFFICES ASSUME NEW q \in Seq(T), NEW x \in T
             PROVE  /\ Append(q, x) \in Seq(T)
                    /\ <<x>> \in Seq(T)
                    /\ Append(q, x) = q \o <<x>>
  BY DEF Words, Cat
<1> QED  BY AppendProperties, AppendIsConcat

(* A sequence with an element is its head and its tail. *)
LEMMA HeadAndTail ==
  ASSUME NEW T
  PROVE  \A q \in Words(T) :
           q # <<>> => /\ Head(q) \in T /\ <<Head(q)>> \in Words(T) /\ Tail(q) \in Words(T)
                       /\ q = Cat(<<Head(q)>>, Tail(q))
<1> SUFFICES ASSUME NEW q \in Seq(T), q # <<>>
             PROVE  /\ Head(q) \in T /\ <<Head(q)>> \in Seq(T) /\ Tail(q) \in Seq(T)
                    /\ q = <<Head(q)>> \o Tail(q)
  BY DEF Words, Cat
<1>1. Head(q) \in T /\ Tail(q) \in Seq(T) /\ <<Head(q)>> \in Seq(T)  BY HeadTailProperties
<1>2. q = <<Head(q)>> \o Tail(q)  OBVIOUS
<1> QED  BY <1>1, <1>2

-----------------------------------------------------------------------------
(* Filter, in these terms *)

LEMMA FilterWords ==
  ASSUME NEW T, NEW S
  PROVE  /\ \A q \in Words(T) : Filter(q, S) \in Words(T)
         /\ \A p, q \in Words(T) : Filter(Cat(p, q), S) = Cat(Filter(p, S), Filter(q, S))
<1>1. \A q \in Words(T) : Filter(q, S) \in Words(T)  BY FilterType DEF Words
<1>2. \A p, q \in Words(T) : Filter(Cat(p, q), S) = Cat(Filter(p, S), Filter(q, S))
  BY FilterConcat DEF Words, Cat
<1> QED  BY <1>1, <1>2

(* Filtering drops a head that is not in the set, ... *)
LEMMA FilterSkip ==
  ASSUME NEW T, NEW S
  PROVE  \A q \in Words(T) : q # <<>> /\ Head(q) \notin S => Filter(Tail(q), S) = Filter(q, S)
<1> SUFFICES ASSUME NEW q \in Words(T), q # <<>>, Head(q) \notin S
             PROVE  Filter(Tail(q), S) = Filter(q, S)
  OBVIOUS
<1>1. /\ Head(q) \in T /\ <<Head(q)>> \in Words(T) /\ Tail(q) \in Words(T)
      /\ q = Cat(<<Head(q)>>, Tail(q))
  BY HeadAndTail
<1>2. Filter(<<Head(q)>>, S) = <<>>  BY <1>1, FilterOne
<1>3. Filter(q, S) = Cat(<<>>, Filter(Tail(q), S))  BY <1>1, <1>2, FilterWords
<1>4. Filter(Tail(q), S) \in Words(T)  BY <1>1, FilterWords
<1> QED  BY <1>3, <1>4, Neutral

(* ... and keeps one that is, whatever follows. *)
LEMMA FilterKeep ==
  ASSUME NEW T, NEW S
  PROVE  \A p, q \in Words(T) :
           p # <<>> /\ Head(p) \in S =>
             Filter(Cat(p, q), S) = Cat(<<Head(p)>>, Filter(Cat(Tail(p), q), S))
<1> SUFFICES ASSUME NEW p \in Words(T), NEW q \in Words(T), p # <<>>, Head(p) \in S
             PROVE  Filter(Cat(p, q), S) = Cat(<<Head(p)>>, Filter(Cat(Tail(p), q), S))
  OBVIOUS
<1>1. /\ Head(p) \in T /\ <<Head(p)>> \in Words(T) /\ Tail(p) \in Words(T)
      /\ p = Cat(<<Head(p)>>, Tail(p))
  BY HeadAndTail
<1>2. Filter(<<Head(p)>>, S) = <<Head(p)>>  BY <1>1, FilterOne
<1>3. Cat(Tail(p), q) \in Words(T)  BY <1>1, WordsLaws
<1>4. Cat(Cat(<<Head(p)>>, Tail(p)), q) = Cat(<<Head(p)>>, Cat(Tail(p), q))
  BY <1>1, Associative
<1>5. Filter(Cat(<<Head(p)>>, Cat(Tail(p), q)), S)
        = Cat(Filter(<<Head(p)>>, S), Filter(Cat(Tail(p), q), S))
  BY <1>1, <1>3, FilterWords
<1> QED  BY <1>1, <1>2, <1>4, <1>5

(* One more element, in the set or not. *)
LEMMA FilterMore ==
  ASSUME NEW T, NEW S
  PROVE  \A q \in Words(T), x \in T :
           Filter(Append(q, x), S) = IF x \in S THEN Append(Filter(q, S), x) ELSE Filter(q, S)
BY FilterAppend DEF Words
=============================================================================
