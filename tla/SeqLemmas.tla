----------------------------- MODULE SeqLemmas -----------------------------
(***************************************************************************)
(* What the queue operations of the engine do to the type and to the       *)
(* elements of a sequence: vector::push_back, vector::erase, the insertion *)
(* of a priority queue, pop, and the merge of two vectors; and a queue     *)
(* between two clocks that follows what went into it.                      *)
(***************************************************************************)
EXTENDS SequencesExt, SequenceTheorems, FiniteSetTheorems,
        WellFoundedInduction, TLAPS

\* The elements of a sequence are what its indices name.
LEMMA RangeIn ==
  ASSUME NEW S, NEW q \in Seq(S)
  PROVE  /\ Range(q) \subseteq S
         /\ \A x : x \in Range(q) <=> \E i \in 1 .. Len(q) : q[i] = x
  BY DEF Range

\* push_back adds one element.
LEMMA AppendLemma ==
  ASSUME NEW S, NEW q \in Seq(S), NEW e \in S
  PROVE  /\ Append(q, e) \in Seq(S)
         /\ Range(Append(q, e)) = Range(q) \cup {e}
<1>1. Append(q, e) \in Seq(S)
  OBVIOUS
<1>2. Len(Append(q, e)) = Len(q) + 1 /\ Append(q, e)[Len(q) + 1] = e
  OBVIOUS
<1>3. \A i \in 1 .. Len(q) : Append(q, e)[i] = q[i]
  OBVIOUS
<1>4. \A i \in 1 .. Len(q) + 1 : i \in 1 .. Len(q) \/ i = Len(q) + 1
  OBVIOUS
<1>5. DOMAIN q = 1 .. Len(q) /\ DOMAIN Append(q, e) = 1 .. Len(q) + 1 /\ Len(q) \in Nat
  OBVIOUS
<1>6. Range(Append(q, e)) \subseteq Range(q) \cup {e}
  BY <1>2, <1>3, <1>4, <1>5 DEF Range
<1>7. Range(q) \cup {e} \subseteq Range(Append(q, e))
  BY <1>2, <1>3, <1>5 DEF Range
<1> QED
  BY <1>1, <1>6, <1>7

\* Joining two vectors loses and invents nothing.
LEMMA ConcatLemma ==
  ASSUME NEW S, NEW q \in Seq(S), NEW r \in Seq(S)
  PROVE  /\ q \o r \in Seq(S)
         /\ Range(q \o r) = Range(q) \cup Range(r)
<1>1. /\ q \o r \in Seq(S)
      /\ Len(q \o r) = Len(q) + Len(r)
      /\ \A i \in 1 .. Len(q) + Len(r) :
           (q \o r)[i] = IF i <= Len(q) THEN q[i] ELSE r[i - Len(q)]
  BY ConcatProperties
<1>2. Len(q) \in Nat /\ Len(r) \in Nat
  OBVIOUS
<1>3. ASSUME NEW x \in Range(q \o r) PROVE x \in Range(q) \cup Range(r)
  <2>1. PICK i \in 1 .. Len(q) + Len(r) : x = (q \o r)[i]
    BY <1>1 DEF Range
  <2>2. CASE i <= Len(q)
    BY <2>1, <2>2, <1>1, <1>2, RangeIn
  <2>3. CASE i > Len(q)
    <3>1. i - Len(q) \in 1 .. Len(r) /\ r[i - Len(q)] = x
      BY <2>1, <2>3, <1>1, <1>2
    <3> QED
      BY <3>1, RangeIn
  <2> QED
    BY <2>1, <2>2, <2>3, <1>2
<1>4. ASSUME NEW x \in Range(q) PROVE x \in Range(q \o r)
  <2>1. PICK i \in 1 .. Len(q) : x = q[i]
    BY RangeIn
  <2>2. i \in 1 .. Len(q \o r) /\ (q \o r)[i] = x
    BY <2>1, <1>1, <1>2
  <2> QED
    BY <2>2, <1>1, RangeIn
<1>5. ASSUME NEW x \in Range(r) PROVE x \in Range(q \o r)
  <2>1. PICK i \in 1 .. Len(r) : x = r[i]
    BY RangeIn
  <2>2. Len(q) + i \in 1 .. Len(q \o r) /\ (q \o r)[Len(q) + i] = x
    BY <2>1, <1>1, <1>2
  <2> QED
    BY <2>2, <1>1, RangeIn
<1> QED
  BY <1>1, <1>3, <1>4, <1>5

\* A stretch of a vector holds only elements of the vector.
LEMMA SubSeqLemma ==
  ASSUME NEW S, NEW q \in Seq(S), NEW m \in 1 .. Len(q) + 1, NEW n \in 0 .. Len(q)
  PROVE  /\ SubSeq(q, m, n) \in Seq(S)
         /\ Range(SubSeq(q, m, n)) \subseteq Range(q)
<1>1. \A i \in m .. n : i \in 1 .. Len(q)
  OBVIOUS
<1>2. \A i \in m .. n : q[i] \in S
  BY <1>1
<1>3. /\ SubSeq(q, m, n) \in Seq(S)
      /\ Len(SubSeq(q, m, n)) = IF m <= n THEN n - m + 1 ELSE 0
      /\ \A i \in 1 .. n - m + 1 : SubSeq(q, m, n)[i] = q[m + i - 1]
  BY <1>2, SubSeqProperties
<1>4. ASSUME NEW x \in Range(SubSeq(q, m, n)) PROVE x \in Range(q)
  <2>1. PICK i \in 1 .. Len(SubSeq(q, m, n)) : SubSeq(q, m, n)[i] = x
    BY <1>3, RangeIn
  <2>2. i \in 1 .. n - m + 1 /\ m + i - 1 \in 1 .. Len(q)
    BY <2>1, <1>3
  <2>3. q[m + i - 1] = x
    BY <2>1, <2>2, <1>3
  <2> QED
    BY <2>2, <2>3, RangeIn
<1> QED
  BY <1>3, <1>4

\* erase(begin() + i) keeps the type and brings nothing in.
LEMMA RemoveAtLemma ==
  ASSUME NEW S, NEW q \in Seq(S), NEW i \in 1 .. Len(q)
  PROVE  /\ RemoveAt(q, i) \in Seq(S)
         /\ Range(RemoveAt(q, i)) \subseteq Range(q)
<1> DEFINE a == SubSeq(q, 1, i - 1)
           b == SubSeq(q, i + 1, Len(q))
<1>1. a \in Seq(S) /\ Range(a) \subseteq Range(q)
  <2>1. 1 \in 1 .. Len(q) + 1 /\ i - 1 \in 0 .. Len(q)
    OBVIOUS
  <2> QED
    BY <2>1, SubSeqLemma
<1>2. b \in Seq(S) /\ Range(b) \subseteq Range(q)
  <2>1. i + 1 \in 1 .. Len(q) + 1 /\ Len(q) \in 0 .. Len(q)
    OBVIOUS
  <2> QED
    BY <2>1, SubSeqLemma
<1>3. RemoveAt(q, i) = a \o b
  BY DEF RemoveAt
<1> HIDE DEF a, b
<1> QED
  BY <1>1, <1>2, <1>3, ConcatLemma

\* erase(begin() + i) closes the gap and leaves the other elements in order.
LEMMA RemoveAtElems ==
  ASSUME NEW S, NEW q \in Seq(S), NEW i \in 1 .. Len(q)
  PROVE  /\ RemoveAt(q, i) \in Seq(S)
         /\ Len(RemoveAt(q, i)) = Len(q) - 1
         /\ \A j \in 1 .. Len(q) - 1 :
              RemoveAt(q, i)[j] = IF j < i THEN q[j] ELSE q[j + 1]
<1> DEFINE a == SubSeq(q, 1, i - 1)
           b == SubSeq(q, i + 1, Len(q))
<1>1. /\ a \in Seq(S) /\ Len(a) = i - 1
      /\ \A j \in 1 .. i - 1 : a[j] = q[j]
  <2>1. \A j \in 1 .. i - 1 : q[j] \in S
    OBVIOUS
  <2> QED
    BY <2>1, SubSeqProperties
<1>2. /\ b \in Seq(S) /\ Len(b) = Len(q) - i
      /\ \A j \in 1 .. Len(q) - i : b[j] = q[i + j]
  <2>1. \A j \in i + 1 .. Len(q) : q[j] \in S
    OBVIOUS
  <2> QED
    BY <2>1, SubSeqProperties
<1>3. RemoveAt(q, i) = a \o b
  BY DEF RemoveAt
<1> HIDE DEF a, b
<1>4. /\ a \o b \in Seq(S)
      /\ Len(a \o b) = Len(a) + Len(b)
      /\ \A j \in 1 .. Len(a) + Len(b) :
           (a \o b)[j] = IF j <= Len(a) THEN a[j] ELSE b[j - Len(a)]
  BY <1>1, <1>2, ConcatProperties
<1>5. ASSUME NEW j \in 1 .. Len(q) - 1
      PROVE  (a \o b)[j] = IF j < i THEN q[j] ELSE q[j + 1]
  <2>1. CASE j < i
    BY <1>1, <1>2, <1>4, <2>1
  <2>2. CASE ~(j < i)
    <3>1. /\ j - (i - 1) \in 1 .. Len(q) - i /\ ~(j <= Len(a))
          /\ j \in 1 .. Len(a) + Len(b) /\ j - Len(a) = j - (i - 1)
          /\ i + (j - (i - 1)) = j + 1
      BY <1>1, <1>2, <2>2
    <3> QED
      BY <1>2, <1>4, <2>2, <3>1
  <2> QED
    BY <2>1, <2>2
<1> QED
  BY <1>1, <1>2, <1>3, <1>4, <1>5

\* find and erase, in a vector that holds nothing twice.
LEMMA RemoveFirstLemma ==
  ASSUME NEW S, NEW q \in Seq(S), IsInjective(q), NEW e
  PROVE  /\ RemoveFirst(q, e) \in Seq(S)
         /\ Range(RemoveFirst(q, e)) = Range(q) \ {e}
         /\ IsInjective(RemoveFirst(q, e))
<1>0. DOMAIN q = 1 .. Len(q) /\ Len(q) \in Nat
  OBVIOUS
<1>1. CASE ~ \E i \in 1 .. Len(q) : q[i] = e
  <2>1. e \notin Range(q)
    BY <1>1, RangeIn
  <2> QED
    BY <1>1, <2>1 DEF RemoveFirst
<1>2. CASE \E i \in 1 .. Len(q) : q[i] = e
  <2>1. PICK i \in 1 .. Len(q) : q[i] = e
    BY <1>2
  <2>2. \A j \in 1 .. Len(q) : q[j] = e <=> j = i
    BY <1>0, <2>1 DEF IsInjective
  <2>3. RemoveFirst(q, e) = RemoveAt(q, i)
    <3> DEFINE I == {j \in 1 .. Len(q) : q[j] = e}
    <3>1. I = {i}
      BY <2>1, <2>2
    <3>2. Min({i}) = i
      BY <2>1 DEF Min
    <3>3. SelectInSeq(q, LAMBDA v : v = e) = IF I # {} THEN Min(I) ELSE 0
      BY DEF SelectInSeq
    <3> QED
      BY <1>2, <3>1, <3>2, <3>3 DEF RemoveFirst
  <2> DEFINE r == RemoveAt(q, i)
             n == Len(q) - 1
  <2>4. /\ r \in Seq(S) /\ DOMAIN r = 1 .. n
        /\ \A j \in 1 .. n : r[j] = IF j < i THEN q[j] ELSE q[j + 1]
    BY RemoveAtElems
  <2> HIDE DEF r
  <2>5. ASSUME NEW x \in Range(r) PROVE x \in Range(q) \ {e}
    <3>1. PICK j \in 1 .. n : x = r[j]
      BY <2>4, <2>5, RangeIn
    <3>2. PICK k \in 1 .. Len(q) : x = q[k] /\ k # i
      BY <1>0, <2>4, <3>1
    <3> QED
      BY <2>2, <3>2, RangeIn
  <2>6. ASSUME NEW x \in Range(q) \ {e} PROVE x \in Range(r)
    <3>1. PICK k \in 1 .. Len(q) : x = q[k] /\ k # i
      BY <2>1, <2>6, RangeIn
    <3>2. CASE k < i
      BY <1>0, <2>4, <3>1, <3>2 DEF Range
    <3>3. CASE k > i
      <4>1. k - 1 \in 1 .. n /\ ~(k - 1 < i) /\ (k - 1) + 1 = k
        BY <1>0, <2>1, <3>3
      <4> QED
        BY <2>4, <3>1, <4>1 DEF Range
    <3> QED
      BY <3>1, <3>2, <3>3
  <2>7. ASSUME NEW j \in 1 .. n, NEW k \in 1 .. n, r[j] = r[k] PROVE j = k
    <3> DEFINE At(m) == IF m < i THEN m ELSE m + 1
    <3>1. /\ At(j) \in 1 .. Len(q) /\ At(k) \in 1 .. Len(q)
          /\ r[j] = q[At(j)] /\ r[k] = q[At(k)]
      BY <1>0, <2>4
    <3>2. At(j) = At(k)
      BY <1>0, <2>7, <3>1 DEF IsInjective
    <3> QED
      BY <3>2
  <2> QED
    BY <2>3, <2>4, <2>5, <2>6, <2>7 DEF r, IsInjective
<1> QED
  BY <1>1, <1>2

\* push_back of something the vector does not hold yet.
LEMMA AppendInjectiveLemma ==
  ASSUME NEW S, NEW q \in Seq(S), IsInjective(q), NEW e \in S, e \notin Range(q)
  PROVE  IsInjective(Append(q, e))
<1>1. /\ DOMAIN q = 1 .. Len(q) /\ DOMAIN Append(q, e) = 1 .. Len(q) + 1
      /\ Len(q) \in Nat /\ Append(q, e)[Len(q) + 1] = e
      /\ \A i \in 1 .. Len(q) : Append(q, e)[i] = q[i]
  OBVIOUS
<1>2. \A i \in 1 .. Len(q) : q[i] # e
  BY RangeIn
<1> QED
  BY <1>1, <1>2 DEF IsInjective

\* A vector that holds nothing twice is as long as the set of its elements.
LEMMA InjectiveCount ==
  ASSUME NEW S, NEW q \in Seq(S), IsInjective(q)
  PROVE  Cardinality(DOMAIN q) = Cardinality(Range(q))
<1>1. IsFiniteSet(DOMAIN q)
  <2>1. DOMAIN q = 1 .. Len(q) /\ Len(q) \in Int /\ 1 \in Int
    OBVIOUS
  <2> QED
    BY <2>1, FS_Interval
<1>2. /\ q \in [DOMAIN q -> Range(q)]
      /\ \A y \in Range(q) : \E x \in DOMAIN q : q[x] = y
  BY DEF Range
<1>3. q \in Surjection(DOMAIN q, Range(q)) /\ q \in Injection(DOMAIN q, Range(q))
  BY <1>2 DEF Surjection, Injection
<1> QED
  BY <1>1, <1>3, FS_Surjection

\* Inserting at a position adds exactly the element.
LEMMA InsertAtLemma ==
  ASSUME NEW S, NEW q \in Seq(S), NEW i \in 1 .. Len(q) + 1, NEW e \in S
  PROVE  /\ InsertAt(q, i, e) \in Seq(S)
         /\ Range(InsertAt(q, i, e)) \subseteq Range(q) \cup {e}
<1> DEFINE a == SubSeq(q, 1, i - 1)
           b == SubSeq(q, i, Len(q))
           one == <<e>>
           front == a \o one
<1>1. a \in Seq(S) /\ Range(a) \subseteq Range(q)
  <2>1. 1 \in 1 .. Len(q) + 1 /\ i - 1 \in 0 .. Len(q)
    OBVIOUS
  <2> QED
    BY <2>1, SubSeqLemma
<1>2. b \in Seq(S) /\ Range(b) \subseteq Range(q)
  <2>1. i \in 1 .. Len(q) + 1 /\ Len(q) \in 0 .. Len(q)
    OBVIOUS
  <2> QED
    BY <2>1, SubSeqLemma
<1>3. one \in Seq(S) /\ Range(one) = {e}
  BY DEF Range
<1>4. InsertAt(q, i, e) = front \o b
  BY DEF InsertAt
<1> HIDE DEF a, b, one
<1>5. front \in Seq(S) /\ Range(front) = Range(a) \cup {e}
  BY <1>1, <1>3, ConcatLemma
<1> HIDE DEF front
<1>6. front \o b \in Seq(S) /\ Range(front \o b) = Range(front) \cup Range(b)
  BY <1>2, <1>5, ConcatLemma
<1> QED
  BY <1>1, <1>2, <1>4, <1>5, <1>6

\* A position that is not before any other.
LEMMA LastPosition ==
  ASSUME NEW n \in Nat, NEW W \in SUBSET (1 .. n), W # {}
  PROVE  \E i \in W : \A j \in W : j <= i
<1> DEFINE T == {n - i : i \in W}
<1>1. T \subseteq Nat /\ T # {}
  <2>1. ASSUME NEW i \in W PROVE n - i \in Nat
    OBVIOUS
  <2> QED
    BY <2>1
<1> DEFINE R == OpToRel(<, Nat)
<1>2. IsWellFoundedOn(R, Nat)
  BY NatLessThanWellFounded
<1>3. \A x, y \in Nat : x < y => <<x, y>> \in R
  BY DEF OpToRel
<1> HIDE DEF R, T
<1>4. PICK x \in T : \A y \in T : ~(<<y, x>> \in R)
  BY <1>1, <1>2, WFMin
<1>5. PICK i \in W : x = n - i
  BY DEF T
<1>6. ASSUME NEW j \in W PROVE j <= i
  <2>1. n - j \in T /\ n - j \in Nat /\ n - i \in Nat
    BY DEF T
  <2>2. ~(n - j < n - i)
    BY <1>3, <1>4, <1>5, <2>1
  <2> QED
    BY <2>2
<1> QED
  BY <1>6

\* The number of positions that satisfy a condition is at most the length.
LEMMA CountLemma ==
  ASSUME NEW S, NEW q \in Seq(S), NEW P, P \subseteq DOMAIN q
  PROVE  Cardinality(P) \in 0 .. Len(q)
<1>1. Len(q) \in Nat /\ DOMAIN q = 1 .. Len(q)
  OBVIOUS
<1>2. IsFiniteSet(1 .. Len(q)) /\ Cardinality(1 .. Len(q)) = Len(q)
  <2>1. 1 \in Int /\ Len(q) \in Int
    BY <1>1
  <2>2. /\ IsFiniteSet(1 .. Len(q))
        /\ Cardinality(1 .. Len(q)) = IF 1 > Len(q) THEN 0 ELSE Len(q) - 1 + 1
    BY <2>1, FS_Interval
  <2> QED
    BY <1>1, <2>2
<1>3. IsFiniteSet(P) /\ Cardinality(P) <= Len(q)
  BY <1>1, <1>2, FS_Subset
<1> QED
  BY <1>1, <1>3, FS_CardinalityType

\* pop() takes the first element away.
LEMMA TailLemma ==
  ASSUME NEW S, NEW q \in Seq(S), q # <<>>
  PROVE  /\ Head(q) \in S /\ Head(q) \in Range(q)
         /\ Tail(q) \in Seq(S)
         /\ Range(Tail(q)) \subseteq Range(q)
<1>1. /\ Head(q) \in S
      /\ Tail(q) \in Seq(S)
      /\ Len(Tail(q)) = Len(q) - 1
      /\ \A i \in 1 .. Len(Tail(q)) : Tail(q)[i] = q[i + 1]
  BY HeadTailProperties
<1>2. Len(q) \in Nat \ {0}
  OBVIOUS
<1>3. Head(q) = q[1] /\ 1 \in 1 .. Len(q)
  BY <1>2
<1>4. ASSUME NEW x \in Range(Tail(q)) PROVE x \in Range(q)
  <2>1. PICK i \in 1 .. Len(Tail(q)) : Tail(q)[i] = x
    BY <1>1, RangeIn
  <2>2. i + 1 \in 1 .. Len(q) /\ q[i + 1] = x
    BY <2>1, <1>1, <1>2
  <2> QED
    BY <2>2, RangeIn
<1> QED
  BY <1>1, <1>3, <1>4, RangeIn

\* Leaving the innermost element of a stack.
LEMMA FrontLemma ==
  ASSUME NEW S, NEW q \in Seq(S), q # <<>>
  PROVE  Front(q) \in Seq(S) /\ Last(q) \in S
<1>1. Len(q) \in Nat \ {0}
  OBVIOUS
<1>2. 1 \in 1 .. Len(q) + 1 /\ Len(q) - 1 \in 0 .. Len(q) /\ Len(q) \in 1 .. Len(q)
  BY <1>1
<1>3. SubSeq(q, 1, Len(q) - 1) \in Seq(S)
  BY <1>2, SubSeqLemma
<1> QED
  BY <1>2, <1>3 DEF Front, Last

\* erase(begin() + i) takes nothing away but the element at i.
LEMMA RemoveAtKeeps ==
  ASSUME NEW S, NEW q \in Seq(S), NEW i \in 1 .. Len(q)
  PROVE  Range(q) = Range(RemoveAt(q, i)) \cup {q[i]}
<1> DEFINE r == RemoveAt(q, i)
           n == Len(q) - 1
<1>1. /\ r \in Seq(S) /\ DOMAIN r = 1 .. n
      /\ \A j \in 1 .. n : r[j] = IF j < i THEN q[j] ELSE q[j + 1]
  BY RemoveAtElems
<1>2. Range(r) \subseteq Range(q) /\ q[i] \in Range(q)
  BY RemoveAtLemma, RangeIn
<1> HIDE DEF r
<1>3. ASSUME NEW x \in Range(q), x # q[i] PROVE x \in Range(r)
  <2>1. PICK k \in 1 .. Len(q) : x = q[k] /\ k # i
    BY <1>3, RangeIn
  <2>2. CASE k < i
    <3>1. k \in 1 .. n
      BY <2>1, <2>2
    <3> QED
      BY <1>1, <2>1, <2>2, <3>1 DEF Range
  <2>3. CASE k > i
    <3>1. k - 1 \in 1 .. n /\ ~(k - 1 < i) /\ (k - 1) + 1 = k
      BY <2>1, <2>3
    <3> QED
      BY <1>1, <2>1, <3>1 DEF Range
  <2> QED
    BY <2>1, <2>2, <2>3
<1> QED
  BY <1>2, <1>3 DEF r

\* Inserting at a position moves the elements from there on one up.
LEMMA InsertAtElems ==
  ASSUME NEW S, NEW q \in Seq(S), NEW i \in 1 .. Len(q) + 1, NEW e \in S
  PROVE  /\ InsertAt(q, i, e) \in Seq(S)
         /\ Len(InsertAt(q, i, e)) = Len(q) + 1
         /\ \A j \in 1 .. Len(q) + 1 :
              InsertAt(q, i, e)[j] = IF j < i THEN q[j] ELSE IF j = i THEN e ELSE q[j - 1]
<1> DEFINE a == SubSeq(q, 1, i - 1)
           b == SubSeq(q, i, Len(q))
           front == a \o <<e>>
<1>1. /\ a \in Seq(S) /\ Len(a) = i - 1
      /\ \A j \in 1 .. i - 1 : a[j] = q[j]
  <2>1. \A j \in 1 .. i - 1 : q[j] \in S
    OBVIOUS
  <2> QED
    BY <2>1, SubSeqProperties
<1>2. /\ b \in Seq(S) /\ Len(b) = Len(q) + 1 - i
      /\ \A j \in 1 .. Len(q) + 1 - i : b[j] = q[i + j - 1]
  <2>1. \A j \in i .. Len(q) : q[j] \in S
    OBVIOUS
  <2> QED
    BY <2>1, SubSeqProperties
<1>3. InsertAt(q, i, e) = front \o b
  BY DEF InsertAt
<1> HIDE DEF a, b
<1>4. /\ front \in Seq(S) /\ Len(front) = i /\ front[i] = e
      /\ \A j \in 1 .. i - 1 : front[j] = a[j]
  BY <1>1
<1> HIDE DEF front
<1>5. /\ front \o b \in Seq(S)
      /\ Len(front \o b) = Len(front) + Len(b)
      /\ \A j \in 1 .. Len(front) + Len(b) :
           (front \o b)[j] = IF j <= Len(front) THEN front[j] ELSE b[j - Len(front)]
  BY <1>2, <1>4, ConcatProperties
<1>6. ASSUME NEW j \in 1 .. Len(q) + 1
      PROVE  (front \o b)[j] = IF j < i THEN q[j] ELSE IF j = i THEN e ELSE q[j - 1]
  <2>1. CASE j <= i
    BY <1>1, <1>2, <1>4, <1>5, <2>1
  <2>2. CASE ~(j <= i)
    <3>1. j - i \in 1 .. Len(q) + 1 - i /\ i + (j - i) - 1 = j - 1
      BY <2>2
    <3> QED
      BY <1>2, <1>4, <1>5, <2>2, <3>1
  <2> QED
    BY <2>1, <2>2
<1> QED
  BY <1>2, <1>3, <1>4, <1>5, <1>6

LEMMA InsertAtKeeps ==
  ASSUME NEW S, NEW q \in Seq(S), NEW i \in 1 .. Len(q) + 1, NEW e \in S
  PROVE  Range(InsertAt(q, i, e)) = Range(q) \cup {e}
<1> DEFINE r == InsertAt(q, i, e)
           n == Len(q) + 1
<1>1. /\ r \in Seq(S) /\ DOMAIN r = 1 .. n
      /\ \A j \in 1 .. n : r[j] = IF j < i THEN q[j] ELSE IF j = i THEN e ELSE q[j - 1]
  <2>1. /\ r \in Seq(S) /\ Len(r) = n
        /\ \A j \in 1 .. n : r[j] = IF j < i THEN q[j] ELSE IF j = i THEN e ELSE q[j - 1]
    BY InsertAtElems, SMTT(60)
  <2> HIDE DEF r
  <2> QED
    BY <2>1
<1>2. Range(r) \subseteq Range(q) \cup {e}
  BY InsertAtLemma
<1> HIDE DEF r
<1>3. e \in Range(r)
  BY <1>1 DEF Range
<1>4. ASSUME NEW x \in Range(q) PROVE x \in Range(r)
  <2>1. PICK k \in 1 .. Len(q) : x = q[k]
    BY RangeIn
  <2>2. CASE k < i
    <3>1. k \in 1 .. n
      BY <2>1
    <3> QED
      BY <1>1, <2>1, <2>2, <3>1 DEF Range
  <2>3. CASE k >= i
    <3>1. k + 1 \in 1 .. n /\ ~(k + 1 < i) /\ k + 1 # i /\ (k + 1) - 1 = k
      BY <2>3
    <3> QED
      BY <1>1, <2>1, <3>1 DEF Range
  <2> QED
    BY <2>2, <2>3
<1> QED
  BY <1>2, <1>3, <1>4 DEF r

\* pop() moves every other element one down and loses only the first.
LEMMA TailElems ==
  ASSUME NEW S, NEW q \in Seq(S), q # <<>>
  PROVE  /\ Head(q) = q[1] /\ Tail(q) \in Seq(S)
         /\ Len(Tail(q)) = Len(q) - 1 /\ Len(q) \in Nat \ {0}
         /\ \A i \in 1 .. Len(q) - 1 : Tail(q)[i] = q[i + 1]
         /\ Range(q) = Range(Tail(q)) \cup {Head(q)}
<1>1. /\ Head(q) = q[1] /\ Tail(q) \in Seq(S)
      /\ Len(Tail(q)) = Len(q) - 1 /\ Len(q) \in Nat \ {0}
      /\ \A i \in 1 .. Len(q) - 1 : Tail(q)[i] = q[i + 1]
  OBVIOUS
<1>2. Range(Tail(q)) \subseteq Range(q) /\ Head(q) \in Range(q)
  BY TailLemma
<1>3. ASSUME NEW x \in Range(q), x # Head(q) PROVE x \in Range(Tail(q))
  <2>1. PICK k \in 1 .. Len(q) : x = q[k]
    BY RangeIn
  <2>2. k # 1 /\ k - 1 \in 1 .. Len(q) - 1 /\ (k - 1) + 1 = k
    BY <1>1, <1>3, <2>1
  <2>3. Tail(q)[k - 1] = x /\ k - 1 \in DOMAIN Tail(q)
    BY <1>1, <2>1, <2>2
  <2> QED
    BY <2>3 DEF Range
<1> QED
  BY <1>1, <1>2, <1>3

\* Positions that are closed downwards are the first ones, and counting them
\* finds the last.
LEMMA PrefixCount ==
  ASSUME NEW n \in Nat, NEW W \in SUBSET (1 .. n),
         \A j \in W : \A i \in 1 .. n : i <= j => i \in W
  PROVE  W = 1 .. Cardinality(W) /\ Cardinality(W) \in 0 .. n
<1>1. CASE W = {}
  BY <1>1, FS_EmptySet
<1>2. CASE W # {}
  <2>1. PICK k \in W : \A j \in W : j <= k
    BY <1>2, LastPosition
  <2>2. k \in 1 .. n /\ W = 1 .. k
    <3>1. W \subseteq 1 .. n /\ k \in 1 .. n
      OBVIOUS
    <3>2. ASSUME NEW x \in 1 .. k PROVE x \in W
      BY <3>1
    <3>3. ASSUME NEW x \in W PROVE x \in 1 .. k
      BY <2>1, <3>1
    <3> QED
      BY <3>1, <3>2, <3>3
  <2>3. Cardinality(1 .. k) = IF 1 > k THEN 0 ELSE k - 1 + 1
    BY <2>2, FS_Interval
  <2> QED
    BY <2>2, <2>3
<1> QED
  BY <1>1, <1>2

-----------------------------------------------------------------------------
(* Flattening *)

\* Induction over the numbers, for a set instead of a predicate.
LEMMA NatSetInduction ==
  ASSUME NEW S, 0 \in S, \A n \in Nat : n \in S => n + 1 \in S
  PROVE  Nat \subseteq S
<1> DEFINE T == {n \in Nat : n \notin S}
           R == OpToRel(<, Nat)
<1> SUFFICES ASSUME T # {} PROVE FALSE
  OBVIOUS
<1>1. PICK x \in T : \A y \in T : ~ (<<y, x>> \in R)
  <2>1. T \subseteq Nat
    OBVIOUS
  <2>2. IsWellFoundedOn(R, Nat)
    BY NatLessThanWellFounded
  <2> HIDE DEF T, R
  <2> QED
    BY <2>1, <2>2, WFMin
<1>2. \A y \in T : ~(y < x)
  BY <1>1 DEF OpToRel
<1>3. x - 1 \in Nat /\ x - 1 < x /\ (x - 1) + 1 = x
  OBVIOUS
<1>4. x - 1 \in S
  BY <1>2, <1>3
<1> QED
  BY <1>3, <1>4

\* g[i] is the first i sequences of s joined.
Joins(g, s, n) ==
  \A i \in 1 .. n : g[i] = IF i = 1 THEN s[i] ELSE g[i - 1] \o s[i]

LEMMA JoinsExist ==
  ASSUME NEW T, NEW n \in Nat \ {0}, NEW s \in [1 .. n -> Seq(T)]
  PROVE  \E g \in [1 .. n -> Seq(T)] : Joins(g, s, n)
<1> DEFINE S == {k \in Nat : k <= n => \E g \in [1 .. n -> Seq(T)] : Joins(g, s, k)}
<1>1. 0 \in S
  <2>1. s \in [1 .. n -> Seq(T)] /\ Joins(s, s, 0)
    BY DEF Joins
  <2> QED
    BY <2>1
<1>2. ASSUME NEW k \in Nat, k \in S PROVE k + 1 \in S
  <2> SUFFICES ASSUME k + 1 <= n
               PROVE  \E g \in [1 .. n -> Seq(T)] : Joins(g, s, k + 1)
    OBVIOUS
  <2>1. PICK g \in [1 .. n -> Seq(T)] : Joins(g, s, k)
    BY <1>2
  <2> DEFINE e == IF k + 1 = 1 THEN s[k + 1] ELSE g[k] \o s[k + 1]
             h == [i \in 1 .. n |-> IF i = k + 1 THEN e ELSE g[i]]
  <2>2. e \in Seq(T)
    OBVIOUS
  <2>3. h \in [1 .. n -> Seq(T)]
    BY <2>2
  <2>4. ASSUME NEW i \in 1 .. k + 1
        PROVE  h[i] = IF i = 1 THEN s[i] ELSE h[i - 1] \o s[i]
    <3>1. CASE i = k + 1
      <4>1. h[i] = e /\ (i # 1 => h[i - 1] = g[k])
        BY <3>1
      <4> QED
        BY <3>1, <4>1
    <3>2. CASE i # k + 1
      <4>1. i \in 1 .. k /\ h[i] = g[i] /\ (i # 1 => h[i - 1] = g[i - 1])
        BY <3>2
      <4> QED
        BY <2>1, <4>1 DEF Joins
    <3> QED
      BY <3>1, <3>2
  <2>5. Joins(h, s, k + 1)
    BY <2>4 DEF Joins
  <2> QED
    BY <2>3, <2>5
<1>3. n \in S
  <2> HIDE DEF S
  <2> QED
    BY <1>1, <1>2, NatSetInduction
<1> QED
  BY <1>3

LEMMA JoinsUnique ==
  ASSUME NEW n \in Nat, NEW s, NEW g, NEW h, Joins(g, s, n), Joins(h, s, n)
  PROVE  \A i \in 1 .. n : g[i] = h[i]
<1> DEFINE S == {k \in Nat : k \in 1 .. n => g[k] = h[k]}
<1>1. 0 \in S
  OBVIOUS
<1>2. ASSUME NEW k \in Nat, k \in S PROVE k + 1 \in S
  BY <1>2 DEF Joins
<1>3. Nat \subseteq S
  <2> HIDE DEF S
  <2> QED
    BY <1>1, <1>2, NatSetInduction
<1> QED
  BY <1>3

LEMMA FlattenJoins ==
  ASSUME NEW T, NEW s \in Seq(Seq(T)), s # <<>>
  PROVE  \E g \in [1 .. Len(s) -> Seq(T)] : Joins(g, s, Len(s)) /\ FlattenSeq(s) = g[Len(s)]
<1> DEFINE n == Len(s)
           IsFlatten(f) == f = [i \in 1 .. n |-> IF i = 1 THEN s[i] ELSE f[i - 1] \o s[i]]
           flatten == CHOOSE f : IsFlatten(f)
<1>1. n \in Nat \ {0} /\ s \in [1 .. n -> Seq(T)]
  OBVIOUS
<1>2. PICK g \in [1 .. n -> Seq(T)] : Joins(g, s, n)
  BY <1>1, JoinsExist
<1>3. IsFlatten(g)
  BY <1>2 DEF Joins
<1>4. IsFlatten(flatten)
  <2> HIDE DEF IsFlatten
  <2> QED
    BY <1>3
<1>5. Joins(flatten, s, n)
  <2> HIDE DEF flatten
  <2> QED
    BY <1>4 DEF Joins
<1>6. \A i \in 1 .. n : flatten[i] = g[i]
  <2> HIDE DEF flatten
  <2> QED
    BY <1>1, <1>2, <1>5, JoinsUnique
<1>7. FlattenSeq(s) = flatten[n]
  BY <1>1 DEF FlattenSeq
<1>8. n \in 1 .. n
  BY <1>1
<1> HIDE DEF flatten
<1>9. Joins(g, s, n) /\ FlattenSeq(s) = g[n]
  BY <1>2, <1>6, <1>7, <1>8
<1> QED
  BY <1>9

\* Flattening goes on at the end.
LEMMA FlattenAppend ==
  ASSUME NEW T, NEW s \in Seq(Seq(T)), NEW t \in Seq(T)
  PROVE  /\ FlattenSeq(s) \in Seq(T)
         /\ FlattenSeq(Append(s, t)) = FlattenSeq(s) \o t
<1> DEFINE r == Append(s, t)
           n == Len(s)
<1>1. /\ r \in Seq(Seq(T)) /\ Len(r) = n + 1 /\ r[n + 1] = t
      /\ \A i \in 1 .. n : r[i] = s[i]
      /\ n \in Nat /\ n + 1 # 0
  BY AppendProperties
<1>2. r # <<>>
  BY <1>1
<1> HIDE DEF r
<1>3. PICK h \in [1 .. n + 1 -> Seq(T)] : Joins(h, r, n + 1) /\ FlattenSeq(r) = h[n + 1]
  BY <1>1, <1>2, FlattenJoins
<1>4. CASE s = <<>>
  <2>1. FlattenSeq(s) = <<>> /\ n = 0
    BY <1>4 DEF FlattenSeq
  <2>2. h[1] = r[1]
    BY <1>3, <2>1 DEF Joins
  <2>3. FlattenSeq(r) = t
    BY <1>1, <1>3, <2>1, <2>2
  <2>4. FlattenSeq(r) = FlattenSeq(s) \o t
    BY <2>1, <2>3
  <2> QED
    BY <2>1, <2>4 DEF r
<1>5. CASE s # <<>>
  <2>1. PICK g \in [1 .. n -> Seq(T)] : Joins(g, s, n) /\ FlattenSeq(s) = g[n]
    BY <1>5, FlattenJoins
  <2>2. n \in Nat \ {0}
    BY <1>5
  <2>3. h[n + 1] = g[n] \o r[n + 1]
    <3>1. \A i \in 1 .. n : h[i] = IF i = 1 THEN s[i] ELSE h[i - 1] \o s[i]
      <4>1. \A i \in 1 .. n : i \in 1 .. n + 1 /\ r[i] = s[i]
        BY <1>1
      <4> QED
        BY <1>3, <4>1 DEF Joins
    <3>2. Joins(h, s, n) /\ Joins(g, s, n)
      BY <2>1, <3>1 DEF Joins
    <3>3. n \in 1 .. n /\ n + 1 \in 1 .. n + 1 /\ n + 1 # 1 /\ (n + 1) - 1 = n
      BY <2>2
    <3>4. h[n + 1] = h[n] \o r[n + 1]
      BY <1>3, <3>3 DEF Joins
    <3>5. h[n] = g[n]
      <4> HIDE DEF n
      <4>1. n \in Nat /\ n \in 1 .. n
        BY <2>2, <3>3
      <4>2. \A i \in 1 .. n : h[i] = g[i]
        BY <3>2, <4>1, JoinsUnique, SMTT(20)
      <4> QED
        BY <4>1, <4>2
    <3> QED
      BY <3>4, <3>5
  <2>4. FlattenSeq(r) = FlattenSeq(s) \o t
    BY <1>1, <1>3, <2>1, <2>3
  <2>5. n \in 1 .. n
    BY <2>2
  <2>6. FlattenSeq(s) \in Seq(T)
    BY <2>1, <2>5
  <2> QED
    BY <2>4, <2>6 DEF r
<1> QED
  BY <1>4, <1>5

LEMMA ConcatRegroups ==
  ASSUME NEW T, NEW x \in Seq(T), NEW y \in Seq(T), NEW z \in Seq(T)
  PROVE  (x \o y) \o z = x \o (y \o z)
BY ConcatAssociative

LEMMA ConcatCloses ==
  ASSUME NEW T, NEW x \in Seq(T), NEW y \in Seq(T)
  PROVE  x \o y \in Seq(T)
BY ConcatProperties

\* q goes on where p ends, and every P[k + 1] goes on where P[k] ends.
GoesOn(p, q, T) == \E r \in Seq(T) : q = p \o r
Growing(P, n, T) ==
  n \in Nat /\ P \in [0 .. n -> Seq(T)] /\ \A k \in 0 .. n - 1 : GoesOn(P[k], P[k + 1], T)

\* What grows by appending keeps what it was as a prefix.
LEMMA Grows ==
  ASSUME NEW T, NEW P, NEW n, Growing(P, n, T), NEW i \in 0 .. n, NEW j \in i .. n
  PROVE  GoesOn(P[i], P[j], T)
<1>0. /\ n \in Nat /\ P \in [0 .. n -> Seq(T)]
      /\ \A k \in 0 .. n - 1 : \E b \in Seq(T) : P[k + 1] = P[k] \o b
  BY DEF Growing, GoesOn
<1>1. \A k \in 0 .. n : P[k] \in Seq(T)
  BY <1>0
<1>2. \A k \in Nat : i + k <= n => \E r \in Seq(T) : P[i + k] = P[i] \o r
  <2> DEFINE Follows(m) == \E r \in Seq(T) : P[m] = P[i] \o r
  <2>1. Follows(i)
    <3>1. P[i] \in Seq(T)
      BY <1>1
    <3>2. P[i] = P[i] \o <<>> /\ <<>> \in Seq(T)
      BY <3>1, ConcatEmptySeq
    <3> QED
      BY <3>2
  <2>2. ASSUME NEW m \in 0 .. n - 1, Follows(m) PROVE Follows(m + 1)
    <3>1. PICK r \in Seq(T) : P[m] = P[i] \o r
      BY <2>2
    <3>2. PICK b \in Seq(T) : P[m + 1] = P[m] \o b
      BY <1>0
    <3>3. PICK a \in Seq(T) : a = P[i]
      BY <1>1
    <3>4. (a \o r) \o b = a \o (r \o b)
      <4> HIDE DEF Follows
      <4> QED
        BY ConcatRegroups
    <3>5. r \o b \in Seq(T)
      BY ConcatProperties
    <3>6. P[m + 1] = P[i] \o (r \o b)
      BY <3>1, <3>2, <3>3, <3>4, Zenon
    <3> QED
      BY <3>5, <3>6
  <2> HIDE DEF Follows
  <2> DEFINE Later == {k \in Nat : i + k <= n => Follows(i + k)}
  <2>3. 0 \in Later
    <3>1. i + 0 = i
      OBVIOUS
    <3> QED
      BY <2>1, <3>1
  <2>4. ASSUME NEW k \in Nat, k \in Later PROVE k + 1 \in Later
    <3>1. k + 1 \in Nat /\ i + (k + 1) = (i + k) + 1
      OBVIOUS
    <3>2. ASSUME i + (k + 1) <= n PROVE Follows(i + (k + 1))
      <4>1. i + k \in 0 .. n - 1 /\ i + k <= n
        BY <1>0, <3>2
      <4>2. Follows((i + k) + 1)
        BY <2>2, <2>4, <4>1
      <4> QED
        BY <3>1, <4>2
    <3> QED
      BY <3>1, <3>2
  <2>5. Nat \subseteq Later
    <3> HIDE DEF Later
    <3> QED
      BY <2>3, <2>4, NatSetInduction
  <2> QED
    BY <2>5 DEF Follows
<1>3. j \in Nat /\ j <= n /\ j - i \in Nat /\ i + (j - i) = j
  BY <1>0
<1>4. \E r \in Seq(T) : P[j] = P[i] \o r
  BY <1>2, <1>3
<1> QED
  BY <1>4 DEF GoesOn

LEMMA PrefixConcat ==
  ASSUME NEW T, NEW s \in Seq(T), NEW r \in Seq(T)
  PROVE  IsPrefix(s, s \o r)
<1> DEFINE t == s \o r
<1>1. /\ t \in Seq(T) /\ Len(t) = Len(s) + Len(r)
      /\ \A i \in 1 .. Len(s) : t[i] = s[i]
      /\ Len(s) \in Nat /\ Len(r) \in Nat
  BY ConcatProperties
<1> HIDE DEF t
<1>2. SubSeq(s, 1, Len(s)) = s
  OBVIOUS
<1>3. SubSeq(t, 1, Len(s)) = s
  BY <1>1
<1> QED
  BY <1>1, <1>2, <1>3 DEF IsPrefix, t

-----------------------------------------------------------------------------
(* A queue that follows a log *)

One(b) == IF b THEN 1 ELSE 0
Moves(q, r, pop, push, w) ==
  /\ Len(r) = Len(q) - One(pop) + One(push)
  /\ \A i \in 1 .. Len(q) - One(pop) : r[i] = q[i + One(pop)]
  /\ push => r[Len(r)] = w

Updated(q, pop, push, w) ==
  LET left == IF pop THEN Tail(q) ELSE q IN IF push THEN Append(left, w) ELSE left

LEMMA MovesBy ==
  ASSUME NEW W, NEW q \in Seq(W), NEW w \in W, NEW pop \in BOOLEAN, NEW push \in BOOLEAN,
         pop => q # <<>>
  PROVE  /\ Updated(q, pop, push, w) \in Seq(W)
         /\ Moves(q, Updated(q, pop, push, w), pop, push, w)
<1> DEFINE r == Updated(q, pop, push, w)
<1>1. PICK left \in Seq(W) :
        /\ left = IF pop THEN Tail(q) ELSE q
        /\ Len(left) = Len(q) - One(pop)
        /\ \A i \in 1 .. Len(q) - One(pop) : left[i] = q[i + One(pop)]
  <2>1. CASE pop
    <3>1. /\ Tail(q) \in Seq(W) /\ Len(Tail(q)) = Len(q) - 1
          /\ \A i \in 1 .. Len(q) - 1 : Tail(q)[i] = q[i + 1]
      BY <2>1, TailElems
    <3>2. One(pop) = 1
      BY <2>1 DEF One
    <3> QED
      BY <2>1, <3>1, <3>2
  <2>2. CASE ~pop
    <3>1. One(pop) = 0 /\ Len(q) \in Nat
      BY <2>2 DEF One
    <3> QED
      BY <2>2, <3>1
  <2> QED
    BY <2>1, <2>2
<1>2. r = IF push THEN Append(left, w) ELSE left
  BY <1>1 DEF Updated
<1> HIDE DEF r
<1>3. r \in Seq(W) /\ Moves(q, r, pop, push, w)
  <2>1. CASE push
    <3>1. /\ Append(left, w) \in Seq(W) /\ Len(Append(left, w)) = Len(left) + 1
          /\ Append(left, w)[Len(left) + 1] = w
          /\ \A i \in 1 .. Len(left) : Append(left, w)[i] = left[i]
      OBVIOUS
    <3>2. One(push) = 1
      BY <2>1 DEF One
    <3> QED
      BY <1>1, <1>2, <2>1, <3>1, <3>2 DEF Moves
  <2>2. CASE ~push
    <3>1. One(push) = 0 /\ Len(left) \in Nat
      BY <2>2 DEF One
    <3>2. Len(r) = Len(q) - One(pop) + One(push)
      BY <1>1, <1>2, <2>2, <3>1
    <3> QED
      BY <1>1, <1>2, <2>2, <3>2 DEF Moves
  <2> QED
    BY <2>1, <2>2
<1> QED
  BY <1>3 DEF r

\* The queue begins with entries c + 1 to m of the log.
Tracks(q, log, c, m) == m - c <= Len(q) /\ \A i \in 1 .. m - c : q[i] = log[c + i]

\* An edge takes the head away or not, and the log grows or not.
Follows(q, w, pop, push, c, m, d, n, log, later) ==
  /\ d = c + One(pop) /\ d <= m /\ n \in {m, m + 1}
  /\ \A i \in 1 .. m : later[i] = log[i]
  /\ n = m + 1 => push /\ Len(q) = m - c /\ later[m + 1] = w

LEMMA TracksMoves ==
  ASSUME NEW q, NEW r, NEW w, NEW pop \in BOOLEAN, NEW push \in BOOLEAN,
         NEW c \in Nat, NEW m \in Nat, NEW d \in Nat, NEW n \in Nat, NEW log, NEW later,
         Len(q) \in Nat, Moves(q, r, pop, push, w), Tracks(q, log, c, m),
         Follows(q, w, pop, push, c, m, d, n, log, later)
  PROVE  /\ Tracks(r, later, d, n)
         /\ (Len(q) = m - c /\ (push => n = m + 1)) => Len(r) = n - d
<1> /\ d = c + One(pop) /\ d <= m /\ n \in {m, m + 1}
    /\ \A i \in 1 .. m : later[i] = log[i]
    /\ n = m + 1 => push /\ Len(q) = m - c /\ later[m + 1] = w
  BY DEF Follows
<1>1. PICK o \in 0 .. 1, u \in 0 .. 1, L \in Nat :
        o = One(pop) /\ u = One(push) /\ L = Len(q) /\ (push <=> u = 1)
  BY DEF One
<1>2. /\ d = c + o /\ d <= m /\ m - c <= L /\ n \in m .. m + 1
      /\ n = m + 1 => u = 1 /\ L = m - c
      /\ \A i \in 1 .. m - c : q[i] = log[c + i]
  BY <1>1 DEF Tracks
<1>3. /\ Len(r) = L - o + u
      /\ \A i \in 1 .. L - o : r[i] = q[i + o]
      /\ push => r[Len(r)] = w
  BY <1>1 DEF Moves
<1>4. n - d <= Len(r)
  BY <1>1, <1>2, <1>3, SMTT(40)
<1>5. ASSUME NEW i \in 1 .. n - d PROVE r[i] = later[d + i]
  <2>1. CASE i <= m - d
    <3>1. i \in 1 .. L - o /\ i + o \in 1 .. m - c /\ c + (i + o) = d + i /\ d + i \in 1 .. m
      <4>1. d = c + o /\ d <= m /\ m - c <= L /\ 1 <= i /\ i <= m - d /\ i \in Int
        BY <1>2, <2>1
      <4> QED
        BY <4>1, SMTT(40)
    <3>2. r[i] = q[i + o] /\ q[i + o] = log[c + (i + o)]
      BY <1>2, <1>3, <3>1
    <3> QED
      BY <3>1, <3>2
  <2>2. CASE ~(i <= m - d)
    <3>1. n = m + 1 /\ i = m + 1 - d /\ d + i = m + 1
      BY <1>2, <2>2
    <3>2. push /\ u = 1 /\ L = m - c
      BY <1>1, <1>2, <3>1
    <3>3. Len(r) = i
      BY <1>2, <1>3, <3>1, <3>2
    <3> QED
      BY <1>3, <3>1, <3>2, <3>3
  <2> QED
    BY <2>1, <2>2
<1>6. Len(q) = m - c /\ (push => n = m + 1) => Len(r) = n - d
  BY <1>1, <1>2, <1>3, SMTT(40)
<1> QED
  BY <1>4, <1>5, <1>6 DEF Tracks

\* An entry is from the old queue, or the one an edge adds.
CameFrom(q, r, pop, push, w, x) ==
  \/ x + One(pop) \in 1 .. Len(q) /\ r[x] = q[x + One(pop)]
  \/ push /\ x = Len(r) /\ x = Len(q) - One(pop) + 1 /\ r[x] = w

LEMMA MovesLast ==
  ASSUME NEW q, NEW r, NEW pop \in BOOLEAN, NEW push \in BOOLEAN, NEW w, Len(q) \in Nat,
         Moves(q, r, pop, push, w), NEW x \in 1 .. Len(r)
  PROVE  CameFrom(q, r, pop, push, w, x)
<1>1. PICK o \in 0 .. 1, u \in 0 .. 1, L \in Nat :
        o = One(pop) /\ u = One(push) /\ L = Len(q) /\ (push <=> u = 1)
  BY DEF One
<1>2. /\ Len(r) = L - o + u
      /\ \A i \in 1 .. L - o : r[i] = q[i + o]
      /\ push => r[Len(r)] = w
  BY <1>1 DEF Moves
<1>3. CASE x \in 1 .. L - o
  <2>1. x + o \in 1 .. L
    BY <1>1, <1>3
  <2> QED
    BY <1>1, <1>2, <1>3, <2>1 DEF CameFrom
<1>4. CASE ~(x \in 1 .. L - o)
  <2>1. u = 1 /\ x = L - o + 1 /\ x = Len(r)
    BY <1>1, <1>2, <1>4
  <2> QED
    BY <1>1, <1>2, <2>1 DEF CameFrom
<1> QED
  BY <1>3, <1>4
=============================================================================
