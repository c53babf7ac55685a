---------------------------- MODULE SequenceLemmas ----------------------------
(* Lemmas that the proofs about several components share: sequences        *)
(* whatever their elements, least elements, and the listing of a finite    *)
(* set in the order of a strict total order, which is how the models say   *)
(* that a list is sorted.                                                  *)
EXTENDS Integers, Sequences, FiniteSets, SequencesExt,
        SequenceTheorems, FiniteSetTheorems, TLAPS

(* A sequence, whatever its elements.                                      *)
IsSequence(s) == \E S : s \in Seq(S)

-----------------------------------------------------------------------------
(* Sequences                                                               *)

(* The domain and the range of a sequence.                                 *)
LEMMA SequenceDomain ==
  ASSUME NEW s, IsSequence(s)
  PROVE  /\ Len(s) \in Nat /\ DOMAIN s = 1 .. Len(s)
         /\ DOMAIN s \subseteq Nat \ {0}
         /\ s # <<>> => Len(s) > 0
         /\ Range(s) = {s[i] : i \in 1 .. Len(s)}
BY LenProperties DEF IsSequence, Range

(* Append adds one element to the range.                                   *)
LEMMA SequenceAppend ==
  ASSUME NEW s, IsSequence(s), NEW e
  PROVE  /\ IsSequence(Append(s, e))
         /\ Range(Append(s, e)) = Range(s) \union {e}
<1>1. PICK S : s \in Seq(S)
  BY DEF IsSequence
<1>2. s \in Seq(S \union {e})
  BY <1>1, SeqMonotonic
<1>3. /\ Append(s, e) \in Seq(S \union {e})
      /\ Len(Append(s, e)) = Len(s) + 1
      /\ \A i \in 1 .. Len(s) : Append(s, e)[i] = s[i]
      /\ Append(s, e)[Len(s) + 1] = e
  BY <1>2, AppendProperties
<1>. QED
  BY <1>2, <1>3, LenProperties DEF IsSequence, Range

(* The head and the tail of a sequence have all its elements.              *)
LEMMA SequenceTail ==
  ASSUME NEW s, IsSequence(s), s # <<>>
  PROVE  /\ IsSequence(Tail(s))
         /\ Len(Tail(s)) = Len(s) - 1
         /\ \A i \in 1 .. Len(Tail(s)) : Tail(s)[i] = s[i + 1]
         /\ Head(s) = s[1]
         /\ Range(s) = Range(Tail(s)) \union {Head(s)}
<1>1. PICK S : s \in Seq(S)
  BY DEF IsSequence
<1>2. Tail(s) \in Seq(S) /\ Len(Tail(s)) = Len(s) - 1 /\ Len(s) > 0
  BY <1>1, HeadTailProperties
<1>3. Head(s) = s[1]
  BY <1>1
<1>4. \A i \in 1 .. Len(Tail(s)) : Tail(s)[i] = s[i + 1]
  BY <1>1, <1>2, HeadTailProperties
<1>5. DOMAIN s = 1 .. Len(s) /\ DOMAIN Tail(s) = 1 .. Len(s) - 1
  BY <1>1, <1>2, LenProperties
<1>6. Range(s) \subseteq Range(Tail(s)) \union {Head(s)}
  <2>1. SUFFICES ASSUME NEW i \in 1 .. Len(s), i # 1
                 PROVE  s[i] \in Range(Tail(s))
    BY <1>3, <1>5 DEF Range
  <2>2. i - 1 \in 1 .. Len(Tail(s)) /\ (i - 1) + 1 = i
    BY <1>1, <1>2, <2>1
  <2>. QED
    BY <1>2, <1>4, <1>5, <2>2 DEF Range
<1>7. Range(Tail(s)) \union {Head(s)} \subseteq Range(s)
  <2>1. \A i \in 1 .. Len(Tail(s)) : i + 1 \in 1 .. Len(s)
    BY <1>1, <1>2, LenProperties
  <2>2. 1 \in 1 .. Len(s)
    BY <1>1, <1>2, LenProperties
  <2>. QED
    BY <1>2, <1>3, <1>4, <1>5, <2>1, <2>2 DEF Range
<1>. QED
  BY <1>2, <1>3, <1>4, <1>6, <1>7 DEF IsSequence

(* A function on the domain of a sequence is a sequence.                   *)
LEMMA SequenceSame ==
  ASSUME NEW s, IsSequence(s), NEW t, t = [k \in DOMAIN s |-> t[k]]
  PROVE  IsSequence(t)
<1>1. PICK S : s \in Seq(S)
  BY DEF IsSequence
<1>2. PICK n \in Nat : DOMAIN s = 1 .. n
  BY <1>1
<1>3. t \in [1 .. n -> {t[k] : k \in 1 .. n}]
  BY <1>2
<1>. QED
  BY <1>3, SeqDef DEF IsSequence

(* What is behind an element that is removed moves one place forward.      *)
LEMMA SequenceRemoved ==
  ASSUME NEW S, NEW s \in Seq(S), NEW i \in 1 .. Len(s)
  PROVE  /\ RemoveAt(s, i) \in Seq(S)
         /\ Len(RemoveAt(s, i)) = Len(s) - 1
         /\ \A j \in 1 .. i - 1 : RemoveAt(s, i)[j] = s[j]
         /\ \A j \in i .. Len(s) - 1 : RemoveAt(s, i)[j] = s[j + 1]
<1>. DEFINE a == SubSeq(s, 1, i - 1)
            b == SubSeq(s, i + 1, Len(s))
<1>0. Len(s) \in Nat /\ \A j \in 1 .. Len(s) : s[j] \in S
  OBVIOUS
<1>1. /\ a \in Seq(S) /\ Len(a) = i - 1
      /\ \A j \in 1 .. i - 1 : a[j] = s[j]
  <2>1. /\ a \in Seq(S)
        /\ Len(a) = (IF 1 <= i - 1 THEN (i - 1) - 1 + 1 ELSE 0)
        /\ \A j \in 1 .. (i - 1) - 1 + 1 : a[j] = s[1 + j - 1]
    BY <1>0, SubSeqProperties
  <2>. QED
    BY <1>0, <2>1
<1>2. /\ b \in Seq(S) /\ Len(b) = Len(s) - i
      /\ \A j \in 1 .. Len(s) - i : b[j] = s[i + j]
  <2>1. /\ b \in Seq(S)
        /\ Len(b) = (IF i + 1 <= Len(s) THEN Len(s) - (i + 1) + 1 ELSE 0)
        /\ \A j \in 1 .. Len(s) - (i + 1) + 1 : b[j] = s[(i + 1) + j - 1]
    BY <1>0, SubSeqProperties
  <2>. QED
    BY <1>0, <2>1
<1>3. RemoveAt(s, i) = a \o b
  BY DEF RemoveAt
<1>. HIDE DEF a, b
<1>4. /\ a \o b \in Seq(S)
      /\ Len(a \o b) = Len(a) + Len(b)
      /\ \A j \in 1 .. Len(a) + Len(b) :
           (a \o b)[j] = IF j <= Len(a) THEN a[j] ELSE b[j - Len(a)]
  BY <1>1, <1>2, ConcatProperties
<1>5. ASSUME NEW j \in i .. Len(s) - 1
      PROVE  (a \o b)[j] = s[j + 1]
  <2>1. j - Len(a) \in 1 .. Len(s) - i /\ i + (j - Len(a)) = j + 1 /\ j \in 1 .. Len(a) + Len(b)
    BY <1>0, <1>1, <1>2
  <2>2. (a \o b)[j] = b[j - Len(a)]
    BY <1>0, <1>1, <1>4, <2>1
  <2>. QED
    BY <1>2, <2>1, <2>2
<1>. QED
  BY <1>0, <1>1, <1>2, <1>3, <1>4, <1>5

(* A nonempty set of natural numbers has a least element.                  *)
LEMMA LeastInSet ==
  ASSUME NEW T \in SUBSET Nat, T # {}
  PROVE  Min(T) \in T /\ \A y \in T : Min(T) <= y
<1>. DEFINE R == {ss \in Nat \X Nat : ss[1] < ss[2]}
<1>1. IsWellFoundedOn(R, Nat)
  BY NatLessThanWellFounded, Zenon DEF OpToRel
<1>. HIDE DEF R
<1>2. PICK x \in T : \A y \in T : ~(<<y, x>> \in R)
  BY <1>1, WFMin
<1>3. ASSUME NEW y \in T PROVE x <= y
  <2>1. x \in Nat /\ y \in Nat /\ <<y, x>> \in Nat \X Nat
    BY <1>2
  <2>2. y < x => <<y, x>> \in R
    BY <2>1 DEF R
  <2>. QED
    BY <1>2, <2>1, <2>2
<1>. QED
  BY <1>2, <1>3 DEF Min

(* A nonempty set of numbers up to n has a greatest element.               *)
LEMMA GreatestInSet ==
  ASSUME NEW n \in Nat, NEW T \in SUBSET (1 .. n), T # {}
  PROVE  Max(T) \in T /\ \A y \in T : Max(T) >= y
<1>. DEFINE U == {n - x : x \in T}
<1>1. U \in SUBSET Nat /\ U # {}
  <2>1. \A x \in T : n - x \in Nat
    OBVIOUS
  <2>2. \E x \in T : n - x \in U
    OBVIOUS
  <2>. QED
    BY <2>1, <2>2
<1>2. Min(U) \in U /\ \A y \in U : Min(U) <= y
  BY <1>1, LeastInSet
<1>3. PICK x \in T : Min(U) = n - x
  BY <1>2
<1>4. ASSUME NEW y \in T PROVE x >= y
  <2>1. n - x <= n - y
    BY <1>2, <1>3
  <2>. QED
    BY <2>1
<1>. QED
  BY <1>4 DEF Max

-----------------------------------------------------------------------------
(* Lists in which no element occurs twice                                  *)

NoRepeat(s) == \A i, j \in 1 .. Len(s) : s[i] = s[j] => i = j

(* Such a list has no more elements than there are to choose from.         *)
LEMMA NoRepeatLength ==
  ASSUME NEW S, IsFiniteSet(S), NEW s \in Seq(S), NoRepeat(s)
  PROVE  Len(s) <= Cardinality(S)
<1>1. Len(s) \in Nat /\ s \in [1 .. Len(s) -> S]
  BY LenProperties
<1>2. s \in Injection(1 .. Len(s), S)
  BY <1>1 DEF NoRepeat, Injection, IsInjective
<1>3. IsFiniteSet(1 .. Len(s)) /\ Cardinality(1 .. Len(s)) = Len(s)
  <2>1. 1 \in Int /\ Len(s) \in Int /\ Len(s) >= 0
    BY <1>1
  <2>. QED
    BY <1>1, <2>1, FS_Interval
<1>. QED
  BY <1>2, <1>3, FS_Injection

(* An element is put behind the others.                                    *)
LEMMA NoRepeatAppend ==
  ASSUME NEW S, NEW s \in Seq(S), NoRepeat(s), NEW e \in S, e \notin Range(s)
  PROVE  Append(s, e) \in Seq(S) /\ NoRepeat(Append(s, e))
<1>1. /\ Len(s) \in Nat /\ Len(Append(s, e)) = Len(s) + 1
      /\ \A i \in 1 .. Len(s) : Append(s, e)[i] = s[i]
      /\ Append(s, e)[Len(s) + 1] = e
  BY AppendProperties, LenProperties
<1>2. \A i \in 1 .. Len(s) : s[i] # e
  BY LenProperties DEF Range
<1>3. Append(s, e) \in Seq(S)
  OBVIOUS
<1>. QED
  BY <1>1, <1>2, <1>3 DEF NoRepeat

(* Two lists with nothing in common are joined.                            *)
LEMMA NoRepeatConcat ==
  ASSUME NEW S, NEW s \in Seq(S), NoRepeat(s), NEW t \in Seq(S), NoRepeat(t),
         Range(s) \intersect Range(t) = {}
  PROVE  /\ s \o t \in Seq(S) /\ NoRepeat(s \o t)
         /\ Len(s \o t) = Len(s) + Len(t)
         /\ Range(s \o t) = Range(s) \union Range(t)
<1>. DEFINE u == s \o t
<1>1. /\ u \in Seq(S) /\ Len(u) = Len(s) + Len(t)
      /\ \A i \in 1 .. Len(s) + Len(t) :
           u[i] = IF i <= Len(s) THEN s[i] ELSE t[i - Len(s)]
  BY ConcatProperties
<1>2. Len(s) \in Nat /\ Len(t) \in Nat
  BY LenProperties
<1>. HIDE DEF u
<1>3. /\ Range(s) = {s[i] : i \in 1 .. Len(s)}
      /\ Range(t) = {t[i] : i \in 1 .. Len(t)}
      /\ Range(u) = {u[i] : i \in 1 .. Len(u)}
  BY <1>1, SequenceDomain DEF IsSequence
<1>4. \A i \in 1 .. Len(s) : \A j \in 1 .. Len(t) : s[i] # t[j]
  BY <1>3
<1>5. \A i \in 1 .. Len(u) :
        \/ i \in 1 .. Len(s) /\ u[i] = s[i]
        \/ i - Len(s) \in 1 .. Len(t) /\ u[i] = t[i - Len(s)]
  BY <1>1, <1>2
<1>6. NoRepeat(u)
  <2>1. SUFFICES ASSUME NEW i \in 1 .. Len(u), NEW j \in 1 .. Len(u), u[i] = u[j]
                 PROVE  i = j
    BY DEF NoRepeat
  <2>2. CASE i \in 1 .. Len(s) /\ j \in 1 .. Len(s)
    BY <1>1, <1>2, <2>1, <2>2 DEF NoRepeat
  <2>3. CASE i - Len(s) \in 1 .. Len(t) /\ j - Len(s) \in 1 .. Len(t)
    <3>1. t[i - Len(s)] = t[j - Len(s)]
      BY <1>1, <1>2, <2>1, <2>3
    <3>2. i - Len(s) = j - Len(s)
      BY <2>3, <3>1 DEF NoRepeat
    <3>. QED
      BY <1>1, <1>2, <3>2
  <2>. QED
    BY <1>1, <1>2, <1>4, <1>5, <2>1, <2>2, <2>3
<1>7. Range(u) = Range(s) \union Range(t)
  <2>1. \A i \in 1 .. Len(s) : i \in 1 .. Len(u) /\ u[i] = s[i]
    BY <1>1, <1>2
  <2>2. ASSUME NEW j \in 1 .. Len(t)
        PROVE  Len(s) + j \in 1 .. Len(u) /\ u[Len(s) + j] = t[j]
    <3>1. Len(s) + j \in 1 .. Len(s) + Len(t) /\ ~(Len(s) + j <= Len(s))
          /\ (Len(s) + j) - Len(s) = j
      BY <1>2
    <3>. QED
      BY <1>1, <3>1
  <2>3. Range(s) \subseteq Range(u)
    BY <1>3, <2>1
  <2>4. Range(t) \subseteq Range(u)
    BY <1>3, <2>2
  <2>5. Range(u) \subseteq Range(s) \union Range(t)
    BY <1>3, <1>5
  <2>. QED
    BY <2>3, <2>4, <2>5
<1>. QED
  BY <1>1, <1>6, <1>7 DEF u

(* The first element is taken off.                                         *)
LEMMA NoRepeatTail ==
  ASSUME NEW S, NEW s \in Seq(S), NoRepeat(s), s # <<>>
  PROVE  /\ Head(s) \in S
         /\ Tail(s) \in Seq(S) /\ NoRepeat(Tail(s))
         /\ Range(Tail(s)) = Range(s) \ {Head(s)}
         /\ Head(s) \in Range(s)
<1>1. Tail(s) \in Seq(S) /\ Len(s) \in Nat /\ Len(s) > 0 /\ Head(s) = s[1] /\ Head(s) \in S
  BY HeadTailProperties, LenProperties
<1>2. /\ Len(Tail(s)) = Len(s) - 1
      /\ \A i \in 1 .. Len(Tail(s)) : Tail(s)[i] = s[i + 1]
      /\ Range(s) = Range(Tail(s)) \union {Head(s)}
  BY SequenceTail DEF IsSequence
<1>3. Range(Tail(s)) = {Tail(s)[i] : i \in 1 .. Len(Tail(s))}
  BY <1>1, SequenceDomain DEF IsSequence
<1>4. Head(s) \notin Range(Tail(s))
  BY <1>1, <1>2, <1>3 DEF NoRepeat
<1>5. NoRepeat(Tail(s))
  BY <1>1, <1>2 DEF NoRepeat
<1>. QED
  BY <1>1, <1>2, <1>4, <1>5

(* Any element is taken out.                                               *)
LEMMA NoRepeatRemoved ==
  ASSUME NEW S, NEW s \in Seq(S), NoRepeat(s), NEW i \in 1 .. Len(s)
  PROVE  /\ RemoveAt(s, i) \in Seq(S) /\ NoRepeat(RemoveAt(s, i))
         /\ Range(RemoveAt(s, i)) = Range(s) \ {s[i]}
<1>. DEFINE r == RemoveAt(s, i)
<1>1. /\ r \in Seq(S) /\ Len(r) = Len(s) - 1
      /\ \A j \in 1 .. i - 1 : r[j] = s[j]
      /\ \A j \in i .. Len(s) - 1 : r[j] = s[j + 1]
  BY SequenceRemoved
<1>. HIDE DEF r
<1>2. Len(s) \in Nat /\ i \in Nat
  BY LenProperties
<1>3. Range(s) = {s[j] : j \in 1 .. Len(s)} /\ Range(r) = {r[j] : j \in 1 .. Len(r)}
  BY <1>1, SequenceDomain DEF IsSequence
<1>4. NoRepeat(r)
  <2>1. \A j \in 1 .. Len(r) :
          \E k \in 1 .. Len(s) : r[j] = s[k] /\ k = IF j < i THEN j ELSE j + 1
    BY <1>1, <1>2
  <2>. QED
    BY <1>1, <1>2, <2>1 DEF NoRepeat
<1>5. ASSUME NEW j \in 1 .. Len(r) PROVE r[j] \in Range(s) \ {s[i]}
  BY <1>1, <1>2, <1>3 DEF NoRepeat
<1>6. ASSUME NEW k \in 1 .. Len(s), k # i PROVE s[k] \in Range(r)
  <2>1. CASE k < i
    <3>1. k \in 1 .. i - 1 /\ k \in 1 .. Len(r)
      BY <1>1, <1>2, <2>1
    <3>. QED
      BY <1>1, <1>3, <3>1
  <2>2. CASE k > i
    <3>1. k - 1 \in i .. Len(s) - 1 /\ k - 1 \in 1 .. Len(r) /\ (k - 1) + 1 = k
      BY <1>1, <1>2, <2>2
    <3>. QED
      BY <1>1, <1>3, <3>1
  <2>. QED
    BY <1>2, <1>6, <2>1, <2>2
<1>7. Range(r) = Range(s) \ {s[i]}
  BY <1>3, <1>5, <1>6
<1>. QED
  BY <1>1, <1>4, <1>7 DEF r

-----------------------------------------------------------------------------
(* Listing a finite set in order                                           *)

TotalOrder(R, S) ==
  /\ \A p \in S : <<p, p>> \notin R
  /\ \A p, q, r \in S : <<p, q>> \in R /\ <<q, r>> \in R => <<p, r>> \in R
  /\ \A p, q \in S : p = q \/ <<p, q>> \in R \/ <<q, p>> \in R

Rank(p, R, S) == Cardinality({q \in S : <<q, p>> \in R})

(* The number of smaller elements orders a finite set as the order does.   *)
LEMMA RankOrder ==
  ASSUME NEW S, IsFiniteSet(S), NEW R, TotalOrder(R, S)
  PROVE  /\ \A p \in S : Rank(p, R, S) \in 0 .. Cardinality(S) - 1
         /\ \A p, q \in S : <<p, q>> \in R <=> Rank(p, R, S) < Rank(q, R, S)
<1>. DEFINE Below(p) == {q \in S : <<q, p>> \in R}
<1>1. \A p \in S : Below(p) \subseteq S \ {p}
  BY DEF TotalOrder
<1>2. \A p, q \in S : <<p, q>> \in R => Below(p) \union {p} \subseteq Below(q)
  BY DEF TotalOrder
<1>3. \A p \in S : Rank(p, R, S) = Cardinality(Below(p))
  BY DEF Rank
<1>. HIDE DEF Below
<1>4. Cardinality(S) \in Nat
  BY FS_CardinalityType
<1>5. ASSUME NEW p \in S
      PROVE  /\ IsFiniteSet(Below(p)) /\ Rank(p, R, S) \in Nat
             /\ Rank(p, R, S) <= Cardinality(S) - 1
  <2>1. IsFiniteSet(S \ {p}) /\ Cardinality(S \ {p}) = Cardinality(S) - 1
    BY FS_RemoveElement
  <2>2. Below(p) \in SUBSET (S \ {p})
    BY <1>1
  <2>3. IsFiniteSet(Below(p)) /\ Cardinality(Below(p)) <= Cardinality(S \ {p})
    BY <2>1, <2>2, FS_Subset
  <2>. QED
    BY <1>3, <2>1, <2>3, FS_CardinalityType
<1>6. ASSUME NEW p \in S, NEW q \in S, <<p, q>> \in R
      PROVE  Rank(p, R, S) < Rank(q, R, S)
  <2>1. Cardinality(Below(p) \union {p}) = Cardinality(Below(p)) + 1
    BY <1>1, <1>5, FS_AddElement
  <2>2. Below(p) \union {p} \in SUBSET Below(q)
    BY <1>2, <1>6
  <2>3. Cardinality(Below(p) \union {p}) <= Cardinality(Below(q))
    BY <1>5, <2>2, FS_Subset
  <2>4. Rank(p, R, S) + 1 <= Rank(q, R, S)
    BY <1>3, <2>1, <2>3
  <2>. QED
    BY <1>5, <2>4
<1>7. ASSUME NEW p \in S, NEW q \in S, Rank(p, R, S) < Rank(q, R, S)
      PROVE  <<p, q>> \in R
  <2>1. p = q \/ <<p, q>> \in R \/ <<q, p>> \in R
    BY DEF TotalOrder
  <2>. QED
    BY <1>5, <1>6, <1>7, <2>1
<1>. QED
  BY <1>4, <1>5, <1>6, <1>7

(* Every rank occurs, since the ranks are different and there are as many  *)
(* as elements.                                                            *)
LEMMA RankOccurs ==
  ASSUME NEW S, IsFiniteSet(S), NEW R, TotalOrder(R, S),
         NEW n \in 0 .. Cardinality(S) - 1
  PROVE  \E p \in S : Rank(p, R, S) = n
<1>. DEFINE T == 0 .. Cardinality(S) - 1
            f == [p \in S |-> Rank(p, R, S)]
<1>1. Cardinality(S) \in Nat
  BY FS_CardinalityType
<1>2. IsFiniteSet(T) /\ Cardinality(T) = Cardinality(S)
  BY <1>1, FS_Interval
<1>3. \A p, q \in S : Rank(p, R, S) = Rank(q, R, S) => p = q
  <2>1. SUFFICES ASSUME NEW p \in S, NEW q \in S, Rank(p, R, S) = Rank(q, R, S)
                 PROVE  p = q
    OBVIOUS
  <2>2. Rank(p, R, S) \in Nat /\ Rank(q, R, S) \in Nat
    BY RankOrder
  <2>3. <<p, q>> \notin R /\ <<q, p>> \notin R
    BY <2>1, <2>2, RankOrder
  <2>. QED
    BY <2>3 DEF TotalOrder
<1>4. f \in Injection(S, T)
  BY <1>3, RankOrder DEF Injection, IsInjective
<1>. HIDE DEF f, T
<1>5. f \in Surjection(S, T)
  BY <1>2, <1>4, FS_Injection
<1>. QED
  BY <1>5 DEF f, T, Surjection

(* A function that gives for every number the element of that rank is the  *)
(* list of the set in order.                                               *)
LEMMA Listing ==
  ASSUME NEW S, IsFiniteSet(S), NEW R, TotalOrder(R, S),
         NEW s \in [1 .. Cardinality(S) -> S],
         \A n \in 1 .. Cardinality(S) : Rank(s[n], R, S) = n - 1
  PROVE  /\ s \in Seq(S) /\ Len(s) = Cardinality(S)
         /\ Range(s) = S
         /\ \A i, j \in 1 .. Len(s) : i < j => <<s[i], s[j]>> \in R
<1>1. Cardinality(S) \in Nat
  BY FS_CardinalityType
<1>2. s \in Seq(S)
  BY <1>1, SeqDef
<1>3. Len(s) = Cardinality(S)
  BY <1>1, <1>2, LenProperties
<1>4. ASSUME NEW p \in S PROVE p \in Range(s)
  <2>1. Rank(p, R, S) \in 0 .. Cardinality(S) - 1
    BY RankOrder
  <2>2. PICK n \in 1 .. Cardinality(S) : Rank(p, R, S) = n - 1
    <3>1. Rank(p, R, S) + 1 \in 1 .. Cardinality(S)
      BY <1>1, <2>1
    <3>2. Rank(p, R, S) = (Rank(p, R, S) + 1) - 1
      BY <1>1, <2>1
    <3>. QED
      BY <3>1, <3>2
  <2>3. Rank(s[n], R, S) = Rank(p, R, S) /\ s[n] \in S
    BY <2>2
  <2>4. <<p, s[n]>> \notin R /\ <<s[n], p>> \notin R
    BY <2>1, <2>3, RankOrder
  <2>. QED
    BY <2>3, <2>4 DEF TotalOrder, Range
<1>5. ASSUME NEW i \in 1 .. Len(s), NEW j \in 1 .. Len(s), i < j
      PROVE  <<s[i], s[j]>> \in R
  BY <1>3, <1>5, RankOrder
<1>. QED
  BY <1>2, <1>3, <1>4, <1>5 DEF Range

-----------------------------------------------------------------------------
(* Counting                                                                *)

(* A number that grows by one at some places has grown by their number.    *)
LEMMA CountSteps ==
  ASSUME NEW n \in Nat, NEW d \in [1 .. n -> Int], NEW B \in SUBSET (2 .. n),
         \A j \in 2 .. n : d[j] = d[j - 1] + (IF j \in B THEN 1 ELSE 0),
         NEW k \in 1 .. n
  PROVE  Cardinality({j \in 2 .. k : j \in B}) = d[k] - d[1]
<1>. DEFINE C(m) == {j \in 2 .. m : j \in B}
            T == {m \in 1 .. n : Cardinality(C(m)) # d[m] - d[1]}
<1>1. \A m \in 1 .. n : IsFiniteSet(C(m)) /\ Cardinality(C(m)) \in Nat
  <2>1. SUFFICES ASSUME NEW m \in 1 .. n
                 PROVE  IsFiniteSet(C(m)) /\ Cardinality(C(m)) \in Nat
    OBVIOUS
  <2>2. IsFiniteSet(2 .. m)
    BY FS_Interval
  <2>. QED
    BY <2>2, FS_Subset, FS_CardinalityType
<1>2. Cardinality(C(1)) = 0
  <2>1. C(1) = {}
    OBVIOUS
  <2>. QED
    BY <2>1, FS_EmptySet
<1>3. ASSUME T # {} PROVE FALSE
  <2>. DEFINE m == Min(T)
  <2>1. m \in T /\ \A y \in T : m <= y
    <3>1. T \in SUBSET Nat
      OBVIOUS
    <3>. HIDE DEF T
    <3>. QED
      BY <1>3, <3>1, LeastInSet
  <2>. HIDE DEF m
  <2>2. m \in 1 .. n /\ Cardinality(C(m)) # d[m] - d[1] /\ \A y \in 1 .. n : y < m => y \notin T
    BY <2>1
  <2>3. m # 1
    <3>1. SUFFICES ASSUME m = 1 PROVE FALSE
      OBVIOUS
    <3>2. Cardinality(C(1)) # d[1] - d[1] /\ d[1] \in Int
      BY <2>2, <3>1
    <3>. HIDE DEF C
    <3>. QED
      BY <1>2, <3>2
  <2>4. m \in 2 .. n /\ m - 1 \in 1 .. n /\ m - 1 < m
    BY <2>2, <2>3
  <2>5. Cardinality(C(m - 1)) = d[m - 1] - d[1]
    BY <2>2, <2>4
  <2>6. /\ m \in B => C(m) = C(m - 1) \union {m}
        /\ m \notin B => C(m) = C(m - 1)
        /\ m \notin C(m - 1)
    <3>1. \A j \in Int : j \in 2 .. m <=> j \in 2 .. m - 1 \/ j = m
      BY <2>4
    <3>2. \A j : j \in C(m) <=> j \in 2 .. m /\ j \in B
      OBVIOUS
    <3>3. \A j : j \in C(m - 1) <=> j \in 2 .. m - 1 /\ j \in B
      OBVIOUS
    <3>4. \A j \in B : j \in Int
      OBVIOUS
    <3>5. m \notin 2 .. m - 1
      BY <2>4
    <3>. HIDE DEF C
    <3>6. \A j : j \in C(m) <=> j \in C(m - 1) \/ (j = m /\ m \in B)
      BY <3>1, <3>2, <3>3, <3>4
    <3>. QED
      BY <3>3, <3>5, <3>6
  <2>7. IsFiniteSet(C(m - 1)) /\ Cardinality(C(m - 1)) \in Nat
    BY <1>1, <2>4
  <2>8. d[m] = d[m - 1] + (IF m \in B THEN 1 ELSE 0) /\ d[m - 1] \in Int /\ d[1] \in Int
    BY <2>4
  <2>. HIDE DEF C
  <2>9. CASE m \in B
    <3>1. Cardinality(C(m)) = Cardinality(C(m - 1)) + 1
      BY <2>6, <2>7, <2>9, FS_AddElement
    <3>. QED
      BY <2>2, <2>5, <2>8, <2>9, <3>1
  <2>10. CASE m \notin B
    BY <2>2, <2>5, <2>6, <2>8, <2>10
  <2>. QED
    BY <2>9, <2>10
<1>. QED
  BY <1>3
=============================================================================
