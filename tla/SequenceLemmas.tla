---------------------------- MODULE SequenceLemmas ----------------------------
(***************************************************************************)
(* What the operations on tables and queues do to each index, for the      *)
(* proofs of the other modules.                                            *)
(***************************************************************************)
EXTENDS SequencesExt, SequenceTheorems, FiniteSetTheorems, TLAPS

\* Removing the i-th entry keeps the others in order, the later ones one place lower
\* (the shifts of service_quit and
\* delete_user_certificate).
LEMMA RemoveAtProperties ==
    ASSUME NEW S, NEW s \in Seq(S), NEW i \in 1..Len(s)
    PROVE  /\ RemoveAt(s, i) \in Seq(S)
           /\ Len(RemoveAt(s, i)) = Len(s) - 1
           /\ \A k \in 1..(Len(s) - 1) : RemoveAt(s, i)[k] = IF k < i THEN s[k] ELSE s[k + 1]
<1> DEFINE f == SubSeq(s, 1, i - 1)
           g == SubSeq(s, i + 1, Len(s))
<1>0. Len(s) \in Nat
  BY LenProperties
<1>1. f \in Seq(S) /\ Len(f) = i - 1 /\ \A k \in 1..(i - 1) : f[k] = s[k]
  <2>1. \A k \in 1..(i - 1) : s[k] \in S
    BY <1>0, ElementOfSeq
  <2>2. 1 \in Int /\ i - 1 \in Int
    BY <1>0
  <2> HIDE DEF f
  <2>3. /\ f \in Seq(S) /\ Len(f) = IF 1 <= i - 1 THEN (i - 1) - 1 + 1 ELSE 0
        /\ \A k \in 1..((i - 1) - 1 + 1) : f[k] = s[1 + k - 1]
    BY <2>1, <2>2, SubSeqProperties DEF f
  <2> QED BY <2>3, <1>0
<1>2. g \in Seq(S) /\ Len(g) = Len(s) - i /\ \A k \in 1..(Len(s) - i) : g[k] = s[i + k]
  <2>1. \A k \in (i + 1)..Len(s) : s[k] \in S
    BY <1>0, ElementOfSeq
  <2>2. i + 1 \in Int /\ Len(s) \in Int
    BY <1>0
  <2> HIDE DEF g
  <2>3. /\ g \in Seq(S) /\ Len(g) = IF i + 1 <= Len(s) THEN Len(s) - (i + 1) + 1 ELSE 0
        /\ \A k \in 1..(Len(s) - (i + 1) + 1) : g[k] = s[(i + 1) + k - 1]
    BY <2>1, <2>2, SubSeqProperties DEF g
  <2> QED BY <2>3, <1>0
<1> HIDE DEF f, g
<1>3. /\ f \o g \in Seq(S) /\ Len(f \o g) = Len(f) + Len(g)
      /\ \A k \in 1..(Len(f) + Len(g)) : (f \o g)[k] = IF k <= Len(f) THEN f[k] ELSE g[k - Len(f)]
  BY <1>1, <1>2, ConcatProperties
<1>4. RemoveAt(s, i) = f \o g
  BY DEF RemoveAt, f, g
<1>5. \A k \in 1..(Len(s) - 1) : (f \o g)[k] = IF k < i THEN s[k] ELSE s[k + 1]
  <2> TAKE k \in 1..(Len(s) - 1)
  <2>1. CASE k < i
    BY <2>1, <1>0, <1>1, <1>2, <1>3
  <2>2. CASE ~(k < i)
    <3>1. k - (i - 1) \in 1..(Len(s) - i)
      BY <2>2, <1>0
    <3>2. g[k - (i - 1)] = s[i + (k - (i - 1))]
      BY <3>1, <1>2
    <3> QED BY <2>2, <3>1, <3>2, <1>0, <1>1, <1>2, <1>3
  <2> QED BY <2>1, <2>2
<1>6. Len(f) + Len(g) = Len(s) - 1
  BY <1>0, <1>1, <1>2
<1> QED BY <1>3, <1>4, <1>5, <1>6

\* Taking the first element moves the others one place forward.
LEMMA TailProperties ==
    ASSUME NEW S, NEW s \in Seq(S), s # <<>>
    PROVE  /\ Tail(s) \in Seq(S) /\ Head(s) = s[1] /\ s[1] \in S /\ 1 \in DOMAIN s
           /\ \A j \in DOMAIN Tail(s) : j + 1 \in DOMAIN s /\ Tail(s)[j] = s[j + 1]
           /\ \A i \in DOMAIN s : i # 1 => i - 1 \in DOMAIN Tail(s) /\ Tail(s)[i - 1] = s[i]
<1>1. Len(s) \in Nat /\ DOMAIN s = 1..Len(s)
  BY LenProperties
<1>2. Len(s) # 0
  BY EmptySeq
<1>3. /\ Head(s) = s[1] /\ Head(s) \in S
      /\ Tail(s) \in Seq(S) /\ Len(Tail(s)) = Len(s) - 1
      /\ \A i \in 1 .. Len(Tail(s)) : Tail(s)[i] = s[i + 1]
  BY HeadTailProperties
<1>4. DOMAIN Tail(s) = 1..(Len(s) - 1)
  BY <1>3, LenProperties
<1> QED BY <1>1, <1>2, <1>3, <1>4

\* Appending keeps every element in its place.
LEMMA AppendElements ==
    ASSUME NEW S, NEW s \in Seq(S), NEW x \in S
    PROVE  /\ Append(s, x) \in Seq(S)
           /\ Len(s) + 1 \in DOMAIN Append(s, x) /\ Append(s, x)[Len(s) + 1] = x
           /\ \A i \in DOMAIN s : i \in DOMAIN Append(s, x) /\ Append(s, x)[i] = s[i]
           /\ \A j \in DOMAIN Append(s, x) : j \in DOMAIN s \/ j = Len(s) + 1
           /\ Len(s) + 1 \notin DOMAIN s
<1>1. Len(s) \in Nat /\ DOMAIN s = 1..Len(s)
  BY LenProperties
<1>2. /\ Append(s, x) \in Seq(S) /\ Len(Append(s, x)) = Len(s) + 1
      /\ \A i \in 1..Len(s) : Append(s, x)[i] = s[i]
      /\ Append(s, x)[Len(s) + 1] = x
  BY AppendProperties
<1>3. DOMAIN Append(s, x) = 1..(Len(s) + 1)
  BY <1>2, LenProperties
<1> QED BY <1>1, <1>2, <1>3

--------------------------------------------------------------------------------
(* Counting *)

\* How many elements of s are in T.
IndicesOf(s, T)  == {i \in 1..Len(s) : s[i] \in T}
CountOf(s, T) == Cardinality(IndicesOf(s, T))

LEMMA CountType ==
    ASSUME NEW S, NEW s \in Seq(S), NEW T
    PROVE  IsFiniteSet(IndicesOf(s, T)) /\ CountOf(s, T) \in Nat
<1>1. Len(s) \in Nat
  BY LenProperties
<1>2. IsFiniteSet(1..Len(s))
  BY <1>1, FS_Interval
<1>3. IndicesOf(s, T) \in SUBSET (1..Len(s))
  BY DEF IndicesOf
<1>4. IsFiniteSet(IndicesOf(s, T))
  BY <1>2, <1>3, FS_Subset
<1> QED BY <1>4, FS_CardinalityType DEF CountOf

LEMMA CountEmpty ==
    ASSUME NEW T
    PROVE  CountOf(<<>>, T) = 0
<1>1. IndicesOf(<<>>, T) = {}
  BY EmptySeq DEF IndicesOf
<1> QED BY <1>1, FS_EmptySet DEF CountOf

\* Another element counts if it is in T.
LEMMA CountAppend ==
    ASSUME NEW S, NEW s \in Seq(S), NEW x \in S, NEW T
    PROVE  CountOf(Append(s, x), T) = CountOf(s, T) + (IF x \in T THEN 1 ELSE 0)
<1> DEFINE n == Len(s)
           a == Append(s, x)
<1>1. /\ n \in Nat /\ Len(a) = n + 1 /\ a[n + 1] = x
      /\ \A i \in 1..n : a[i] = s[i]
  BY LenProperties, AppendProperties
<1> HIDE DEF a, n
<1>2. IsFiniteSet(IndicesOf(s, T)) /\ CountOf(s, T) \in Nat
  BY CountType
<1>3. n + 1 \notin IndicesOf(s, T)
  BY <1>1 DEF IndicesOf, n
<1>4. CASE x \in T
  <2>1. IndicesOf(a, T) = IndicesOf(s, T) \cup {n + 1}
    BY <1>1, <1>4 DEF IndicesOf, n
  <2> QED BY <1>2, <1>3, <1>4, <2>1, FS_AddElement DEF CountOf, a
<1>5. CASE x \notin T
  <2>1. IndicesOf(a, T) = IndicesOf(s, T)
    BY <1>1, <1>5 DEF IndicesOf, n
  <2> QED BY <1>2, <1>5, <2>1 DEF CountOf, a
<1> QED BY <1>4, <1>5

\* Taking the first element takes it from the count if it is in T.
LEMMA CountTail ==
    ASSUME NEW S, NEW s \in Seq(S), s # <<>>, NEW T
    PROVE  CountOf(s, T) = CountOf(Tail(s), T) + (IF Head(s) \in T THEN 1 ELSE 0)
<1> DEFINE n == Len(s)
           t == Tail(s)
           later == IndicesOf(s, T) \ {1}
           f == [i \in IndicesOf(t, T) |-> i + 1]
<1>1. /\ n \in Nat \ {0} /\ t \in Seq(S) /\ Len(t) = n - 1 /\ Head(s) = s[1]
      /\ \A i \in 1..(n - 1) : t[i] = s[i + 1]
  <2>1. Len(s) \in Nat /\ Len(s) # 0
    BY LenProperties, EmptySeq
  <2> QED BY <2>1, HeadTailProperties
<1> HIDE DEF t, n
<1>2. /\ IsFiniteSet(IndicesOf(s, T)) /\ CountOf(s, T) \in Nat
      /\ IsFiniteSet(IndicesOf(t, T)) /\ CountOf(t, T) \in Nat
  BY <1>1, CountType
<1>3. f \in Bijection(IndicesOf(t, T), later)
  <2>1. f \in [IndicesOf(t, T) -> later]
    BY <1>1 DEF IndicesOf, n
  <2>2. \A i, j \in IndicesOf(t, T) : f[i] = f[j] => i = j
    BY <1>1 DEF IndicesOf
  <2>3. \A k \in later : \E i \in IndicesOf(t, T) : f[i] = k
    <3> TAKE k \in later
    <3>1. k \in 2..n /\ s[k] \in T
      BY <1>1 DEF IndicesOf, n
    <3>2. k - 1 \in 1..(n - 1) /\ t[k - 1] = s[(k - 1) + 1] /\ (k - 1) + 1 = k
      BY <1>1, <3>1
    <3>3. k - 1 \in IndicesOf(t, T) /\ f[k - 1] = k
      BY <1>1, <3>1, <3>2 DEF IndicesOf
    <3> QED BY <3>3
  <2> QED BY <2>1, <2>2, <2>3 DEF Bijection, Injection, Surjection, IsInjective
<1>4. Cardinality(later) = CountOf(t, T)
  BY <1>2, <1>3, FS_Bijection DEF ExistsBijection, CountOf
<1>5. Cardinality(later) = IF 1 \in IndicesOf(s, T) THEN CountOf(s, T) - 1 ELSE CountOf(s, T)
  BY <1>2, FS_RemoveElement DEF CountOf
<1>6. 1 \in IndicesOf(s, T) <=> Head(s) \in T
  BY <1>1 DEF IndicesOf, n
<1> QED BY <1>2, <1>4, <1>5, <1>6 DEF t

--------------------------------------------------------------------------------
(* Induction *)

\* A set with 0 and with the successor of each of its numbers has every number: else the
\* successor maps its numbers below a missing one into fewer, and two of them to one.
LEMMA SetInduction ==
    ASSUME NEW S, 0 \in S, \A n \in Nat : n \in S => n + 1 \in S
    PROVE  Nat \subseteq S
<1> SUFFICES ASSUME NEW k \in Nat, k \notin S PROVE FALSE
  OBVIOUS
<1> DEFINE A == {n \in 0..k : n \in S}
           B == A \ {0}
           f == [n \in A |-> n + 1]
<1>1. ASSUME NEW n \in A PROVE n + 1 \in B
  <2>1. n \in Nat /\ n \in S /\ n # k /\ n <= k
    OBVIOUS
  <2>2. n + 1 \in S /\ n + 1 \in 0..k /\ n + 1 # 0
    BY <2>1
  <2> QED BY <2>2
<1>2. IsFiniteSet(A) /\ Cardinality(A) \in Nat
  <2>1. IsFiniteSet(0..k)
    BY FS_Interval
  <2>2. A \in SUBSET (0..k)
    OBVIOUS
  <2> QED BY <2>1, <2>2, FS_Subset, FS_CardinalityType
<1>3. IsFiniteSet(B) /\ Cardinality(B) = Cardinality(A) - 1
  <2>1. 0 \in A
    OBVIOUS
  <2> HIDE DEF A
  <2> QED BY <1>2, <2>1, FS_RemoveElement
<1>4. Cardinality(B) < Cardinality(A)
  BY <1>2, <1>3
<1>5. f \in [A -> B]
  BY <1>1
<1>6. \A n \in A : f[n] = n + 1 /\ n \in Nat
  OBVIOUS
<1> HIDE DEF A, B, f
<1>7. PICK x \in A, y \in A : x # y /\ f[x] = f[y]
  BY <1>2, <1>3, <1>4, <1>5, FS_PigeonHole
<1> QED BY <1>6, <1>7

===============================================================================
