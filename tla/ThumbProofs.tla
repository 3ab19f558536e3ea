---------------------------- MODULE ThumbProofs ----------------------------
(***************************************************************************)
(* Proofs about Thumb, for every set of icons and of process identifiers   *)
(* and for any number of calls and crashes: type correctness, and that the *)
(* queue of waiting requests holds the right icons and is always served.   *)
(***************************************************************************)
EXTENDS Thumb, FiniteSetTheorems, SequenceTheorems, NaturalsInduction, TLAPS

-----------------------------------------------------------------------------
(* Sequences.                                                              *)

\* Contains and ToSet agree.
LEMMA ContainsIsToSet ==
  ASSUME NEW S, NEW q \in Seq(S)
  PROVE  /\ \A e : Contains(q, e) <=> e \in ToSet(q)
         /\ ToSet(q) \subseteq S
         /\ q = <<>> <=> ToSet(q) = {}
BY EmptySeq, LenProperties DEF Contains, ToSet

\* A set of natural numbers that is not empty has a least element.
LEMMA LeastExists ==
  ASSUME NEW T \in SUBSET Nat, T # {}
  PROVE  \E x \in T : \A y \in T : x <= y
<1> DEFINE R == OpToRel(<, Nat)
<1>1. IsWellFoundedOn(R, Nat)
  BY NatLessThanWellFounded
<1>2. \E x \in T : \A y \in T : ~ (<<y, x>> \in R)
  BY <1>1, WFMin
<1>3. R = {z \in Nat \X Nat : z[1] < z[2]}
  BY Zenon DEF OpToRel
<1> HIDE DEF R
<1>4. PICK x \in T : \A y \in T : ~ (<<y, x>> \in R)
  BY <1>2
<1>5. ASSUME NEW y \in T PROVE x <= y
  <2>1. x \in Nat /\ y \in Nat
    BY <1>4
  <2>2. ~(y < x)
    BY <2>1, <1>3, <1>4
  <2> QED BY <2>1, <2>2
<1> QED BY <1>4, <1>5

\* w is q without its i-th element, which is e.
Drops(q, e, w, i) ==
  /\ i \in 1..Len(q) /\ q[i] = e
  /\ Len(w) = Len(q) - 1
  /\ \A k \in 1..(Len(q) - 1) : w[k] = IF k < i THEN q[k] ELSE q[k + 1]

\* RemoveFirst takes one occurrence out, if there is one.
LEMMA RemoveFirstIndex ==
  ASSUME NEW S, NEW q \in Seq(S), NEW e, Contains(q, e)
  PROVE  /\ RemoveFirst(q, e) \in Seq(S)
         /\ \E i : Drops(q, e, RemoveFirst(q, e), i)
<1> DEFINE T == {i \in 1..Len(q) : q[i] = e}
           i == SelectInSeq(q, LAMBDA v : v = e)
           p == SubSeq(q, 1, i - 1)
           r == SubSeq(q, i + 1, Len(q))
<1>1. Len(q) \in Nat /\ \A k \in 1..Len(q) : q[k] \in S
  BY LenProperties, ElementOfSeq
<1>2. T \in SUBSET Nat /\ T # {}
  BY <1>1 DEF Contains
<1>3. i = Min(T)
  BY <1>2 DEF SelectInSeq
<1>4. i \in T
  BY <1>2, <1>3, LeastExists DEF Min
<1>5. RemoveFirst(q, e) = p \o r
  BY <1>2 DEF RemoveFirst, RemoveAt
<1> HIDE DEF i
<1>6. i \in 1..Len(q) /\ q[i] = e
  BY <1>4
<1>7. /\ p \in Seq(S) /\ Len(p) = i - 1
      /\ \A k \in 1..(i - 1) : p[k] = q[k]
  <2>1. 1 \in Int /\ i - 1 \in Int /\ \A k \in 1..(i - 1) : q[k] \in S
    BY <1>1, <1>6
  <2>2. /\ p \in Seq(S) /\ Len(p) = IF 1 <= i - 1 THEN (i - 1) - 1 + 1 ELSE 0
        /\ \A k \in 1..((i - 1) - 1 + 1) : p[k] = q[1 + k - 1]
    BY <2>1, SubSeqProperties
  <2> QED BY <2>2, <1>1, <1>6
<1>8. /\ r \in Seq(S) /\ Len(r) = Len(q) - i
      /\ \A k \in 1..(Len(q) - i) : r[k] = q[k + i]
  <2>1. /\ i + 1 \in Int /\ Len(q) \in Int
        /\ \A k \in (i + 1)..Len(q) : q[k] \in S
    BY <1>1, <1>6
  <2>2. /\ r \in Seq(S)
        /\ Len(r) = IF i + 1 <= Len(q) THEN Len(q) - (i + 1) + 1 ELSE 0
        /\ \A k \in 1..(Len(q) - (i + 1) + 1) : r[k] = q[(i + 1) + k - 1]
    BY <2>1, SubSeqProperties
  <2> QED BY <2>2, <1>1, <1>6
<1> HIDE DEF p, r
<1> DEFINE c == p \o r
<1>9. /\ c \in Seq(S) /\ Len(c) = Len(p) + Len(r)
      /\ \A k \in 1..(Len(p) + Len(r)) :
           c[k] = IF k <= Len(p) THEN p[k] ELSE r[k - Len(p)]
  BY <1>7, <1>8, ConcatProperties
<1> HIDE DEF c
<1>10. Len(c) = Len(q) - 1
  BY <1>1, <1>6, <1>7, <1>8, <1>9
<1>11. ASSUME NEW k \in 1..(Len(q) - 1)
       PROVE  c[k] = IF k < i THEN q[k] ELSE q[k + 1]
  <2>1. k \in 1..(Len(p) + Len(r))
    BY <1>1, <1>6, <1>7, <1>8
  <2>2. CASE k < i
    BY <2>1, <2>2, <1>1, <1>6, <1>7, <1>9
  <2>3. CASE ~(k < i)
    <3>1. k - (i - 1) \in 1..(Len(q) - i) /\ ~(k <= Len(p))
          /\ (k - (i - 1)) + i = k + 1 /\ k - Len(p) = k - (i - 1)
      BY <2>3, <1>1, <1>6, <1>7
    <3>2. c[k] = r[k - Len(p)] /\ r[k - (i - 1)] = q[(k - (i - 1)) + i]
      BY <3>1, <2>1, <1>8, <1>9
    <3> QED BY <3>1, <3>2, <2>3
  <2> QED BY <2>2, <2>3
<1>12. Drops(q, e, c, i)
  BY <1>6, <1>10, <1>11 DEF Drops
<1> QED BY <1>5, <1>9, <1>12 DEF c

\* What RemoveFirst leaves: the others, and of a sequence without duplicates
\* nothing of what was taken out.
LEMMA RemoveFirstSet ==
  ASSUME NEW S, NEW q \in Seq(S), NEW e
  PROVE  /\ RemoveFirst(q, e) \in Seq(S)
         /\ ToSet(RemoveFirst(q, e)) \subseteq ToSet(q)
         /\ ToSet(q) \ {e} \subseteq ToSet(RemoveFirst(q, e))
         /\ IsInjective(q) => /\ IsInjective(RemoveFirst(q, e))
                              /\ e \notin ToSet(RemoveFirst(q, e))
<1> DEFINE w == RemoveFirst(q, e)
<1>0. Len(q) \in Nat /\ DOMAIN q = 1..Len(q)
  BY LenProperties
<1>1. CASE ~Contains(q, e)
  <2>1. w = q
    BY <1>1 DEF RemoveFirst, Contains
  <2>2. e \notin ToSet(q)
    BY <1>1, ContainsIsToSet
  <2> QED BY <2>1, <2>2
<1>2. CASE Contains(q, e)
  <2>0. w \in Seq(S) /\ \E i : Drops(q, e, w, i)
    BY <1>2, RemoveFirstIndex
  <2>8. PICK i : Drops(q, e, w, i)
    BY <2>0
  <2>1. /\ i \in 1..Len(q) /\ q[i] = e
        /\ Len(w) = Len(q) - 1
        /\ \A k \in 1..(Len(q) - 1) : w[k] = IF k < i THEN q[k] ELSE q[k + 1]
    BY <2>8 DEF Drops
  <2>2. DOMAIN w = 1..(Len(q) - 1)
    BY <2>0, <2>1, LenProperties
  <2> HIDE DEF w
  <2>3. \A k \in DOMAIN w : \E j \in DOMAIN q : j # i /\ w[k] = q[j]
    BY <2>1, <2>2, <1>0
  <2>4. \A j \in DOMAIN q : j # i => \E k \in DOMAIN w : w[k] = q[j]
    <3> SUFFICES ASSUME NEW j \in DOMAIN q, j # i
                 PROVE  \E k \in DOMAIN w : w[k] = q[j]
      OBVIOUS
    <3>1. CASE j < i
      <4>1. j \in 1..(Len(q) - 1)
        BY <3>1, <2>1, <1>0
      <4> QED BY <4>1, <3>1, <2>1, <2>2
    <3>2. CASE j > i
      <4>1. j - 1 \in 1..(Len(q) - 1) /\ ~(j - 1 < i) /\ (j - 1) + 1 = j
        BY <3>2, <2>1, <1>0
      <4> QED BY <4>1, <2>1, <2>2
    <3> QED BY <3>1, <3>2, <2>1, <1>0
  <2>5. ToSet(w) \subseteq ToSet(q) /\ ToSet(q) \ {e} \subseteq ToSet(w)
    <3>1. ToSet(w) \subseteq ToSet(q)
      BY <2>3 DEF ToSet
    <3>2. \A j \in DOMAIN q : q[j] # e => j # i
      BY <2>1
    <3>3. ToSet(q) \ {e} \subseteq ToSet(w)
      BY <2>4, <3>2 DEF ToSet
    <3> QED BY <3>1, <3>3
  <2>6. ASSUME IsInjective(q)
        PROVE  IsInjective(w) /\ e \notin ToSet(w)
    <3>1. \A a, b \in DOMAIN q : q[a] = q[b] => a = b
      BY <2>6 DEF IsInjective
    <3>2. e \notin ToSet(w)
      BY <3>1, <2>1, <2>3, <1>0 DEF ToSet
    <3>3. ASSUME NEW a \in DOMAIN w, NEW b \in DOMAIN w, w[a] = w[b]
          PROVE  a = b
      <4> DEFINE At(k) == IF k < i THEN k ELSE k + 1
      <4>1. \A k \in DOMAIN w : At(k) \in DOMAIN q /\ w[k] = q[At(k)]
        BY <2>1, <2>2, <1>0
      <4>2. At(a) = At(b)
        BY <4>1, <3>1, <3>3
      <4> QED BY <4>2, <2>1, <2>2, <1>0
    <3> QED BY <3>2, <3>3 DEF IsInjective
  <2>7. w \in Seq(S)
    BY <2>0
  <2> QED BY <2>5, <2>6, <2>7 DEF w
<1> QED BY <1>1, <1>2

\* Rotating a sequence keeps its elements.
LEMMA RotatedSet ==
  ASSUME NEW S, NEW q \in Seq(S), q # <<>>, NEW m \in Nat
  PROVE  Rotated(q, m) \in Seq(S) /\ ToSet(Rotated(q, m)) = ToSet(q)
<1> DEFINE n == Len(q)
           r == m % n
           a == SubSeq(q, r + 1, n)
           b == SubSeq(q, 1, r)
<1>1. n \in Nat \ {0} /\ DOMAIN q = 1..n /\ \A k \in 1..n : q[k] \in S
  BY LenProperties, EmptySeq, ElementOfSeq
<1>2. r \in 0..(n - 1)
  BY <1>1
<1>3. Rotated(q, m) = a \o b
  BY DEF Rotated
<1> HIDE DEF r, n
<1>4. a \in Seq(S) /\ Len(a) = n - r /\ \A k \in 1..(n - r) : a[k] = q[k + r]
  <2>1. r + 1 \in Int /\ n \in Int /\ \A k \in (r + 1)..n : q[k] \in S
    BY <1>1, <1>2
  <2>2. /\ a \in Seq(S) /\ Len(a) = IF r + 1 <= n THEN n - (r + 1) + 1 ELSE 0
        /\ \A k \in 1..(n - (r + 1) + 1) : a[k] = q[(r + 1) + k - 1]
    BY <2>1, SubSeqProperties
  <2> QED BY <2>2, <1>1, <1>2
<1>5. b \in Seq(S) /\ Len(b) = r /\ \A k \in 1..r : b[k] = q[k]
  <2>1. 1 \in Int /\ r \in Int /\ \A k \in 1..r : q[k] \in S
    BY <1>1, <1>2
  <2>2. /\ b \in Seq(S) /\ Len(b) = IF 1 <= r THEN r - 1 + 1 ELSE 0
        /\ \A k \in 1..(r - 1 + 1) : b[k] = q[1 + k - 1]
    BY <2>1, SubSeqProperties
  <2> QED BY <2>2, <1>1, <1>2
<1> HIDE DEF a, b
<1> DEFINE c == a \o b
<1>6. /\ c \in Seq(S) /\ Len(c) = Len(a) + Len(b)
      /\ \A k \in 1..(Len(a) + Len(b)) :
           c[k] = IF k <= Len(a) THEN a[k] ELSE b[k - Len(a)]
  BY <1>4, <1>5, ConcatProperties
<1>7. DOMAIN c = 1..Len(c)
  BY <1>6, LenProperties
<1> HIDE DEF c
<1>8. /\ DOMAIN c = 1..n
      /\ \A k \in 1..(n - r) : c[k] = q[k + r]
      /\ \A k \in (n - r + 1)..n : c[k] = q[k - (n - r)]
  <2>1. Len(a) + Len(b) = n
    BY <1>1, <1>2, <1>4, <1>5
  <2>2. ASSUME NEW k \in 1..(n - r) PROVE c[k] = q[k + r]
    <3>1. k \in 1..n /\ k <= n - r
      BY <1>1, <1>2
    <3>2. c[k] = a[k]
      BY <3>1, <2>1, <1>4, <1>6
    <3> QED BY <3>2, <1>4
  <2>3. ASSUME NEW k \in (n - r + 1)..n PROVE c[k] = q[k - (n - r)]
    <3>1. k \in 1..n /\ ~(k <= n - r) /\ k - (n - r) \in 1..r
      BY <1>1, <1>2
    <3>2. c[k] = b[k - (n - r)]
      BY <3>1, <2>1, <1>4, <1>6
    <3> QED BY <3>1, <3>2, <1>5
  <2> QED BY <2>1, <2>2, <2>3, <1>6, <1>7
<1>9. ASSUME NEW k \in 1..n PROVE \E j \in 1..n : c[k] = q[j]
  <2>1. CASE k <= n - r
    <3>1. k + r \in 1..n /\ k \in 1..(n - r)
      BY <2>1, <1>1, <1>2
    <3> QED BY <3>1, <1>8
  <2>2. CASE ~(k <= n - r)
    <3>1. k - (n - r) \in 1..n /\ k \in (n - r + 1)..n
      BY <2>2, <1>1, <1>2
    <3> QED BY <3>1, <1>8
  <2> QED BY <2>1, <2>2
<1>10. ASSUME NEW j \in 1..n PROVE \E k \in 1..n : c[k] = q[j]
  <2>1. CASE j > r
    <3>1. j - r \in 1..n /\ j - r \in 1..(n - r) /\ (j - r) + r = j
      BY <2>1, <1>1, <1>2
    <3> QED BY <3>1, <1>8
  <2>2. CASE ~(j > r)
    <3>1. /\ j + (n - r) \in 1..n /\ j + (n - r) \in (n - r + 1)..n
          /\ (j + (n - r)) - (n - r) = j
      BY <2>2, <1>1, <1>2
    <3>2. c[j + (n - r)] = q[(j + (n - r)) - (n - r)]
      BY <3>1, <1>8
    <3> QED BY <3>1, <3>2
  <2> QED BY <2>1, <2>2
<1>11. ToSet(c) = ToSet(q)
  <2>1. DOMAIN c = 1..n /\ DOMAIN q = 1..n
    BY <1>1, <1>8
  <2>2. ToSet(c) \subseteq ToSet(q)
    BY <2>1, <1>9, Zenon DEF ToSet
  <2>3. ToSet(q) \subseteq ToSet(c)
    BY <2>1, <1>10, Zenon DEF ToSet
  <2> QED BY <2>2, <2>3
<1> QED BY <1>3, <1>6, <1>11 DEF c

\* e is in q at most once.
Once(q, e) == \A k, j \in DOMAIN q : q[k] = e /\ q[j] = e => k = j

LEMMA AppendOnce ==
  ASSUME NEW S, NEW q \in Seq(S), NEW x \in S
  PROVE  /\ Append(q, x) \in Seq(S)
         /\ ToSet(Append(q, x)) = ToSet(q) \cup {x}
         /\ \A e : Once(q, e) /\ ~(e = x /\ e \in ToSet(q)) => Once(Append(q, x), e)
<1> DEFINE w == Append(q, x)
           n == Len(q)
<1>1. n \in Nat /\ DOMAIN q = 1..n
  BY LenProperties
<1>2. /\ w \in Seq(S) /\ DOMAIN w = 1..(n + 1) /\ w[n + 1] = x
      /\ \A k \in 1..n : w[k] = q[k]
  BY AppendProperties, LenProperties
<1> HIDE DEF w, n
<1>3. ToSet(w) \subseteq ToSet(q) \cup {x}
  BY <1>1, <1>2 DEF ToSet
<1>4. ToSet(q) \subseteq ToSet(w) /\ x \in ToSet(w)
  BY <1>1, <1>2 DEF ToSet
<1>5. ASSUME NEW e, Once(q, e), ~(e = x /\ e \in ToSet(q))
      PROVE  Once(w, e)
  BY <1>1, <1>2, <1>5 DEF Once, ToSet
<1> QED BY <1>2, <1>3, <1>4, <1>5 DEF w

LEMMA TailOnce ==
  ASSUME NEW S, NEW q \in Seq(S), q # <<>>
  PROVE  /\ Head(q) \in S /\ Tail(q) \in Seq(S)
         /\ ToSet(Tail(q)) \subseteq ToSet(q)
         /\ Head(q) \in ToSet(q)
         /\ \A e : Once(q, e) => /\ Once(Tail(q), e)
                                 /\ e = Head(q) => e \notin ToSet(Tail(q))
<1> DEFINE w == Tail(q)
           n == Len(q)
<1>1. n \in Nat \ {0} /\ DOMAIN q = 1..n /\ Head(q) = q[1]
  BY LenProperties, EmptySeq
<1>2. /\ Head(q) \in S /\ w \in Seq(S) /\ Len(w) = n - 1
      /\ \A k \in 1..Len(w) : w[k] = q[k + 1]
  BY HeadTailProperties
<1>3. DOMAIN w = 1..(n - 1) /\ \A k \in 1..(n - 1) : w[k] = q[k + 1]
  BY <1>1, <1>2, LenProperties
<1> HIDE DEF w, n
<1>4. \A k \in DOMAIN w : k + 1 \in DOMAIN q /\ w[k] = q[k + 1] /\ k + 1 # 1
  BY <1>1, <1>3
<1>5. ToSet(w) \subseteq ToSet(q) /\ Head(q) \in ToSet(q)
  BY <1>1, <1>4 DEF ToSet
<1>6. ASSUME NEW e, Once(q, e)
      PROVE  Once(w, e) /\ (e = Head(q) => e \notin ToSet(w))
  <2>1. \A k, j \in DOMAIN q : q[k] = e /\ q[j] = e => k = j
    BY <1>6 DEF Once
  <2>2. e = Head(q) => e \notin ToSet(w)
    BY <2>1, <1>1, <1>4 DEF ToSet
  <2>3. ASSUME NEW k \in DOMAIN w, NEW j \in DOMAIN w, w[k] = e, w[j] = e
        PROVE  k = j
    <3>1. k + 1 = j + 1
      BY <2>1, <2>3, <1>4
    <3> QED BY <3>1, <1>1, <1>3
  <2> QED BY <2>2, <2>3 DEF Once
<1> QED BY <1>2, <1>5, <1>6 DEF w

LEMMA RemoveFirstOnce ==
  ASSUME NEW S, NEW q \in Seq(S), NEW x
  PROVE  \A e : Once(q, e) => Once(RemoveFirst(q, x), e)
<1> DEFINE w == RemoveFirst(q, x)
<1> SUFFICES ASSUME NEW e, Once(q, e) PROVE Once(w, e)
  OBVIOUS
<1>1. CASE ~Contains(q, x)
  <2>1. w = q
    BY <1>1 DEF RemoveFirst, Contains
  <2> QED BY <2>1
<1>2. CASE Contains(q, x)
  <2>1. w \in Seq(S) /\ \E i : Drops(q, x, w, i)
    BY <1>2, RemoveFirstIndex
  <2>2. PICK i : Drops(q, x, w, i)
    BY <2>1
  <2>3. Len(q) \in Nat /\ DOMAIN q = 1..Len(q) /\ DOMAIN w = 1..Len(w)
    BY <2>1, LenProperties
  <2> HIDE DEF w
  <2>4. /\ i \in 1..Len(q) /\ DOMAIN w = 1..(Len(q) - 1)
        /\ \A k \in 1..(Len(q) - 1) : w[k] = IF k < i THEN q[k] ELSE q[k + 1]
    BY <2>2, <2>3 DEF Drops
  <2> DEFINE At(k) == IF k < i THEN k ELSE k + 1
  <2>5. \A k \in DOMAIN w : At(k) \in DOMAIN q /\ w[k] = q[At(k)]
    BY <2>3, <2>4
  <2>6. ASSUME NEW k \in DOMAIN w, NEW j \in DOMAIN w, w[k] = e, w[j] = e
        PROVE  k = j
    <3>1. At(k) = At(j)
      BY <2>5, <2>6 DEF Once
    <3> QED BY <3>1, <2>3, <2>4
  <2> QED BY <2>6 DEF Once
<1> QED BY <1>1, <1>2

LEMMA PrefixOnce ==
  ASSUME NEW S, NEW q \in Seq(S), NEW n \in 0..Len(q)
  PROVE  /\ SubSeq(q, 1, n) \in Seq(S)
         /\ ToSet(SubSeq(q, 1, n)) \subseteq ToSet(q)
         /\ \A e : Once(q, e) => Once(SubSeq(q, 1, n), e)
<1> DEFINE w == SubSeq(q, 1, n)
<1>1. /\ Len(q) \in Nat /\ DOMAIN q = 1..Len(q)
      /\ \A k \in 1..Len(q) : q[k] \in S
  BY LenProperties, ElementOfSeq
<1>2. n \in Int /\ 1 \in Int /\ \A k \in 1..n : q[k] \in S
  BY <1>1
<1>3. /\ w \in Seq(S) /\ Len(w) = IF 1 <= n THEN n - 1 + 1 ELSE 0
      /\ \A k \in 1..(n - 1 + 1) : w[k] = q[1 + k - 1]
  BY <1>2, SubSeqProperties
<1>4. DOMAIN w = 1..Len(w)
  BY <1>3, LenProperties
<1> HIDE DEF w
<1>5. DOMAIN w = 1..n /\ \A k \in 1..n : w[k] = q[k]
  BY <1>1, <1>3, <1>4
<1>6. \A k \in DOMAIN w : k \in DOMAIN q /\ w[k] = q[k]
  BY <1>1, <1>5
<1> QED BY <1>3, <1>6 DEF Once, ToSet, w

LEMMA ConcatOnce ==
  ASSUME NEW S, NEW a \in Seq(S), NEW b \in Seq(S)
  PROVE  /\ a \o b \in Seq(S)
         /\ ToSet(a \o b) \subseteq ToSet(a) \cup ToSet(b)
         /\ \A e : \/ Once(a, e) /\ e \notin ToSet(b)
                   \/ Once(b, e) /\ e \notin ToSet(a)
                   => Once(a \o b, e)
<1> DEFINE c == a \o b
           m == Len(a)
           n == Len(b)
<1>1. m \in Nat /\ n \in Nat /\ DOMAIN a = 1..m /\ DOMAIN b = 1..n
  BY LenProperties
<1>2. /\ c \in Seq(S) /\ Len(c) = m + n
      /\ \A k \in 1..(m + n) : c[k] = IF k <= m THEN a[k] ELSE b[k - m]
  BY ConcatProperties
<1>3. DOMAIN c = 1..(m + n)
  BY <1>2, LenProperties
<1> HIDE DEF c, m, n
<1>4. \A k \in DOMAIN c :
        \/ k \in DOMAIN a /\ c[k] = a[k] /\ k <= m
        \/ k - m \in DOMAIN b /\ c[k] = b[k - m] /\ ~(k <= m)
  BY <1>1, <1>2, <1>3
<1>5. ToSet(c) \subseteq ToSet(a) \cup ToSet(b)
  BY <1>4 DEF ToSet
<1>6. ASSUME NEW e, Once(a, e), e \notin ToSet(b) PROVE Once(c, e)
  <2>1. \A k \in DOMAIN c : c[k] = e => k \in DOMAIN a /\ c[k] = a[k]
    BY <1>4, <1>6 DEF ToSet
  <2> QED BY <2>1, <1>6 DEF Once
<1>7. ASSUME NEW e, Once(b, e), e \notin ToSet(a) PROVE Once(c, e)
  <2>1. \A k \in DOMAIN c : c[k] = e => k - m \in DOMAIN b /\ c[k] = b[k - m]
    BY <1>4, <1>7 DEF ToSet
  <2>2. ASSUME NEW k \in DOMAIN c, NEW j \in DOMAIN c, c[k] = e, c[j] = e
        PROVE  k = j
    <3>1. k - m = j - m
      BY <2>1, <2>2, <1>7 DEF Once
    <3> QED BY <3>1, <1>1, <1>3
  <2> QED BY <2>2 DEF Once
<1> QED BY <1>2, <1>5, <1>6, <1>7 DEF c

-----------------------------------------------------------------------------
(* The state of the window manager as a record, and what its handlers do   *)
(* to the record.                                                          *)

Life == {"free", "starting", "connected", "dead"}

WMState ==
  [queued : SUBSET Icon, busy : SUBSET Icon, done : SUBSET Icon,
   queue : Seq(Icon), pending : Int, killTimer : BOOLEAN, cancelled : BOOLEAN,
   clients : Seq(Proc), exes : SUBSET Proc, life : [Proc -> Life],
   inbox : [Proc -> Seq(Message)]]

\* The same icons wait, and the same processes run.
SameQueue(s, t) ==
  t.queue = s.queue /\ t.queued = s.queued

\* The clients stay the same, only they are sent anything, and no process
\* changes but one that is free and becomes one that starts.
Keeps(s, t) ==
  /\ ToSet(t.clients) = ToSet(s.clients)
  /\ \A p \in Proc :
       /\ t.inbox[p] = s.inbox[p] \/ Listens(s, p)
       /\ \/ t.life[p] = s.life[p]
          \/ s.life[p] = "free" /\ t.life[p] = "starting" /\ outbox[p] = <<>>

LEMMA KeepsIsTransitive ==
  ASSUME NEW s \in WMState, NEW t \in WMState, NEW u \in WMState,
         Keeps(s, t), Keeps(t, u)
  PROVE  Keeps(s, u)
<1>1. /\ s.clients \in Seq(Proc) /\ t.clients \in Seq(Proc)
  BY DEF WMState
<1>2. \A p \in Proc : Contains(s.clients, p) <=> Contains(t.clients, p)
  BY <1>1, ContainsIsToSet DEF Keeps
<1>3. \A p \in Proc : Listens(t, p) => Listens(s, p)
  BY <1>2 DEF Listens, Keeps
<1> QED BY <1>3 DEF Keeps

\* The requests one client gets are messages.
LEMMA ShareType ==
  ASSUME NEW s \in WMState, NEW q \in Seq(Icon), NEW p \in Proc,
         Contains(s.clients, p)
  PROVE  Share(s, q, p) \in Seq(Message)
<1> DEFINE n == Len(s.clients)
           k == CHOOSE j \in 1..n : s.clients[j] = p
           count == IF k > Len(q) THEN 0 ELSE 1 + (Len(q) - k) \div n
           f == [m \in 1..count |-> BeginMsg(q[k + (m - 1) * n])]
<1>1. n \in Nat /\ Len(q) \in Nat /\ \A i \in 1..Len(q) : q[i] \in Icon
  BY LenProperties, ElementOfSeq DEF WMState
<1>2. k \in 1..n
  BY DEF Contains
<1>3. Share(s, q, p) = f
  BY DEF Share
<1> HIDE DEF n, k
<1>4. count \in Nat
  BY <1>1, <1>2
<1>5. ASSUME NEW m \in 1..count
      PROVE  k + (m - 1) * n \in 1..Len(q)
  <2> DEFINE d == (Len(q) - k) \div n
  <2>1. ~(k > Len(q)) /\ Len(q) - k \in Nat /\ n \in Nat \ {0}
    BY <1>1, <1>2, <1>5
  <2>2. d \in Nat /\ d * n <= Len(q) - k
    BY <2>1
  <2>3. m - 1 \in 0..d
    BY <2>1, <2>2
  <2> HIDE DEF d
  <2>4. (m - 1) * n <= d * n /\ (m - 1) * n \in Nat
    BY <2>1, <2>2, <2>3
  <2> QED BY <2>1, <2>2, <2>4, <1>1, <1>2
<1> HIDE DEF count
<1>6. \A m \in 1..count : BeginMsg(q[k + (m - 1) * n]) \in Message
  BY <1>1, <1>5 DEF BeginMsg, Message
<1>7. f \in [1..count -> Message]
  BY <1>6
<1> QED BY <1>3, <1>4, <1>7, SeqDef

LEMMA GenBeginStep ==
  ASSUME NEW s \in WMState, NEW q \in Seq(Icon)
  PROVE  LET t == GenBegin(s, q) IN
         /\ t \in WMState /\ Keeps(s, t) /\ SameQueue(s, t)
         /\ t.busy = s.busy /\ t.done = s.done /\ t.exes = s.exes
         /\ t.pending = s.pending /\ t.cancelled = s.cancelled
         /\ t.killTimer = s.killTimer
<1>1. CASE s.clients = <<>>
  BY <1>1 DEF GenBegin, Keeps, SameQueue
<1>2. CASE s.clients # <<>>
  <2> DEFINE box == [p \in Proc |->
                       IF Listens(s, p) THEN s.inbox[p] \o Share(s, q, p)
                                        ELSE s.inbox[p]]
             rot == Rotated(s.clients, Len(q))
  <2>1. GenBegin(s, q) = [s EXCEPT !.clients = rot, !.inbox = box]
    BY <1>2 DEF GenBegin
  <2>2. rot \in Seq(Proc) /\ ToSet(rot) = ToSet(s.clients)
    BY <1>2, RotatedSet, LenProperties DEF WMState
  <2>3. ASSUME NEW p \in Proc PROVE box[p] \in Seq(Message)
    <3>1. s.inbox[p] \in Seq(Message)
      BY DEF WMState
    <3>2. CASE Listens(s, p)
      <4>1. Share(s, q, p) \in Seq(Message)
        BY <3>2, ShareType DEF Listens
      <4>2. s.inbox[p] \o Share(s, q, p) \in Seq(Message)
        BY <3>1, <4>1, ConcatProperties
      <4> QED BY <4>2, <3>2
    <3> QED BY <3>1, <3>2
  <2>4. box \in [Proc -> Seq(Message)]
    BY <2>3
  <2>5. \A p \in Proc : box[p] = s.inbox[p] \/ Listens(s, p)
    OBVIOUS
  <2> HIDE DEF box, rot
  <2> QED BY <2>1, <2>2, <2>4, <2>5 DEF WMState, Keeps, SameQueue
<1> QED BY <1>1, <1>2

LEMMA GenEndStep ==
  ASSUME NEW s \in WMState, NEW i \in Icon
  PROVE  LET t == GenEnd(s, i) IN
         /\ t \in WMState /\ Keeps(s, t) /\ SameQueue(s, t)
         /\ t.busy = s.busy /\ t.done = s.done /\ t.exes = s.exes
         /\ t.clients = s.clients /\ t.life = s.life
         /\ t.pending = s.pending /\ t.cancelled = s.cancelled
         /\ t.killTimer = s.killTimer
<1> DEFINE box == [p \in Proc |->
                     IF Listens(s, p) THEN Append(s.inbox[p], CancelMsg(i))
                                      ELSE s.inbox[p]]
<1>1. GenEnd(s, i) = [s EXCEPT !.inbox = box]
  BY DEF GenEnd
<1>2. CancelMsg(i) \in Message
  BY DEF CancelMsg, Message
<1>3. \A p \in Proc : s.inbox[p] \in Seq(Message)
  BY DEF WMState
<1>4. box \in [Proc -> Seq(Message)]
  BY <1>2, <1>3, AppendProperties
<1>5. \A p \in Proc : box[p] = s.inbox[p] \/ Listens(s, p)
  OBVIOUS
<1> HIDE DEF box
<1> QED BY <1>1, <1>4, <1>5 DEF WMState, Keeps, SameQueue

LEMMA SentStep ==
  ASSUME NEW s \in WMState, NEW q \in Seq(Icon)
  PROVE  LET t == Sent(s, q) IN
         /\ t \in WMState /\ Keeps(s, t) /\ SameQueue(s, t)
         /\ t.busy = s.busy \cup ToSet(q) /\ t.done = s.done
         /\ t.exes = s.exes
         /\ t.pending = s.pending + Len(q) /\ t.cancelled = s.cancelled
<1> DEFINE g == GenBegin(s, q)
<1>1. /\ g \in WMState /\ Keeps(s, g) /\ SameQueue(s, g)
      /\ g.busy = s.busy /\ g.done = s.done /\ g.exes = s.exes
      /\ g.pending = s.pending /\ g.cancelled = s.cancelled
      /\ g.killTimer = s.killTimer
  BY GenBeginStep
<1>2. ToSet(q) \subseteq Icon /\ Len(q) \in Nat
  BY ContainsIsToSet, LenProperties
<1> DEFINE kt == g.killTimer /\ ~(s.pending < 1 /\ s.pending + Len(q) >= 1)
<1>3. Sent(s, q) =
        [g EXCEPT !.busy = g.busy \cup ToSet(q), !.pending = g.pending + Len(q),
                  !.killTimer = kt]
  BY DEF Sent
<1>4. kt \in BOOLEAN
  OBVIOUS
<1> HIDE DEF g, kt
<1>5. Sent(s, q) \in WMState
  <2>1. g.busy \cup ToSet(q) \in SUBSET Icon /\ g.pending + Len(q) \in Int
    BY <1>1, <1>2 DEF WMState
  <2> QED BY <1>1, <1>3, <1>4, <2>1 DEF WMState
<1>6. Keeps(s, Sent(s, q)) /\ SameQueue(s, Sent(s, q))
  BY <1>1, <1>3 DEF WMState, Keeps, SameQueue
<1> QED BY <1>1, <1>3, <1>5, <1>6 DEF WMState

\* The kill timer does not stay when a request is counted.
LEMMA SentTimer ==
  ASSUME NEW s \in WMState, NEW q \in Seq(Icon), Sent(s, q).killTimer
  PROVE  s.killTimer /\ ~(s.pending < 1 /\ s.pending + Len(q) >= 1)
<1> DEFINE g == GenBegin(s, q)
           kt == g.killTimer /\ ~(s.pending < 1 /\ s.pending + Len(q) >= 1)
<1>1. g \in WMState /\ g.killTimer = s.killTimer
  BY GenBeginStep
<1>2. Sent(s, q) =
        [g EXCEPT !.busy = g.busy \cup ToSet(q), !.pending = g.pending + Len(q),
                  !.killTimer = kt]
  BY DEF Sent
<1> HIDE DEF g, kt
<1>3. Sent(s, q).killTimer = kt
  BY <1>1, <1>2 DEF WMState
<1>4. kt
  BY <1>3
<1>5. g.killTimer /\ ~(s.pending < 1 /\ s.pending + Len(q) >= 1)
  BY <1>4, Zenon DEF kt
<1> QED BY <1>1, <1>5, Zenon

-----------------------------------------------------------------------------
(* The invariants of the window manager, about the record.                 *)

\* QueueOK, with A the icons that are alive.
Orderly(s, A) ==
  /\ ToSet(s.queue) = s.queued
  /\ IsInjective(s.queue)
  /\ s.queued \subseteq A
  /\ s.queued \cap (s.busy \cup s.done) = {}

\* QueueIsServed.
Served(s) == s.queue # <<>> => s.clients = <<>> /\ s.exes # {}

\* PendingMatches, and that the kill timer is set only when nothing is counted.
Counted(s) ==
  /\ s.pending <= Cardinality(s.busy)
  /\ ~s.cancelled => s.pending = Cardinality(s.busy)
  /\ s.killTimer => s.pending <= 0

\* One thumbnailer runs at a time.
OneExe(s) == \A a, b \in s.exes : a = b

\* A request for i is among the requests b, the list l or the answers o of a
\* process, and it is there only once.
Has(b, l, o, i) ==
  BeginMsg(i) \in ToSet(b) \/ i \in ToSet(l) \/ AnswerMsg(i) \in ToSet(o)

Alone(b, l, o, i) ==
  /\ Once(b, BeginMsg(i)) /\ Once(l, i) /\ Once(o, AnswerMsg(i))
  /\ ~(BeginMsg(i) \in ToSet(b) /\ i \in ToSet(l))
  /\ ~(BeginMsg(i) \in ToSet(b) /\ AnswerMsg(i) \in ToSet(o))
  /\ ~(i \in ToSet(l) /\ AnswerMsg(i) \in ToSet(o))

\* A request that some process has is busy, and no other process has it.
InFlight(box, lst, out, B) ==
  \A i \in Icon, p \in Proc :
    /\ Alone(box[p], lst[p], out[p], i)
    /\ Has(box[p], lst[p], out[p], i) =>
         /\ i \in B
         /\ \A r \in Proc : Has(box[r], lst[r], out[r], i) => r = p

\* What makes the counter right when an answer arrives.
Flying(s) == ~s.cancelled => InFlight(s.inbox, list, outbox, s.busy)

Sound(s, A) ==
  Orderly(s, A) /\ Served(s) /\ Counted(s) /\ OneExe(s) /\ Flying(s)

\* A process can be started if need be.
CanStart(s) == s.exes # {} \/ FreeProc(s) # {}

\* The icons of a record are finite sets.
LEMMA FiniteIcons ==
  ASSUME NEW T \in SUBSET Icon
  PROVE  IsFiniteSet(T) /\ Cardinality(T) \in Nat
BY ThumbAssumption, FS_Subset, FS_CardinalityType

\* A sequence without duplicates has as many elements as it is long.
LEMMA InjectiveCount ==
  ASSUME NEW S, NEW q \in Seq(S), IsInjective(q)
  PROVE  IsFiniteSet(ToSet(q)) /\ Cardinality(ToSet(q)) = Len(q)
<1>1. Len(q) \in Nat /\ DOMAIN q = 1..Len(q) /\ q \in [1..Len(q) -> S]
  BY LenProperties
<1>2. q \in Bijection(1..Len(q), ToSet(q))
  <2>1. q \in [1..Len(q) -> ToSet(q)]
    BY <1>1 DEF ToSet
  <2>2. q \in Injection(1..Len(q), ToSet(q))
    BY <2>1 DEF Injection
  <2>3. q \in Surjection(1..Len(q), ToSet(q))
    BY <2>1, <1>1 DEF Surjection, ToSet
  <2> QED BY <2>2, <2>3 DEF Bijection
<1>3. ExistsBijection(1..Len(q), ToSet(q))
  BY <1>2 DEF ExistsBijection
<1> QED BY <1>1, <1>3, FS_NatBijection, FS_CountingElements

\* Sending what is not busy counts it.
LEMMA SentCounted ==
  ASSUME NEW s \in WMState, NEW q \in Seq(Icon), IsInjective(q),
         ToSet(q) \cap s.busy = {}, Counted(s)
  PROVE  Counted(Sent(s, q))
<1> DEFINE t == Sent(s, q)
<1>1. /\ t.busy = s.busy \cup ToSet(q) /\ t.pending = s.pending + Len(q)
      /\ t.cancelled = s.cancelled
  BY SentStep
<1>2. IsFiniteSet(s.busy) /\ Cardinality(s.busy) \in Nat /\ s.pending \in Int
  BY FiniteIcons DEF WMState
<1>3. IsFiniteSet(ToSet(q)) /\ Cardinality(ToSet(q)) = Len(q) /\ Len(q) \in Nat
  BY InjectiveCount, LenProperties
<1>4. Cardinality(s.busy \cap ToSet(q)) = 0
  BY FS_EmptySet
<1>5. Cardinality(s.busy \cup ToSet(q)) =
        Cardinality(s.busy) + Cardinality(ToSet(q)) - Cardinality(s.busy \cap ToSet(q))
  BY <1>2, <1>3, FS_Union
<1>6. Cardinality(s.busy \cup ToSet(q)) = Cardinality(s.busy) + Len(q)
  BY <1>2, <1>3, <1>4, <1>5
<1>7. t.killTimer => s.killTimer /\ ~(s.pending < 1 /\ s.pending + Len(q) >= 1)
  BY SentTimer
<1> HIDE DEF t
<1>8. t.killTimer => t.pending <= 0
  <2>1. s.killTimer => s.pending <= 0
    BY DEF Counted
  <2> QED BY <2>1, <1>1, <1>2, <1>3, <1>7
<1> QED BY <1>1, <1>2, <1>3, <1>6, <1>8 DEF Counted, t

\* Numbers in steps of n from a start in 1..n determine the start.
LEMMA StepsOfN ==
  ASSUME NEW n \in Nat, NEW k \in 1..n, NEW j \in 1..n,
         NEW x \in Nat, NEW y \in Nat, k + x * n = j + y * n
  PROVE  k = j /\ x = y
<1>1. x * n \in Nat /\ y * n \in Nat
  OBVIOUS
<1>2. ~(x > y)
  <2> SUFFICES ASSUME x > y PROVE FALSE
    OBVIOUS
  <2>1. x >= y + 1
    OBVIOUS
  <2>2. x * n >= (y + 1) * n /\ (y + 1) * n = y * n + n
    BY <2>1
  <2> QED BY <2>2, <1>1
<1>3. ~(y > x)
  <2> SUFFICES ASSUME y > x PROVE FALSE
    OBVIOUS
  <2>1. y >= x + 1
    OBVIOUS
  <2>2. y * n >= (x + 1) * n /\ (x + 1) * n = x * n + n
    BY <2>1
  <2> QED BY <2>2, <1>1
<1>4. x = y
  BY <1>2, <1>3
<1> QED BY <1>1, <1>4

\* Each request goes to one client, once.
LEMMA ShareOnce ==
  ASSUME NEW s \in WMState, NEW q \in Seq(Icon), IsInjective(q),
         NEW p \in Proc, Contains(s.clients, p),
         NEW r \in Proc, Contains(s.clients, r)
  PROVE  /\ \A i \in Icon : BeginMsg(i) \in ToSet(Share(s, q, p)) => i \in ToSet(q)
         /\ \A e : Once(Share(s, q, p), e)
         /\ ToSet(Share(s, q, p)) \cap ToSet(Share(s, q, r)) # {} => p = r
<1> DEFINE n == Len(s.clients)
           At(c) == CHOOSE j \in 1..n : s.clients[j] = c
           Count(c) == IF At(c) > Len(q) THEN 0 ELSE 1 + (Len(q) - At(c)) \div n
           Place(c, m) == At(c) + (m - 1) * n
           Shr(c) == Share(s, q, c)
<1>1. n \in Nat /\ Len(q) \in Nat /\ DOMAIN q = 1..Len(q)
  BY LenProperties DEF WMState
<1>2. At(p) \in 1..n /\ At(r) \in 1..n /\ s.clients[At(p)] = p /\ s.clients[At(r)] = r
  BY DEF Contains
<1>3. ASSUME NEW c \in {p, r}
      PROVE  /\ DOMAIN Shr(c) \subseteq Nat \ {0}
             /\ \A m \in DOMAIN Shr(c) :
                  Place(c, m) \in DOMAIN q /\ Shr(c)[m] = BeginMsg(q[Place(c, m)])
  <2>1. Shr(c) = [m \in 1..Count(c) |-> BeginMsg(q[At(c) + (m - 1) * n])]
    BY DEF Share
  <2>2. At(c) \in 1..n
    BY <1>2
  <2> HIDE DEF At, n
  <2>3. Count(c) \in Nat
    BY <1>1, <2>2
  <2>4. DOMAIN Shr(c) = 1..Count(c) /\ \A m \in 1..Count(c) : Shr(c)[m] = BeginMsg(q[Place(c, m)])
    BY <2>1
  <2>5. ASSUME NEW m \in 1..Count(c) PROVE Place(c, m) \in 1..Len(q)
    <3> DEFINE d == (Len(q) - At(c)) \div n
    <3>1. ~(At(c) > Len(q)) /\ Len(q) - At(c) \in Nat /\ n \in Nat \ {0}
      BY <1>1, <2>2, <2>5
    <3>2. d \in Nat /\ d * n <= Len(q) - At(c)
      BY <3>1
    <3>3. m - 1 \in 0..d
      BY <3>1, <3>2
    <3> HIDE DEF d
    <3>4. (m - 1) * n <= d * n /\ (m - 1) * n \in Nat
      BY <3>1, <3>2, <3>3
    <3> DEFINE y == (m - 1) * n
               z == d * n
    <3>5. y \in Nat /\ y <= z /\ z <= Len(q) - At(c) /\ z \in Nat
      BY <3>1, <3>2, <3>4
    <3>6. Place(c, m) = At(c) + y
      OBVIOUS
    <3> HIDE DEF y, z, Place
    <3>7. At(c) + y \in 1..Len(q)
      BY <3>5, <1>1, <2>2
    <3> QED BY <3>6, <3>7
  <2> HIDE DEF Shr, Place
  <2> QED BY <2>3, <2>4, <2>5, <1>1
<1> HIDE DEF At, Shr, n
<1>4. ASSUME NEW c \in {p, r}, NEW e \in {p, r}, NEW m \in DOMAIN Shr(c),
             NEW l \in DOMAIN Shr(e), Shr(c)[m] = Shr(e)[l]
      PROVE  c = e /\ m = l
  <2>1. BeginMsg(q[Place(c, m)]) = BeginMsg(q[Place(e, l)])
    BY <1>3, <1>4
  <2>2. q[Place(c, m)] = q[Place(e, l)]
    BY <2>1 DEF BeginMsg
  <2>3. Place(c, m) \in DOMAIN q /\ Place(e, l) \in DOMAIN q
    BY <1>3
  <2>4. Place(c, m) = Place(e, l)
    BY <2>2, <2>3 DEF IsInjective
  <2>5. m - 1 \in Nat /\ l - 1 \in Nat /\ m \in Nat /\ l \in Nat
    BY <1>3
  <2>6. At(c) \in 1..n /\ At(e) \in 1..n
    BY <1>2
  <2> DEFINE x == m - 1
             y == l - 1
  <2>9. At(c) + x * n = At(e) + y * n
    BY <2>4
  <2>10. x \in Nat /\ y \in Nat
    BY <2>5
  <2> HIDE DEF x, y, Place
  <2>11. At(c) = At(e) /\ x = y
    BY <2>6, <2>9, <2>10, <1>1, StepsOfN
  <2>7. At(c) = At(e) /\ m - 1 = l - 1
    BY <2>11 DEF x, y
  <2>8. s.clients[At(c)] = c /\ s.clients[At(e)] = e
    BY <1>2
  <2> QED BY <2>5, <2>7, <2>8
<1>5. ASSUME NEW i \in Icon, BeginMsg(i) \in ToSet(Shr(p)) PROVE i \in ToSet(q)
  <2>1. PICK m \in DOMAIN Shr(p) : Shr(p)[m] = BeginMsg(i)
    BY <1>5 DEF ToSet
  <2>2. Place(p, m) \in DOMAIN q /\ BeginMsg(i) = BeginMsg(q[Place(p, m)])
    BY <1>3, <2>1
  <2>3. i = q[Place(p, m)]
    BY <2>2 DEF BeginMsg
  <2> QED BY <2>2, <2>3 DEF ToSet
<1>6. \A e : Once(Shr(p), e)
  BY <1>4 DEF Once
<1>7. ToSet(Shr(p)) \cap ToSet(Shr(r)) # {} => p = r
  BY <1>4 DEF ToSet
<1> QED BY <1>5, <1>6, <1>7 DEF Shr

\* Sending what is not busy to one process each keeps requests apart.
LEMMA SentFlying ==
  ASSUME NEW s \in WMState, NEW q \in Seq(Icon), IsInjective(q),
         ToSet(q) \cap s.busy = {}, Flying(s)
  PROVE  Flying(Sent(s, q))
<1> DEFINE t == Sent(s, q)
           B == s.busy \cup ToSet(q)
<1>1. t.busy = B /\ t.cancelled = s.cancelled
  BY SentStep
<1>2. t.inbox = GenBegin(s, q).inbox
  BY GenBeginStep DEF Sent, WMState
<1> HIDE DEF t
<1> SUFFICES ASSUME ~s.cancelled
             PROVE  InFlight(GenBegin(s, q).inbox, list, outbox, B)
  BY <1>1, <1>2 DEF Flying, t
<1>3. InFlight(s.inbox, list, outbox, s.busy)
  BY DEF Flying
<1>4. CASE s.clients = <<>>
  BY <1>3, <1>4 DEF GenBegin, InFlight
<1>5. CASE s.clients # <<>>
  <2> DEFINE box == GenBegin(s, q).inbox
             New(p) == IF Listens(s, p) THEN Share(s, q, p) ELSE <<>>
  <2>1. ASSUME NEW p \in Proc
        PROVE  box[p] = IF Listens(s, p) THEN s.inbox[p] \o Share(s, q, p)
                                         ELSE s.inbox[p]
    BY <1>5 DEF GenBegin, WMState
  <2> HIDE DEF box
  <2>2. ASSUME NEW p \in Proc, NEW i \in Icon
        PROVE  /\ s.inbox[p] \in Seq(Message)
               /\ BeginMsg(i) \in ToSet(box[p]) =>
                    \/ BeginMsg(i) \in ToSet(s.inbox[p])
                    \/ Listens(s, p) /\ BeginMsg(i) \in ToSet(Share(s, q, p))
               /\ Listens(s, p) /\ BeginMsg(i) \in ToSet(Share(s, q, p)) => i \in ToSet(q)
               /\ Once(box[p], BeginMsg(i))
    <3>1. s.inbox[p] \in Seq(Message)
      BY DEF WMState
    <3>2. Alone(s.inbox[p], list[p], outbox[p], i)
          /\ (Has(s.inbox[p], list[p], outbox[p], i) => i \in s.busy)
      BY <1>3 DEF InFlight
    <3>3. CASE ~Listens(s, p)
      BY <3>1, <3>2, <3>3, <2>1 DEF Alone
    <3>4. CASE Listens(s, p)
      <4> DEFINE sh == Share(s, q, p)
      <4>1. sh \in Seq(Message) /\ Contains(s.clients, p)
        BY <3>4, ShareType DEF Listens
      <4>2. (BeginMsg(i) \in ToSet(sh) => i \in ToSet(q)) /\ Once(sh, BeginMsg(i))
        BY <4>1, ShareOnce
      <4> HIDE DEF sh
      <4>3. box[p] = s.inbox[p] \o sh
        BY <3>4, <2>1 DEF sh
      <4>4. Once(s.inbox[p], BeginMsg(i))
            /\ ~(BeginMsg(i) \in ToSet(sh) /\ BeginMsg(i) \in ToSet(s.inbox[p]))
        BY <3>2, <4>2 DEF Alone, Has
      <4>5. Once(box[p], BeginMsg(i))
            /\ ToSet(box[p]) \subseteq ToSet(s.inbox[p]) \cup ToSet(sh)
        BY <3>1, <4>1, <4>2, <4>3, <4>4, ConcatOnce
      <4> QED BY <3>1, <3>4, <4>2, <4>5 DEF sh
    <3> QED BY <3>3, <3>4
  <2>3. ASSUME NEW i \in Icon, NEW p \in Proc
        PROVE  /\ Alone(box[p], list[p], outbox[p], i)
               /\ Has(box[p], list[p], outbox[p], i) => i \in B
    <3>1. /\ Alone(s.inbox[p], list[p], outbox[p], i)
          /\ Has(s.inbox[p], list[p], outbox[p], i) => i \in s.busy
      BY <1>3 DEF InFlight
    <3> QED BY <3>1, <2>2 DEF Alone, Has
  <2>4. ASSUME NEW i \in Icon, NEW p \in Proc, NEW r \in Proc,
               Has(box[p], list[p], outbox[p], i),
               Has(box[r], list[r], outbox[r], i)
        PROVE  r = p
    <3>1. \A c \in Proc : Has(s.inbox[c], list[c], outbox[c], i) => i \in s.busy
      BY <1>3 DEF InFlight
    <3>2. \A c \in {p, r} :
            \/ Has(s.inbox[c], list[c], outbox[c], i)
            \/ /\ Listens(s, c) /\ BeginMsg(i) \in ToSet(Share(s, q, c))
               /\ i \in ToSet(q)
      BY <2>2, <2>4 DEF Has
    <3>3. CASE i \in s.busy
      BY <3>2, <3>3, <1>3 DEF InFlight
    <3>4. CASE i \notin s.busy
      <4>1. /\ Contains(s.clients, p) /\ Contains(s.clients, r)
            /\ BeginMsg(i) \in ToSet(Share(s, q, p)) \cap ToSet(Share(s, q, r))
        BY <3>1, <3>2, <3>4 DEF Listens
      <4> QED BY <4>1, ShareOnce
    <3> QED BY <3>3, <3>4
  <2> QED BY <2>3, <2>4 DEF InFlight, box
<1> QED BY <1>4, <1>5

LEMMA FlushedStep ==
  ASSUME NEW s \in WMState, NEW A, Orderly(s, A), Counted(s), Flying(s)
  PROVE  LET t == Flushed(s) IN
         /\ t \in WMState /\ Keeps(s, t)
         /\ t.queue = <<>> /\ t.queued = {}
         /\ t.busy = s.busy \cup s.queued /\ t.done = s.done /\ t.exes = s.exes
         /\ Orderly(t, A) /\ Served(t) /\ Counted(t) /\ Flying(t)
<1> DEFINE u == [s EXCEPT !.queue = <<>>, !.queued = s.queued \ ToSet(s.queue)]
           t == Sent(u, s.queue)
<1>1. s.queue \in Seq(Icon) /\ <<>> \in Seq(Icon)
  BY EmptySeq DEF WMState
<1>2. ToSet(s.queue) = s.queued /\ ToSet(<<>>) = {} /\ IsInjective(<<>>)
  BY EmptySeq DEF Orderly, ToSet, IsInjective
<1>3. u \in WMState
  BY <1>1 DEF WMState
<1>4. /\ u.queue = <<>> /\ u.queued = {} /\ u.busy = s.busy /\ u.done = s.done
      /\ u.exes = s.exes /\ u.clients = s.clients /\ u.life = s.life
      /\ u.inbox = s.inbox /\ u.pending = s.pending /\ u.cancelled = s.cancelled
      /\ u.killTimer = s.killTimer
  BY <1>2 DEF WMState
<1>5. Flushed(s) = t
  BY DEF Flushed
<1> HIDE DEF u
<1>6. Counted(t) /\ Flying(t)
  <2>1. Counted(u) /\ Flying(u)
    BY <1>4 DEF Counted, Flying
  <2>2. IsInjective(s.queue) /\ ToSet(s.queue) \cap u.busy = {}
    BY <1>4 DEF Orderly
  <2> QED BY <2>1, <2>2, <1>1, <1>3, SentCounted, SentFlying
<1>7. /\ t \in WMState /\ Keeps(u, t) /\ SameQueue(u, t)
      /\ t.busy = u.busy \cup ToSet(s.queue) /\ t.done = u.done
      /\ t.exes = u.exes
  BY <1>1, <1>3, SentStep
<1> HIDE DEF t
<1>8. Keeps(s, t)
  BY <1>4, <1>7 DEF Keeps, Listens
<1>9. t.queue = <<>> /\ t.queued = {}
  BY <1>4, <1>7 DEF SameQueue
<1>10. Orderly(t, A) /\ Served(t)
  BY <1>2, <1>9 DEF Orderly, Served
<1> QED BY <1>2, <1>4, <1>5, <1>6, <1>7, <1>8, <1>9, <1>10

\* A process is started only when none runs.
LEMMA SpawnedStep ==
  ASSUME NEW s \in WMState, OneExe(s), CanStart(s)
  PROVE  LET t == Spawned(s) IN
         /\ t \in WMState /\ Keeps(s, t) /\ OneExe(t)
         /\ t.exes # {}
         /\ SameQueue(s, t) /\ t.clients = s.clients /\ t.inbox = s.inbox
         /\ t.busy = s.busy /\ t.done = s.done
         /\ t.pending = s.pending /\ t.cancelled = s.cancelled
         /\ t.killTimer = s.killTimer
<1>1. CASE s.exes # {}
  BY <1>1 DEF Spawned, Keeps, SameQueue
<1>2. CASE s.exes = {}
  <2> DEFINE p == CHOOSE q \in FreeProc(s) : TRUE
             t == [s EXCEPT !.exes = {p}, !.life = [s.life EXCEPT ![p] = "starting"]]
  <2>1. p \in FreeProc(s)
    BY <1>2 DEF CanStart
  <2>2. p \in Proc /\ s.life[p] = "free" /\ outbox[p] = <<>>
    BY <2>1 DEF FreeProc
  <2>3. Spawned(s) = t
    BY <1>2 DEF Spawned
  <2> HIDE DEF p
  <2>4. t \in WMState
    BY <2>2 DEF WMState, Life
  <2>5. Keeps(s, t)
    BY <2>2 DEF Keeps, WMState
  <2>6. OneExe(t) /\ t.exes # {} /\ SameQueue(s, t) /\ t.clients = s.clients
        /\ t.inbox = s.inbox /\ t.busy = s.busy /\ t.done = s.done
        /\ t.pending = s.pending /\ t.cancelled = s.cancelled
         /\ t.killTimer = s.killTimer
    BY DEF WMState, OneExe, SameQueue
  <2> HIDE DEF t
  <2> QED BY <2>3, <2>4, <2>5, <2>6
<1> QED BY <1>1, <1>2

\* A request that waits goes to the end of the queue.
LEMMA QueuedStep ==
  ASSUME NEW s \in WMState, NEW A, Sound(s, A), NEW i \in Icon, i \in A,
         i \notin s.queued \cup s.busy \cup s.done,
         s.clients = <<>>, CanStart(s)
  PROVE  LET t == [Spawned(s) EXCEPT !.queue = Append(@, i),
                                     !.queued = @ \cup {i}]
         IN  t \in WMState /\ Keeps(s, t) /\ Sound(t, A)
<1> DEFINE u == Spawned(s)
           t == [u EXCEPT !.queue = Append(u.queue, i), !.queued = u.queued \cup {i}]
<1>1. /\ u \in WMState /\ Keeps(s, u) /\ OneExe(u) /\ u.exes # {}
      /\ SameQueue(s, u) /\ u.clients = s.clients /\ u.inbox = s.inbox
      /\ u.busy = s.busy /\ u.done = s.done
      /\ u.pending = s.pending /\ u.cancelled = s.cancelled
      /\ u.killTimer = s.killTimer
  BY SpawnedStep DEF Sound
<1> HIDE DEF u
<1>2. s.queue \in Seq(Icon) /\ Len(s.queue) \in Nat
      /\ DOMAIN s.queue = 1..Len(s.queue)
  BY LenProperties DEF WMState
<1> DEFINE q == Append(s.queue, i)
<1>3. /\ q \in Seq(Icon) /\ DOMAIN q = 1..(Len(s.queue) + 1)
      /\ q[Len(s.queue) + 1] = i
      /\ \A k \in 1..Len(s.queue) : q[k] = s.queue[k]
  BY <1>2, AppendProperties, LenProperties
<1> HIDE DEF q
<1>4. i \notin ToSet(s.queue) /\ IsInjective(s.queue)
  BY DEF Sound, Orderly
<1>5. ToSet(q) = ToSet(s.queue) \cup {i}
  <2>1. ToSet(q) \subseteq ToSet(s.queue) \cup {i}
    BY <1>2, <1>3 DEF ToSet
  <2>2. i \in ToSet(q)
    BY <1>2, <1>3 DEF ToSet
  <2>3. ToSet(s.queue) \subseteq ToSet(q)
    BY <1>2, <1>3 DEF ToSet
  <2> QED BY <2>1, <2>2, <2>3
<1>6. IsInjective(q)
  BY <1>2, <1>3, <1>4 DEF IsInjective, ToSet
<1>7. t = [u EXCEPT !.queue = q, !.queued = s.queued \cup {i}]
  BY <1>1 DEF SameQueue, q
<1> HIDE DEF t
<1>8. t \in WMState
  BY <1>1, <1>3, <1>7 DEF WMState
<1>9. /\ t.queue = q /\ t.queued = s.queued \cup {i}
      /\ t.busy = s.busy /\ t.done = s.done /\ t.clients = s.clients
      /\ t.exes = u.exes /\ t.life = u.life /\ t.inbox = u.inbox
      /\ t.pending = s.pending /\ t.cancelled = s.cancelled
         /\ t.killTimer = s.killTimer
  BY <1>1, <1>7 DEF WMState
<1>10. Keeps(s, t)
  BY <1>1, <1>9 DEF Keeps
<1>11. Orderly(t, A)
  BY <1>5, <1>6, <1>9 DEF Sound, Orderly
<1>12. Served(t) /\ Counted(t) /\ OneExe(t) /\ Flying(t)
  BY <1>1, <1>9 DEF Sound, Served, Counted, OneExe, Flying
<1> QED BY <1>8, <1>10, <1>11, <1>12 DEF Sound, t, u

\* A request for a thumbnail keeps the invariants.
LEMMA BegunStep ==
  ASSUME NEW s \in WMState, NEW A, Sound(s, A), NEW i \in Icon, i \in A,
         CanStart(s)
  PROVE  LET t == Begun(s, i) IN
         t \in WMState /\ Keeps(s, t) /\ Sound(t, A)
<1>1. CASE i \in s.queued \cup s.busy \cup s.done
  BY <1>1 DEF Begun, Keeps
<1>2. CASE i \notin s.queued \cup s.busy \cup s.done /\ s.clients = <<>>
  <2>1. Begun(s, i) = [Spawned(s) EXCEPT !.queue = Append(@, i),
                                         !.queued = @ \cup {i}]
    BY <1>2 DEF Begun
  <2> QED BY <1>2, <2>1, QueuedStep
<1>3. CASE i \notin s.queued \cup s.busy \cup s.done /\ s.clients # <<>>
  <2> DEFINE u == Flushed(s)
             t == Sent(u, <<i>>)
  <2>1. Begun(s, i) = t
    BY <1>3 DEF Begun
  <2>2. /\ u \in WMState /\ Keeps(s, u)
        /\ u.queue = <<>> /\ u.queued = {}
        /\ u.busy = s.busy \cup s.queued /\ u.done = s.done /\ u.exes = s.exes
        /\ Orderly(u, A) /\ Served(u) /\ Counted(u) /\ Flying(u)
    BY FlushedStep DEF Sound
  <2> HIDE DEF u
  <2>3. <<i>> \in Seq(Icon) /\ ToSet(<<i>>) = {i} /\ IsInjective(<<i>>)
    BY DEF ToSet, IsInjective
  <2>4. Counted(t) /\ Flying(t)
    BY <1>3, <2>2, <2>3, SentCounted, SentFlying
  <2>5. /\ t \in WMState /\ Keeps(u, t) /\ SameQueue(u, t)
        /\ t.busy = u.busy \cup {i} /\ t.done = u.done /\ t.exes = u.exes
    BY <2>2, <2>3, SentStep
  <2> HIDE DEF t
  <2>6. Keeps(s, t)
    BY <2>2, <2>5, KeepsIsTransitive
  <2>7. Orderly(t, A) /\ Served(t) /\ OneExe(t)
    BY <2>2, <2>5 DEF Orderly, Served, SameQueue, OneExe, Sound
  <2> QED BY <2>1, <2>4, <2>5, <2>6, <2>7 DEF Sound
<1> QED BY <1>1, <1>2, <1>3

\* The processes and the clients are the same.
SameProcs(s, t) ==
  t.clients = s.clients /\ t.exes = s.exes /\ t.life = s.life

LEMMA SameProcsCanStart ==
  ASSUME NEW s, NEW t, SameProcs(s, t), CanStart(s)
  PROVE  CanStart(t)
BY DEF SameProcs, CanStart, FreeProc

\* Taking an icon out of the queue leaves the others there.
LEMMA DequeuedStep ==
  ASSUME NEW s \in WMState, NEW A, Sound(s, A), NEW i \in Icon
  PROVE  LET t == Dequeued(s, i) IN
         /\ t \in WMState /\ Keeps(s, t) /\ SameProcs(s, t) /\ Sound(t, A)
         /\ i \notin t.queued /\ t.busy = s.busy /\ t.done = s.done
<1> DEFINE q == RemoveFirst(s.queue, i)
           t == [s EXCEPT !.queue = q, !.queued = s.queued \ {i}]
<1>1. Dequeued(s, i) = t
  BY DEF Dequeued
<1>2. s.queue \in Seq(Icon) /\ IsInjective(s.queue) /\ ToSet(s.queue) = s.queued
  BY DEF WMState, Sound, Orderly
<1>3. /\ q \in Seq(Icon) /\ IsInjective(q) /\ i \notin ToSet(q)
      /\ ToSet(q) \subseteq ToSet(s.queue)
      /\ ToSet(s.queue) \ {i} \subseteq ToSet(q)
  BY <1>2, RemoveFirstSet
<1>4. ToSet(q) = s.queued \ {i}
  BY <1>2, <1>3
<1>5. q # <<>> => s.queue # <<>>
  BY <1>2, <1>3, ContainsIsToSet
<1> HIDE DEF q
<1>6. t \in WMState
  BY <1>3 DEF WMState
<1>7. /\ t.queue = q /\ t.queued = s.queued \ {i} /\ t.busy = s.busy
      /\ t.done = s.done /\ t.clients = s.clients /\ t.exes = s.exes
      /\ t.life = s.life /\ t.inbox = s.inbox /\ t.pending = s.pending
      /\ t.cancelled = s.cancelled /\ t.killTimer = s.killTimer
  BY DEF WMState
<1> HIDE DEF t
<1>8. Keeps(s, t) /\ SameProcs(s, t)
  BY <1>7 DEF Keeps, SameProcs
<1>9. Orderly(t, A)
  BY <1>3, <1>4, <1>7 DEF Orderly, Sound
<1>10. Served(t) /\ Counted(t) /\ OneExe(t) /\ Flying(t)
  BY <1>5, <1>7 DEF Sound, Served, Counted, OneExe, Flying
<1> QED BY <1>1, <1>6, <1>7, <1>8, <1>9, <1>10 DEF Sound

\* Taking back what is busy uncounts it.
LEMMA TakenBackStep ==
  ASSUME NEW s \in WMState, NEW A, Sound(s, A), NEW i \in Icon
  PROVE  LET t == TakenBack(s, i) IN
         /\ t \in WMState /\ Keeps(s, t) /\ SameProcs(s, t) /\ Sound(t, A)
         /\ SameQueue(s, t)
<1>1. CASE i \notin s.busy
  BY <1>1 DEF TakenBack, Keeps, SameProcs, SameQueue
<1>2. CASE i \in s.busy
  <2> DEFINE g == GenEnd(s, i)
             kt == g.killTimer \/ g.pending = 1
             t == [[g EXCEPT !.busy = g.busy \ {i}, !.pending = g.pending - 1,
                             !.killTimer = kt] EXCEPT !.cancelled = TRUE]
  <2>1. TakenBack(s, i) = t
    BY <1>2 DEF TakenBack, Settled
  <2>2. /\ g \in WMState /\ Keeps(s, g) /\ SameQueue(s, g)
        /\ g.busy = s.busy /\ g.done = s.done /\ g.exes = s.exes
        /\ g.clients = s.clients /\ g.life = s.life /\ g.pending = s.pending
        /\ g.killTimer = s.killTimer
    BY GenEndStep
  <2>3. kt \in BOOLEAN /\ (kt => s.killTimer \/ s.pending = 1)
    BY <2>2
  <2> HIDE DEF g, kt
  <2>4. t \in WMState
    <3>1. g.busy \ {i} \in SUBSET Icon /\ g.pending - 1 \in Int
      BY <2>2 DEF WMState
    <3> QED BY <2>2, <2>3, <3>1 DEF WMState
  <2>5. /\ t.queue = g.queue /\ t.queued = g.queued /\ t.busy = g.busy \ {i}
        /\ t.done = g.done /\ t.clients = g.clients /\ t.exes = g.exes
        /\ t.life = g.life /\ t.inbox = g.inbox /\ t.pending = g.pending - 1
        /\ t.cancelled = TRUE /\ t.killTimer = kt
    BY <2>2 DEF WMState
  <2> HIDE DEF t
  <2>6. Keeps(s, t) /\ SameProcs(s, t) /\ SameQueue(s, t)
    BY <2>2, <2>5 DEF Keeps, SameProcs, SameQueue
  <2>7. Orderly(t, A) /\ Served(t) /\ OneExe(t) /\ Flying(t)
    BY <2>2, <2>5 DEF Flying, Sound, Orderly, Served, OneExe, SameQueue
  <2>8. Counted(t)
    <3>1. IsFiniteSet(s.busy) /\ Cardinality(s.busy) \in Nat /\ s.pending \in Int
      BY FiniteIcons DEF WMState
    <3>2. Cardinality(s.busy \ {i}) = Cardinality(s.busy) - 1
      BY <3>1, <1>2, FS_RemoveElement
    <3> QED BY <2>2, <2>3, <2>5, <3>1, <3>2 DEF Sound, Counted
  <2> QED BY <2>1, <2>4, <2>6, <2>7, <2>8 DEF Sound
<1> QED BY <1>1, <1>2

LEMMA EndedStep ==
  ASSUME NEW s \in WMState, NEW A, Sound(s, A), NEW i \in Icon
  PROVE  LET t == Ended(s, i) IN
         t \in WMState /\ Keeps(s, t) /\ SameProcs(s, t) /\ Sound(t, A)
<1> DEFINE u == IF i \in s.queued THEN Dequeued(s, i) ELSE s
           t == TakenBack(u, i)
<1>1. u \in WMState /\ Keeps(s, u) /\ SameProcs(s, u) /\ Sound(u, A)
  <2>1. CASE i \in s.queued
    BY <2>1, DequeuedStep
  <2>2. CASE i \notin s.queued
    BY <2>2 DEF Keeps, SameProcs
  <2> QED BY <2>1, <2>2
<1>2. Ended(s, i) = t
  BY DEF Ended
<1> HIDE DEF u
<1>3. t \in WMState /\ Keeps(u, t) /\ SameProcs(u, t) /\ Sound(t, A)
  BY <1>1, TakenBackStep
<1>4. Keeps(s, t)
  BY <1>1, <1>3, KeepsIsTransitive
<1>5. SameProcs(s, t)
  BY <1>1, <1>3 DEF SameProcs
<1> QED BY <1>2, <1>3, <1>4, <1>5

LEMMA RethumbedStep ==
  ASSUME NEW s \in WMState, NEW A, Sound(s, A), NEW i \in Icon, i \in A,
         CanStart(s)
  PROVE  LET t == Rethumbed(s, i) IN
         t \in WMState /\ Keeps(s, t) /\ Sound(t, A)
<1> DEFINE d == [s EXCEPT !.done = s.done \ {i}]
           u == IF i \in s.done THEN d ELSE Ended(s, i)
           t == Begun(u, i)
<1>1. u \in WMState /\ Keeps(s, u) /\ SameProcs(s, u) /\ Sound(u, A)
  <2>1. CASE i \in s.done
    <3>1. d \in WMState
      BY DEF WMState
    <3>2. /\ d.queue = s.queue /\ d.queued = s.queued /\ d.busy = s.busy
          /\ d.done = s.done \ {i} /\ d.clients = s.clients /\ d.exes = s.exes
          /\ d.life = s.life /\ d.inbox = s.inbox /\ d.pending = s.pending
          /\ d.cancelled = s.cancelled /\ d.killTimer = s.killTimer
      BY DEF WMState
    <3> HIDE DEF d
    <3>3. Keeps(s, d) /\ SameProcs(s, d)
      BY <3>2 DEF Keeps, SameProcs
    <3>4. Sound(d, A)
      BY <3>2 DEF Sound, Orderly, Served, Counted, OneExe, Flying
    <3> QED BY <2>1, <3>1, <3>3, <3>4
  <2>2. CASE i \notin s.done
    BY <2>2, EndedStep
  <2> QED BY <2>1, <2>2
<1>2. Rethumbed(s, i) = t
  BY DEF Rethumbed
<1> HIDE DEF u
<1>3. CanStart(u)
  BY <1>1, SameProcsCanStart
<1>4. t \in WMState /\ Keeps(u, t) /\ Sound(t, A)
  BY <1>1, <1>3, BegunStep
<1>5. Keeps(s, t)
  BY <1>1, <1>4, KeepsIsTransitive
<1> QED BY <1>2, <1>4, <1>5

\* The last two calls of _e_thumb_del_hook before the object is freed.
LEMMA DeletedStep ==
  ASSUME NEW s \in WMState, NEW A, Sound(s, A), NEW i \in Icon
  PROVE  LET u == TakenBack(s, i)
             t == IF i \in s.queued THEN Dequeued(u, i) ELSE u
         IN  t \in WMState /\ Keeps(s, t) /\ Sound(t, A \ {i})
<1> DEFINE u == TakenBack(s, i)
           t == IF i \in s.queued THEN Dequeued(u, i) ELSE u
<1>1. u \in WMState /\ Keeps(s, u) /\ Sound(u, A) /\ u.queued = s.queued
  BY TakenBackStep DEF SameQueue
<1> HIDE DEF u
<1>2. t \in WMState /\ Keeps(u, t) /\ Sound(t, A) /\ i \notin t.queued
  <2>1. CASE i \in s.queued
    BY <1>1, <2>1, DequeuedStep
  <2>2. CASE i \notin s.queued
    BY <1>1, <2>2 DEF Keeps
  <2> QED BY <2>1, <2>2
<1> HIDE DEF t
<1>3. Keeps(s, t)
  BY <1>1, <1>2, KeepsIsTransitive
<1>4. Sound(t, A \ {i})
  BY <1>2 DEF Sound, Orderly
<1> QED BY <1>2, <1>3, <1>4 DEF t, u

-----------------------------------------------------------------------------
(* The inductive invariant.                                                *)

\* A process that is not a client has sent no answer that is the next to be
\* handled, only a client that is connected has requests, and the end of the
\* connection is sent by a process that is dead.
Linked(s) ==
  \A p \in Proc :
    /\ outbox[p] # <<>> /\ ~Contains(s.clients, p) => Head(outbox[p]).kind # "answer"
    /\ s.inbox[p] # <<>> \/ list[p] # <<>> => Listens(s, p)
    /\ Eof \in ToSet(outbox[p]) => s.life[p] \in {"free", "dead"}

IndInv == TypeOK /\ Sound(State, alive) /\ Linked(State)

LEMMA KeepsLinked ==
  ASSUME NEW s \in WMState, NEW t \in WMState, Keeps(s, t), Linked(s),
         outbox \in [Proc -> Seq(Message)]
  PROVE  Linked(t)
<1> SUFFICES ASSUME NEW p \in Proc
             PROVE  /\ outbox[p] # <<>> /\ ~Contains(t.clients, p) =>
                         Head(outbox[p]).kind # "answer"
                    /\ t.inbox[p] # <<>> \/ list[p] # <<>> => Listens(t, p)
                    /\ Eof \in ToSet(outbox[p]) => t.life[p] \in {"free", "dead"}
  BY DEF Linked
<1>1. /\ t.inbox[p] = s.inbox[p] \/ Listens(s, p)
      /\ \/ t.life[p] = s.life[p]
         \/ s.life[p] = "free" /\ t.life[p] = "starting" /\ outbox[p] = <<>>
  BY DEF Keeps
<1>2. Contains(s.clients, p) <=> Contains(t.clients, p)
  <2>1. s.clients \in Seq(Proc) /\ t.clients \in Seq(Proc)
    BY DEF WMState
  <2> QED BY <2>1, ContainsIsToSet DEF Keeps
<1>3. Listens(s, p) => Listens(t, p)
  BY <1>1, <1>2 DEF Listens
<1>4. outbox[p] = <<>> => ToSet(outbox[p]) = {}
  BY DEF ToSet
<1> QED BY <1>1, <1>2, <1>3, <1>4 DEF Linked

\* Fewer requests on their way.
LEMMA FewerInFlight ==
  ASSUME NEW box, NEW lst, NEW out, NEW B, InFlight(box, lst, out, B),
         NEW box2, NEW lst2, NEW out2, NEW B2,
         \A i \in Icon, p \in Proc :
           /\ Alone(box2[p], lst2[p], out2[p], i)
           /\ Has(box2[p], lst2[p], out2[p], i) =>
                Has(box[p], lst[p], out[p], i) /\ i \in B2
  PROVE  InFlight(box2, lst2, out2, B2)
BY DEF InFlight

\* The state as a record is well typed.
LEMMA StateType ==
  ASSUME TypeOK
  PROVE  State \in WMState
BY DEF TypeOK, State, WMState, Life

\* What a handler of the window manager leaves is the next state.
LEMMA BecomesType ==
  ASSUME TypeOK, NEW t \in WMState, OneExe(t), Becomes(t),
         alive' \subseteq Icon, calls' \in 0..MaxCalls,
         UNCHANGED <<term, list, armed, crashes>>,
         outbox' \in [Proc -> Seq(Message)]
  PROVE  TypeOK'
<1>1. /\ queued' = t.queued /\ busy' = t.busy /\ done' = t.done /\ queue' = t.queue
      /\ pending' = t.pending /\ killTimer' = t.killTimer
      /\ cancelled' = t.cancelled /\ clients' = t.clients /\ exes' = t.exes
      /\ life' = t.life /\ inbox' = t.inbox
  BY DEF Becomes
<1>2. Cardinality(exes') <= 1
  <2>1. CASE t.exes = {}
    BY <1>1, <2>1, FS_EmptySet
  <2>2. CASE t.exes # {}
    <3>1. PICK p : t.exes = {p}
      BY <2>2 DEF OneExe
    <3>2. Cardinality({p}) = 1
      BY FS_Singleton
    <3> QED BY <1>1, <3>1, <3>2
  <2> QED BY <2>1, <2>2
<1> QED BY <1>1, <1>2 DEF TypeOK, WMState, Life

LEMMA BecomesSound ==
  ASSUME NEW t \in WMState, Becomes(t), NEW A, alive' = A,
         Orderly(t, A), Served(t), Counted(t), OneExe(t),
         ~t.cancelled => InFlight(t.inbox, list', outbox', t.busy)
  PROVE  Sound(State, alive)'
<1>1. /\ queued' = t.queued /\ busy' = t.busy /\ done' = t.done /\ queue' = t.queue
      /\ pending' = t.pending /\ cancelled' = t.cancelled /\ killTimer' = t.killTimer
      /\ clients' = t.clients /\ exes' = t.exes /\ inbox' = t.inbox
  BY DEF Becomes
<1>2. Orderly(State, alive)'
  BY <1>1 DEF Orderly, State
<1>3. Served(State)' /\ Counted(State)' /\ OneExe(State)'
  BY <1>1 DEF Served, Counted, OneExe, State
<1>4. Flying(State)'
  BY <1>1 DEF Flying, State
<1> QED BY <1>2, <1>3, <1>4 DEF Sound

LEMMA BecomesLinked ==
  ASSUME NEW t \in WMState, Becomes(t), Linked(t), UNCHANGED <<list, outbox>>
  PROVE  Linked(State)'
BY DEF Becomes, Linked, State, Listens

\* A handler that neither the connections nor the thumbnailers see.
LEMMA HandlerStep ==
  ASSUME IndInv, NEW t \in WMState, Keeps(State, t), Becomes(t),
         NEW A, alive' = A, A \subseteq Icon, Sound(t, A),
         calls' \in 0..MaxCalls, UNCHANGED <<procVars, crashes>>
  PROVE  IndInv'
<1>1. State \in WMState /\ outbox \in [Proc -> Seq(Message)]
      /\ UNCHANGED <<term, list, armed, crashes, outbox>>
  BY StateType DEF IndInv, TypeOK, procVars
<1>2. Linked(t)
  BY <1>1, KeepsLinked DEF IndInv
<1>3. TypeOK'
  BY <1>1, BecomesType DEF IndInv, Sound
<1>4. Sound(State, alive)'
  BY <1>1, BecomesSound DEF Sound, Flying
<1>5. Linked(State)'
  BY <1>1, <1>2, BecomesLinked
<1> QED BY <1>3, <1>4, <1>5 DEF IndInv

-----------------------------------------------------------------------------
(* One lemma per action.                                                   *)

LEMMA CallStep ==
  ASSUME IndInv, NEW i \in Icon, Begin(i) \/ End(i) \/ Rethumb(i)
  PROVE  IndInv'
<1>1. State \in WMState /\ Sound(State, alive) /\ alive \subseteq Icon
  BY StateType DEF IndInv, TypeOK
<1>2. PICK t : /\ t \in {Begun(State, i), Ended(State, i), Rethumbed(State, i)}
               /\ Called(i, t)
  BY DEF Begin, End, Rethumb
<1>3. i \in alive /\ CanStart(State)
  BY <1>2 DEF Called, CanSpawn, CanStart, State
<1>4. t \in WMState /\ Keeps(State, t) /\ Sound(t, alive)
  BY <1>1, <1>2, <1>3, BegunStep, EndedStep, RethumbedStep
<1>5. /\ Becomes(t) /\ alive' = alive /\ UNCHANGED <<procVars, crashes>>
      /\ calls' \in 0..MaxCalls
  BY <1>2, ThumbAssumption DEF Called, IndInv, TypeOK
<1> QED BY <1>1, <1>4, <1>5, HandlerStep

LEMMA DeleteStep ==
  ASSUME IndInv, NEW i \in Icon, Delete(i)
  PROVE  IndInv'
<1>1. State \in WMState /\ Sound(State, alive) /\ alive \subseteq Icon
  BY StateType DEF IndInv, TypeOK
<1> DEFINE u == TakenBack(State, i)
           t == IF i \in State.queued THEN Dequeued(u, i) ELSE u
<1>2. t \in WMState /\ Keeps(State, t) /\ Sound(t, alive \ {i})
  BY <1>1, DeletedStep
<1>3. SameQueue(State, u)
  BY <1>1, TakenBackStep
<1>4. Becomes(t)
  BY <1>3 DEF Delete, SameQueue
<1>5. /\ alive' = alive \ {i} /\ UNCHANGED <<procVars, crashes>>
      /\ calls' \in 0..MaxCalls
  BY DEF Delete, IndInv, TypeOK
<1> HIDE DEF t
<1> QED BY <1>1, <1>2, <1>4, <1>5, HandlerStep

LEMMA KillTimerStep ==
  ASSUME IndInv, KillTimerFires
  PROVE  IndInv'
<1>1. TypeOK'
  BY DEF IndInv, TypeOK, KillTimerFires, iconVars
<1>2. Sound(State, alive)'
  BY DEF IndInv, KillTimerFires, iconVars, Sound, Orderly, Served, Counted,
         OneExe, Flying, State
<1>3. Linked(State)'
  BY DEF IndInv, KillTimerFires, Linked, Listens, State
<1> QED BY <1>1, <1>2, <1>3 DEF IndInv

LEMMA ExeDelStep ==
  ASSUME IndInv, NEW p \in Proc, ExeDel(p)
  PROVE  IndInv'
<1> DEFINE s == [State EXCEPT !.exes = State.exes \ {p},
                              !.life = [State.life EXCEPT ![p] = "free"]]
<1>1. State \in WMState /\ Sound(State, alive) /\ Linked(State) /\ TypeOK
  BY StateType DEF IndInv
<1>2. s \in WMState
  BY <1>1 DEF WMState, Life
<1>3. /\ s.queue = queue /\ s.queued = queued /\ s.busy = busy /\ s.done = done
      /\ s.clients = clients /\ s.exes = exes \ {p} /\ s.inbox = inbox
      /\ s.pending = pending /\ s.cancelled = cancelled
      /\ s.killTimer = killTimer
      /\ s.life = [life EXCEPT ![p] = "free"]
  BY DEF State
<1>4. p \in exes /\ life[p] = "dead"
  BY DEF ExeDel
<1>5. /\ UNCHANGED <<alive, procVars, calls, crashes>>
      /\ \/ s.exes = {} /\ queue # <<>> /\ FreeProc(s) # {} /\ Becomes(Spawned(s))
         \/ ~(s.exes = {} /\ queue # <<>>) /\ Becomes(s)
  BY DEF ExeDel
<1> HIDE DEF s
<1>6. Orderly(s, alive) /\ Counted(s) /\ OneExe(s) /\ Flying(s)
      /\ (queue # <<>> => clients = <<>>)
  BY <1>1, <1>3 DEF Sound, Orderly, Counted, OneExe, Flying, Served, State
<1>7. Linked(s)
  BY <1>1, <1>3, <1>4 DEF Linked, Listens, State, TypeOK
<1>8. PICK t : /\ t \in WMState /\ Keeps(s, t) /\ Sound(t, alive) /\ Becomes(t)
  <2>1. CASE s.exes = {} /\ queue # <<>> /\ FreeProc(s) # {} /\ Becomes(Spawned(s))
    <3> DEFINE t == Spawned(s)
    <3>1. /\ t \in WMState /\ Keeps(s, t) /\ OneExe(t) /\ t.exes # {}
          /\ SameQueue(s, t) /\ t.clients = s.clients /\ t.inbox = s.inbox
          /\ t.busy = s.busy /\ t.done = s.done
          /\ t.pending = s.pending /\ t.cancelled = s.cancelled
         /\ t.killTimer = s.killTimer
      BY <1>2, <1>6, <2>1, SpawnedStep DEF CanStart
    <3> HIDE DEF t
    <3>2. Sound(t, alive)
      BY <3>1, <1>3, <1>6 DEF Sound, Orderly, Counted, Flying, Served, SameQueue
    <3> QED BY <2>1, <3>1, <3>2 DEF t
  <2>2. CASE ~(s.exes = {} /\ queue # <<>>) /\ Becomes(s)
    <3>1. Sound(s, alive)
      BY <1>3, <1>6, <2>2 DEF Sound, Served
    <3>2. Keeps(s, s)
      BY DEF Keeps
    <3> QED BY <1>2, <2>2, <3>1, <3>2
  <2> QED BY <1>5, <2>1, <2>2
<1>9. Linked(t)
  BY <1>1, <1>2, <1>7, <1>8, KeepsLinked DEF TypeOK
<1>10. TypeOK'
  BY <1>1, <1>5, <1>8, BecomesType DEF TypeOK, Sound, procVars
<1>11. Sound(State, alive)'
  BY <1>5, <1>8, BecomesSound DEF Sound, Flying, procVars
<1>12. Linked(State)'
  BY <1>5, <1>8, <1>9, BecomesLinked DEF procVars
<1> QED BY <1>10, <1>11, <1>12 DEF IndInv

\* An answer of a client takes one request out of flight.
LEMMA AnswerStep ==
  ASSUME IndInv, NEW p \in Proc, outbox[p] # <<>>,
         Head(outbox[p]).kind = "answer",
         Becomes(Answered(Known(p), Head(outbox[p]).icon)),
         outbox' = [outbox EXCEPT ![p] = Tail(@)],
         UNCHANGED <<alive, term, list, armed, calls, crashes>>
  PROVE  IndInv'
<1> DEFINE i == Head(outbox[p]).icon
           s == State
           kt == s.killTimer \/ s.pending = 1
           d == [s EXCEPT !.busy = s.busy \ {i}, !.pending = s.pending - 1,
                          !.killTimer = kt, !.done = s.done \cup {i}]
           t == Answered(s, i)
<1>1. s \in WMState /\ Sound(s, alive) /\ Linked(s) /\ TypeOK
  BY StateType DEF IndInv
<1>2. /\ s.queue = queue /\ s.queued = queued /\ s.busy = busy /\ s.done = done
      /\ s.clients = clients /\ s.exes = exes /\ s.inbox = inbox /\ s.life = life
      /\ s.pending = pending /\ s.cancelled = cancelled
      /\ s.killTimer = killTimer
  BY DEF State
<1> HIDE DEF s
<1>3. Contains(clients, p)
  BY <1>1, <1>2 DEF Linked
<1>4. Becomes(t)
  BY <1>3 DEF Known, s
<1>5. /\ outbox[p] \in Seq(Message) /\ Head(outbox[p]) \in ToSet(outbox[p])
      /\ Tail(outbox[p]) \in Seq(Message)
      /\ ToSet(Tail(outbox[p])) \subseteq ToSet(outbox[p])
      /\ \A e : Once(outbox[p], e) =>
           Once(Tail(outbox[p]), e) /\ (e = Head(outbox[p]) => e \notin ToSet(Tail(outbox[p])))
      /\ Head(outbox[p]) \in Message
  <2>1. outbox[p] \in Seq(Message)
    BY <1>1 DEF TypeOK
  <2> QED BY <2>1, TailOnce
<1>6. i \in Icon /\ Head(outbox[p]) = AnswerMsg(i)
  BY <1>5 DEF Message, Hello, Eof, AnswerMsg
<1> HIDE DEF i
<1>7. \A q \in Proc : outbox'[q] = IF q = p THEN Tail(outbox[p]) ELSE outbox[q]
  BY <1>1 DEF TypeOK
<1>8. outbox' \in [Proc -> Seq(Message)]
  BY <1>1, <1>5 DEF TypeOK
<1>9. clients # <<>>
  BY <1>3, EmptySeq DEF Contains
<1>10. queue = <<>> /\ queued = {}
  <2>1. queue = <<>>
    BY <1>1, <1>2, <1>9 DEF Sound, Served
  <2>2. ToSet(queue) = queued
    BY <1>1, <1>2 DEF Sound, Orderly
  <2> QED BY <2>1, <2>2 DEF ToSet
<1>11. ~s.cancelled => InFlight(s.inbox, list, outbox, s.busy)
  BY <1>1 DEF Sound, Flying
<1>12. ASSUME InFlight(s.inbox, list, outbox, s.busy)
       PROVE  i \in s.busy /\ InFlight(s.inbox, list, outbox', s.busy \ {i})
  <2>1. Has(s.inbox[p], list[p], outbox[p], i)
    BY <1>5, <1>6 DEF Has
  <2>2. i \in s.busy
    BY <2>1, <1>6, <1>12 DEF InFlight
  <2>3. ASSUME NEW j \in Icon, NEW q \in Proc
        PROVE  /\ Alone(s.inbox[q], list[q], outbox'[q], j)
               /\ Has(s.inbox[q], list[q], outbox'[q], j) =>
                    Has(s.inbox[q], list[q], outbox[q], j) /\ j # i
    <3>1. /\ Alone(s.inbox[q], list[q], outbox[q], j)
          /\ Has(s.inbox[q], list[q], outbox[q], i) => q = p
          /\ Alone(s.inbox[p], list[p], outbox[p], i)
      BY <2>1, <1>6, <1>12 DEF InFlight
    <3>2. CASE q # p
      BY <3>1, <3>2, <1>7
    <3>3. CASE q = p
      <4>1. outbox'[q] = Tail(outbox[p])
        BY <1>7, <3>3
      <4>2. Once(outbox[p], AnswerMsg(j))
        BY <3>1, <3>3 DEF Alone
      <4>3. /\ Once(outbox'[q], AnswerMsg(j))
            /\ ToSet(outbox'[q]) \subseteq ToSet(outbox[p])
        BY <4>1, <4>2, <1>5
      <4>4. AnswerMsg(i) \notin ToSet(outbox'[q])
        BY <3>1, <4>1, <1>5, <1>6 DEF Alone
      <4>5. BeginMsg(i) \notin ToSet(s.inbox[p]) /\ i \notin ToSet(list[p])
        BY <3>1, <1>5, <1>6 DEF Alone
      <4>6. Alone(s.inbox[q], list[q], outbox'[q], j)
        BY <3>1, <3>3, <4>3 DEF Alone
      <4>7. Has(s.inbox[q], list[q], outbox'[q], j) =>
              Has(s.inbox[q], list[q], outbox[q], j)
        BY <3>3, <4>3 DEF Has
      <4>8. ~Has(s.inbox[q], list[q], outbox'[q], i)
        BY <3>3, <4>4, <4>5 DEF Has
      <4> QED BY <4>6, <4>7, <4>8
    <3> QED BY <3>2, <3>3
  <2>4. \A j \in Icon, q \in Proc :
          /\ Alone(s.inbox[q], list[q], outbox'[q], j)
          /\ Has(s.inbox[q], list[q], outbox'[q], j) =>
               Has(s.inbox[q], list[q], outbox[q], j) /\ j \in s.busy \ {i}
    BY <2>3, <1>12 DEF InFlight
  <2>5. InFlight(s.inbox, list, outbox', s.busy \ {i})
    BY <2>4, <1>12, FewerInFlight
  <2> QED BY <2>2, <2>5
<1>13. /\ t \in WMState
       /\ Orderly(t, alive) /\ Served(t) /\ Counted(t) /\ OneExe(t)
       /\ t.clients = clients /\ t.inbox = inbox /\ t.life = life
       /\ ~t.cancelled => InFlight(t.inbox, list, outbox', t.busy)
  <2>1. CASE i \in alive
    <3>1. t = d
      BY <2>1 DEF Answered, Settled
    <3>2. kt \in BOOLEAN /\ (kt => s.killTimer \/ s.pending = 1)
      OBVIOUS
    <3> HIDE DEF kt
    <3>3. d \in WMState
      <4>1. s.busy \ {i} \in SUBSET Icon /\ s.done \cup {i} \in SUBSET Icon
            /\ s.pending - 1 \in Int
        BY <1>1, <1>6 DEF WMState
      <4> QED BY <1>1, <3>2, <4>1 DEF WMState
    <3>4. /\ d.queue = queue /\ d.queued = queued /\ d.busy = s.busy \ {i}
          /\ d.clients = clients /\ d.exes = exes /\ d.inbox = inbox
          /\ d.life = life /\ d.pending = s.pending - 1
          /\ d.cancelled = s.cancelled /\ d.killTimer = kt
      BY <1>1, <1>2 DEF WMState
    <3> HIDE DEF d, t
    <3>5. Orderly(d, alive)
      BY <1>1, <1>2, <1>10, <3>4 DEF Sound, Orderly
    <3>6. Served(d) /\ OneExe(d)
      BY <1>1, <1>2, <3>4 DEF Sound, Served, OneExe
    <3>7. IsFiniteSet(s.busy) /\ Cardinality(s.busy) \in Nat /\ s.pending \in Int
      BY <1>1, FiniteIcons DEF WMState
    <3>8. Cardinality(s.busy \ {i}) =
            IF i \in s.busy THEN Cardinality(s.busy) - 1 ELSE Cardinality(s.busy)
      BY <3>7, FS_RemoveElement
    <3>9. Counted(d)
      BY <1>1, <1>11, <1>12, <3>2, <3>4, <3>7, <3>8 DEF Sound, Counted
    <3>10. ~d.cancelled => InFlight(d.inbox, list, outbox', d.busy)
      BY <1>2, <1>11, <1>12, <3>4
    <3> QED BY <3>1, <3>3, <3>4, <3>5, <3>6, <3>9, <3>10
  <2>2. CASE i \notin alive
    <3>1. t = s
      BY <2>2 DEF Answered
    <3>2. InFlight(s.inbox, list, outbox', s.busy \ {i}) =>
            InFlight(s.inbox, list, outbox', s.busy)
      BY DEF InFlight
    <3> QED BY <3>1, <3>2, <1>1, <1>2, <1>11, <1>12 DEF Sound
  <2> QED BY <2>1, <2>2
<1> HIDE DEF t
<1>14. TypeOK'
  BY <1>1, <1>4, <1>8, <1>13, BecomesType DEF TypeOK
<1>15. Sound(State, alive)'
  BY <1>4, <1>13, BecomesSound
<1>16. /\ clients' = clients /\ inbox' = inbox /\ life' = life
  BY <1>4, <1>13 DEF Becomes
<1>17. Linked(State)'
  BY <1>1, <1>2, <1>3, <1>5, <1>7, <1>16 DEF Linked, Listens, State
<1> QED BY <1>14, <1>15, <1>17 DEF IndInv

\* The hello of a new client flushes the queue.
LEMMA HelloStep ==
  ASSUME IndInv, NEW p \in Proc, outbox[p] # <<>>,
         Becomes(Flushed(Known(p))),
         outbox' = [outbox EXCEPT ![p] = Tail(@)],
         UNCHANGED <<alive, term, list, armed, calls, crashes>>
  PROVE  IndInv'
<1> DEFINE k == Known(p)
           t == Flushed(k)
<1>1. State \in WMState /\ Sound(State, alive) /\ Linked(State) /\ TypeOK
  BY StateType DEF IndInv
<1>2. /\ k \in WMState
      /\ k.queue = queue /\ k.queued = queued /\ k.busy = busy /\ k.done = done
      /\ k.exes = exes /\ k.inbox = inbox /\ k.life = life
      /\ k.pending = pending /\ k.cancelled = cancelled
      /\ k.killTimer = killTimer
      /\ ToSet(k.clients) = ToSet(clients) \cup {p}
  <2>1. CASE Contains(clients, p)
    <3>1. p \in ToSet(clients)
      BY <1>1, <2>1, ContainsIsToSet DEF TypeOK
    <3>2. k = State
      BY <2>1 DEF Known
    <3> QED BY <1>1, <3>1, <3>2 DEF State
  <2>2. CASE ~Contains(clients, p)
    <3>1. clients \in Seq(Proc) /\ Len(clients) \in Nat
          /\ DOMAIN clients = 1..Len(clients)
      BY <1>1, LenProperties DEF TypeOK
    <3> DEFINE c == <<p>> \o clients
    <3>2. <<p>> \in Seq(Proc) /\ Len(<<p>>) = 1 /\ <<p>>[1] = p
      OBVIOUS
    <3>3. /\ c \in Seq(Proc) /\ Len(c) = 1 + Len(clients)
          /\ \A j \in 1..(1 + Len(clients)) :
               c[j] = IF j <= 1 THEN <<p>>[j] ELSE clients[j - 1]
      BY <3>1, <3>2, ConcatProperties
    <3>4. DOMAIN c = 1..(1 + Len(clients))
      BY <3>3, LenProperties
    <3>5. k = [State EXCEPT !.clients = c]
      BY <2>2 DEF Known, State
    <3> HIDE DEF c
    <3>6. \A j \in DOMAIN clients : j + 1 \in DOMAIN c /\ c[j + 1] = clients[j]
      <4> SUFFICES ASSUME NEW j \in DOMAIN clients
                   PROVE  j + 1 \in DOMAIN c /\ c[j + 1] = clients[j]
        OBVIOUS
      <4>1. j + 1 \in 1..(1 + Len(clients)) /\ ~(j + 1 <= 1) /\ (j + 1) - 1 = j
        BY <3>1
      <4> QED BY <4>1, <3>3, <3>4
    <3>7. 1 \in DOMAIN c /\ c[1] = p
      BY <3>1, <3>2, <3>3, <3>4
    <3>8. \A j \in DOMAIN c : c[j] = p \/ (j - 1 \in DOMAIN clients /\ c[j] = clients[j - 1])
      BY <3>1, <3>2, <3>3, <3>4
    <3>9. ToSet(clients) \cup {p} \subseteq ToSet(c)
      BY <3>6, <3>7 DEF ToSet
    <3>10. ToSet(c) \subseteq ToSet(clients) \cup {p}
      BY <3>8 DEF ToSet
    <3>11. k \in WMState
      BY <1>1, <3>3, <3>5 DEF WMState
    <3> QED BY <3>5, <3>9, <3>10, <3>11 DEF State
  <2> QED BY <2>1, <2>2
<1> HIDE DEF k
<1>3. Orderly(k, alive) /\ Counted(k) /\ Flying(k) /\ OneExe(k)
  BY <1>1, <1>2 DEF Sound, Orderly, Counted, Flying, OneExe, State
<1>4. Linked(k)
  <2>1. \A q \in Proc : Contains(clients, q) => Contains(k.clients, q)
    <3>1. clients \in Seq(Proc) /\ k.clients \in Seq(Proc)
      BY <1>1, <1>2 DEF TypeOK, WMState
    <3> QED BY <3>1, <1>2, ContainsIsToSet
  <2> QED BY <2>1, <1>1, <1>2 DEF Linked, Listens, State
<1>5. /\ t \in WMState /\ Keeps(k, t) /\ t.exes = k.exes
      /\ Orderly(t, alive) /\ Served(t) /\ Counted(t) /\ Flying(t)
  BY <1>2, <1>3, FlushedStep
<1>6. Becomes(t)
  BY DEF k
<1> HIDE DEF t
<1>7. Linked(t) /\ OneExe(t)
  BY <1>1, <1>2, <1>3, <1>4, <1>5, KeepsLinked DEF TypeOK, OneExe
<1>8. Contains(t.clients, p)
  <2>1. t.clients \in Seq(Proc) /\ p \in ToSet(t.clients)
    BY <1>2, <1>5 DEF Keeps, WMState
  <2> QED BY <2>1, ContainsIsToSet
<1>9. /\ outbox[p] \in Seq(Message) /\ Tail(outbox[p]) \in Seq(Message)
      /\ ToSet(Tail(outbox[p])) \subseteq ToSet(outbox[p])
      /\ \A e : Once(outbox[p], e) => Once(Tail(outbox[p]), e)
  <2>1. outbox[p] \in Seq(Message)
    BY <1>1 DEF TypeOK
  <2> QED BY <2>1, TailOnce
<1>10. \A q \in Proc : outbox'[q] = IF q = p THEN Tail(outbox[p]) ELSE outbox[q]
  BY <1>1 DEF TypeOK
<1>11. outbox' \in [Proc -> Seq(Message)]
  BY <1>1, <1>9 DEF TypeOK
<1>12. \A q \in Proc : /\ ToSet(outbox'[q]) \subseteq ToSet(outbox[q])
                       /\ \A e : Once(outbox[q], e) => Once(outbox'[q], e)
  BY <1>9, <1>10
<1>13. ~t.cancelled => InFlight(t.inbox, list, outbox', t.busy)
  <2> SUFFICES ASSUME InFlight(t.inbox, list, outbox, t.busy)
               PROVE  InFlight(t.inbox, list, outbox', t.busy)
    BY <1>5 DEF Flying
  <2>1. ASSUME NEW j \in Icon, NEW q \in Proc
        PROVE  /\ Alone(t.inbox[q], list[q], outbox'[q], j)
               /\ Has(t.inbox[q], list[q], outbox'[q], j) =>
                    Has(t.inbox[q], list[q], outbox[q], j) /\ j \in t.busy
    <3>1. /\ Alone(t.inbox[q], list[q], outbox[q], j)
          /\ Has(t.inbox[q], list[q], outbox[q], j) => j \in t.busy
      BY DEF InFlight
    <3>2. /\ ToSet(outbox'[q]) \subseteq ToSet(outbox[q])
          /\ Once(outbox[q], AnswerMsg(j)) => Once(outbox'[q], AnswerMsg(j))
      BY <1>12
    <3> QED BY <3>1, <3>2 DEF Alone, Has
  <2> QED BY <2>1, FewerInFlight
<1>14. TypeOK'
  BY <1>1, <1>5, <1>6, <1>7, <1>11, BecomesType DEF TypeOK
<1>15. Sound(State, alive)'
  BY <1>5, <1>6, <1>7, <1>13, BecomesSound
<1>16. /\ clients' = t.clients /\ inbox' = t.inbox /\ life' = t.life
  BY <1>6 DEF Becomes
<1>17. Linked(State)'
  BY <1>7, <1>8, <1>9, <1>10, <1>16 DEF Linked, Listens, State
<1> QED BY <1>14, <1>15, <1>17 DEF IndInv

LEMMA ClientDataStep ==
  ASSUME IndInv, NEW p \in Proc, ClientData(p)
  PROVE  IndInv'
BY AnswerStep, HelloStep DEF ClientData

LEMMA ClientDelStep ==
  ASSUME IndInv, NEW p \in Proc, ClientDel(p)
  PROVE  IndInv'
<1> DEFINE c == RemoveFirst(clients, p)
           t == [State EXCEPT !.clients = c]
<1>1. State \in WMState /\ Sound(State, alive) /\ Linked(State) /\ TypeOK
  BY StateType DEF IndInv
<1>2. /\ outbox[p] = <<Eof>> /\ Becomes(t)
      /\ outbox' = [outbox EXCEPT ![p] = <<>>]
      /\ UNCHANGED <<alive, term, list, armed, calls, crashes>>
  BY DEF ClientDel, State
<1>3. clients \in Seq(Proc)
  BY <1>1 DEF TypeOK
<1>4. /\ c \in Seq(Proc) /\ ToSet(c) \subseteq ToSet(clients)
      /\ ToSet(clients) \ {p} \subseteq ToSet(c)
  BY <1>3, RemoveFirstSet
<1> HIDE DEF c
<1>5. /\ t \in WMState
      /\ t.queue = queue /\ t.queued = queued /\ t.busy = busy /\ t.done = done
      /\ t.exes = exes /\ t.inbox = inbox /\ t.life = life /\ t.clients = c
      /\ t.pending = pending /\ t.cancelled = cancelled
      /\ t.killTimer = killTimer
  BY <1>1, <1>4 DEF WMState, State
<1> HIDE DEF t
<1>6. clients = <<>> => c = <<>>
  <2>1. /\ clients = <<>> <=> ToSet(clients) = {}
        /\ c = <<>> <=> ToSet(c) = {}
    BY <1>3, <1>4, ContainsIsToSet
  <2> QED BY <2>1, <1>4
<1>7. Orderly(t, alive) /\ Served(t) /\ Counted(t) /\ OneExe(t)
  BY <1>1, <1>5, <1>6 DEF Sound, Orderly, Served, Counted, OneExe, State
<1>8. \A q \in Proc : outbox'[q] = IF q = p THEN <<>> ELSE outbox[q]
  BY <1>1, <1>2 DEF TypeOK
<1>9. outbox' \in [Proc -> Seq(Message)]
  BY <1>1, <1>2, EmptySeq DEF TypeOK
<1>10. ToSet(<<>>) = {} /\ \A e : Once(<<>>, e)
  BY DEF ToSet, Once
<1>11. ~t.cancelled => InFlight(t.inbox, list, outbox', t.busy)
  <2> SUFFICES ASSUME InFlight(inbox, list, outbox, busy)
               PROVE  InFlight(inbox, list, outbox', busy)
    BY <1>1, <1>5 DEF Sound, Flying, State
  <2>1. ASSUME NEW j \in Icon, NEW q \in Proc
        PROVE  /\ Alone(inbox[q], list[q], outbox'[q], j)
               /\ Has(inbox[q], list[q], outbox'[q], j) =>
                    Has(inbox[q], list[q], outbox[q], j) /\ j \in busy
    <3>1. /\ Alone(inbox[q], list[q], outbox[q], j)
          /\ Has(inbox[q], list[q], outbox[q], j) => j \in busy
      BY DEF InFlight
    <3> QED BY <3>1, <1>8, <1>10 DEF Alone, Has
  <2> QED BY <2>1, FewerInFlight
<1>12. TypeOK'
  BY <1>1, <1>2, <1>5, <1>7, <1>9, BecomesType DEF TypeOK
<1>13. Sound(State, alive)'
  BY <1>2, <1>5, <1>7, <1>11, BecomesSound
<1>14. clients' = c /\ inbox' = inbox /\ life' = life
  BY <1>2, <1>5 DEF Becomes
<1>15. life[p] \in {"free", "dead"} /\ inbox[p] = <<>> /\ list[p] = <<>>
  <2>1. Eof \in ToSet(outbox[p])
    BY <1>2 DEF ToSet
  <2> QED BY <2>1, <1>1 DEF Linked, State, Listens
<1>16. \A q \in Proc : q # p /\ Contains(clients, q) => Contains(c, q)
  BY <1>3, <1>4, ContainsIsToSet
<1>17. Linked(State)'
  <2>1. \A q \in Proc :
          /\ outbox[q] # <<>> /\ ~Contains(clients, q) => Head(outbox[q]).kind # "answer"
          /\ inbox[q] # <<>> \/ list[q] # <<>> =>
               Contains(clients, q) /\ life[q] = "connected"
          /\ Eof \in ToSet(outbox[q]) => life[q] \in {"free", "dead"}
    BY <1>1 DEF Linked, State, Listens
  <2>2. list' = list
    BY <1>2
  <2>3. ASSUME NEW q \in Proc
        PROVE  /\ outbox'[q] # <<>> /\ ~Contains(c, q) => Head(outbox'[q]).kind # "answer"
               /\ inbox[q] # <<>> \/ list[q] # <<>> =>
                    Contains(c, q) /\ life[q] = "connected"
               /\ Eof \in ToSet(outbox'[q]) => life[q] \in {"free", "dead"}
    <3>1. CASE q = p
      BY <3>1, <1>8, <1>10, <1>15
    <3>2. CASE q # p
      BY <3>2, <2>1, <1>8, <1>16
    <3> QED BY <3>1, <3>2
  <2> QED BY <2>2, <2>3, <1>14 DEF Linked, State, Listens
<1> QED BY <1>12, <1>13, <1>17 DEF IndInv

-----------------------------------------------------------------------------
(* The thumbnailer.                                                        *)

\* What Linked says, about the variables.
LEMMA LinkedVars ==
  Linked(State) <=>
    \A q \in Proc :
      /\ outbox[q] # <<>> /\ ~Contains(clients, q) => Head(outbox[q]).kind # "answer"
      /\ inbox[q] # <<>> \/ list[q] # <<>> =>
           Contains(clients, q) /\ life[q] = "connected"
      /\ Eof \in ToSet(outbox[q]) => life[q] \in {"free", "dead"}
BY DEF Linked, State, Listens

\* A step of process p only moves its requests or loses them.
LEMMA ProcStep ==
  ASSUME IndInv, NEW p \in Proc,
         UNCHANGED <<iconVars, killVars, clients, exes>>,
         NEW b \in Seq(Message), NEW l \in Seq(Icon), NEW o \in Seq(Message),
         inbox' = [inbox EXCEPT ![p] = b], list' = [list EXCEPT ![p] = l],
         outbox' = [outbox EXCEPT ![p] = o],
         \A i \in Icon :
           /\ Alone(inbox[p], list[p], outbox[p], i) => Alone(b, l, o, i)
           /\ Has(b, l, o, i) => Has(inbox[p], list[p], outbox[p], i)
  PROVE  Sound(State, alive)'
<1>1. TypeOK /\ Sound(State, alive)
  BY DEF IndInv
<1>2. \A q \in Proc : /\ inbox'[q] = IF q = p THEN b ELSE inbox[q]
                      /\ list'[q] = IF q = p THEN l ELSE list[q]
                      /\ outbox'[q] = IF q = p THEN o ELSE outbox[q]
  BY <1>1 DEF TypeOK
<1>3. /\ UNCHANGED <<alive, queued, busy, done, queue>>
      /\ UNCHANGED <<pending, killTimer, cancelled, clients, exes>>
  BY DEF iconVars, killVars
<1>4. (Orderly(State, alive) /\ Served(State) /\ Counted(State) /\ OneExe(State))'
  BY <1>1, <1>3 DEF Sound, Orderly, Served, Counted, OneExe, State
<1>5. Flying(State)'
  <2>1. ASSUME InFlight(inbox, list, outbox, busy)
        PROVE  InFlight(inbox', list', outbox', busy)
    <3>1. ASSUME NEW j \in Icon, NEW q \in Proc
          PROVE  /\ Alone(inbox'[q], list'[q], outbox'[q], j)
                 /\ Has(inbox'[q], list'[q], outbox'[q], j) =>
                      Has(inbox[q], list[q], outbox[q], j) /\ j \in busy
      <4>1. /\ Alone(inbox[q], list[q], outbox[q], j)
            /\ Has(inbox[q], list[q], outbox[q], j) => j \in busy
        BY <2>1 DEF InFlight
      <4> QED BY <4>1, <1>2
    <3> QED BY <2>1, <3>1, FewerInFlight
  <2>2. ~cancelled => InFlight(inbox, list, outbox, busy)
    BY <1>1 DEF Sound, Flying, State
  <2> QED BY <2>1, <2>2, <1>3 DEF Flying, State
<1> QED BY <1>4, <1>5 DEF Sound

LEMMA ConnectStep ==
  ASSUME IndInv, NEW p \in Proc, Connect(p)
  PROVE  IndInv'
<1>1. TypeOK /\ Linked(State)
  BY DEF IndInv
<1>2. /\ inbox' = inbox /\ list' = list /\ clients' = clients
      /\ outbox' = [outbox EXCEPT ![p] = <<Hello>>]
      /\ life' = [life EXCEPT ![p] = "connected"] /\ life[p] = "starting"
      /\ UNCHANGED <<iconVars, killVars, clients, exes>>
  BY DEF Connect
<1>3. <<Hello>> \in Seq(Message) /\ Head(<<Hello>>) = Hello
  BY DEF Message
<1>4. ToSet(<<Hello>>) = {Hello} /\ \A e : Once(<<Hello>>, e)
  BY DEF ToSet, Once
<1>5. TypeOK'
  BY <1>1, <1>3 DEF TypeOK, Connect, iconVars, killVars
<1>6. \A i \in Icon : AnswerMsg(i) # Hello
  BY DEF AnswerMsg, Hello
<1>7. Sound(State, alive)'
  <2>1. /\ inbox' = [inbox EXCEPT ![p] = inbox[p]] /\ list' = [list EXCEPT ![p] = list[p]]
        /\ inbox[p] \in Seq(Message) /\ list[p] \in Seq(Icon)
    BY <1>1, <1>2 DEF TypeOK
  <2>2. \A i \in Icon :
          /\ Alone(inbox[p], list[p], outbox[p], i) => Alone(inbox[p], list[p], <<Hello>>, i)
          /\ Has(inbox[p], list[p], <<Hello>>, i) => Has(inbox[p], list[p], outbox[p], i)
    BY <1>4, <1>6 DEF Alone, Has
  <2> QED BY <1>2, <1>3, <2>1, <2>2, ProcStep
<1>8. Linked(State)'
  <2>1. \A q \in Proc : /\ outbox'[q] = IF q = p THEN <<Hello>> ELSE outbox[q]
                        /\ life'[q] = IF q = p THEN "connected" ELSE life[q]
    BY <1>1, <1>2 DEF TypeOK
  <2>2. Hello.kind # "answer" /\ Hello # Eof
    BY DEF Hello, Eof
  <2>3. \A q \in Proc :
          /\ outbox'[q] # <<>> /\ ~Contains(clients, q) => Head(outbox'[q]).kind # "answer"
          /\ inbox[q] # <<>> \/ list[q] # <<>> =>
               Contains(clients, q) /\ life'[q] = "connected"
          /\ Eof \in ToSet(outbox'[q]) => life'[q] \in {"free", "dead"}
    BY <1>1, <1>2, <1>3, <1>4, <2>1, <2>2, LinkedVars
  <2> QED BY <1>2, <2>3 DEF Linked, State, Listens
<1> QED BY <1>5, <1>7, <1>8 DEF IndInv

LEMMA ServerDataStep ==
  ASSUME IndInv, NEW p \in Proc, ServerData(p)
  PROVE  IndInv'
<1> DEFINE m == Head(inbox[p])
           b == Tail(inbox[p])
<1>1. TypeOK /\ Linked(State)
  BY DEF IndInv
<1>2. inbox[p] \in Seq(Message) /\ list[p] \in Seq(Icon) /\ outbox[p] \in Seq(Message)
  BY <1>1 DEF TypeOK
<1>3. /\ inbox[p] # <<>> /\ inbox' = [inbox EXCEPT ![p] = b]
      /\ UNCHANGED <<iconVars, killVars, clients, exes, life, term, outbox, calls, crashes>>
  BY DEF ServerData
<1>4. /\ m \in Message /\ b \in Seq(Message) /\ ToSet(b) \subseteq ToSet(inbox[p])
      /\ m \in ToSet(inbox[p])
      /\ \A e : Once(inbox[p], e) => Once(b, e) /\ (e = m => e \notin ToSet(b))
  BY <1>2, <1>3, TailOnce
<1>5. PICK l : /\ l \in Seq(Icon) /\ list' = [list EXCEPT ![p] = l]
               /\ armed' \subseteq armed \cup {p}
               /\ \A i \in Icon :
                    /\ Alone(inbox[p], list[p], outbox[p], i) => Alone(b, l, outbox[p], i)
                    /\ Has(b, l, outbox[p], i) => Has(inbox[p], list[p], outbox[p], i)
  <2>1. CASE m.kind = "begin" /\ list' = [list EXCEPT ![p] = Append(@, m.icon)]
             /\ armed' = armed \cup {p}
    <3> DEFINE x == m.icon
               l == Append(list[p], x)
    <3>1. x \in Icon /\ m = BeginMsg(x)
      BY <1>4, <2>1 DEF Message, Hello, Eof, BeginMsg
    <3> HIDE DEF x, m, b
    <3>2. /\ l \in Seq(Icon) /\ ToSet(l) = ToSet(list[p]) \cup {x}
          /\ \A e : Once(list[p], e) /\ ~(e = x /\ e \in ToSet(list[p])) => Once(l, e)
      BY <1>2, <3>1, AppendOnce
    <3>3. list' = [list EXCEPT ![p] = l]
      BY <2>1, <1>1 DEF x, TypeOK
    <3> HIDE DEF l
    <3>4. ASSUME NEW i \in Icon
          PROVE  /\ Alone(inbox[p], list[p], outbox[p], i) => Alone(b, l, outbox[p], i)
                 /\ Has(b, l, outbox[p], i) => Has(inbox[p], list[p], outbox[p], i)
      <4>1. CASE i = x
        BY <4>1, <1>4, <3>1, <3>2 DEF Alone, Has
      <4>2. CASE i # x
        <5>1. BeginMsg(i) # BeginMsg(x)
          BY <4>2 DEF BeginMsg
        <5> QED BY <4>2, <5>1, <1>4, <3>1, <3>2 DEF Alone, Has
      <4> QED BY <4>1, <4>2
    <3> QED BY <2>1, <3>2, <3>3, <3>4
  <2>2. CASE m.kind = "cancel" /\ list' = [list EXCEPT ![p] = RemoveFirst(@, m.icon)]
             /\ armed' = armed
    <3> DEFINE l == RemoveFirst(list[p], m.icon)
    <3> HIDE DEF b, m
    <3>1. /\ l \in Seq(Icon) /\ ToSet(l) \subseteq ToSet(list[p])
          /\ \A e : Once(list[p], e) => Once(l, e)
      BY <1>2, RemoveFirstSet, RemoveFirstOnce
    <3>2. list' = [list EXCEPT ![p] = l]
      BY <2>2, <1>1 DEF TypeOK
    <3> HIDE DEF l
    <3>3. \A i \in Icon :
            /\ Alone(inbox[p], list[p], outbox[p], i) => Alone(b, l, outbox[p], i)
            /\ Has(b, l, outbox[p], i) => Has(inbox[p], list[p], outbox[p], i)
      BY <1>4, <3>1 DEF Alone, Has
    <3> QED BY <2>2, <3>1, <3>2, <3>3
  <2> QED BY <2>1, <2>2 DEF ServerData
<1> HIDE DEF m, b
<1>6. TypeOK'
  <2>1. inbox' \in [Proc -> Seq(Message)] /\ list' \in [Proc -> Seq(Icon)]
        /\ armed' \subseteq Proc
    BY <1>1, <1>3, <1>4, <1>5 DEF TypeOK
  <2> QED BY <2>1, <1>1, <1>3 DEF TypeOK, iconVars, killVars
<1>7. Sound(State, alive)'
  <2>1. outbox' = [outbox EXCEPT ![p] = outbox[p]]
    BY <1>1, <1>3 DEF TypeOK
  <2> QED BY <2>1, <1>2, <1>3, <1>4, <1>5, ProcStep
<1>8. Linked(State)'
  <2>1. \A q \in Proc \ {p} : inbox'[q] = inbox[q] /\ list'[q] = list[q]
    BY <1>1, <1>3, <1>5 DEF TypeOK
  <2>2. \A q \in Proc :
          /\ outbox[q] # <<>> /\ ~Contains(clients, q) => Head(outbox[q]).kind # "answer"
          /\ inbox'[q] # <<>> \/ list'[q] # <<>> =>
               Contains(clients, q) /\ life[q] = "connected"
          /\ Eof \in ToSet(outbox[q]) => life[q] \in {"free", "dead"}
    BY <1>1, <1>3, <2>1, LinkedVars
  <2> QED BY <1>3, <2>2 DEF Linked, State, Listens
<1> QED BY <1>6, <1>7, <1>8 DEF IndInv

LEMMA CbTimerStep ==
  ASSUME IndInv, NEW p \in Proc, CbTimer(p)
  PROVE  IndInv'
<1>1. TypeOK /\ Linked(State)
  BY DEF IndInv
<1>2. inbox[p] \in Seq(Message) /\ list[p] \in Seq(Icon) /\ outbox[p] \in Seq(Message)
  BY <1>1 DEF TypeOK
<1>3. /\ UNCHANGED <<iconVars, killVars, clients, exes, life, inbox, term, calls, crashes>>
      /\ armed' \subseteq armed
  BY DEF CbTimer
<1>4. CASE list[p] = <<>>
  <2>1. UNCHANGED <<outbox, list>>
    BY <1>4 DEF CbTimer
  <2>2. TypeOK'
    BY <1>1, <1>3, <2>1 DEF TypeOK, iconVars, killVars
  <2>3. Sound(State, alive)'
    BY <1>3, <2>1 DEF IndInv, iconVars, killVars, Sound, Orderly, Served,
       Counted, OneExe, Flying, State
  <2>4. Linked(State)'
    BY <1>1, <1>3, <2>1 DEF Linked, Listens, State
  <2> QED BY <2>2, <2>3, <2>4 DEF IndInv
<1>5. CASE list[p] # <<>>
  <2> DEFINE x == Head(list[p])
             l == Tail(list[p])
             o == Append(outbox[p], AnswerMsg(x))
  <2>1. /\ outbox' = [outbox EXCEPT ![p] = o]
        /\ list' = [list EXCEPT ![p] = l]
    BY <1>1, <1>5 DEF CbTimer, TypeOK
  <2>2. /\ x \in Icon /\ l \in Seq(Icon) /\ ToSet(l) \subseteq ToSet(list[p])
        /\ x \in ToSet(list[p])
        /\ \A e : Once(list[p], e) => Once(l, e) /\ (e = x => e \notin ToSet(l))
    BY <1>2, <1>5, TailOnce
  <2> HIDE DEF x, l
  <2>3. AnswerMsg(x) \in Message
    BY <2>2 DEF AnswerMsg, Message
  <2>4. /\ o \in Seq(Message) /\ ToSet(o) = ToSet(outbox[p]) \cup {AnswerMsg(x)}
        /\ \A e : Once(outbox[p], e) /\ ~(e = AnswerMsg(x) /\ e \in ToSet(outbox[p]))
                    => Once(o, e)
    BY <1>2, <2>3, AppendOnce
  <2>5. outbox[p] # <<>> => o # <<>> /\ Head(o) = Head(outbox[p])
    BY <1>2, <2>3, AppendProperties, LenProperties, EmptySeq
  <2> HIDE DEF o
  <2>6. ASSUME NEW i \in Icon
        PROVE  /\ Alone(inbox[p], list[p], outbox[p], i) => Alone(inbox[p], l, o, i)
               /\ Has(inbox[p], l, o, i) => Has(inbox[p], list[p], outbox[p], i)
    <3>1. CASE i = x
      BY <3>1, <2>2, <2>4 DEF Alone, Has
    <3>2. CASE i # x
      <4>1. AnswerMsg(i) # AnswerMsg(x)
        BY <3>2 DEF AnswerMsg
      <4> QED BY <3>2, <4>1, <2>2, <2>4 DEF Alone, Has
    <3> QED BY <3>1, <3>2
  <2>7. TypeOK'
    <3>1. outbox' \in [Proc -> Seq(Message)] /\ list' \in [Proc -> Seq(Icon)]
      BY <1>1, <2>1, <2>2, <2>4 DEF TypeOK
    <3> QED BY <3>1, <1>1, <1>3 DEF TypeOK, iconVars, killVars
  <2>8. Sound(State, alive)'
    <3>1. inbox' = [inbox EXCEPT ![p] = inbox[p]]
      BY <1>1, <1>3 DEF TypeOK
    <3> QED BY <3>1, <1>2, <1>3, <2>1, <2>2, <2>4, <2>6, ProcStep
  <2>9. Linked(State)'
    <3>1. \A q \in Proc : /\ outbox'[q] = IF q = p THEN o ELSE outbox[q]
                          /\ list'[q] = IF q = p THEN l ELSE list[q]
      BY <1>1, <2>1 DEF TypeOK
    <3>2. Contains(clients, p) /\ life[p] = "connected"
      BY <1>1, <1>5, LinkedVars
    <3>3. Eof \notin ToSet(o)
      <4>1. Eof \notin ToSet(outbox[p])
        BY <1>1, <3>2, LinkedVars
      <4>2. Eof # AnswerMsg(x)
        BY DEF Eof, AnswerMsg
      <4> QED BY <4>1, <4>2, <2>4
    <3>4. \A q \in Proc :
            /\ outbox'[q] # <<>> /\ ~Contains(clients, q) => Head(outbox'[q]).kind # "answer"
            /\ inbox[q] # <<>> \/ list'[q] # <<>> =>
                 Contains(clients, q) /\ life[q] = "connected"
            /\ Eof \in ToSet(outbox'[q]) => life[q] \in {"free", "dead"}
      BY <1>1, <3>1, <3>2, <3>3, LinkedVars
    <3> QED BY <1>3, <3>4 DEF Linked, State, Listens
  <2> QED BY <2>7, <2>8, <2>9 DEF IndInv
<1> QED BY <1>4, <1>5

LEMMA DiesStep ==
  ASSUME IndInv, NEW p \in Proc, Dies(p), crashes' \in 0..MaxCrashes
  PROVE  IndInv'
<1>1. TypeOK /\ Linked(State)
  BY DEF IndInv
<1>2. inbox[p] \in Seq(Message) /\ list[p] \in Seq(Icon) /\ outbox[p] \in Seq(Message)
  BY <1>1 DEF TypeOK
<1>3. /\ life' = [life EXCEPT ![p] = "dead"]
      /\ term' \subseteq term /\ armed' \subseteq armed
      /\ inbox' = [inbox EXCEPT ![p] = <<>>] /\ list' = [list EXCEPT ![p] = <<>>]
      /\ UNCHANGED <<iconVars, killVars, clients, exes, calls>>
  BY DEF Dies
<1>4. Eof \in Message
  BY DEF Message
<1>5. PICK o : /\ o \in Seq(Message) /\ outbox' = [outbox EXCEPT ![p] = o]
               /\ ToSet(o) \subseteq ToSet(outbox[p]) \cup {Eof}
               /\ \A i \in Icon : Once(outbox[p], AnswerMsg(i)) => Once(o, AnswerMsg(i))
               /\ outbox[p] # <<>> /\ o # <<>> => Head(o) \in {Head(outbox[p]), Eof}
               /\ outbox[p] = <<>> /\ o # <<>> => Head(o) = Eof
  <2>1. CASE life[p] = "starting"
    <3>1. outbox' = [outbox EXCEPT ![p] = outbox[p]]
      BY <1>1, <2>1 DEF Dies, TypeOK
    <3> QED BY <3>1, <1>2
  <2>2. CASE life[p] = "connected"
    <3>1. PICK n \in 0..Len(outbox[p]) :
            outbox' = [outbox EXCEPT ![p] = Append(SubSeq(@, 1, n), Eof)]
      BY <2>2 DEF Dies
    <3> DEFINE a == SubSeq(outbox[p], 1, n)
               o == Append(a, Eof)
    <3>2. outbox' = [outbox EXCEPT ![p] = o]
      BY <1>1, <3>1 DEF TypeOK
    <3>3. /\ a \in Seq(Message) /\ ToSet(a) \subseteq ToSet(outbox[p])
          /\ \A e : Once(outbox[p], e) => Once(a, e)
      BY <1>2, PrefixOnce
    <3>4. a # <<>> => outbox[p] # <<>> /\ Head(a) = Head(outbox[p])
      <4>1. /\ Len(outbox[p]) \in Nat
            /\ \A k \in 1..Len(outbox[p]) : outbox[p][k] \in Message
        BY <1>2, LenProperties, ElementOfSeq
      <4>2. 1 \in Int /\ n \in Int /\ \A k \in 1..n : outbox[p][k] \in Message
        BY <4>1
      <4>3. /\ Len(a) = IF 1 <= n THEN n - 1 + 1 ELSE 0
            /\ \A k \in 1..(n - 1 + 1) : a[k] = outbox[p][1 + k - 1]
        BY <4>2, SubSeqProperties
      <4> HIDE DEF a
      <4>4. a # <<>> => n >= 1
        BY <4>3, <3>3, EmptySeq
      <4>5. n >= 1 => a[1] = outbox[p][1]
        BY <4>3
      <4> QED BY <4>1, <4>4, <4>5, <3>3, <1>2, EmptySeq
    <3> HIDE DEF a
    <3>5. /\ o \in Seq(Message) /\ ToSet(o) = ToSet(a) \cup {Eof}
          /\ \A e : Once(a, e) /\ ~(e = Eof /\ e \in ToSet(a)) => Once(o, e)
      BY <1>4, <3>3, AppendOnce
    <3>6. \A i \in Icon : AnswerMsg(i) # Eof
      BY DEF AnswerMsg, Eof
    <3>7. (a # <<>> => Head(o) = Head(a)) /\ (a = <<>> => Head(o) = Eof)
      BY <3>3, <1>4, AppendProperties, LenProperties, EmptySeq
    <3> HIDE DEF o
    <3> QED BY <3>2, <3>3, <3>4, <3>5, <3>6, <3>7
  <2> QED BY <2>1, <2>2 DEF Dies
<1>6. ToSet(<<>>) = {} /\ \A e : Once(<<>>, e)
  BY DEF ToSet, Once
<1>7. <<>> \in Seq(Message) /\ <<>> \in Seq(Icon)
  BY EmptySeq
<1>8. TypeOK'
  <2>1. /\ inbox' \in [Proc -> Seq(Message)] /\ list' \in [Proc -> Seq(Icon)]
        /\ outbox' \in [Proc -> Seq(Message)]
        /\ life' \in [Proc -> {"free", "starting", "connected", "dead"}]
    BY <1>1, <1>3, <1>5, <1>7 DEF TypeOK
  <2> QED BY <2>1, <1>1, <1>3 DEF TypeOK, iconVars, killVars
<1>9. \A i \in Icon : AnswerMsg(i) # Eof
  BY DEF AnswerMsg, Eof
<1>10. Sound(State, alive)'
  <2>1. \A i \in Icon :
          /\ Alone(inbox[p], list[p], outbox[p], i) => Alone(<<>>, <<>>, o, i)
          /\ Has(<<>>, <<>>, o, i) => Has(inbox[p], list[p], outbox[p], i)
    BY <1>5, <1>6, <1>9 DEF Alone, Has
  <2> QED BY <2>1, <1>3, <1>5, <1>7, ProcStep
<1>11. Linked(State)'
  <2>1. \A q \in Proc : /\ outbox'[q] = IF q = p THEN o ELSE outbox[q]
                        /\ inbox'[q] = IF q = p THEN <<>> ELSE inbox[q]
                        /\ list'[q] = IF q = p THEN <<>> ELSE list[q]
                        /\ life'[q] = IF q = p THEN "dead" ELSE life[q]
    BY <1>1, <1>3, <1>5 DEF TypeOK
  <2>2. Eof.kind # "answer"
    BY DEF Eof
  <2>3. ASSUME NEW q \in Proc
        PROVE  /\ outbox'[q] # <<>> /\ ~Contains(clients, q) => Head(outbox'[q]).kind # "answer"
               /\ inbox'[q] # <<>> \/ list'[q] # <<>> =>
                    Contains(clients, q) /\ life'[q] = "connected"
               /\ Eof \in ToSet(outbox'[q]) => life'[q] \in {"free", "dead"}
    <3>1. CASE q = p
      BY <3>1, <1>1, <1>5, <2>1, <2>2, LinkedVars
    <3>2. CASE q # p
      BY <3>2, <1>1, <2>1, LinkedVars
    <3> QED BY <3>1, <3>2
  <2> QED BY <1>3, <2>3 DEF Linked, State, Listens
<1> QED BY <1>8, <1>10, <1>11 DEF IndInv

-----------------------------------------------------------------------------
(* The theorems.                                                           *)

LEMMA InitInv ==
  ASSUME Init
  PROVE  IndInv
<1>1. <<>> \in Seq(Icon) /\ <<>> \in Seq(Proc) /\ <<>> \in Seq(Message)
  BY EmptySeq
<1>2. ToSet(<<>>) = {} /\ (\A e : Once(<<>>, e)) /\ IsInjective(<<>>)
  BY DEF ToSet, Once, IsInjective
<1>3. Cardinality({}) = 0
  BY FS_EmptySet
<1>4. TypeOK
  <2>1. /\ inbox \in [Proc -> Seq(Message)] /\ outbox \in [Proc -> Seq(Message)]
        /\ list \in [Proc -> Seq(Icon)]
        /\ life \in [Proc -> {"free", "starting", "connected", "dead"}]
    BY <1>1 DEF Init
  <2>2. calls \in 0..MaxCalls /\ crashes \in 0..MaxCrashes
    BY ThumbAssumption DEF Init
  <2>3. /\ alive \subseteq Icon /\ queued \subseteq Icon
        /\ busy \subseteq Icon /\ done \subseteq Icon
        /\ queue \in Seq(Icon) /\ clients \in Seq(Proc)
        /\ pending \in Int
        /\ exes \subseteq Proc /\ term \subseteq Proc /\ armed \subseteq Proc
    BY <1>1 DEF Init
  <2>5. killTimer \in BOOLEAN /\ cancelled \in BOOLEAN
    BY DEF Init
  <2>4. Cardinality(exes) <= 1
    BY <1>3 DEF Init
  <2> QED BY <2>1, <2>2, <2>3, <2>4, <2>5 DEF TypeOK
<1>5. Orderly(State, alive) /\ Served(State) /\ Counted(State) /\ OneExe(State)
  BY <1>2, <1>3 DEF Init, State, Orderly, Served, Counted, OneExe
<1>6. Flying(State)
  BY <1>2 DEF Init, State, Flying, InFlight, Alone, Has
<1>7. Linked(State)
  BY <1>2 DEF Init, State, Linked
<1> QED BY <1>4, <1>5, <1>6, <1>7 DEF IndInv, Sound

LEMMA NextInv ==
  ASSUME IndInv, [Next]_vars
  PROVE  IndInv'
<1>1. CASE \E i \in Icon : Begin(i) \/ End(i) \/ Rethumb(i) \/ Delete(i)
  BY <1>1, CallStep, DeleteStep
<1>2. CASE KillTimerFires
  BY <1>2, KillTimerStep
<1>3. CASE \E p \in Proc : WindowManager(p)
  BY <1>3, ClientDataStep, ClientDelStep, ExeDelStep DEF WindowManager
<1>4. CASE \E p \in Proc : Thumbnailer(p)
  BY <1>4, ConnectStep, ServerDataStep, CbTimerStep DEF Thumbnailer
<1>5. CASE \E p \in Proc : Terminated(p) \/ Crash(p)
  <2>1. PICK p \in Proc : Terminated(p) \/ Crash(p)
    BY <1>5
  <2>2. Dies(p) /\ crashes' \in 0..MaxCrashes
    BY <2>1, ThumbAssumption DEF Terminated, Crash, IndInv, TypeOK
  <2> QED BY <2>2, DiesStep
<1>6. CASE UNCHANGED vars
  <2>1. /\ UNCHANGED <<alive, queued, busy, done, queue, pending, killTimer, cancelled>>
        /\ UNCHANGED <<clients, exes, life, inbox, term, outbox, list, armed>>
        /\ UNCHANGED <<calls, crashes>>
    BY <1>6 DEF vars, iconVars, killVars, procVars
  <2>2. TypeOK'
    BY <2>1 DEF IndInv, TypeOK
  <2>3. Sound(State, alive)'
    BY <2>1 DEF IndInv, Sound, Orderly, Served, Counted, OneExe, Flying, State
  <2>4. Linked(State)'
    BY <2>1 DEF IndInv, Linked, Listens, State
  <2> QED BY <2>2, <2>3, <2>4 DEF IndInv
<1> QED BY <1>1, <1>2, <1>3, <1>4, <1>5, <1>6 DEF Next

LEMMA Invariant == Spec => []IndInv
<1>1. Init => IndInv
  BY InitInv
<1>2. IndInv /\ [Next]_vars => IndInv'
  BY NextInv
<1> QED BY <1>1, <1>2, PTL DEF Spec

\* Every variable has its type, and one thumbnailer runs at a time, for every
\* number of icons and of process identifiers.
THEOREM ThumbTypeCorrect == Spec => []TypeOK
<1>1. IndInv => TypeOK
  BY DEF IndInv
<1> QED BY <1>1, Invariant, PTL

\* _thumb_queue points at exactly the icons with eth->queued: none of them is
\* freed, is in the queue twice or was sent already.
THEOREM QueueIsOrderly == Spec => []QueueOK
<1>1. IndInv => QueueOK
  BY DEF IndInv, Sound, Orderly, State, QueueOK
<1> QED BY <1>1, Invariant, PTL

\* Requests wait only while no thumbnailer is connected and one was started
\* whose exit was not seen yet.
THEOREM QueueAlwaysServed == Spec => []QueueIsServed
<1>1. IndInv => QueueIsServed
  BY DEF IndInv, Sound, Served, State, QueueIsServed
<1> QED BY <1>1, Invariant, PTL

\* _pending is the number of busy icons until a request is taken back after it
\* was sent, and never more than it.
THEOREM PendingIsBusy == Spec => []PendingMatches
<1>1. IndInv => PendingMatches
  BY DEF IndInv, Sound, Counted, State, PendingMatches
<1> QED BY <1>1, Invariant, PTL

\* The kill timer fires only when no icon is busy, as long as no request was
\* taken back after it was sent.
THEOREM KillTimerSparesBusy == Spec => KillsIdleOnly
<1>1. IndInv => [KillTimerFires /\ ~cancelled => busy = {}]_vars
  <2> SUFFICES ASSUME IndInv, KillTimerFires, ~cancelled
               PROVE  busy = {}
    OBVIOUS
  <2>1. IsFiniteSet(busy) /\ Cardinality(busy) \in Nat /\ pending \in Int
    BY FiniteIcons DEF IndInv, TypeOK
  <2>2. pending = Cardinality(busy) /\ pending <= 0
    BY DEF IndInv, Sound, Counted, State, KillTimerFires
  <2> QED BY <2>1, <2>2, FS_EmptySet
<1> QED BY <1>1, Invariant, PTL DEF KillsIdleOnly

=============================================================================
