----------------------------- MODULE FoldFacts -----------------------------
(***************************************************************************)
(* What a fold over a finite set keeps.  The theorems of the library on    *)
(* induction take the predicate as a parameter, which the provers cannot   *)
(* instantiate; here the step of the fold is a constant of the module, and *)
(* an instance of the module is made for each fold of the model.           *)
(***************************************************************************)
EXTENDS Integers, FiniteSetTheorems, WellFoundedInduction, TLAPS

CONSTANTS
  F(_, _, _, _),  \* the step: two parameters, the element and what it is applied to
  Pick(_)         \* the element that comes last

\* What holds of a subset of a finite set when it holds of all that are smaller holds
\* of every subset (the folds of the model go through sets that are finite).
LEMMA SubsetsInduction ==
  ASSUME NEW S, IsFiniteSet(S), NEW Z,
         \A s \in SUBSET S : (\A t \in SUBSET s : t # s => t \in Z) => s \in Z
  PROVE  SUBSET S \subseteq Z
<1> DEFINE T == (SUBSET S) \ Z
<1>1. SUFFICES ASSUME T # {} PROVE FALSE
  OBVIOUS
<1>2. IsWellFoundedOn(StrictSubsetOrdering(S), SUBSET S)
  BY FS_StrictSubsetOrderingWellFounded, FS_FiniteSubsetsOfFinite
<1>3. T \subseteq SUBSET S
  OBVIOUS
<1> HIDE DEF T
<1>4. PICK s \in T : \A t \in T : ~ (<<t, s>> \in StrictSubsetOrdering(S))
  BY <1>1, <1>2, <1>3, WFMin
<1>5. \A t \in SUBSET s : t # s => t \in Z
  <2> SUFFICES ASSUME NEW t \in SUBSET s, t # s, t \notin Z PROVE FALSE
    OBVIOUS
  <2>1. t \in T
    BY <1>3 DEF T
  <2>2. <<t, s>> \in StrictSubsetOrdering(S)
    BY <1>3, <2>1 DEF StrictSubsetOrdering
  <2> QED BY <1>4, <2>1, <2>2
<1> QED BY <1>3, <1>4, <1>5 DEF T

Foldable(S, W, base, step, ch) ==
  /\ IsFiniteSet(S) /\ base \in W /\ step \in [S \X W -> W]
  /\ \A s \in SUBSET S : s # {} => ch[s] \in s

Folded(S, W, base, step, ch) ==
  \E it \in [SUBSET S -> W] : \A s \in SUBSET S :
    it[s] = IF s = {} THEN base ELSE step[ch[s], it[s \ {ch[s]}]]

\* A function that is computed over the subsets of a finite set, one element at a
\* time, exists: what a fold of the model computes is well-defined.
LEMMA FoldExists ==
  ASSUME NEW S, NEW W, NEW base, NEW step, NEW ch, Foldable(S, W, base, step, ch)
  PROVE  Folded(S, W, base, step, ch)
<1> USE DEF Foldable
<1> DEFINE Upto(n) == {s \in SUBSET S : Cardinality(s) <= n}
           Goes(n) == \E it \in [Upto(n) -> W] :
                        it = [s \in Upto(n) |-> IF s = {} THEN base ELSE step[ch[s], it[s \ {ch[s]}]]]
           Z == {s \in SUBSET S : Goes(Cardinality(s))}
<1>c. \A s \in SUBSET S : IsFiniteSet(s) /\ Cardinality(s) \in Nat
  BY FS_Subset, FS_CardinalityType
<1>e. \A s \in SUBSET S : Cardinality(s) = 0 <=> s = {}
  BY <1>c, FS_EmptySet
<1>r. \A s \in SUBSET S : \A x \in s : Cardinality(s \ {x}) = Cardinality(s) - 1
  BY <1>c, FS_RemoveElement
<1>1. Goes(0)
  <2> DEFINE it == [s \in Upto(0) |-> base]
  <2>1. \A s \in Upto(0) : s = {}
    BY <1>c, <1>e
  <2> QED BY <2>1
<1>2. ASSUME NEW n \in Nat, Goes(n) PROVE Goes(n + 1)
  <2>1. PICK h \in [Upto(n) -> W] :
             h = [s \in Upto(n) |-> IF s = {} THEN base ELSE step[ch[s], h[s \ {ch[s]}]]]
    BY <1>2
  <2>0. \A s \in Upto(n) : h[s] = IF s = {} THEN base ELSE step[ch[s], h[s \ {ch[s]}]]
    BY <2>1
  <2>2. \A s \in Upto(n + 1) : s # {} => /\ ch[s] \in S /\ s \ {ch[s]} \in Upto(n)
    <3> TAKE s \in Upto(n + 1)
    <3> HAVE s # {}
    <3>1. ch[s] \in s /\ s \subseteq S
      OBVIOUS
    <3>2. Cardinality(s \ {ch[s]}) = Cardinality(s) - 1
      BY <1>r, <3>1
    <3> QED BY <1>c, <3>1, <3>2
  <2> HIDE DEF Upto
  <2> DEFINE it == [s \in Upto(n + 1) |-> IF s = {} THEN base ELSE step[ch[s], h[s \ {ch[s]}]]]
  <2>3. it \in [Upto(n + 1) -> W]
    BY <2>2
  <2>4. \A s \in Upto(n) : s \in Upto(n + 1) /\ it[s] = h[s]
    <3> TAKE s \in Upto(n)
    <3>1. s \in Upto(n + 1)
      BY <1>c DEF Upto
    <3> QED BY <2>0, <3>1
  <2>5. it = [s \in Upto(n + 1) |-> IF s = {} THEN base ELSE step[ch[s], it[s \ {ch[s]}]]]
    BY <2>2, <2>4
  <2> HIDE DEF it
  <2> QED BY <2>3, <2>5
<1>3. SUBSET S \subseteq Z
  <2> HIDE DEF Goes
  <2>1. ASSUME NEW s \in SUBSET S, \A t \in SUBSET s : t # s => t \in Z PROVE s \in Z
    <3>1. CASE s = {}
      BY <1>1, <1>e, <3>1
    <3>2. CASE s # {}
      <4>1. PICK x \in s : TRUE
        BY <3>2
      <4>2. s \ {x} \in Z
        BY <2>1, <4>1
      <4>3. Cardinality(s \ {x}) = Cardinality(s) - 1 /\ Cardinality(s \ {x}) \in Nat /\ Cardinality(s) \in Nat
        BY <1>c, <1>r, <4>1
      <4>4. Goes(Cardinality(s \ {x}) + 1)
        BY <1>2, <4>2, <4>3
      <4> QED BY <4>3, <4>4
    <3> QED BY <3>1, <3>2
  <2> HIDE DEF Z
  <2> QED BY <2>1, SubsetsInduction
<1>4. Goes(Cardinality(S))
  BY <1>3
<1>5. Upto(Cardinality(S)) = SUBSET S
  BY FS_Subset
<1> HIDE DEF Upto
<1>6. PICK it \in [Upto(Cardinality(S)) -> W] :
         it = [s \in Upto(Cardinality(S)) |-> IF s = {} THEN base ELSE step[ch[s], it[s \ {ch[s]}]]]
  BY <1>4
<1>7. it \in [SUBSET S -> W] /\ \A s \in SUBSET S : it[s] = IF s = {} THEN base ELSE step[ch[s], it[s \ {ch[s]}]]
  BY <1>5, <1>6
<1> QED BY <1>7 DEF Folded

\* What such a function computes stays in the sets V that each of its steps stays in.
LEMMA FoldStays ==
  ASSUME NEW S, IsFiniteSet(S), NEW V, NEW it,
         \A s \in SUBSET S : (\A t \in SUBSET s : t # s => it[t] \in V[t]) => it[s] \in V[s]
  PROVE  \A s \in SUBSET S : it[s] \in V[s]
<1> DEFINE Z == {s \in SUBSET S : it[s] \in V[s]}
<1>1. ASSUME NEW s \in SUBSET S, \A t \in SUBSET s : t # s => t \in Z PROVE s \in Z
  BY <1>1
<1> HIDE DEF Z
<1>2. SUBSET S \subseteq Z
  BY <1>1, SubsetsInduction
<1> QED BY <1>2 DEF Z

-----------------------------------------------------------------------------
\* the fold over T, starting from x (MapThenFoldSet)
Fold(a, b, x, T) ==
  (CHOOSE it : it = [s \in SUBSET T |-> IF s = {} THEN x
                       ELSE F(a, b, Pick(s), it[s \ {Pick(s)}])])[T]

Picks(T) == IsFiniteSet(T) /\ \A s \in SUBSET T : s # {} => Pick(s) \in s

\* Each step stays in Worlds, and, from the set V has for the elements before, in the
\* one it has for those and the element.
Keeps(a, b, T, Worlds, V) ==
  /\ \A g \in T : \A y \in Worlds : F(a, b, g, y) \in Worlds
  /\ \A s \in SUBSET T : \A g \in s : \A y \in V[s \ {g}] : F(a, b, g, y) \in V[s]

\* A fold ends where its steps lead.
LEMMA FoldKeeps ==
  ASSUME NEW a, NEW b, NEW T, NEW Worlds, NEW V, NEW x \in Worlds, x \in V[{}],
         Picks(T), Keeps(a, b, T, Worlds, V)
  PROVE  Fold(a, b, x, T) \in V[T]
<1> USE DEF Keeps, Picks
<1> DEFINE ch == [s \in SUBSET T |-> Pick(s)]
           step == [p \in T \X Worlds |-> F(a, b, p[1], p[2])]
           Is(it) == it = [s \in SUBSET T |-> IF s = {} THEN x
                             ELSE F(a, b, Pick(s), it[s \ {Pick(s)}])]
<1>1. \A s \in SUBSET T : s # {} => ch[s] \in s /\ ch[s] = Pick(s)
  OBVIOUS
<1>2. step \in [T \X Worlds -> Worlds]
  OBVIOUS
<1>3. \A g \in T : \A y \in Worlds : step[g, y] = F(a, b, g, y)
  OBVIOUS
<1> HIDE DEF step
<1>4. PICK it \in [SUBSET T -> Worlds] : \A s \in SUBSET T :
         it[s] = IF s = {} THEN x ELSE step[ch[s], it[s \ {ch[s]}]]
  <2>1. \A s \in SUBSET T : s # {} => ch[s] \in s
    BY <1>1
  <2> HIDE DEF ch
  <2>2. Foldable(T, Worlds, x, step, ch)
    BY <2>1, <1>2 DEF Foldable
  <2>3. Folded(T, Worlds, x, step, ch)
    BY <2>2, FoldExists
  <2> QED BY <2>3 DEF Folded
<1>5. Is(it)
  <2> DEFINE jt == [s \in SUBSET T |-> IF s = {} THEN x
                             ELSE F(a, b, Pick(s), it[s \ {Pick(s)}])]
  <2>1. \A s \in SUBSET T : it[s] = jt[s]
    <3> TAKE s \in SUBSET T
    <3>1. CASE s = {}
      BY <1>4, <3>1
    <3>2. CASE s # {}
      <4>1. ch[s] \in s /\ ch[s] = Pick(s) /\ ch[s] \in T
        BY <1>1, <3>2
      <4>2. it[s] = step[ch[s], it[s \ {ch[s]}]]
        BY <1>4, <3>2
      <4>3. it[s \ {ch[s]}] \in Worlds
        OBVIOUS
      <4> HIDE DEF ch
      <4>4. it[s] = F(a, b, ch[s], it[s \ {ch[s]}])
        BY <1>3, <4>1, <4>2, <4>3
      <4> QED BY <3>2, <4>1, <4>4
    <3> QED BY <3>1, <3>2
  <2> HIDE DEF jt
  <2>2. it = jt
    <3>1. jt = [s \in SUBSET T |-> jt[s]]
      BY DEF jt
    <3>2. it = [s \in SUBSET T |-> it[s]]
      OBVIOUS
    <3> QED BY <2>1, <3>1, <3>2
  <2> QED BY <2>2 DEF jt
<1>7. Is(CHOOSE f : Is(f))
  BY <1>5
<1> DEFINE f == CHOOSE f : Is(f)
<1>8. \A s \in SUBSET T : f[s] = IF s = {} THEN x
                             ELSE F(a, b, Pick(s), f[s \ {Pick(s)}])
  <2> HIDE DEF f
  <2>1. Is(f)
    BY <1>7 DEF f
  <2> QED BY <2>1
<1> HIDE DEF f
<1>9. \A s \in SUBSET T : f[s] \in V[s]
  <2>1. ASSUME NEW s \in SUBSET T, \A t \in SUBSET s : t # s => f[t] \in V[t] PROVE f[s] \in V[s]
    <3>1. CASE s = {}
      BY <1>8, <3>1
    <3>2. CASE s # {}
      <4> DEFINE g == Pick(s)
      <4>1. g \in s
        BY <3>2
      <4>2. f[s] = F(a, b, g, f[s \ {g}])
        BY <1>8, <3>2
      <4> HIDE DEF g
      <4>3. f[s \ {g}] \in V[s \ {g}] /\ g \in T
        BY <2>1, <4>1
      <4>4. \A h \in s : \A y \in V[s \ {h}] : F(a, b, h, y) \in V[s]
        OBVIOUS
      <4>5. F(a, b, g, f[s \ {g}]) \in V[s]
        BY <4>1, <4>3, <4>4
      <4> QED BY <4>2, <4>5
    <3> QED BY <3>1, <3>2
  <2> QED BY <2>1, FoldStays
<1> QED BY <1>9 DEF f, Fold

Closed(a, b, T, Worlds) == \A g \in T : \A y \in Worlds : F(a, b, g, y) \in Worlds

\* A fold does not leave what none of its steps leaves.
LEMMA FoldClosed ==
  ASSUME NEW a, NEW b, NEW T, NEW Worlds, NEW x \in Worlds, Picks(T), Closed(a, b, T, Worlds)
  PROVE  Fold(a, b, x, T) \in Worlds
<1> DEFINE V == [s \in SUBSET T |-> Worlds]
<1>1. x \in V[{}] /\ V[T] = Worlds
  OBVIOUS
<1>2. Keeps(a, b, T, Worlds, V)
  BY DEF Keeps, Closed
<1> HIDE DEF V
<1> QED BY <1>1, <1>2, FoldKeeps
=============================================================================
