--------------------------- MODULE EObjectProofs ----------------------------
(***************************************************************************)
(* Proofs about EObject: its count is right, what is freed is referred to  *)
(* by nobody, no idle enterer is taken back that is gone, and the object   *)
(* implements Lifetime, for any number of listeners and of holders.        *)
(***************************************************************************)
EXTENDS EObject, SequenceTheorems, TLAPS

-----------------------------------------------------------------------------
(* The list.                                                               *)

\* no entry twice
Once(s) == \A i, j \in 1 .. Len(s) : i # j => s[i] # s[j]

LEMMA ToSetMembers ==
  ASSUME NEW S, NEW s \in Seq(S)
  PROVE  /\ ToSet(s) = {s[i] : i \in 1 .. Len(s)}
         /\ ToSet(s) \subseteq S
BY LenProperties, ElementOfSeq DEF ToSet

\* The walk takes the first entry: the rest is the list without it.
LEMMA TailOfOnce ==
  ASSUME NEW S, NEW s \in Seq(S), s # <<>>, Once(s)
  PROVE  /\ Tail(s) \in Seq(S) /\ Once(Tail(s))
         /\ Head(s) \in S /\ Head(s) \in ToSet(s)
         /\ ToSet(Tail(s)) = ToSet(s) \ {Head(s)}
<1>1. /\ Tail(s) \in Seq(S) /\ Head(s) = s[1] /\ Len(s) \in Nat /\ Len(s) > 0
      /\ Len(Tail(s)) = Len(s) - 1
      /\ \A i \in 1 .. Len(Tail(s)) : Tail(s)[i] = s[i + 1]
  BY HeadTailProperties, EmptySeq, LenProperties
<1>2. Once(Tail(s))
  BY <1>1 DEF Once
<1>3. /\ ToSet(s) = {s[i] : i \in 1 .. Len(s)}
      /\ ToSet(Tail(s)) = {Tail(s)[i] : i \in 1 .. Len(Tail(s))}
      /\ ToSet(s) \subseteq S
  BY <1>1, ToSetMembers
<1>4. ToSet(Tail(s)) \subseteq ToSet(s) \ {Head(s)}
  <2> SUFFICES ASSUME NEW i \in 1 .. Len(Tail(s))
               PROVE  Tail(s)[i] \in ToSet(s) \ {Head(s)}
    BY <1>3
  <2>1. i + 1 \in 1 .. Len(s) /\ i + 1 # 1 /\ 1 \in 1 .. Len(s)
    BY <1>1
  <2> QED BY <2>1, <1>1, <1>3 DEF Once
<1>5. ToSet(s) \ {Head(s)} \subseteq ToSet(Tail(s))
  <2> SUFFICES ASSUME NEW i \in 1 .. Len(s), s[i] # Head(s)
               PROVE  s[i] \in ToSet(Tail(s))
    BY <1>3
  <2>1. i - 1 \in 1 .. Len(Tail(s)) /\ Tail(s)[i - 1] = s[i]
    BY <1>1
  <2> QED BY <2>1, <1>3
<1> QED BY <1>1, <1>2, <1>3, <1>4, <1>5

\* A new entry goes to the end.
LEMMA AppendToOnce ==
  ASSUME NEW S, NEW s \in Seq(S), NEW e \in S, Once(s), e \notin ToSet(s)
  PROVE  /\ Append(s, e) \in Seq(S) /\ Once(Append(s, e))
         /\ ToSet(Append(s, e)) = ToSet(s) \cup {e}
<1>1. /\ Append(s, e) \in Seq(S) /\ Len(Append(s, e)) = Len(s) + 1 /\ Len(s) \in Nat
      /\ \A i \in 1 .. Len(s) : Append(s, e)[i] = s[i]
      /\ Append(s, e)[Len(s) + 1] = e
  BY AppendProperties, LenProperties
<1>2. /\ ToSet(s) = {s[i] : i \in 1 .. Len(s)}
      /\ ToSet(Append(s, e)) = {Append(s, e)[i] : i \in 1 .. (Len(s) + 1)}
  BY <1>1, ToSetMembers
<1>3. Once(Append(s, e))
  <2> SUFFICES ASSUME NEW i \in 1 .. Len(s) + 1, NEW j \in 1 .. Len(s) + 1, i # j
               PROVE  Append(s, e)[i] # Append(s, e)[j]
    BY <1>1 DEF Once
  <2>1. CASE i = Len(s) + 1
    <3>1. j \in 1 .. Len(s)
      BY <2>1, <1>1
    <3>2. s[j] \in ToSet(s)
      BY <3>1, <1>2
    <3> QED BY <3>1, <3>2, <2>1, <1>1
  <2>2. CASE j = Len(s) + 1
    <3>1. i \in 1 .. Len(s)
      BY <2>2, <1>1
    <3>2. s[i] \in ToSet(s)
      BY <3>1, <1>2
    <3> QED BY <3>1, <3>2, <2>2, <1>1
  <2>3. CASE i # Len(s) + 1 /\ j # Len(s) + 1
    <3>1. i \in 1 .. Len(s) /\ j \in 1 .. Len(s)
      BY <2>3, <1>1
    <3> QED BY <3>1, <1>1 DEF Once
  <2> QED BY <2>1, <2>2, <2>3
<1>4. ToSet(Append(s, e)) = ToSet(s) \cup {e}
  <2>1. ToSet(Append(s, e)) \subseteq ToSet(s) \cup {e}
    <3> SUFFICES ASSUME NEW i \in 1 .. Len(s) + 1
                 PROVE  Append(s, e)[i] \in ToSet(s) \cup {e}
      BY <1>2
    <3>1. CASE i = Len(s) + 1
      BY <3>1, <1>1
    <3>2. CASE i \in 1 .. Len(s)
      BY <3>2, <1>1, <1>2
    <3> QED BY <3>1, <3>2, <1>1
  <2>2. e \in ToSet(Append(s, e))
    <3>1. Len(s) + 1 \in 1 .. Len(s) + 1
      BY <1>1
    <3> QED BY <3>1, <1>1, <1>2
  <2>3. ToSet(s) \subseteq ToSet(Append(s, e))
    <3> SUFFICES ASSUME NEW i \in 1 .. Len(s) PROVE s[i] \in ToSet(Append(s, e))
      BY <1>2
    <3>1. i \in 1 .. Len(s) + 1 /\ Append(s, e)[i] = s[i]
      BY <1>1
    <3> QED BY <3>1, <1>2
  <2> QED BY <2>1, <2>2, <2>3
<1> QED BY <1>1, <1>3, <1>4

\* What is left when one entry leaves is part of the list.
LEMMA RemoveFromOnce ==
  ASSUME NEW S, NEW s \in Seq(S), NEW i \in 1 .. Len(s), Once(s)
  PROVE  /\ RemoveAt(s, i) \in Seq(S) /\ Once(RemoveAt(s, i))
         /\ ToSet(RemoveAt(s, i)) \subseteq ToSet(s)
<1> DEFINE p == SubSeq(s, 1, i - 1)
           r == SubSeq(s, i + 1, Len(s))
<1>1. Len(s) \in Nat /\ \A k \in 1 .. Len(s) : s[k] \in S
  BY LenProperties, ElementOfSeq
<1>2. RemoveAt(s, i) = p \o r
  BY DEF RemoveAt
<1>3. /\ p \in Seq(S) /\ Len(p) = i - 1
      /\ \A k \in 1 .. (i - 1) : p[k] = s[k]
  <2>1. 1 \in Int /\ i - 1 \in Int /\ \A k \in 1 .. (i - 1) : s[k] \in S
    BY <1>1
  <2>2. /\ p \in Seq(S) /\ Len(p) = IF 1 <= i - 1 THEN (i - 1) - 1 + 1 ELSE 0
        /\ \A k \in 1 .. ((i - 1) - 1 + 1) : p[k] = s[1 + k - 1]
    BY <2>1, SubSeqProperties
  <2> QED BY <2>2, <1>1
<1>4. /\ r \in Seq(S) /\ Len(r) = Len(s) - i
      /\ \A k \in 1 .. (Len(s) - i) : r[k] = s[k + i]
  <2>1. i + 1 \in Int /\ Len(s) \in Int /\ \A k \in (i + 1) .. Len(s) : s[k] \in S
    BY <1>1
  <2>2. /\ r \in Seq(S)
        /\ Len(r) = IF i + 1 <= Len(s) THEN Len(s) - (i + 1) + 1 ELSE 0
        /\ \A k \in 1 .. (Len(s) - (i + 1) + 1) : r[k] = s[(i + 1) + k - 1]
    BY <2>1, SubSeqProperties
  <2> QED BY <2>2, <1>1
<1> HIDE DEF p, r
<1>5. /\ p \o r \in Seq(S) /\ Len(p \o r) = Len(s) - 1
      /\ \A k \in 1 .. (Len(s) - 1) : (p \o r)[k] = IF k < i THEN s[k] ELSE s[k + 1]
  <2>1. /\ p \o r \in Seq(S) /\ Len(p \o r) = Len(p) + Len(r)
        /\ \A k \in 1 .. (Len(p) + Len(r)) :
             (p \o r)[k] = IF k <= Len(p) THEN p[k] ELSE r[k - Len(p)]
    BY <1>3, <1>4, ConcatProperties
  <2>2. Len(p) + Len(r) = Len(s) - 1 /\ i \in Int
    BY <1>1, <1>3, <1>4
  <2>3. \A k \in 1 .. (Len(s) - 1) : (p \o r)[k] = IF k < i THEN s[k] ELSE s[k + 1]
    <3> SUFFICES ASSUME NEW k \in 1 .. (Len(s) - 1)
                 PROVE  (p \o r)[k] = IF k < i THEN s[k] ELSE s[k + 1]
      OBVIOUS
    <3>1. CASE k < i
      <4>1. k \in 1 .. (i - 1) /\ k <= Len(p) /\ k \in 1 .. (Len(p) + Len(r))
        BY <3>1, <2>2, <1>1, <1>3
      <4> QED BY <4>1, <3>1, <2>1, <1>3
    <3>2. CASE ~(k < i)
      <4>1. /\ k - Len(p) \in 1 .. (Len(s) - i) /\ k - Len(p) + i = k + 1
            /\ ~(k <= Len(p)) /\ k \in 1 .. (Len(p) + Len(r))
        BY <3>2, <2>2, <1>1, <1>3
      <4>2. r[k - Len(p)] = s[k + 1]
        BY <4>1, <1>4
      <4> QED BY <4>1, <4>2, <3>2, <2>1
    <3> QED BY <3>1, <3>2
  <2> QED BY <2>1, <2>2, <2>3
<1>6. Once(p \o r)
  <2> SUFFICES ASSUME NEW k \in 1 .. Len(s) - 1, NEW m \in 1 .. Len(s) - 1, k # m
               PROVE  (p \o r)[k] # (p \o r)[m]
    BY <1>5 DEF Once
  <2>1. PICK a, b \in 1 .. Len(s) :
          a # b /\ (p \o r)[k] = s[a] /\ (p \o r)[m] = s[b]
    <3> DEFINE At(x) == IF x < i THEN x ELSE x + 1
    <3>1. At(k) \in 1 .. Len(s) /\ At(m) \in 1 .. Len(s) /\ At(k) # At(m)
      BY <1>1
    <3>2. (p \o r)[k] = s[At(k)] /\ (p \o r)[m] = s[At(m)]
      BY <1>5
    <3> HIDE DEF At
    <3> QED BY <3>1, <3>2
  <2> QED BY <2>1 DEF Once
<1>7. ToSet(p \o r) \subseteq ToSet(s)
  <2>1. /\ ToSet(s) = {s[k] : k \in 1 .. Len(s)}
        /\ ToSet(p \o r) = {(p \o r)[k] : k \in 1 .. Len(s) - 1}
    BY <1>5, ToSetMembers
  <2> SUFFICES ASSUME NEW k \in 1 .. Len(s) - 1 PROVE (p \o r)[k] \in ToSet(s)
    BY <2>1
  <2>2. /\ k \in 1 .. Len(s) /\ k + 1 \in 1 .. Len(s)
        /\ (p \o r)[k] = IF k < i THEN s[k] ELSE s[k + 1]
    BY <1>1, <1>5
  <2> QED BY <2>1, <2>2
<1> QED BY <1>2, <1>5, <1>6, <1>7

-----------------------------------------------------------------------------
(* The invariant.                                                          *)

\* nobody who was called is still in the list
ListedOnce == Once(list) /\ ToSet(list) \cap told = {}

\* while no walk goes on somebody has a reference
SomebodyHolds == memory = "there" /\ ~walking => references > 0

\* An enterer that nothing has cleared is in the list, and one that is in the list
\* and is gone has deleted the object, which others hold.
Entries ==
  /\ class # "dialog" => idlers = {}
  /\ class = "dialog" => events = 0 /\ ~job
  /\ idlers \subseteq ToSet(list) \cup cleared
  /\ class = "dialog" /\ walking => ToSet(list) \subseteq idlers
  /\ class = "dialog" /\ memory = "there" /\ ~deleted => ToSet(list) \subseteq idlers
  /\ job => deleted

\* the two parts of the type invariant
Flags ==
  /\ deleted \in BOOLEAN /\ job \in BOOLEAN /\ walking \in BOOLEAN /\ stale \in BOOLEAN

Data ==
  /\ class \in Class /\ memory \in {"there", "freed"}
  /\ references \in Nat /\ holds \in 0 .. MaxHolds /\ events \in Nat
  /\ list \in Seq(Listener)
  /\ idlers \subseteq Listener /\ cleared \subseteq Listener /\ told \subseteq Listener

LEMMA TypeParts == TypeOK <=> Flags /\ Data
BY DEF TypeOK, Flags, Data

Inv ==
  /\ TypeOK /\ CountIsRight /\ FreedUnseen /\ NoStaleIdler
  /\ ListedOnce /\ SomebodyHolds /\ Entries

LEMMA EmptyListed == Once(<<>>) /\ ToSet(<<>>) = {} /\ \A S : <<>> \in Seq(S)
BY DEF Once, ToSet

LEMMA InitInv == Init => Inv
<1> SUFFICES ASSUME Init PROVE Inv
  OBVIOUS
<1> USE ObjectAssumption DEF Init, Class
<1>1. CASE class = "client"
  <2>1. PICK l \in Listener : list = <<l>> /\ events = 1 /\ references = 2
    BY <1>1
  <2>2. list \in Seq(Listener) /\ Len(list) = 1 /\ Once(list)
    BY <2>1 DEF Once
  <2>3. Flags
    BY Zenon DEF Flags
  <2>4. Data
    BY <2>1, <2>2 DEF Data
  <2> QED BY <1>1, <2>1, <2>2, <2>3, <2>4, TypeParts
        DEF Inv, CountIsRight, FreedUnseen, NoStaleIdler, ListedOnce, SomebodyHolds,
            Entries, Grips, OwnersGrip
<1>2. CASE class # "client"
  <2>1. list = <<>> /\ events = 0 /\ references = 1
    BY <1>2
  <2>2. Flags
    BY Zenon DEF Flags
  <2>3. Data
    BY <2>1, EmptyListed DEF Data
  <2> QED BY <2>1, <2>2, <2>3, EmptyListed, TypeParts
        DEF Inv, CountIsRight, FreedUnseen, NoStaleIdler, ListedOnce, SomebodyHolds,
            Entries, Grips, OwnersGrip
<1> QED BY <1>1, <1>2

\* Nothing that happens outside a walk lets a reference go that is not counted.
LEMMA DelKeepsCount ==
  ASSUME Inv, Turn, Del, UNCHANGED <<list, holds>>
  PROVE  /\ references' \in Nat /\ events' \in Nat
         /\ deleted' \in BOOLEAN /\ job' \in BOOLEAN /\ walking' \in BOOLEAN
         /\ references' = Grips' /\ (~walking' => references' > 0)
         /\ job' => deleted'
         /\ class = "dialog" => events' = 0 /\ ~job'
         /\ walking' => ~deleted
         /\ deleted => deleted' /\ UNCHANGED references
<1> USE DEF Inv, TypeOK, Turn
<1>1. references = Grips /\ references > 0
  BY DEF CountIsRight, SomebodyHolds
<1>2. CASE deleted
  BY <1>1, <1>2 DEF Del, Grips, OwnersGrip, Entries
<1>3. CASE ~deleted /\ class = "window"
  BY <1>1, <1>3 DEF Del, Grips, OwnersGrip, Entries
<1>4. CASE ~deleted /\ class # "window"
  <2>1. PICK taken \in TakenByDel :
          events' = events + taken /\ Unref(references + taken - 1)
    BY <1>4 DEF Del
  <2>2. taken \in {0, 1} /\ (class = "dialog" => taken = 0)
    BY DEF TakenByDel
  <2>3. deleted' = TRUE /\ job' = job /\ job = FALSE
    BY <1>4 DEF Del, Entries
  <2>4. /\ references' = references + taken - 1 /\ walking' \in BOOLEAN
        /\ ~walking' => references + taken - 1 # 0
        /\ holds' = holds
    BY <2>1, Zenon DEF Unref
  <2>5. references' \in Nat /\ events' \in Nat /\ (~walking' => references' > 0)
    BY <1>1, <2>1, <2>2, <2>4
  <2>6. references' = Grips'
    BY <1>1, <1>4, <2>1, <2>2, <2>3, <2>4 DEF Grips, OwnersGrip
  <2> QED BY <1>4, <2>1, <2>2, <2>3, <2>4, <2>5, <2>6 DEF Entries
<1> QED BY <1>2, <1>3, <1>4

LEMMA StepInv == Inv /\ [Next]_vars => Inv'
<1> SUFFICES ASSUME Inv, [Next]_vars PROVE Inv'
  OBVIOUS
<1> USE ObjectAssumption DEF Inv
<1>1. CASE Delete
  <2>1. UNCHANGED <<class, memory, told, stale, list, holds, idlers, cleared>> /\ Turn
    BY <1>1 DEF Delete, Turn
  <2>2. /\ references' \in Nat /\ events' \in Nat
        /\ deleted' \in BOOLEAN /\ job' \in BOOLEAN /\ walking' \in BOOLEAN
        /\ references' = Grips' /\ (~walking' => references' > 0)
        /\ job' => deleted'
        /\ class = "dialog" => events' = 0 /\ ~job'
        /\ walking' => ~deleted
        /\ deleted => deleted' /\ UNCHANGED references
    BY <1>1, <2>1, DelKeepsCount DEF Delete
  <2>3. TypeOK'
    BY <2>1, <2>2 DEF TypeOK
  <2>4. CountIsRight' /\ FreedUnseen' /\ NoStaleIdler' /\ ListedOnce' /\ SomebodyHolds'
    BY <2>1, <2>2 DEF CountIsRight, FreedUnseen, NoStaleIdler, ListedOnce, SomebodyHolds, Turn
  <2>5. Entries'
    BY <2>1, <2>2 DEF Entries, Turn
  <2> QED BY <2>3, <2>4, <2>5
<1>2. CASE JobRuns
  <2>1. /\ UNCHANGED <<class, memory, told, stale, deleted, list, holds, events, idlers, cleared>>
        /\ memory = "there" /\ ~walking /\ job /\ job' = FALSE /\ deleted
        /\ references' = references - 1 /\ walking' \in BOOLEAN
        /\ ~walking' => references - 1 # 0
    BY <1>2, Zenon DEF JobRuns, Turn, Unref, Entries
  <2>2. references = Grips /\ references > 0
    BY <2>1 DEF CountIsRight, SomebodyHolds
  <2>3. TypeOK'
    <3>1. Flags'
      BY <2>1, Zenon DEF Flags, TypeOK
    <3>2. Data'
      BY <2>1, <2>2 DEF Data, TypeOK
    <3> QED BY <3>1, <3>2 DEF TypeOK, Flags, Data
  <2>4. CountIsRight' /\ SomebodyHolds'
    BY <2>1, <2>2 DEF TypeOK, CountIsRight, SomebodyHolds, Grips, OwnersGrip
  <2>5. FreedUnseen' /\ NoStaleIdler' /\ ListedOnce' /\ Entries'
    BY <2>1 DEF FreedUnseen, NoStaleIdler, ListedOnce, Entries
  <2> QED BY <2>3, <2>4, <2>5
<1>3. CASE Hold
  BY <1>3 DEF Hold, Turn, TypeOK, CountIsRight, FreedUnseen, NoStaleIdler,
              ListedOnce, SomebodyHolds, Entries, Grips, OwnersGrip
<1>4. CASE Release
  <2>1. /\ UNCHANGED <<class, memory, told, stale, deleted, job, events, idlers>> /\ Turn
        /\ holds > 0 /\ holds' = holds - 1
        /\ references' = references - 1 /\ walking' = (references - 1 = 0)
    BY <1>4 DEF Release, Turn, Unref
  <2>2. \/ class = "dialog" /\ list' = <<>> /\ cleared' = cleared \cup idlers
        \/ class # "dialog" /\ UNCHANGED <<list, cleared>>
    BY <1>4 DEF Release, Clears
  <2>3. references = Grips /\ references > 0
    BY <2>1 DEF CountIsRight, SomebodyHolds, Turn
  <2>4. list' \in Seq(Listener) /\ Once(list') /\ ToSet(list') \cap told = {}
    BY <2>2, EmptyListed DEF TypeOK, ListedOnce
  <2>5. TypeOK'
    BY <2>1, <2>2, <2>3, <2>4 DEF TypeOK
  <2>6. CountIsRight' /\ FreedUnseen' /\ NoStaleIdler' /\ ListedOnce' /\ SomebodyHolds'
    BY <2>1, <2>3, <2>4, <2>5 DEF TypeOK, CountIsRight, FreedUnseen, NoStaleIdler,
       ListedOnce, SomebodyHolds, Turn, Grips, OwnersGrip
  <2>7. Entries'
    <3>1. CASE class = "dialog"
      BY <2>1, <2>2, <3>1, EmptyListed DEF Entries
    <3>2. CASE class # "dialog"
      BY <2>1, <2>2, <3>2 DEF Entries
    <3> QED BY <3>1, <3>2
  <2> QED BY <2>5, <2>6, <2>7
<1>5. CASE EventFreed
  BY <1>5 DEF EventFreed, Turn, Unref, TypeOK, CountIsRight, FreedUnseen, NoStaleIdler,
              ListedOnce, SomebodyHolds, Entries, Grips, OwnersGrip
<1>6. CASE WalkCalls
  <2>1. /\ UNCHANGED <<class, memory, deleted, job, walking, holds, cleared>>
        /\ walking /\ list # <<>> /\ list' = Tail(list) /\ told' = told \cup {Head(list)}
        /\ memory = "there" /\ list \in Seq(Listener) /\ Once(list)
    BY <1>6 DEF WalkCalls, Called, FreedUnseen, TypeOK, ListedOnce
  <2>2. /\ list' \in Seq(Listener) /\ Once(list')
        /\ Head(list) \in Listener /\ Head(list) \in ToSet(list)
        /\ ToSet(list') = ToSet(list) \ {Head(list)}
    BY <2>1, TailOfOnce
  <2>3. \/ /\ class = "client" /\ references' = references + 1 /\ events' = events + 1
           /\ UNCHANGED <<idlers, stale>>
        \/ /\ class = "dialog" /\ UNCHANGED <<references, events>>
           /\ idlers' = idlers \ {Head(list)} /\ stale' = (stale \/ Head(list) \notin idlers)
        \/ class \notin {"client", "dialog"} /\ UNCHANGED <<references, events, idlers, stale>>
    BY <1>6 DEF WalkCalls, Called
  <2>4. TypeOK'
    <3>1. stale' \in BOOLEAN
      BY <2>3, Zenon DEF TypeOK
    <3>2. Flags'
      BY <2>1, <3>1, Zenon DEF Flags, TypeOK
    <3>3. Data'
      BY <2>1, <2>2, <2>3 DEF Data, TypeOK
    <3> QED BY <3>2, <3>3 DEF TypeOK, Flags, Data
  <2>5. CountIsRight' /\ FreedUnseen' /\ SomebodyHolds'
    BY <2>1, <2>3 DEF TypeOK, CountIsRight, FreedUnseen, SomebodyHolds, Grips, OwnersGrip
  <2>6. NoStaleIdler'
    BY <2>1, <2>2, <2>3 DEF NoStaleIdler, Entries
  <2>7. ListedOnce'
    BY <2>1, <2>2 DEF ListedOnce
  <2>8. Entries'
    BY <2>1, <2>2, <2>3 DEF Entries
  <2> QED BY <2>4, <2>5, <2>6, <2>7, <2>8
<1>7. CASE WalkEnds
  <2>1. /\ UNCHANGED <<class, references, deleted, job, list, others>>
        /\ walking /\ list = <<>> /\ walking' = FALSE /\ memory = "there"
        /\ memory' = IF references > 0 THEN "there" ELSE "freed"
        /\ references = Grips
    BY <1>7 DEF WalkEnds, FreedUnseen, CountIsRight, TypeOK
  <2>2. TypeOK' /\ CountIsRight' /\ NoStaleIdler' /\ ListedOnce' /\ SomebodyHolds'
    BY <2>1 DEF others, TypeOK, CountIsRight, NoStaleIdler, ListedOnce, SomebodyHolds,
       Grips, OwnersGrip
  <2>3. FreedUnseen'
    BY <2>1, EmptyListed DEF others, TypeOK, FreedUnseen, Entries, Grips, OwnersGrip
  <2>4. Entries'
    BY <2>1 DEF others, Entries
  <2> QED BY <2>2, <2>3, <2>4
<1>8. ASSUME NEW l \in Listener, Listen(l) PROVE Inv'
  <2>1. /\ UNCHANGED <<class, memory, told, stale, references, deleted, job, walking>>
        /\ UNCHANGED <<holds, events, idlers, cleared>>
        /\ class # "dialog" /\ l \notin ToSet(list) /\ l \notin told
        /\ list' = Append(list, l)
    BY <1>8 DEF Listen, Turn
  <2>2. /\ list' \in Seq(Listener) /\ Once(list')
        /\ ToSet(list') = ToSet(list) \cup {l}
    BY <2>1, AppendToOnce DEF TypeOK, ListedOnce
  <2>3. TypeOK' /\ ListedOnce'
    BY <2>1, <2>2 DEF TypeOK, ListedOnce
  <2>4. CountIsRight' /\ FreedUnseen' /\ NoStaleIdler' /\ SomebodyHolds' /\ Entries'
    BY <2>1, <2>2 DEF CountIsRight, FreedUnseen, NoStaleIdler, SomebodyHolds, Entries,
       Grips, OwnersGrip
  <2> QED BY <2>3, <2>4
<1>9. ASSUME NEW l \in Listener, Defer(l) PROVE Inv'
  <2>1. /\ UNCHANGED <<class, memory, told, stale, references, deleted, job, walking>>
        /\ UNCHANGED <<holds, events>> /\ memory = "there" /\ ~walking
        /\ class = "dialog" /\ l \notin ToSet(list) /\ l \notin told
        /\ list' = Append(list, l) /\ idlers' = idlers \cup {l}
        /\ cleared' = cleared \ {l}
    BY <1>9 DEF Defer, Turn
  <2>2. /\ list' \in Seq(Listener) /\ Once(list')
        /\ ToSet(list') = ToSet(list) \cup {l}
    BY <2>1, AppendToOnce DEF TypeOK, ListedOnce
  <2>3. TypeOK' /\ ListedOnce'
    BY <2>1, <2>2 DEF TypeOK, ListedOnce
  <2>4. CountIsRight' /\ FreedUnseen' /\ NoStaleIdler' /\ SomebodyHolds' /\ Entries'
    BY <2>1, <2>2 DEF CountIsRight, FreedUnseen, NoStaleIdler, SomebodyHolds, Entries,
       Grips, OwnersGrip
  <2> QED BY <2>3, <2>4
<1>10. ASSUME NEW l \in Listener, IdlerRuns(l) PROVE Inv'
  <2>1. /\ UNCHANGED <<class, memory, told, stale, list, holds, cleared>> /\ Turn
        /\ l \in idlers /\ class = "dialog" /\ memory = "there"
        /\ idlers' = IF walking' THEN idlers ELSE idlers \ {l}
    BY <1>10 DEF IdlerRuns, Turn, Entries
  <2>2. /\ references' \in Nat /\ events' \in Nat
        /\ deleted' \in BOOLEAN /\ job' \in BOOLEAN /\ walking' \in BOOLEAN
        /\ references' = Grips' /\ (~walking' => references' > 0)
        /\ job' => deleted'
        /\ class = "dialog" => events' = 0 /\ ~job'
        /\ walking' => ~deleted
        /\ deleted => deleted' /\ UNCHANGED references
    BY <1>10, <2>1, DelKeepsCount DEF IdlerRuns
  <2>3. deleted' = TRUE
    BY <1>10 DEF IdlerRuns, Del, TypeOK
  <2>4. TypeOK'
    BY <2>1, <2>2 DEF TypeOK
  <2>5. CountIsRight' /\ FreedUnseen' /\ NoStaleIdler' /\ ListedOnce' /\ SomebodyHolds'
    BY <2>1, <2>2 DEF CountIsRight, FreedUnseen, NoStaleIdler, ListedOnce, SomebodyHolds
  <2>6. Entries'
    BY <2>1, <2>2, <2>3 DEF Entries
  <2> QED BY <2>4, <2>5, <2>6
<1>11. ASSUME NEW i \in DOMAIN list, Leave(i) PROVE Inv'
  <2>1. /\ UNCHANGED <<class, memory, told, stale, references, deleted, job, walking>>
        /\ UNCHANGED <<holds, events, idlers, cleared>>
        /\ class # "dialog" /\ list' = RemoveAt(list, i)
    BY <1>11 DEF Leave, Turn
  <2>2. list' \in Seq(Listener) /\ Once(list') /\ ToSet(list') \subseteq ToSet(list)
    <3>1. i \in 1 .. Len(list)
      BY LenProperties DEF TypeOK
    <3> QED BY <2>1, <3>1, RemoveFromOnce DEF TypeOK, ListedOnce
  <2>3. TypeOK' /\ ListedOnce'
    BY <2>1, <2>2 DEF TypeOK, ListedOnce
  <2>4. CountIsRight' /\ FreedUnseen' /\ NoStaleIdler' /\ SomebodyHolds' /\ Entries'
    BY <2>1, <2>2 DEF CountIsRight, FreedUnseen, NoStaleIdler, SomebodyHolds, Entries,
       Grips, OwnersGrip
  <2> QED BY <2>3, <2>4
<1>12. CASE UNCHANGED vars
  BY <1>12 DEF vars, object, others, TypeOK, CountIsRight, FreedUnseen, NoStaleIdler,
     ListedOnce, SomebodyHolds, Entries, Grips, OwnersGrip
<1> QED BY <1>1, <1>2, <1>3, <1>4, <1>5, <1>6, <1>7, <1>8, <1>9, <1>10, <1>11, <1>12
      DEF Next, Walk

LEMMA Invariance == Spec => []Inv
BY InitInv, StepInv, PTL DEF Spec

-----------------------------------------------------------------------------
(* Theorems.                                                               *)

\* Type correctness of objects of every class, for any number of listeners.
THEOREM ObjectTypeCorrect == Spec => []TypeOK
BY Invariance, PTL DEF Inv

\* However references, events, jobs and walks interleave, an object that is there
\* has as many references as there are who refer to it (e_object_ref, _unref, _del).
THEOREM CountAlwaysRight == Spec => []CountIsRight
BY Invariance, PTL DEF Inv

\* No event, holder or job refers to a freed object, and no idle enterer but one whose
\* entry was cleared (e_object_free, also when a listener takes a reference).
THEOREM FreedIsUnseen == Spec => []FreedUnseen
BY Invariance, PTL DEF Inv

\* The entry that e_util_defer_object_del leaves in the list never takes back an
\* enterer that is gone, because _apply_import_del clears the list first.
THEOREM EnterersTakenBackOnce == Spec => []NoStaleIdler
BY Invariance, PTL DEF Inv

LEMMA AbstractInit == Init => L!LifetimeInit
<1> SUFFICES ASSUME Init PROVE L!LifetimeInit
  OBVIOUS
<1>1. Inv
  BY InitInv
<1>2. Grips \in Nat \ {0}
  BY <1>1 DEF Init, Inv, CountIsRight, SomebodyHolds, TypeOK
<1>3. ToSet(list) \subseteq Listener
  BY <1>1, ToSetMembers DEF Inv, TypeOK
<1>4. told = {} /\ (memory = "freed") = FALSE
  BY DEF Init
<1> QED BY <1>2, <1>3, <1>4 DEF L!LifetimeInit

\* A step outside the walk is a step of those who use the object, whatever it does.
LEMMA TurnIsUse ==
  ASSUME Inv, Inv', Turn
  PROVE  L!Use
<1>1. memory = "there" /\ ~walking /\ memory' = "there" /\ told' = told
  BY DEF Turn
<1>2. Grips = references /\ references > 0 /\ Grips' \in Nat
  BY <1>1 DEF Inv, TypeOK, CountIsRight, SomebodyHolds
<1>3. ToSet(list') \subseteq Listener
  BY ToSetMembers DEF Inv, TypeOK
<1>4. ToSet(list)' \in SUBSET (Listener \ told)
  BY <1>1, <1>3 DEF Inv, ListedOnce
<1> QED BY <1>1, <1>2, <1>4 DEF L!Use

LEMMA AbstractStep == Inv /\ Inv' /\ [Next]_vars => [L!LifetimeNext]_(L!lifetimeVars)
<1> SUFFICES ASSUME Inv, Inv', [Next]_vars PROVE [L!LifetimeNext]_(L!lifetimeVars)
  OBVIOUS
<1>1. ASSUME Turn PROVE L!LifetimeNext
  BY <1>1, TurnIsUse DEF L!LifetimeNext
<1>2. CASE WalkCalls
  <2>1. /\ list # <<>> /\ list' = Tail(list) /\ told' = told \cup {Head(list)}
        /\ memory = "there" /\ memory' = memory /\ list \in Seq(Listener) /\ Once(list)
        /\ UNCHANGED <<class, deleted, job, holds>>
    BY <1>2 DEF WalkCalls, Called, Inv, FreedUnseen, TypeOK, ListedOnce
  <2>2. /\ Head(list) \in Listener /\ Head(list) \in ToSet(list)
        /\ ToSet(list') = ToSet(list) \ {Head(list)}
    BY <2>1, TailOfOnce
  <2>3. events' = events \/ events' = events + 1
    BY <1>2 DEF WalkCalls, Called
  <2>4. Grips' \in {Grips, Grips + 1}
    <3>1. OwnersGrip' = OwnersGrip /\ OwnersGrip \in Nat /\ holds' = holds
      BY <2>1 DEF OwnersGrip
    <3>2. events \in Nat /\ holds \in Nat
      BY ObjectAssumption DEF Inv, TypeOK
    <3> QED BY <3>1, <3>2, <2>3 DEF Grips
  <2>5. L!Tell(Head(list))
    BY <2>1, <2>2, <2>4 DEF L!Tell
  <2> QED BY <2>2, <2>5 DEF L!LifetimeNext
<1>3. CASE WalkEnds
  <2>1. /\ list = <<>> /\ list' = list /\ told' = told /\ memory = "there"
        /\ memory' = IF references > 0 THEN "there" ELSE "freed"
        /\ references = Grips /\ Grips' = Grips
    <3>1. /\ walking /\ list = <<>>
          /\ memory' = IF references > 0 THEN "there" ELSE "freed"
          /\ UNCHANGED <<references, deleted, job, list, holds, events, told>>
      BY <1>3 DEF WalkEnds, others
    <3>2. memory = "there"
      BY <3>1 DEF Inv, FreedUnseen, TypeOK
    <3>3. references = Grips
      BY <3>2 DEF Inv, CountIsRight
    <3>4. Grips' = Grips
      BY <3>1 DEF Grips, OwnersGrip
    <3> QED BY <3>1, <3>2, <3>3, <3>4
  <2>2. CASE references > 0
    BY <2>1, <2>2 DEF L!lifetimeVars
  <2>3. CASE ~(references > 0)
    <3>1. Grips = 0 /\ memory' = "freed"
      BY <2>1, <2>3 DEF Inv, TypeOK
    <3>2. L!Go
      BY <2>1, <3>1, EmptyListed DEF L!Go
    <3> QED BY <3>2 DEF L!LifetimeNext
  <2> QED BY <2>2, <2>3
<1>4. CASE UNCHANGED vars
  BY <1>4 DEF vars, object, others, L!lifetimeVars, Grips, OwnersGrip
<1> QED
  BY <1>1, <1>2, <1>3, <1>4
  DEF Next, Walk, Delete, JobRuns, Hold, Release, EventFreed, Listen, Leave, Defer, IdlerRuns

\* Every class of objects implements Lifetime: an object goes only when nobody refers
\* to it, after everybody in its list was called once (e_object_free).
THEOREM ObjectsImplementLifetime == Spec => Implements
<1>1. Init => L!LifetimeInit
  BY AbstractInit
<1>2. Inv /\ Inv' /\ [Next]_vars => [L!LifetimeNext]_(L!lifetimeVars)
  BY AbstractStep
<1> QED BY <1>1, <1>2, Invariance, PTL DEF Spec, Implements, L!LifetimeSpec
=============================================================================
