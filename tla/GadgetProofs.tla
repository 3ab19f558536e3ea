---------------------------- MODULE GadgetProofs ---------------------------
(***************************************************************************)
(* Proofs about Gadget, for any number of shelves, classes, gadgets and    *)
(* clients and any batches: a client has as many references as somebody is *)
(* to give back, and no gadget is lost.                                    *)
(*                                                                         *)
(* The handlers are functions on the state w, built from each other.  Each *)
(* has a lemma that it keeps the state well-formed and sound; an action is *)
(* then a handler applied to w.  The folds of the model are taken up by    *)
(* instances of FoldFacts, one for each step that is folded.               *)
(***************************************************************************)
EXTENDS Gadget, FiniteSetTheorems, SequenceTheorems, WellFoundedInduction, TLAPS

-----------------------------------------------------------------------------
(* The state.                                                              *)

\* A gadget or none; the classes, with that of none.
GG == Gadget \cup {None}
Kinds == Class \cup {ClassOf[g] : g \in GG}
Mishap == {"dangling", "repopulated", "unloaded", "requeued", "shared", "wild"}
Gcc == {r \in [shelf : Shelf \cup {None}, cf : GG, class : Kinds \cup {None}, refs : Nat,
                deleted : BOOLEAN, told : BOOLEAN, hidden : BOOLEAN, freed : BOOLEAN] :
          r.freed \/ r.shelf \in Shelf}
Ev == {Job} \cup [kind : {"add", "del"}, gcc : Client]

\* What w is, whatever has happened.
World ==
  [client : [Client -> Gcc],
   clients : [Shelf -> Seq(Client)],
   config : [Shelf -> SUBSET GG],
   awaiting : [Shelf -> SUBSET GG],
   requests : [Shelf -> SUBSET Kinds],
   populated : [Shelf -> SUBSET Kinds],
   new : [Shelf -> Client \cup {None}],
   providers : SUBSET Kinds,
   queue : Seq(Ev),
   dragged : Client \cup {None}, over : Shelf \cup {None}, active : SUBSET Shelf,
   deleted : SUBSET GG, thrown : SUBSET GG, mishaps : SUBSET Mishap, short : BOOLEAN]

\* A set of natural numbers that is not empty has a smallest element (Min, which
\* RemoveFirst uses).
LEMMA SmallestExists ==
  ASSUME NEW I \in SUBSET Nat, I # {}
  PROVE  Min(I) \in I
<1>1. IsWellFoundedOn({p \in Nat \X Nat : p[1] < p[2]}, Nat)
  BY NatLessThanWellFounded DEF OpToRel
<1> DEFINE R == {p \in Nat \X Nat : p[1] < p[2]}
<1>2. \A i, j \in Nat : i < j => <<i, j>> \in R
  OBVIOUS
<1> HIDE DEF R
<1>3. PICK m \in I : \A i \in I : ~ (<<i, m>> \in R)
  BY <1>1, WFMin DEF R
<1>4. \A i \in I : m <= i
  <2> TAKE i \in I
  <2>1. i \in Nat /\ m \in Nat /\ ~ (i < m)
    BY <1>2, <1>3
  <2> QED BY <2>1
<1> QED BY <1>4 DEF Min

\* A set of numbers up to n that is not empty has a largest element (Max, which
\* FoldLeft uses).
LEMMA LargestExists ==
  ASSUME NEW n \in Nat, NEW I \in SUBSET (1 .. n), I # {}
  PROVE  Max(I) \in I
<1> DEFINE J == {n - i : i \in I}
<1>0. \A i \in I : i \in Nat /\ n - i \in Nat /\ n - i \in J
  OBVIOUS
<1>1. J \in SUBSET Nat /\ J # {}
  BY <1>0
<1>a. \A j \in J : \E i \in I : j = n - i
  OBVIOUS
<1> HIDE DEF J
<1>2. PICK m \in J : \A j \in J : m <= j
  <2>1. Min(J) \in J
    BY <1>1, SmallestExists
  <2>2. PICK m \in J : \A j \in J : ~ (<<j, m>> \in {p \in Nat \X Nat : p[1] < p[2]})
    <3>1. IsWellFoundedOn({p \in Nat \X Nat : p[1] < p[2]}, Nat)
      BY NatLessThanWellFounded DEF OpToRel
    <3> QED BY <1>1, <3>1, WFMin
  <2>3. \A j \in J : j \in Nat /\ m \in Nat /\ ~(j < m)
    BY <1>1, <2>2
  <2> QED BY <2>3
<1>3. PICK k \in I : m = n - k
  BY <1>2, <1>a
<1>4. \A i \in I : k >= i
  <2> TAKE i \in I
  <2>1. n - k <= n - i
    BY <1>0, <1>2, <1>3
  <2>2. i \in Nat /\ k \in Nat
    BY <1>0
  <2> QED BY <2>1, <2>2
<1> QED BY <1>4 DEF Max

\* r is q without what was at p.
Omits(q, r, p) ==
  /\ p \in 1 .. Len(q) /\ Len(r) = Len(q) - 1
  /\ \A i \in 1 .. Len(r) : r[i] = IF i < p THEN q[i] ELSE q[i + 1]

\* eina_list_remove and the end of a job take out at most one element.
LEMMA RemoveFirstOmits ==
  ASSUME NEW S, NEW q \in Seq(S), NEW e
  PROVE  /\ RemoveFirst(q, e) \in Seq(S)
         /\ \/ RemoveFirst(q, e) = q /\ \A i \in 1 .. Len(q) : q[i] # e
            \/ \E p \in 1 .. Len(q) : q[p] = e /\ Omits(q, RemoveFirst(q, e), p)
<1> DEFINE I == {i \in 1 .. Len(q) : q[i] = e}
<1>1. CASE ~\E i \in 1 .. Len(q) : q[i] = e
  BY <1>1 DEF RemoveFirst
<1>2. CASE \E i \in 1 .. Len(q) : q[i] = e
  <2>1. I \in SUBSET Nat /\ I # {}
    BY <1>2
  <2> DEFINE p == Min(I)
  <2>2. p \in I
    BY <2>1, SmallestExists
  <2>3. RemoveFirst(q, e) = SubSeq(q, 1, p - 1) \o SubSeq(q, p + 1, Len(q))
    BY <1>2, <2>1 DEF RemoveFirst, RemoveAt, SelectInSeq
  <2> DEFINE a == SubSeq(q, 1, p - 1)
             b == SubSeq(q, p + 1, Len(q))
  <2>4. p \in 1 .. Len(q) /\ q[p] = e /\ Len(q) \in Nat /\ p \in Int
    BY <2>2
  <2> HIDE DEF p
  <2>5. a \in Seq(S) /\ Len(a) = p - 1 /\ \A i \in 1 .. p - 1 : a[i] = q[i]
    <3>1. \A i \in 1 .. p - 1 : q[i] \in S
      BY <2>4
    <3> QED BY <3>1, <2>4, SubSeqProperties
  <2>6. b \in Seq(S) /\ Len(b) = Len(q) - p /\ \A i \in 1 .. Len(q) - p : b[i] = q[p + i]
    <3>1. \A i \in p + 1 .. Len(q) : q[i] \in S
      BY <2>4
    <3> HIDE DEF a
    <3> QED BY <3>1, <2>4, SubSeqProperties
  <2> HIDE DEF a, b
  <2>7. /\ a \o b \in Seq(S) /\ Len(a \o b) = Len(q) - 1
        /\ \A i \in 1 .. Len(q) - 1 : (a \o b)[i] = IF i <= p - 1 THEN a[i] ELSE b[i - (p - 1)]
    <3>1. /\ a \o b \in Seq(S) /\ Len(a \o b) = Len(a) + Len(b)
          /\ \A i \in 1 .. Len(a) + Len(b) : (a \o b)[i] = IF i <= Len(a) THEN a[i] ELSE b[i - Len(a)]
      <4>1. a \in Seq(S) /\ b \in Seq(S)
        BY <2>5, <2>6
      <4> QED BY <4>1, ConcatProperties
    <3>2. Len(a) = p - 1 /\ Len(a) + Len(b) = Len(q) - 1
      BY <2>4, <2>5, <2>6
    <3> QED BY <3>1, <3>2
  <2>8. Omits(q, a \o b, p)
    BY <2>4, <2>5, <2>6, <2>7 DEF Omits
  <2> QED BY <2>3, <2>4, <2>7, <2>8 DEF a, b
<1> QED BY <1>1, <1>2

-----------------------------------------------------------------------------
(* The events of a client.                                                 *)

EventsOf(q, c) == Cardinality({i \in DOMAIN q : q[i].gcc = c})

\* The events of a client are finitely many.
LEMMA EventsFinite ==
  ASSUME NEW q \in Seq(Ev), NEW c
  PROVE  /\ IsFiniteSet({i \in DOMAIN q : q[i].gcc = c})
         /\ EventsOf(q, c) \in Nat
<1>1. IsFiniteSet(1 .. Len(q))
  BY FS_Interval
<1>2. IsFiniteSet({i \in DOMAIN q : q[i].gcc = c})
  BY <1>1, FS_Subset
<1> QED BY <1>2, FS_CardinalityType DEF EventsOf

\* An event that is added to the queue is one more of its client.
LEMMA EventsAppend ==
  ASSUME NEW q \in Seq(Ev), NEW e \in Ev, NEW c
  PROVE  /\ Append(q, e) \in Seq(Ev)
         /\ EventsOf(Append(q, e), c) = EventsOf(q, c) + (IF e.gcc = c THEN 1 ELSE 0)
<1> DEFINE r == Append(q, e)
           A == {i \in DOMAIN q : q[i].gcc = c}
           B == {i \in DOMAIN r : r[i].gcc = c}
<1>1. /\ r \in Seq(Ev) /\ Len(r) = Len(q) + 1 /\ r[Len(q) + 1] = e
      /\ \A i \in 1 .. Len(q) : r[i] = q[i]
  OBVIOUS
<1>2. IsFiniteSet(A)
  BY EventsFinite
<1>3. DOMAIN q = 1 .. Len(q) /\ DOMAIN r = 1 .. Len(q) + 1 /\ Len(q) \in Nat
  BY <1>1
<1> HIDE DEF r
<1>4. CASE e.gcc = c
  <2>1. B = A \cup {Len(q) + 1} /\ Len(q) + 1 \notin A
    BY <1>1, <1>3, <1>4
  <2> HIDE DEF A, B
  <2>2. Cardinality(B) = Cardinality(A) + 1
    BY <1>2, <2>1, FS_AddElement
  <2> QED BY <1>1, <1>4, <2>2 DEF EventsOf, A, B, r
<1>5. CASE e.gcc # c
  <2>1. B = A
    BY <1>1, <1>3, <1>5
  <2>2. Cardinality(A) \in Nat
    BY EventsFinite DEF EventsOf
  <2>3. EventsOf(q, c) = Cardinality(A) /\ EventsOf(r, c) = Cardinality(B)
    BY DEF EventsOf
  <2> HIDE DEF A, B
  <2> QED BY <1>1, <1>5, <2>1, <2>2, <2>3 DEF r
<1> QED BY <1>4, <1>5

\* An event that leaves the queue is one less of its client.
LEMMA EventsOmitted ==
  ASSUME NEW q \in Seq(Ev), NEW r \in Seq(Ev), NEW p, Omits(q, r, p), NEW c
  PROVE  EventsOf(r, c) = EventsOf(q, c) - (IF q[p].gcc = c THEN 1 ELSE 0)
<1> DEFINE A == {i \in DOMAIN q : q[i].gcc = c}
           B == {i \in DOMAIN r : r[i].gcc = c}
           f == [i \in B |-> IF i < p THEN i ELSE i + 1]
<1>1. /\ DOMAIN q = 1 .. Len(q) /\ DOMAIN r = 1 .. Len(q) - 1 /\ Len(q) \in Nat /\ p \in 1 .. Len(q)
      /\ \A i \in 1 .. Len(q) - 1 : r[i] = IF i < p THEN q[i] ELSE q[i + 1]
  BY DEF Omits
<1>2. f \in Bijection(B, A \ {p})
  <2>1. \A i \in B : f[i] \in A \ {p}
    BY <1>1
  <2>2. \A i, j \in B : f[i] = f[j] => i = j
    BY <1>1
  <2>3. \A k \in A \ {p} : \E i \in B : f[i] = k
    <3> TAKE k \in A \ {p}
    <3>1. CASE k < p
      <4>1. k \in B /\ f[k] = k
        BY <1>1, <3>1
      <4> QED BY <4>1
    <3>2. CASE k > p
      <4>1. k - 1 \in B /\ f[k - 1] = k
        BY <1>1, <3>2
      <4> QED BY <4>1
    <3>3. k \in Nat /\ p \in Nat /\ k # p
      BY <1>1
    <3> HIDE DEF f, A, B
    <3> QED BY <3>1, <3>2, <3>3
  <2>4. f \in [B -> A \ {p}]
    BY <2>1
  <2> HIDE DEF f, A, B
  <2> QED BY <2>2, <2>3, <2>4 DEF Bijection, Injection, Surjection, IsInjective
<1>3. IsFiniteSet(A) /\ IsFiniteSet(B) /\ Cardinality(A) \in Nat
  BY EventsFinite, FS_CardinalityType
<1> HIDE DEF f
<1>4. ExistsBijection(B, A \ {p})
  BY <1>2 DEF ExistsBijection
<1>5. Cardinality(A \ {p}) = Cardinality(B)
  <2> HIDE DEF A, B
  <2> QED BY <1>3, <1>4, FS_Bijection
<1>6. Cardinality(A \ {p}) = IF p \in A THEN Cardinality(A) - 1 ELSE Cardinality(A)
  <2> HIDE DEF A, B
  <2> QED BY <1>3, FS_RemoveElement
<1>7. p \in A <=> q[p].gcc = c
  BY <1>1
<1>8. EventsOf(q, c) = Cardinality(A) /\ EventsOf(r, c) = Cardinality(B)
  BY DEF EventsOf
<1> HIDE DEF A, B
<1> QED BY <1>3, <1>5, <1>6, <1>7, <1>8

\* A request of a class moves the job to the end and touches no client's event.
LEMMA EventsJob ==
  ASSUME NEW q \in Seq(Ev), NEW c \in Client
  PROVE  /\ RemoveFirst(q, Job) \in Seq(Ev)
         /\ EventsOf(RemoveFirst(q, Job), c) = EventsOf(q, c)
         /\ Append(RemoveFirst(q, Job), Job) \in Seq(Ev)
         /\ EventsOf(Append(RemoveFirst(q, Job), Job), c) = EventsOf(q, c)
<1> DEFINE r == RemoveFirst(q, Job)
<1>0. Job \in Ev /\ Job.gcc # c
  BY GadgetAssumption DEF Job, Event, Ev
<1>1. r \in Seq(Ev) /\ (r = q \/ \E p \in 1 .. Len(q) : q[p] = Job /\ Omits(q, r, p))
  BY RemoveFirstOmits
<1> HIDE DEF r
<1>2. EventsOf(r, c) = EventsOf(q, c)
  <2>1. CASE r = q
    BY <2>1
  <2>2. ASSUME NEW p \in 1 .. Len(q), q[p] = Job, Omits(q, r, p) PROVE EventsOf(r, c) = EventsOf(q, c)
    <3>1. EventsOf(r, c) = EventsOf(q, c) - (IF q[p].gcc = c THEN 1 ELSE 0)
      BY <1>1, <2>2, EventsOmitted
    <3>2. EventsOf(q, c) \in Nat
      BY EventsFinite
    <3>3. q[p].gcc # c
      BY <1>0, <2>2
    <3> QED BY <3>1, <3>2, <3>3
  <2> QED BY <1>1, <2>1, <2>2
<1>3. /\ Append(r, Job) \in Seq(Ev)
      /\ EventsOf(Append(r, Job), c) = EventsOf(r, c) + (IF Job.gcc = c THEN 1 ELSE 0)
  BY <1>0, <1>1, EventsAppend
<1>4. EventsOf(Append(r, Job), c) = EventsOf(q, c)
  <2>1. EventsOf(q, c) \in Nat
    BY EventsFinite
  <2> QED BY <1>0, <1>2, <1>3, <2>1
<1> QED BY <1>1, <1>2, <1>3, <1>4 DEF r

\* The first event leaves the queue.
LEMMA EventsTail ==
  ASSUME NEW q \in Seq(Ev), q # <<>>, NEW c
  PROVE  /\ Tail(q) \in Seq(Ev) /\ Head(q) \in Ev
         /\ EventsOf(Tail(q), c) = EventsOf(q, c) - (IF Head(q).gcc = c THEN 1 ELSE 0)
<1> DEFINE r == Tail(q)
<1>1. /\ r \in Seq(Ev) /\ Head(q) \in Ev /\ Head(q) = q[1] /\ Len(r) = Len(q) - 1
      /\ Len(q) \in Nat \ {0} /\ \A i \in 1 .. Len(q) - 1 : r[i] = q[i + 1]
  OBVIOUS
<1> HIDE DEF r
<1>2. Omits(q, r, 1)
  BY <1>1 DEF Omits
<1>3. EventsOf(r, c) = EventsOf(q, c) - (IF q[1].gcc = c THEN 1 ELSE 0)
  BY <1>1, <1>2, EventsOmitted
<1> QED BY <1>1, <1>3 DEF r

-----------------------------------------------------------------------------
(* Every operator keeps the state well-formed and forgets no mishap.       *)

Worse(x, y) == y \in World /\ x.mishaps \subseteq y.mishaps

\* Several operators in a row keep what each of them keeps.
LEMMA WorseTransitive ==
  ASSUME NEW x, NEW y, NEW z, Worse(x, y), Worse(y, z)
  PROVE  Worse(x, z)
BY DEF Worse

\* What is done to a client.
WithRefs(r, n) == [r EXCEPT !.refs = n]
WithTold(r) == [r EXCEPT !.told = TRUE, !.refs = r.refs + 1]
WithDeleted(r) == [r EXCEPT !.deleted = TRUE]
WithHidden(r, h) == [r EXCEPT !.hidden = h]
WithConfig(r, g) == [r EXCEPT !.cf = g]

\* But for its references, r and t are the same client.
Alike(r, t) == /\ r.shelf = t.shelf /\ r.cf = t.cf /\ r.class = t.class /\ r.freed = t.freed

\* What each of these changes, and that it leaves the rest alone.
LEMMA WithRefsIs ==
  ASSUME NEW r \in Gcc, NEW n \in Nat
  PROVE  /\ WithRefs(r, n) \in Gcc /\ Alike(WithRefs(r, n), r) /\ WithRefs(r, n).refs = n
         /\ WithRefs(r, n).deleted = r.deleted /\ WithRefs(r, n).told = r.told
BY DEF WithRefs, Gcc, Alike

LEMMA WithToldIs ==
  ASSUME NEW r \in Gcc
  PROVE  /\ WithTold(r) \in Gcc /\ Alike(WithTold(r), r) /\ WithTold(r).refs = r.refs + 1
         /\ WithTold(r).deleted = r.deleted /\ WithTold(r).told = TRUE
<1>1. r.refs + 1 \in Nat
  BY DEF Gcc
<1> DEFINE n == r.refs + 1
           t == [r EXCEPT !.told = TRUE]
<1>2. t \in Gcc /\ Alike(t, r) /\ t.deleted = r.deleted /\ t.told = TRUE
  BY DEF Gcc, Alike
<1>3. WithTold(r) = WithRefs(t, n)
  BY DEF WithTold, WithRefs
<1> HIDE DEF t, n
<1>4. /\ WithRefs(t, n) \in Gcc /\ Alike(WithRefs(t, n), t) /\ WithRefs(t, n).refs = n
      /\ WithRefs(t, n).deleted = t.deleted /\ WithRefs(t, n).told = t.told
  BY <1>1, <1>2, WithRefsIs DEF n
<1> QED BY <1>2, <1>3, <1>4 DEF n, Alike

LEMMA WithDeletedIs ==
  ASSUME NEW r \in Gcc
  PROVE  /\ WithDeleted(r) \in Gcc /\ Alike(WithDeleted(r), r) /\ WithDeleted(r).refs = r.refs
         /\ WithDeleted(r).deleted = TRUE /\ WithDeleted(r).told = r.told
BY DEF WithDeleted, Gcc, Alike

LEMMA WithHiddenIs ==
  ASSUME NEW r \in Gcc, NEW h \in BOOLEAN
  PROVE  /\ WithHidden(r, h) \in Gcc /\ Alike(WithHidden(r, h), r) /\ WithHidden(r, h).refs = r.refs
         /\ WithHidden(r, h).deleted = r.deleted /\ WithHidden(r, h).told = r.told
BY DEF WithHidden, Gcc, Alike

LEMMA WithConfigIs ==
  ASSUME NEW r \in Gcc, NEW g \in GG
  PROVE  /\ WithConfig(r, g) \in Gcc /\ WithConfig(r, g).cf = g /\ WithConfig(r, g).refs = r.refs
         /\ WithConfig(r, g).shelf = r.shelf /\ WithConfig(r, g).class = r.class
         /\ WithConfig(r, g).freed = r.freed /\ WithConfig(r, g).deleted = r.deleted
         /\ WithConfig(r, g).told = r.told
BY DEF WithConfig, Gcc

\* All but the clients, their lists, the queue and the mishaps.
Rest(x) == <<x.config, x.awaiting, x.requests, x.populated, x.new, x.providers, x.dragged,
             x.over, x.active, x.deleted, x.thrown, x.short>>

\* A client is changed.
SetClient(x, c, z) == [x EXCEPT !.client[c] = z]

\* Only that client changes.
LEMMA SetClientIs ==
  ASSUME NEW x \in World, NEW c \in Client, NEW z, z \in Gcc
  PROVE  /\ SetClient(x, c, z) \in World
         /\ SetClient(x, c, z).client = [x.client EXCEPT ![c] = z]
         /\ SetClient(x, c, z).clients = x.clients /\ SetClient(x, c, z).queue = x.queue
         /\ SetClient(x, c, z).mishaps = x.mishaps
         /\ Rest(SetClient(x, c, z)) = Rest(x)
<1>1. x.client \in [Client -> Gcc]
  BY DEF World
<1>2. [x.client EXCEPT ![c] = z] \in [Client -> Gcc]
  BY <1>1
<1>3. SetClient(x, c, z) \in World
  BY <1>2 DEF World, SetClient
<1>4. /\ SetClient(x, c, z).client = [x.client EXCEPT ![c] = z]
      /\ SetClient(x, c, z).clients = x.clients /\ SetClient(x, c, z).queue = x.queue
      /\ SetClient(x, c, z).mishaps = x.mishaps
  BY DEF World, SetClient
<1>5. Rest(SetClient(x, c, z)) = Rest(x)
  BY DEF World, SetClient, Rest
<1> QED BY <1>3, <1>4, <1>5

\* A client that is freed is well-formed.
LEMMA NobodyType == Nobody \in Gcc
BY DEF Nobody, Gcc, GG

\* The use of freed memory is recorded and changes nothing else.
LEMMA WildIs ==
  ASSUME NEW x \in World
  PROVE  /\ Wild(x) \in World /\ Wild(x).mishaps = x.mishaps \cup {"wild"}
         /\ Wild(x).client = x.client /\ Wild(x).clients = x.clients /\ Wild(x).queue = x.queue
         /\ Rest(Wild(x)) = Rest(x)
         /\ Worse(x, Wild(x)) /\ Worse(x, x)
BY DEF Wild, World, Mishap, Worse, Rest

\* A client has left its shelf, and there is an event for that.
Removal(x, c) ==
  [x EXCEPT !.client[c] = WithTold(x.client[c]),
            !.clients[x.client[c].shelf] = RemoveFirst(@, c),
            !.queue = Append(@, Event("del", c))]

\* The delete function changes the client, its shelf and the queue.
LEMMA RemovalIs ==
  ASSUME NEW x \in World, NEW c \in Client
  PROVE  /\ Removal(x, c) \in World
         /\ Removal(x, c).client = [x.client EXCEPT ![c] = WithTold(@)]
         /\ Removal(x, c).clients = [x.clients EXCEPT ![x.client[c].shelf] = RemoveFirst(@, c)]
         /\ Removal(x, c).queue = Append(x.queue, Event("del", c))
         /\ Removal(x, c).mishaps = x.mishaps
         /\ Rest(Removal(x, c)) = Rest(x)
<1> DEFINE z == WithTold(x.client[c])
<1>0. /\ x.client \in [Client -> Gcc] /\ x.clients \in [Shelf -> Seq(Client)] /\ x.queue \in Seq(Ev)
  BY DEF World
<1>1. z \in Gcc
  <2>1. x.client[c] \in Gcc
    BY <1>0
  <2> HIDE DEF Gcc
  <2> QED BY <2>1, WithToldIs
<1> HIDE DEF z
<1>3. [x.client EXCEPT ![c] = z] \in [Client -> Gcc]
  BY <1>0, <1>1
<1>4. [x.clients EXCEPT ![x.client[c].shelf] = RemoveFirst(@, c)] \in [Shelf -> Seq(Client)]
  BY <1>0, RemoveFirstOmits
<1>5. Append(x.queue, Event("del", c)) \in Seq(Ev)
  BY <1>0 DEF Event, Ev
<1> DEFINE y == [x EXCEPT !.client[c] = z,
                          !.clients[x.client[c].shelf] = RemoveFirst(@, c),
                          !.queue = Append(@, Event("del", c))]
<1>6. y \in World
  BY <1>3, <1>4, <1>5 DEF World
<1>7. /\ y.client = [x.client EXCEPT ![c] = z] /\ y.mishaps = x.mishaps
      /\ y.clients = [x.clients EXCEPT ![x.client[c].shelf] = RemoveFirst(@, c)]
      /\ y.queue = Append(x.queue, Event("del", c))
  BY DEF World
<1>8. Rest(y) = Rest(x)
  BY DEF World, Rest
<1>9. y = Removal(x, c)
  BY DEF Removal, z
<1> HIDE DEF y
<1> QED BY <1>6, <1>7, <1>8, <1>9 DEF z

\* It reads the configuration, which may be freed.
LEMMA RemovedIs ==
  ASSUME NEW x \in World, NEW c \in Client
  PROVE  /\ Worse(x, Removed(x, c))
         /\ Removed(x, c) = IF x.client[c].cf \in x.deleted THEN Wild(Removal(x, c)) ELSE Removal(x, c)
<1>1. Removed(x, c) = IF x.client[c].cf \in x.deleted THEN Wild(Removal(x, c)) ELSE Removal(x, c)
  BY DEF Removed, Removal, WithTold
<1> QED BY <1>1, RemovalIs, WildIs DEF Worse

\* The second time the client is gone.
LEMMA FreedIs ==
  ASSUME NEW x \in World, NEW c \in Client
  PROVE  /\ Worse(x, Freed(x, c)) /\ Rest(Freed(x, c)) = Rest(x)
         /\ Freed(x, c) = IF x.client[c].told THEN SetClient(x, c, Nobody) ELSE Removed(x, c)
<1>1. Freed(x, c) = IF x.client[c].told THEN SetClient(x, c, Nobody) ELSE Removed(x, c)
  BY DEF Freed, SetClient
<1>2. Worse(x, SetClient(x, c, Nobody)) /\ Rest(SetClient(x, c, Nobody)) = Rest(x)
  BY NobodyType, SetClientIs DEF Worse
<1>3. Worse(x, Removed(x, c)) /\ Rest(Removed(x, c)) = Rest(x)
  <2>1. Removal(x, c) \in World
    BY RemovalIs
  <2>2. Rest(Wild(Removal(x, c))) = Rest(Removal(x, c))
    BY <2>1, WildIs
  <2> QED BY <2>2, RemovedIs, RemovalIs
<1> QED BY <1>1, <1>2, <1>3

\* The reference that is given back.
Dropped(x, c) == SetClient(x, c, WithRefs(x.client[c], x.client[c].refs - 1))

\* Only the references of that client change.
LEMMA DroppedIs ==
  ASSUME NEW x \in World, NEW c \in Client, x.client[c].refs # 0
  PROVE  /\ Dropped(x, c) \in World
         /\ Dropped(x, c).client = [x.client EXCEPT ![c] = WithRefs(@, @.refs - 1)]
         /\ Dropped(x, c).clients = x.clients /\ Dropped(x, c).queue = x.queue
         /\ Dropped(x, c).mishaps = x.mishaps
         /\ Rest(Dropped(x, c)) = Rest(x)
<1> DEFINE z == WithRefs(x.client[c], x.client[c].refs - 1)
<1>1. z \in Gcc
  <2>1. x.client[c] \in Gcc
    BY DEF World
  <2>2. x.client[c].refs - 1 \in Nat
    BY <2>1 DEF Gcc
  <2> QED BY <2>1, <2>2, WithRefsIs
<1> HIDE DEF z
<1>2. Dropped(x, c) = SetClient(x, c, z)
  BY DEF Dropped, z
<1>3. [x.client EXCEPT ![c] = WithRefs(@, @.refs - 1)] = [x.client EXCEPT ![c] = z]
  BY DEF z
<1> QED BY <1>1, <1>2, <1>3, SetClientIs

\* e_object_unref in these terms; it leaves shelves, drag and configuration alone.
LEMMA UnrefOtherIs ==
  ASSUME NEW x \in World, NEW c \in Client
  PROVE  /\ Worse(x, UnrefOther(x, c)) /\ Rest(UnrefOther(x, c)) = Rest(x)
         /\ UnrefOther(x, c) = IF x.client[c].freed THEN Wild(x)
                               ELSE IF x.client[c].refs = 0 THEN x
                               ELSE IF Dropped(x, c).client[c].refs = 0 THEN Freed(Dropped(x, c), c)
                               ELSE Dropped(x, c)
<1>1. UnrefOther(x, c) = IF x.client[c].freed THEN Wild(x)
                         ELSE IF x.client[c].refs = 0 THEN x
                         ELSE IF Dropped(x, c).client[c].refs = 0 THEN Freed(Dropped(x, c), c)
                         ELSE Dropped(x, c)
  BY DEF UnrefOther, Dropped, SetClient, WithRefs
<1>2. Worse(x, x) /\ Worse(x, Wild(x)) /\ Rest(Wild(x)) = Rest(x)
  BY WildIs
<1>3. ASSUME x.client[c].refs # 0
      PROVE  /\ Worse(x, Dropped(x, c)) /\ Rest(Dropped(x, c)) = Rest(x)
             /\ Worse(x, Freed(Dropped(x, c), c)) /\ Rest(Freed(Dropped(x, c), c)) = Rest(x)
  <2>1. /\ Worse(x, Dropped(x, c)) /\ Rest(Dropped(x, c)) = Rest(x) /\ Dropped(x, c) \in World
    BY <1>3, DroppedIs DEF Worse
  <2>2. /\ Worse(Dropped(x, c), Freed(Dropped(x, c), c))
        /\ Rest(Freed(Dropped(x, c), c)) = Rest(Dropped(x, c))
    BY <2>1, FreedIs
  <2> QED BY <2>1, <2>2, WorseTransitive
<1> QED BY <1>1, <1>2, <1>3

\* e_object_del marks the client and gives back the reference of its owner.
LEMMA DelOtherIs ==
  ASSUME NEW x \in World, NEW c \in Client
  PROVE  /\ Worse(x, DelOther(x, c)) /\ Rest(DelOther(x, c)) = Rest(x)
         /\ DelOther(x, c) = IF x.client[c].freed THEN Wild(x)
                             ELSE IF x.client[c].deleted THEN x
                             ELSE UnrefOther(SetClient(x, c, WithDeleted(x.client[c])), c)
<1> DEFINE y == SetClient(x, c, WithDeleted(x.client[c]))
<1>1. DelOther(x, c) = IF x.client[c].freed THEN Wild(x)
                       ELSE IF x.client[c].deleted THEN x ELSE UnrefOther(y, c)
  BY DEF DelOther, SetClient, WithDeleted
<1>2. Worse(x, x) /\ Worse(x, Wild(x)) /\ Rest(Wild(x)) = Rest(x)
  BY WildIs
<1>3. c \in Client => WithDeleted(x.client[c]) \in Gcc
  BY WithDeletedIs DEF World
<1>4. Worse(x, y) /\ Rest(y) = Rest(x) /\ y \in World
  BY <1>3, SetClientIs DEF Worse
<1> HIDE DEF y
<1>5. Worse(y, UnrefOther(y, c)) /\ Rest(UnrefOther(y, c)) = Rest(y)
  BY <1>4, UnrefOtherIs
<1>6. Worse(x, UnrefOther(y, c))
  BY <1>4, <1>5, WorseTransitive
<1> QED BY <1>1, <1>2, <1>4, <1>5, <1>6 DEF y


-----------------------------------------------------------------------------
(* What every operator keeps: each client is owed as many references as it *)
(* has, the one that is dragged is there, and no gadget is lost.           *)

Bad(x) == {"dangling", "wild"} \cap x.mishaps # {}

\* e is a client one more reference of which is about to be given back.
Owed(x, c, e) ==
  (IF x.client[c].deleted THEN 0 ELSE 1) + (IF x.dragged = c THEN 1 ELSE 0)
  + EventsOf(x.queue, c) + (IF e = c THEN 1 ELSE 0)

Counted(x, e) ==
  \A c \in Client : ~x.client[c].freed => x.client[c].refs = Owed(x, c, e)

Held(x) == x.dragged # None => ~x.client[x.dragged].freed

\* d: the drag is not ending, and its gadget may be found there only.
Kept(x, d) ==
  \A g \in Gadget :
    \/ g \in x.thrown
    \/ d /\ x.dragged # None /\ x.client[x.dragged].cf = g
    \/ \E s \in Shelf : g \in x.config[s]

Good(x, e, d) == Bad(x) \/ (Counted(x, e) /\ Held(x) /\ Kept(x, d))

\* The parts that Rest names.
LEMMA RestIs ==
  ASSUME NEW x, NEW y, Rest(y) = Rest(x)
  PROVE  /\ y.config = x.config /\ y.awaiting = x.awaiting /\ y.requests = x.requests
         /\ y.populated = x.populated /\ y.new = x.new /\ y.providers = x.providers
         /\ y.dragged = x.dragged /\ y.over = x.over /\ y.active = x.active
         /\ y.deleted = x.deleted /\ y.thrown = x.thrown /\ y.short = x.short
BY DEF Rest

\* None is no client, shelf or gadget.
LEMMA NoneIsNone == None \notin Client /\ None \notin Shelf /\ None \notin Gadget
BY GadgetAssumption

\* The reference about to be given back is one more.
LEMMA OwedIs ==
  ASSUME NEW x \in World, NEW c \in Client
  PROVE  /\ Owed(x, c, c) = Owed(x, c, None) + 1 /\ Owed(x, c, None) \in Nat
         /\ \A b : b # c => Owed(x, c, b) = Owed(x, c, None)
<1> DEFINE own == IF x.client[c].deleted THEN 0 ELSE 1
           drag == IF x.dragged = c THEN 1 ELSE 0
           n == EventsOf(x.queue, c)
<1>1. own \in Nat /\ drag \in Nat
  OBVIOUS
<1>2. n \in Nat
  BY EventsFinite DEF World
<1>3. \A b : Owed(x, c, b) = own + drag + n + (IF b = c THEN 1 ELSE 0)
  BY DEF Owed
<1> HIDE DEF own, drag, n
<1>4. Owed(x, c, c) = own + drag + n + 1 /\ Owed(x, c, None) = own + drag + n + 0
  BY <1>3, NoneIsNone
<1> QED BY <1>1, <1>2, <1>3, <1>4

\* After a mishap that is excused nothing more is said.
LEMMA BadStays ==
  ASSUME NEW x, NEW y, x.mishaps \subseteq y.mishaps, Bad(x), NEW e, NEW d
  PROVE  Good(y, e, d)
BY DEF Bad, Good

\* The use of freed memory is such a mishap.
LEMMA WildGood ==
  ASSUME NEW x \in World, NEW e, NEW d
  PROVE  Good(Wild(x), e, d)
BY WildIs DEF Bad, Good

\* What does not concern references, the drag and the configuration.
LEMMA GoodStays ==
  ASSUME NEW x \in World, NEW y \in World, NEW e, NEW d, Good(x, e, d),
         x.mishaps \subseteq y.mishaps, y.dragged = x.dragged, x.thrown \subseteq y.thrown,
         \A s \in Shelf : x.config[s] \subseteq y.config[s],
         \A c \in Client : /\ y.client[c].freed = x.client[c].freed
                           /\ y.client[c].refs = x.client[c].refs
                           /\ y.client[c].deleted = x.client[c].deleted
                           /\ EventsOf(y.queue, c) = EventsOf(x.queue, c),
         d => \A c \in Client : y.client[c].cf = x.client[c].cf
  PROVE  Good(y, e, d)
<1> SUFFICES ASSUME ~Bad(x) PROVE Good(y, e, d)
  BY BadStays
<1>1. Counted(x, e) /\ Held(x) /\ Kept(x, d)
  BY DEF Good
<1>2. Counted(y, e)
  BY <1>1 DEF Counted, Owed
<1>3. x.dragged # None => x.dragged \in Client
  BY DEF World
<1>4. Held(y)
  BY <1>1, <1>3 DEF Held
<1>5. Kept(y, d)
  BY <1>1, <1>3 DEF Kept
<1> QED BY <1>1, <1>2, <1>4, <1>5 DEF Good

\* The reference that was to be given back is given back.
LEMMA DroppedGood ==
  ASSUME NEW x \in World, NEW c \in Client, NEW d, Good(x, c, d), ~Bad(x), ~x.client[c].freed
  PROVE  x.client[c].refs # 0 /\ Good(Dropped(x, c), None, d)
<1>1. Counted(x, c) /\ Held(x) /\ Kept(x, d)
  BY DEF Good
<1>2. x.client[c].refs = Owed(x, c, c) /\ x.client[c] \in Gcc /\ x.queue \in Seq(Ev)
  BY <1>1 DEF Counted, World
<1>3. x.client[c].refs \in Nat /\ EventsOf(x.queue, c) \in Nat
  BY <1>2, EventsFinite DEF Gcc
<1>4. x.client[c].refs # 0 /\ x.client[c].refs - 1 = Owed(x, c, None)
  BY <1>2, <1>3, OwedIs
<1> DEFINE y == Dropped(x, c)
<1>5. /\ y \in World /\ y.client = [x.client EXCEPT ![c] = WithRefs(@, @.refs - 1)]
      /\ y.queue = x.queue /\ y.mishaps = x.mishaps
      /\ y.dragged = x.dragged /\ y.config = x.config /\ y.thrown = x.thrown
  BY <1>4, DroppedIs, RestIs
<1>6. x.client[c].refs - 1 \in Nat
  BY <1>3, <1>4
<1> HIDE DEF y
<1>7. /\ y.client[c] = WithRefs(x.client[c], x.client[c].refs - 1)
      /\ \A b \in Client : b # c => y.client[b] = x.client[b]
  BY <1>5 DEF World
<1>8. /\ y.client[c].refs = x.client[c].refs - 1 /\ Alike(y.client[c], x.client[c])
      /\ y.client[c].deleted = x.client[c].deleted
  <2> DEFINE n == x.client[c].refs - 1
  <2>1. n \in Nat
    BY <1>6
  <2> HIDE DEF n
  <2>2. /\ WithRefs(x.client[c], n).refs = n /\ Alike(WithRefs(x.client[c], n), x.client[c])
        /\ WithRefs(x.client[c], n).deleted = x.client[c].deleted
    BY <1>2, <2>1, WithRefsIs
  <2> QED BY <1>7, <2>2 DEF n
<1>9. Counted(y, None)
  <2> SUFFICES ASSUME NEW b \in Client, ~y.client[b].freed
               PROVE  y.client[b].refs = Owed(y, b, None)
    BY DEF Counted
  <2>1. CASE b = c
    BY <1>4, <1>5, <1>8, <2>1 DEF Owed
  <2>2. CASE b # c
    <3>1. x.client[b].refs = Owed(x, b, c)
      BY <1>1, <1>7, <2>2 DEF Counted
    <3>2. EventsOf(x.queue, b) \in Nat
      BY <1>2, EventsFinite
    <3> QED BY <1>5, <1>7, <2>2, <3>1, <3>2, NoneIsNone DEF Owed
  <2> QED BY <2>1, <2>2
<1>10. x.dragged # None => x.dragged \in Client
  BY DEF World
<1>11. Held(y) /\ Kept(y, d)
  <2>1. \A b \in Client : y.client[b].freed = x.client[b].freed /\ y.client[b].cf = x.client[b].cf
    BY <1>7, <1>8 DEF Alike
  <2>2. Held(y)
    BY <1>1, <1>5, <1>10, <2>1 DEF Held
  <2> QED BY <1>1, <1>5, <1>10, <2>1, <2>2 DEF Kept
<1> QED BY <1>1, <1>4, <1>5, <1>9, <1>11 DEF Good, y


\* A client without references is deleted, not dragged and named by no event: the
\* event of its removal keeps it, and when that is gone it is freed.
LEMMA RemovalGood ==
  ASSUME NEW x \in World, NEW c \in Client, NEW d, Good(x, None, d), ~Bad(x),
         ~x.client[c].freed, x.client[c].refs = 0
  PROVE  Good(Removal(x, c), None, d)
<1> DEFINE y == Removal(x, c)
           e == Event("del", c)
<1>1. Counted(x, None) /\ Held(x) /\ Kept(x, d)
  BY DEF Good
<1>2. /\ y \in World /\ y.client = [x.client EXCEPT ![c] = WithTold(x.client[c])]
      /\ y.queue = Append(x.queue, e) /\ y.mishaps = x.mishaps
      /\ y.dragged = x.dragged /\ y.config = x.config /\ y.thrown = x.thrown
  <2>1. /\ y \in World /\ y.client = [x.client EXCEPT ![c] = WithTold(x.client[c])]
        /\ y.queue = Append(x.queue, e) /\ y.mishaps = x.mishaps /\ Rest(y) = Rest(x)
    BY RemovalIs
  <2> HIDE DEF y, e
  <2> QED BY <2>1, RestIs
<1>3. x.client[c] \in Gcc /\ x.queue \in Seq(Ev) /\ e \in Ev /\ e.gcc = c
  BY DEF World, Ev, Event
<1> HIDE DEF y, e
<1>4. /\ y.client[c] = WithTold(x.client[c])
      /\ \A b \in Client : b # c => y.client[b] = x.client[b]
  BY <1>2 DEF World
<1>5. /\ y.client[c].refs = 1 /\ Alike(y.client[c], x.client[c])
      /\ y.client[c].deleted = x.client[c].deleted
  <2>1. /\ WithTold(x.client[c]).refs = x.client[c].refs + 1
        /\ Alike(WithTold(x.client[c]), x.client[c])
        /\ WithTold(x.client[c]).deleted = x.client[c].deleted
    BY <1>3, WithToldIs
  <2> QED BY <1>4, <2>1
<1>6. \A b \in Client : /\ EventsOf(y.queue, b) = EventsOf(x.queue, b) + (IF b = c THEN 1 ELSE 0)
                        /\ EventsOf(x.queue, b) \in Nat
  <2> TAKE b \in Client
  <2>1. EventsOf(Append(x.queue, e), b) = EventsOf(x.queue, b) + (IF e.gcc = b THEN 1 ELSE 0)
    BY <1>3, EventsAppend
  <2>2. EventsOf(x.queue, b) \in Nat
    BY <1>3, EventsFinite
  <2> QED BY <1>2, <1>3, <2>1, <2>2
<1>7. x.client[c].refs = Owed(x, c, None)
  BY <1>1 DEF Counted
<1>8. Counted(y, None)
  <2> SUFFICES ASSUME NEW b \in Client, ~y.client[b].freed
               PROVE  y.client[b].refs = Owed(y, b, None)
    BY DEF Counted
  <2>0. EventsOf(x.queue, b) \in Nat
    BY <1>6
  <2>1. CASE b = c
    <3>1. EventsOf(y.queue, b) = EventsOf(x.queue, b) + 1
      BY <1>6, <2>1
    <3>2. Owed(y, b, None) = Owed(x, b, None) + 1
      <4>1. Owed(y, b, None) = (IF x.client[b].deleted THEN 0 ELSE 1) + (IF x.dragged = b THEN 1 ELSE 0)
                               + (EventsOf(x.queue, b) + 1) + (IF None = b THEN 1 ELSE 0)
        BY <1>2, <1>5, <2>1, <3>1 DEF Owed
      <4> QED BY <2>0, <4>1 DEF Owed
    <3> QED BY <1>5, <1>7, <2>1, <3>2
  <2>2. CASE b # c
    <3>1. EventsOf(y.queue, b) = EventsOf(x.queue, b)
      BY <1>6, <2>0, <2>2
    <3> QED BY <1>1, <1>2, <1>4, <2>2, <3>1 DEF Owed, Counted
  <2> QED BY <2>1, <2>2
<1>9. x.dragged # None => x.dragged \in Client
  BY DEF World
<1>10. Held(y) /\ Kept(y, d)
  <2>1. \A b \in Client : y.client[b].freed = x.client[b].freed /\ y.client[b].cf = x.client[b].cf
    BY <1>4, <1>5 DEF Alike
  <2>2. Held(y)
    BY <1>1, <1>2, <1>9, <2>1 DEF Held
  <2> QED BY <1>1, <1>2, <1>9, <2>1, <2>2 DEF Kept
<1> QED BY <1>8, <1>10 DEF Good, y

\* Freeing takes nothing from anybody else.
LEMMA FreedGood ==
  ASSUME NEW x \in World, NEW c \in Client, NEW d, Good(x, None, d), ~Bad(x),
         ~x.client[c].freed, x.client[c].refs = 0
  PROVE  Good(Freed(x, c), None, d)
<1>1. CASE ~x.client[c].told
  <2>1. Good(Removal(x, c), None, d) /\ Removal(x, c) \in World
    BY RemovalGood, RemovalIs
  <2>2. Good(Wild(Removal(x, c)), None, d)
    BY <2>1, WildGood
  <2>3. Freed(x, c) = Removal(x, c) \/ Freed(x, c) = Wild(Removal(x, c))
    BY <1>1, FreedIs, RemovedIs
  <2> QED BY <2>1, <2>2, <2>3
<1>2. CASE x.client[c].told
  <2> DEFINE y == SetClient(x, c, Nobody)
  <2>1. Counted(x, None) /\ Held(x) /\ Kept(x, d)
    BY DEF Good
  <2>2. /\ y \in World /\ y.client = [x.client EXCEPT ![c] = Nobody]
        /\ y.queue = x.queue /\ y.mishaps = x.mishaps
        /\ y.dragged = x.dragged /\ y.config = x.config /\ y.thrown = x.thrown
    BY SetClientIs, NobodyType, RestIs
  <2>3. Freed(x, c) = y
    BY <1>2, FreedIs
  <2> HIDE DEF y
  <2>4. /\ y.client[c].freed
        /\ \A b \in Client : b # c => y.client[b] = x.client[b]
    BY <2>2 DEF World, Nobody
  <2>5. Counted(y, None)
    BY <2>1, <2>2, <2>4 DEF Counted, Owed
  <2>6. x.dragged # c
    <3> SUFFICES ASSUME x.dragged = c PROVE FALSE
      OBVIOUS
    <3> DEFINE own == IF x.client[c].deleted THEN 0 ELSE 1
    <3>1. EventsOf(x.queue, c) \in Nat /\ own \in Nat
      BY EventsFinite DEF World
    <3>2. 0 = own + 1 + EventsOf(x.queue, c) + 0
      BY <2>1, NoneIsNone DEF Counted, Owed
    <3> HIDE DEF own
    <3> QED BY <3>1, <3>2
  <2>7. x.dragged # None => x.dragged \in Client
    BY DEF World
  <2>8. Held(y) /\ Kept(y, d)
    BY <2>1, <2>2, <2>4, <2>6, <2>7 DEF Held, Kept
  <2> QED BY <2>1, <2>2, <2>3, <2>5, <2>8 DEF Good
<1> QED BY <1>1, <1>2

\* e_object_unref gives back the reference it is called for.
LEMMA UnrefOtherGood ==
  ASSUME NEW x \in World, NEW c \in Client, NEW d, Good(x, c, d)
  PROVE  Good(UnrefOther(x, c), None, d)
<1>0. /\ Worse(x, UnrefOther(x, c))
      /\ UnrefOther(x, c) = IF x.client[c].freed THEN Wild(x)
                            ELSE IF x.client[c].refs = 0 THEN x
                            ELSE IF Dropped(x, c).client[c].refs = 0 THEN Freed(Dropped(x, c), c)
                            ELSE Dropped(x, c)
  BY UnrefOtherIs
<1>1. CASE Bad(x)
  BY <1>0, <1>1, BadStays DEF Worse
<1>2. CASE x.client[c].freed
  BY <1>0, <1>2, WildGood
<1>3. CASE ~Bad(x) /\ ~x.client[c].freed
  <2> DEFINE y == Dropped(x, c)
  <2>1. x.client[c].refs # 0 /\ Good(y, None, d)
    BY <1>3, DroppedGood
  <2>2. y \in World /\ y.mishaps = x.mishaps /\ y.client = [x.client EXCEPT ![c] = WithRefs(@, @.refs - 1)]
    BY <2>1, DroppedIs
  <2>3. UnrefOther(x, c) = IF y.client[c].refs = 0 THEN Freed(y, c) ELSE y
    BY <1>0, <1>3, <2>1
  <2>4. ~y.client[c].freed
    <3> DEFINE n == x.client[c].refs - 1
    <3>1. n \in Nat /\ x.client[c] \in Gcc
      BY <2>1 DEF World, Gcc
    <3>2. y.client[c] = WithRefs(x.client[c], n)
      BY <2>2 DEF World
    <3> HIDE DEF n, y
    <3> QED BY <1>3, <3>1, <3>2, WithRefsIs DEF Alike
  <2>5. ~Bad(y)
    BY <1>3, <2>2 DEF Bad
  <2> HIDE DEF y
  <2> QED BY <2>1, <2>2, <2>3, <2>4, <2>5, FreedGood
<1> QED BY <1>1, <1>2, <1>3

\* e_object_del marks the client before it gives back the reference of its owner.
LEMMA MarkedGood ==
  ASSUME NEW x \in World, NEW c \in Client, NEW d, Good(x, None, d),
         ~x.client[c].freed, ~x.client[c].deleted
  PROVE  /\ SetClient(x, c, WithDeleted(x.client[c])) \in World
         /\ Good(SetClient(x, c, WithDeleted(x.client[c])), c, d)
<1> DEFINE z == WithDeleted(x.client[c])
           y == SetClient(x, c, z)
<1>1. x.client[c] \in Gcc
  BY DEF World
<1>2. z \in Gcc /\ Alike(z, x.client[c]) /\ z.refs = x.client[c].refs /\ z.deleted = TRUE
  BY <1>1, WithDeletedIs
<1> HIDE DEF z
<1>3. /\ y \in World /\ y.client = [x.client EXCEPT ![c] = z]
      /\ y.queue = x.queue /\ y.mishaps = x.mishaps
      /\ y.dragged = x.dragged /\ y.config = x.config /\ y.thrown = x.thrown
  BY <1>2, SetClientIs, RestIs
<1> HIDE DEF y
<1>4. y.client[c] = z /\ \A b \in Client : b # c => y.client[b] = x.client[b]
  BY <1>3 DEF World
<1>5. CASE Bad(x)
  BY <1>3, <1>5, BadStays DEF y, z
<1>6. CASE ~Bad(x)
  <2>1. Counted(x, None) /\ Held(x) /\ Kept(x, d)
    BY <1>6 DEF Good
  <2>2. Counted(y, c)
    <3> SUFFICES ASSUME NEW b \in Client, ~y.client[b].freed
                 PROVE  y.client[b].refs = Owed(y, b, c)
      BY DEF Counted
    <3>0. EventsOf(x.queue, b) \in Nat
      BY EventsFinite DEF World
    <3>1. CASE b = c
      <4> DEFINE drag == IF x.dragged = c THEN 1 ELSE 0
      <4>1. drag \in Nat
        OBVIOUS
      <4>2. x.client[c].refs = 1 + drag + EventsOf(x.queue, c) + 0
        BY <2>1, NoneIsNone DEF Counted, Owed
      <4>3. Owed(y, c, c) = 0 + drag + EventsOf(x.queue, c) + 1
        BY <1>2, <1>3, <1>4 DEF Owed
      <4> HIDE DEF drag
      <4>4. y.client[c].refs = Owed(y, c, c)
        BY <1>2, <1>4, <3>0, <3>1, <4>1, <4>2, <4>3
      <4> QED BY <3>1, <4>4
    <3>2. CASE b # c
      <4>1. x.client[b].refs = Owed(x, b, None) /\ Owed(x, b, c) = Owed(x, b, None)
        BY <1>4, <2>1, <3>2, OwedIs DEF Counted
      <4> QED BY <1>3, <1>4, <3>2, <4>1 DEF Owed
    <3> QED BY <3>1, <3>2
  <2>3. x.dragged # None => x.dragged \in Client
    BY DEF World
  <2>4. \A b \in Client : y.client[b].freed = x.client[b].freed /\ y.client[b].cf = x.client[b].cf
    BY <1>2, <1>4 DEF Alike
  <2>5. Held(y) /\ Kept(y, d)
    BY <1>3, <2>1, <2>3, <2>4 DEF Held, Kept
  <2> QED BY <1>3, <2>1, <2>2, <2>5 DEF Good, y, z
<1> QED BY <1>3, <1>5, <1>6 DEF y, z

\* e_object_del gives back the reference of the owner, once.
LEMMA DelOtherGood ==
  ASSUME NEW x \in World, NEW c \in Client, NEW d, Good(x, None, d)
  PROVE  Good(DelOther(x, c), None, d)
<1> DEFINE y == SetClient(x, c, WithDeleted(x.client[c]))
<1>1. DelOther(x, c) = IF x.client[c].freed THEN Wild(x)
                       ELSE IF x.client[c].deleted THEN x ELSE UnrefOther(y, c)
  BY DelOtherIs
<1>2. Good(Wild(x), None, d)
  BY WildGood
<1>3. CASE ~x.client[c].freed /\ ~x.client[c].deleted
  <2>1. y \in World /\ Good(y, c, d)
    BY <1>3, MarkedGood
  <2> HIDE DEF y
  <2> QED BY <1>1, <1>3, <2>1, UnrefOtherGood
<1> QED BY <1>1, <1>2, <1>3


-----------------------------------------------------------------------------
(* The drag.                                                               *)

Core(x) == <<x.client, x.queue, x.dragged, x.config, x.thrown>>

\* What changes none of these keeps the references and the gadgets.
LEMMA CoreStays ==
  ASSUME NEW x \in World, NEW y \in World, Core(y) = Core(x), x.mishaps \subseteq y.mishaps,
         NEW e, NEW d, Good(x, e, d)
  PROVE  Good(y, e, d)
<1>1. /\ y.client = x.client /\ y.queue = x.queue /\ y.dragged = x.dragged
      /\ y.config = x.config /\ y.thrown = x.thrown
  BY DEF Core
<1> QED BY <1>1, GoodStays

\* e_gadcon_client_config_del changes no reference and no list of a shelf.
LEMMA ConfigDelIs ==
  ASSUME NEW x \in World, NEW g \in GG, NEW gcc
  PROVE  /\ Worse(x, ConfigDel(x, g, gcc)) /\ Core(ConfigDel(x, g, gcc)) = Core(x)
         /\ ConfigDel(x, g, gcc).over = x.over
<1>1. CASE g = None
  BY <1>1 DEF ConfigDel, Worse
<1>2. CASE g # None /\ g \in x.deleted
  <2>1. ConfigDel(x, g, gcc) = Wild(x)
    BY <1>2 DEF ConfigDel
  <2> QED BY <2>1, WildIs, RestIs DEF Core
<1>3. CASE g # None /\ g \notin x.deleted
  <2> DEFINE awaiting == [s \in Shelf |-> x.awaiting[s] \ {g}]
             more == IF \E c \in Client : /\ ~x.client[c].freed /\ ~x.client[c].told
                                          /\ x.client[c].cf = g /\ c # gcc
                     THEN {"shared"} ELSE {}
             y == [x EXCEPT !.deleted = @ \cup {g}, !.awaiting = awaiting,
                            !.mishaps = @ \cup more]
  <2>1. ConfigDel(x, g, gcc) = y
    BY <1>3 DEF ConfigDel
  <2>2. awaiting \in [Shelf -> SUBSET GG] /\ more \in SUBSET Mishap
    BY DEF World, Mishap
  <2> HIDE DEF awaiting, more
  <2>3. y \in World
    BY <2>2 DEF World
  <2>4. Core(y) = Core(x) /\ y.over = x.over /\ x.mishaps \subseteq y.mishaps
    BY DEF World, Core
  <2> QED BY <2>1, <2>3, <2>4 DEF Worse
<1> QED BY <1>1, <1>2, <1>3

\* Where the gadget would go.
SetNew(x, s, v) == [x EXCEPT !.new[s] = v]

\* new_gcc is no reference.
LEMMA SetNewIs ==
  ASSUME NEW x \in World, NEW s, NEW v \in Client \cup {None}
  PROVE  /\ Worse(x, SetNew(x, s, v)) /\ Core(SetNew(x, s, v)) = Core(x)
         /\ SetNew(x, s, v).over = x.over
<1>1. [x.new EXCEPT ![s] = v] \in [Shelf -> Client \cup {None}]
  BY DEF World
<1>2. SetNew(x, s, v) \in World
  BY <1>1 DEF World, SetNew
<1> QED BY <1>2 DEF World, SetNew, Core, Worse

SetHidden(x, c, h) == SetClient(x, c, WithHidden(x.client[c], h))

\* Hiding a client changes no reference.
LEMMA HiddenIs ==
  ASSUME NEW x \in World, NEW c \in Client, NEW h \in BOOLEAN,
         NEW e, NEW d
  PROVE  /\ Worse(x, SetHidden(x, c, h)) /\ Rest(SetHidden(x, c, h)) = Rest(x)
         /\ Good(x, e, d) => Good(SetHidden(x, c, h), e, d)
<1> DEFINE z == WithHidden(x.client[c], h)
           y == SetHidden(x, c, h)
<1>1. /\ z \in Gcc /\ Alike(z, x.client[c]) /\ z.refs = x.client[c].refs
      /\ z.deleted = x.client[c].deleted
  BY WithHiddenIs DEF World
<1> HIDE DEF z
<1>2. /\ SetClient(x, c, z) \in World
      /\ SetClient(x, c, z).client = [x.client EXCEPT ![c] = z]
      /\ SetClient(x, c, z).queue = x.queue /\ SetClient(x, c, z).mishaps = x.mishaps
      /\ Rest(SetClient(x, c, z)) = Rest(x)
  BY <1>1, SetClientIs
<1>3. y = SetClient(x, c, z)
  BY DEF z, SetHidden
<1> HIDE DEF y
<1>4. y \in World /\ y.client = [x.client EXCEPT ![c] = z] /\ y.queue = x.queue
      /\ y.mishaps = x.mishaps /\ Rest(y) = Rest(x)
  BY <1>2, <1>3
<1>5. /\ y.dragged = x.dragged /\ y.config = x.config /\ y.thrown = x.thrown
  BY <1>4, RestIs
<1>6. \A b \in Client : /\ y.client[b].freed = x.client[b].freed
                        /\ y.client[b].refs = x.client[b].refs
                        /\ y.client[b].deleted = x.client[b].deleted
                        /\ y.client[b].cf = x.client[b].cf
  <2> TAKE b \in Client
  <2>1. y.client[b] = IF b = c THEN z ELSE x.client[b]
    BY <1>4 DEF World
  <2> QED BY <1>1, <2>1 DEF Alike
<1>7. Good(x, e, d) => Good(y, e, d)
  BY <1>4, <1>5, <1>6, GoodStays
<1> QED BY <1>4, <1>7 DEF Worse, y

\* Leaving a shelf deletes the client shown there, and the drag goes on.
LEMMA LeaveIs ==
  ASSUME NEW x \in World, x.dragged \in Client, NEW s \in Shelf, NEW d
  PROVE  /\ Worse(x, Leave(x, s)) /\ Leave(x, s).dragged = x.dragged
         /\ Good(x, None, d) => Good(Leave(x, s), None, d)
<1> DEFINE hid == IF x.client[x.dragged].shelf = s THEN SetHidden(x, x.dragged, TRUE) ELSE x
           y == DelOther(hid, x.new[s])
<1>1. Leave(x, s) = IF x.new[s] = None THEN hid ELSE SetNew(y, s, None)
  BY DEF Leave, SetHidden, SetClient, WithHidden, SetNew
<1>2. /\ Worse(x, hid) /\ Rest(hid) = Rest(x) /\ hid \in World
      /\ Good(x, None, d) => Good(hid, None, d)
  <2>1. /\ Worse(x, SetHidden(x, x.dragged, TRUE)) /\ Rest(SetHidden(x, x.dragged, TRUE)) = Rest(x)
        /\ Good(x, None, d) => Good(SetHidden(x, x.dragged, TRUE), None, d)
    BY HiddenIs
  <2> QED BY <2>1 DEF Worse
<1>3. hid.dragged = x.dragged
  BY <1>2, RestIs
<1> HIDE DEF hid
<1>4. CASE x.new[s] = None
  BY <1>1, <1>2, <1>3, <1>4
<1>5. CASE x.new[s] # None
  <2>1. x.new[s] \in Client
    BY <1>5 DEF World
  <2>2. /\ Worse(hid, y) /\ Rest(y) = Rest(hid) /\ (Good(hid, None, d) => Good(y, None, d))
    BY <1>2, <2>1, DelOtherIs, DelOtherGood
  <2>3. y.dragged = x.dragged /\ y \in World
    BY <1>3, <2>2, RestIs DEF Worse
  <2> HIDE DEF y
  <2>4. Worse(y, SetNew(y, s, None)) /\ Core(SetNew(y, s, None)) = Core(y)
    BY <2>3, SetNewIs
  <2>5. SetNew(y, s, None).dragged = x.dragged
    BY <2>3, <2>4 DEF Core
  <2>6. Good(y, None, d) => Good(SetNew(y, s, None), None, d)
    BY <2>3, <2>4, CoreStays DEF Worse
  <2>7. Worse(x, SetNew(y, s, None))
    BY <1>2, <2>2, <2>4, WorseTransitive
  <2> QED BY <1>1, <1>2, <1>5, <2>2, <2>5, <2>6, <2>7
<1> QED BY <1>4, <1>5

\* The pointer is over no shelf.
LEMMA SetOverIs ==
  ASSUME NEW x \in World, NEW s \in Shelf \cup {None}
  PROVE  /\ Worse(x, [x EXCEPT !.over = s]) /\ Core([x EXCEPT !.over = s]) = Core(x)
BY DEF World, Core, Worse

\* So it does when the pointer leaves the shelf it is over.
LEMMA LeftIs ==
  ASSUME NEW x \in World, x.dragged \in Client, NEW d
  PROVE  /\ Worse(x, Left(x)) /\ Left(x).dragged = x.dragged
         /\ Good(x, None, d) => Good(Left(x), None, d)
<1>1. CASE x.over = None
  BY <1>1 DEF Left, Worse
<1>2. CASE x.over # None
  <2> DEFINE y == Leave(x, x.over)
             z == [y EXCEPT !.over = None]
  <2>1. x.over \in Shelf
    BY <1>2 DEF World
  <2>2. Worse(x, y) /\ y.dragged = x.dragged /\ (Good(x, None, d) => Good(y, None, d))
    BY <2>1, LeaveIs
  <2>3. y \in World
    BY <2>2 DEF Worse
  <2>4. Left(x) = z
    BY <1>2 DEF Left
  <2> HIDE DEF y
  <2>5. Worse(y, z) /\ Core(z) = Core(y)
    BY <2>3, SetOverIs
  <2> HIDE DEF z
  <2>6. z.dragged = x.dragged
    BY <2>2, <2>5 DEF Core
  <2>7. Good(y, None, d) => Good(z, None, d)
    BY <2>3, <2>5, CoreStays DEF Worse
  <2>8. Worse(x, z)
    BY <2>2, <2>5, WorseTransitive
  <2> QED BY <2>2, <2>4, <2>6, <2>7, <2>8
<1> QED BY <1>1, <1>2


\* The drag is over.
Ended(x, s) == [x EXCEPT !.dragged = None, !.active = {}, !.over = None, !.new[s] = None]

\* The end of the drag changes neither clients nor configuration.
LEMMA EndedIs ==
  ASSUME NEW x \in World, NEW s
  PROVE  /\ Worse(x, Ended(x, s)) /\ Ended(x, s).mishaps = x.mishaps
         /\ Ended(x, s).client = x.client /\ Ended(x, s).queue = x.queue
         /\ Ended(x, s).config = x.config /\ Ended(x, s).thrown = x.thrown
         /\ Ended(x, s).dragged = None
<1>1. [x.new EXCEPT ![s] = None] \in [Shelf -> Client \cup {None}]
  BY DEF World
<1>2. Ended(x, s) \in World
  BY <1>1 DEF World, Ended
<1> QED BY <1>2 DEF World, Ended, Worse

\* What was the reference of the drag is now to be given back.
LEMMA EndedGood ==
  ASSUME NEW x \in World, NEW s, NEW c \in Client, x.dragged = c, Good(x, None, FALSE)
  PROVE  Good(Ended(x, s), c, TRUE)
<1> DEFINE y == Ended(x, s)
<1>1. /\ y.mishaps = x.mishaps /\ y.client = x.client /\ y.queue = x.queue
      /\ y.config = x.config /\ y.thrown = x.thrown /\ y.dragged = None
  BY EndedIs
<1> HIDE DEF y
<1>2. CASE Bad(x)
  BY <1>1, <1>2 DEF Bad, Good, y
<1>3. CASE ~Bad(x)
  <2>1. Counted(x, None) /\ Kept(x, FALSE)
    BY <1>3 DEF Good
  <2>2. Counted(y, c)
    <3> SUFFICES ASSUME NEW b \in Client, ~y.client[b].freed
                 PROVE  y.client[b].refs = Owed(y, b, c)
      BY DEF Counted
    <3>1. x.client[b].refs = Owed(x, b, None)
      BY <1>1, <2>1 DEF Counted
    <3> DEFINE own == IF x.client[b].deleted THEN 0 ELSE 1
               more == IF c = b THEN 1 ELSE 0
    <3>2. own \in Nat /\ more \in Nat /\ EventsOf(x.queue, b) \in Nat
      BY EventsFinite DEF World
    <3>3. Owed(x, b, None) = own + more + EventsOf(x.queue, b) + 0
      BY NoneIsNone DEF Owed
    <3>4. Owed(y, b, c) = own + 0 + EventsOf(x.queue, b) + more
      BY <1>1, NoneIsNone DEF Owed
    <3> HIDE DEF own, more
    <3> QED BY <1>1, <3>1, <3>2, <3>3, <3>4
  <2>3. Held(y) /\ Kept(y, TRUE)
    BY <1>1, <2>1 DEF Held, Kept
  <2> QED BY <2>2, <2>3 DEF Good, y
<1> QED BY <1>2, <1>3

SetConfig(x, c, g) == SetClient(x, c, WithConfig(x.client[c], g))

\* A client without its configuration; its gadget is not counted as the drag's.
LEMMA SetConfigIs ==
  ASSUME NEW x \in World, NEW c \in Client, NEW g \in GG
  PROVE  /\ Worse(x, SetConfig(x, c, g)) /\ Rest(SetConfig(x, c, g)) = Rest(x)
         /\ Good(x, None, FALSE) => Good(SetConfig(x, c, g), None, FALSE)
<1> DEFINE z == WithConfig(x.client[c], g)
           y == SetConfig(x, c, g)
<1>1. /\ z \in Gcc /\ z.freed = x.client[c].freed /\ z.refs = x.client[c].refs
      /\ z.deleted = x.client[c].deleted
  BY WithConfigIs DEF World
<1> HIDE DEF z
<1>2. /\ SetClient(x, c, z) \in World
      /\ SetClient(x, c, z).client = [x.client EXCEPT ![c] = z]
      /\ SetClient(x, c, z).queue = x.queue /\ SetClient(x, c, z).mishaps = x.mishaps
      /\ Rest(SetClient(x, c, z)) = Rest(x)
  BY <1>1, SetClientIs
<1>3. y = SetClient(x, c, z)
  BY DEF z, SetConfig
<1> HIDE DEF y
<1>4. y \in World /\ y.client = [x.client EXCEPT ![c] = z] /\ y.queue = x.queue
      /\ y.mishaps = x.mishaps /\ Rest(y) = Rest(x)
  BY <1>2, <1>3
<1>5. /\ y.dragged = x.dragged /\ y.config = x.config /\ y.thrown = x.thrown
  BY <1>4, RestIs
<1>6. \A b \in Client : /\ y.client[b].freed = x.client[b].freed
                        /\ y.client[b].refs = x.client[b].refs
                        /\ y.client[b].deleted = x.client[b].deleted
  <2> TAKE b \in Client
  <2>1. y.client[b] = IF b = c THEN z ELSE x.client[b]
    BY <1>4 DEF World
  <2> QED BY <1>1, <2>1
<1>7. Good(x, None, FALSE) => Good(y, None, FALSE)
  BY <1>4, <1>5, <1>6, GoodStays
<1> QED BY <1>4, <1>7 DEF Worse, y

\* The gadget of the drag goes back to the configuration or is thrown away.
LEMMA FinishedIs ==
  ASSUME NEW x \in World, NEW c \in Client, NEW dropped \in BOOLEAN
  PROVE  /\ Worse(x, Finished(x, c, dropped))
         /\ x.dragged = c /\ Good(x, None, FALSE) => Good(Finished(x, c, dropped), c, TRUE)
<1> DEFINE y == ConfigDel(x, x.client[c].cf, c)
           z == SetConfig(y, c, None)
           k == IF dropped THEN x ELSE DelOther(z, c)
<1>1. Finished(x, c, dropped) = Ended(k, x.client[c].shelf)
  BY DEF Finished, Ended, SetConfig, SetClient, WithConfig
<1>2. x.client[c].cf \in GG
  BY DEF World, Gcc
<1>3. Worse(x, y) /\ Core(y) = Core(x)
  BY <1>2, ConfigDelIs
<1> HIDE DEF y
<1>4. /\ y \in World /\ y.dragged = x.dragged
      /\ Good(x, None, FALSE) => Good(y, None, FALSE)
  BY <1>3, CoreStays DEF Core, Worse
<1>5. /\ Worse(y, z) /\ Rest(z) = Rest(y)
      /\ Good(y, None, FALSE) => Good(z, None, FALSE)
  BY <1>4, SetConfigIs DEF GG
<1> HIDE DEF z
<1>6. z \in World /\ z.dragged = x.dragged
  BY <1>4, <1>5, RestIs DEF Worse
<1>7. /\ Worse(z, DelOther(z, c)) /\ Rest(DelOther(z, c)) = Rest(z)
      /\ Good(z, None, FALSE) => Good(DelOther(z, c), None, FALSE)
  BY <1>6, DelOtherIs, DelOtherGood
<1>8. /\ Worse(x, k) /\ k.dragged = x.dragged
      /\ Good(x, None, FALSE) => Good(k, None, FALSE)
  <2>1. CASE dropped
    BY <2>1 DEF Worse
  <2>2. CASE ~dropped
    <3>1. k = DelOther(z, c)
      BY <2>2
    <3>2. k.dragged = x.dragged
      BY <1>6, <1>7, <3>1, RestIs
    <3>3. Worse(x, k)
      BY <1>3, <1>5, <1>7, <3>1, WorseTransitive
    <3> QED BY <1>4, <1>5, <1>7, <3>1, <3>2, <3>3
  <2> QED BY <2>1, <2>2
<1> HIDE DEF k
<1>9. k \in World
  BY <1>8 DEF Worse
<1>10. Worse(k, Ended(k, x.client[c].shelf))
  BY <1>9, EndedIs
<1>11. x.dragged = c /\ Good(x, None, FALSE) => Good(Ended(k, x.client[c].shelf), c, TRUE)
  BY <1>8, <1>9, EndedGood
<1>12. Worse(x, Ended(k, x.client[c].shelf))
  BY <1>8, <1>10, WorseTransitive
<1> QED BY <1>1, <1>11, <1>12

\* The reference of the drag is given back at its end.
LEMMA EndIs ==
  ASSUME NEW x \in World, NEW c \in Client, NEW dropped \in BOOLEAN
  PROVE  /\ Worse(x, End(x, c, dropped))
         /\ x.dragged = c /\ Good(x, None, FALSE) => Good(End(x, c, dropped), None, TRUE)
<1> DEFINE y == Finished(x, c, dropped)
<1>1. Worse(x, y) /\ (x.dragged = c /\ Good(x, None, FALSE) => Good(y, c, TRUE))
  BY FinishedIs
<1>2. y \in World
  BY <1>1 DEF Worse
<1>3. End(x, c, dropped) = UnrefOther(y, c)
  BY DEF End
<1> HIDE DEF y
<1>4. Worse(y, UnrefOther(y, c)) /\ (Good(y, c, TRUE) => Good(UnrefOther(y, c), None, TRUE))
  BY <1>2, UnrefOtherIs, UnrefOtherGood
<1>5. Worse(x, UnrefOther(y, c))
  BY <1>1, <1>4, WorseTransitive
<1> QED BY <1>1, <1>3, <1>4, <1>5

SetRefs(x, c, n) == SetClient(x, c, WithRefs(x.client[c], n))

\* The client that is dragged has the reference of the drag, and what gives back
\* another one does not end the drag.
LEMMA UnrefIs ==
  ASSUME NEW x \in World, NEW c \in Client, NEW d
  PROVE  /\ Worse(x, Unref(x, c))
         /\ ~Bad(x) /\ Good(x, c, d) => Unref(x, c) = UnrefOther(x, c)
         /\ Good(x, c, d) => Good(Unref(x, c), None, d)
<1> DEFINE y == SetRefs(x, c, 0)
           z == Left(y)
           f == Finished(z, c, FALSE)
<1>1. Unref(x, c) = IF c = x.dragged /\ x.client[c].refs = 1 THEN Freed(f, c) ELSE UnrefOther(x, c)
  BY DEF Unref, SetRefs, SetClient, WithRefs
<1>2. Worse(x, UnrefOther(x, c)) /\ (Good(x, c, d) => Good(UnrefOther(x, c), None, d))
  BY UnrefOtherIs, UnrefOtherGood
<1>3. ASSUME c = x.dragged PROVE Worse(x, Freed(f, c))
  <2>1. WithRefs(x.client[c], 0) \in Gcc
    BY WithRefsIs DEF World
  <2>2. y \in World /\ Worse(x, y) /\ y.dragged = c
    <3>1. /\ SetClient(x, c, WithRefs(x.client[c], 0)) \in World
          /\ SetClient(x, c, WithRefs(x.client[c], 0)).mishaps = x.mishaps
          /\ Rest(SetClient(x, c, WithRefs(x.client[c], 0))) = Rest(x)
      BY <2>1, SetClientIs
    <3> HIDE DEF World
    <3>2. y \in World /\ y.mishaps = x.mishaps /\ Rest(y) = Rest(x)
      BY <3>1 DEF SetRefs
    <3> HIDE DEF y
    <3> QED BY <1>3, <3>2, RestIs DEF Worse
  <2> HIDE DEF y
  <2>3. Worse(y, z)
    BY <2>2, LeftIs
  <2>4. z \in World
    BY <2>3 DEF Worse
  <2> HIDE DEF z
  <2>5. Worse(z, f)
    BY <2>4, FinishedIs
  <2>6. f \in World
    BY <2>5 DEF Worse
  <2> HIDE DEF f
  <2>7. Worse(f, Freed(f, c))
    BY <2>6, FreedIs
  <2> QED BY <2>2, <2>3, <2>5, <2>7, WorseTransitive
<1>4. ASSUME ~Bad(x), Good(x, c, d) PROVE ~(c = x.dragged /\ x.client[c].refs = 1)
  <2> SUFFICES ASSUME c = x.dragged, x.client[c].refs = 1 PROVE FALSE
    OBVIOUS
  <2>1. Counted(x, c) /\ Held(x)
    BY <1>4 DEF Good
  <2>2. ~x.client[c].freed
    BY <2>1, NoneIsNone DEF Held
  <2>3. 1 = Owed(x, c, c)
    BY <2>1, <2>2 DEF Counted
  <2> DEFINE own == IF x.client[c].deleted THEN 0 ELSE 1
  <2>4. 1 = own + 1 + EventsOf(x.queue, c) + 1
    BY <2>3 DEF Owed
  <2>5. own \in Nat /\ EventsOf(x.queue, c) \in Nat
    BY EventsFinite DEF World
  <2> HIDE DEF own
  <2> QED BY <2>4, <2>5
<1> HIDE DEF f
<1>5. Worse(x, Unref(x, c))
  BY <1>1, <1>2, <1>3
<1>6. ~Bad(x) /\ Good(x, c, d) => Unref(x, c) = UnrefOther(x, c)
  BY <1>1, <1>4
<1>7. Good(x, c, d) => Good(Unref(x, c), None, d)
  BY <1>2, <1>5, <1>6, BadStays DEF Worse
<1> QED BY <1>5, <1>6, <1>7

\* The same of e_object_del: the reference of the owner is not the last one.
LEMMA DelIs ==
  ASSUME NEW x \in World, NEW c \in Client, NEW d
  PROVE  /\ Worse(x, Del(x, c))
         /\ ~Bad(x) /\ Good(x, None, d) => Del(x, c) = DelOther(x, c)
         /\ Good(x, None, d) => Good(Del(x, c), None, d)
<1> DEFINE y == SetClient(x, c, WithDeleted(x.client[c]))
<1>1. Del(x, c) = IF x.client[c].freed \/ x.client[c].deleted THEN DelOther(x, c) ELSE Unref(y, c)
  BY DEF Del, SetClient, WithDeleted
<1>2. DelOther(x, c) = IF x.client[c].freed THEN Wild(x)
                       ELSE IF x.client[c].deleted THEN x ELSE UnrefOther(y, c)
  BY DelOtherIs
<1>3. Worse(x, DelOther(x, c)) /\ (Good(x, None, d) => Good(DelOther(x, c), None, d))
  BY DelOtherIs, DelOtherGood
<1>4. y \in World /\ y.mishaps = x.mishaps
  <2>1. WithDeleted(x.client[c]) \in Gcc
    BY WithDeletedIs DEF World
  <2> QED BY <2>1, SetClientIs
<1>5. ASSUME Good(x, None, d), ~x.client[c].freed, ~x.client[c].deleted PROVE Good(y, c, d)
  BY <1>5, MarkedGood
<1> HIDE DEF y
<1>6. /\ Worse(y, Unref(y, c))
      /\ ~Bad(y) /\ Good(y, c, d) => Unref(y, c) = UnrefOther(y, c)
      /\ Good(y, c, d) => Good(Unref(y, c), None, d)
  BY <1>4, UnrefIs
<1>7. Bad(y) <=> Bad(x)
  BY <1>4 DEF Bad
<1>8. Worse(x, Unref(y, c))
  BY <1>4, <1>6 DEF Worse
<1> QED BY <1>1, <1>2, <1>3, <1>5, <1>6, <1>7, <1>8


-----------------------------------------------------------------------------
(* What the operators that show and remove gadgets keep.                   *)

Sound == {x \in World : Good(x, None, TRUE)}

\* What concerns neither references, drag nor configuration keeps the state sound.
LEMMA SoundStays ==
  ASSUME NEW x \in Sound, NEW y \in World, Core(y) = Core(x), x.mishaps \subseteq y.mishaps
  PROVE  y \in Sound
BY CoreStays DEF Sound

\* The deletion of a client keeps the state sound.
LEMMA DelSound ==
  ASSUME NEW x \in Sound, NEW c \in Client
  PROVE  Del(x, c) \in Sound
BY DelIs DEF Sound, Worse

\* So does, by definition, the use of freed memory.
LEMMA WildSound ==
  ASSUME NEW x \in World
  PROVE  Wild(x) \in Sound
BY WildIs, WildGood DEF Sound

\* A client that is made has a reference of its owner and one of its event.
Fresh(x) == {c \in Client : /\ x.client[c].freed /\ c # x.dragged
                            /\ \A t \in Shelf : x.new[t] # c
                            /\ \A i \in DOMAIN x.queue : x.queue[i].gcc # c}

Made(s, g) == [shelf |-> s, cf |-> g, class |-> ClassOf[g], refs |-> 2, deleted |-> FALSE,
               told |-> FALSE, hidden |-> FALSE, freed |-> FALSE]

\* A client that is made is well-formed.
LEMMA MadeIs ==
  ASSUME NEW s \in Shelf, NEW g \in GG
  PROVE  /\ Made(s, g) \in Gcc /\ Made(s, g).refs = 2 /\ ~Made(s, g).freed /\ ~Made(s, g).deleted
BY DEF Made, Gcc, Kinds

\* A client is made of one that nothing refers to.
LEMMA NewClientSound ==
  ASSUME NEW x \in Sound, NEW s \in Shelf, NEW g \in GG
  PROVE  /\ NewClient(x, s, g) \in Sound
         /\ Fresh(x) = {} => NewClient(x, s, g).short
         /\ Fresh(x) # {} => \E c \in Client : /\ x.client[c].freed
                                               /\ NewClient(x, s, g).client[c] = Made(s, g)
<1>0. x \in World /\ Good(x, None, TRUE)
  BY DEF Sound
<1>1. CASE Fresh(x) = {}
  <2> DEFINE y == [x EXCEPT !.short = TRUE]
  <2>1. NewClient(x, s, g) = y
    BY <1>1 DEF NewClient, Fresh
  <2>2. y \in World /\ Core(y) = Core(x) /\ y.mishaps = x.mishaps /\ y.short
    BY <1>0 DEF World, Core
  <2> HIDE DEF y
  <2> QED BY <1>1, <2>1, <2>2, SoundStays
<1>2. CASE Fresh(x) # {}
  <2> DEFINE c == CHOOSE d \in Fresh(x) : TRUE
             z == Made(s, g)
             e == Event("add", c)
             y == [x EXCEPT !.client[c] = z, !.clients[s] = Append(@, c), !.queue = Append(@, e)]
  <2>1. c \in Fresh(x)
    BY <1>2
  <2>2. NewClient(x, s, g) = y
    BY <1>2 DEF NewClient, Fresh, Made
  <2> HIDE DEF c
  <2>3. /\ c \in Client /\ x.client[c].freed /\ c # x.dragged
        /\ \A i \in DOMAIN x.queue : x.queue[i].gcc # c
    BY <2>1 DEF Fresh
  <2>4. z \in Gcc /\ z.refs = 2 /\ ~z.freed /\ ~z.deleted
    BY <1>0, MadeIs
  <2>5. e \in Ev /\ e.gcc = c
    BY <2>3 DEF Event, Ev
  <2> HIDE DEF z, e
  <2>6. /\ x.client \in [Client -> Gcc] /\ x.clients \in [Shelf -> Seq(Client)] /\ x.queue \in Seq(Ev)
    BY <1>0 DEF World
  <2>7. /\ [x.client EXCEPT ![c] = z] \in [Client -> Gcc]
        /\ [x.clients EXCEPT ![s] = Append(@, c)] \in [Shelf -> Seq(Client)]
        /\ Append(x.queue, e) \in Seq(Ev)
    BY <2>3, <2>4, <2>5, <2>6
  <2>8. y \in World
    BY <1>0, <2>7 DEF World
  <2>9. /\ y.client = [x.client EXCEPT ![c] = z] /\ y.queue = Append(x.queue, e)
        /\ y.dragged = x.dragged /\ y.config = x.config /\ y.thrown = x.thrown
        /\ y.mishaps = x.mishaps
    BY <1>0 DEF World
  <2> HIDE DEF y
  <2>10. /\ y.client[c] = z
         /\ \A b \in Client : b # c => y.client[b] = x.client[b]
    BY <2>3, <2>6, <2>9
  <2>11. Good(y, None, TRUE)
    <3>1. CASE Bad(x)
      BY <2>9, <3>1, BadStays
    <3>2. CASE ~Bad(x)
      <4>1. Counted(x, None) /\ Held(x) /\ Kept(x, TRUE)
        BY <1>0, <3>2 DEF Good
      <4>2. EventsOf(x.queue, c) = 0
        <5>1. {i \in DOMAIN x.queue : x.queue[i].gcc = c} = {}
          BY <2>3
        <5> QED BY <5>1, FS_EmptySet DEF EventsOf
      <4>3. Counted(y, None)
        <5> SUFFICES ASSUME NEW b \in Client, ~y.client[b].freed
                     PROVE  y.client[b].refs = Owed(y, b, None)
          BY DEF Counted
        <5>1. EventsOf(y.queue, b) = EventsOf(x.queue, b) + (IF c = b THEN 1 ELSE 0)
          BY <2>5, <2>6, <2>9, EventsAppend
        <5>2. EventsOf(x.queue, b) \in Nat
          BY <2>6, EventsFinite
        <5>3. CASE b = c
          <6>1. EventsOf(y.queue, c) = 1
            BY <4>2, <5>1, <5>3
          <6>2. Owed(y, c, None) = 1 + 0 + 1 + 0
            BY <2>3, <2>4, <2>9, <2>10, <6>1, NoneIsNone DEF Owed
          <6> QED BY <2>4, <2>10, <5>3, <6>2
        <5>4. CASE b # c
          <6>1. EventsOf(y.queue, b) = EventsOf(x.queue, b)
            BY <5>1, <5>2, <5>4
          <6> QED BY <2>9, <2>10, <4>1, <5>4, <6>1 DEF Owed, Counted
        <5> QED BY <5>3, <5>4
      <4>4. x.dragged # None => x.dragged \in Client
        BY <1>0 DEF World
      <4>5. Held(y) /\ Kept(y, TRUE)
        BY <2>3, <2>9, <2>10, <4>1, <4>4 DEF Held, Kept
      <4> QED BY <4>3, <4>5 DEF Good
    <3> QED BY <3>1, <3>2
  <2> QED BY <1>2, <2>2, <2>3, <2>8, <2>10, <2>11 DEF Sound, z
<1> QED BY <1>1, <1>2

\* A gadget waits for its class.
LEMMA QueueSound ==
  ASSUME NEW x \in Sound, NEW s, NEW g \in GG
  PROVE  Queue(x, s, g) \in Sound
<1>1. x \in World
  BY DEF Sound
<1>2. CASE g = None \/ g \in x.deleted
  BY <1>1, <1>2, WildSound DEF Queue
<1>3. CASE ~(g = None \/ g \in x.deleted)
  <2> DEFINE y == [x EXCEPT !.awaiting[s] = @ \cup {g}]
  <2>1. [x.awaiting EXCEPT ![s] = @ \cup {g}] \in [Shelf -> SUBSET GG]
    BY <1>1 DEF World
  <2>2. y \in World
    BY <1>1, <2>1 DEF World
  <2>3. Core(y) = Core(x) /\ y.mishaps = x.mishaps
    BY <1>1 DEF World, Core
  <2>4. Queue(x, s, g) = y
    BY <1>3 DEF Queue
  <2> HIDE DEF y
  <2> QED BY <2>2, <2>3, <2>4, SoundStays
<1> QED BY <1>2, <1>3

\* The request moves the job, which no client owns.
LEMMA RequestSound ==
  ASSUME NEW x \in Sound, NEW s \in Shelf, NEW k \in Kinds
  PROVE  Request(x, s, k) \in Sound
<1>1. x \in World /\ Good(x, None, TRUE)
  BY DEF Sound
<1>2. CASE k \in x.requests[s]
  BY <1>2 DEF Request
<1>3. CASE k \notin x.requests[s]
  <2> DEFINE q == Append(RemoveFirst(x.queue, Job), Job)
             y == [x EXCEPT !.requests[s] = @ \cup {k}, !.queue = Append(RemoveFirst(@, Job), Job)]
  <2>1. [x.requests EXCEPT ![s] = @ \cup {k}] \in [Shelf -> SUBSET Kinds]
    BY <1>1 DEF World
  <2>2. q \in Seq(Ev) /\ \A c \in Client : EventsOf(q, c) = EventsOf(x.queue, c)
    <3>1. x.queue \in Seq(Ev)
      BY <1>1 DEF World
    <3>2. \A c \in Client : q \in Seq(Ev) /\ EventsOf(q, c) = EventsOf(x.queue, c)
      BY <3>1, EventsJob
    <3>3. Job \in Ev
      BY DEF Ev
    <3>4. RemoveFirst(x.queue, Job) \in Seq(Ev)
      BY <3>1, RemoveFirstOmits
    <3>5. q \in Seq(Ev)
      BY <3>3, <3>4
    <3> QED BY <3>2, <3>5
  <2>3. y \in World
    BY <1>1, <2>1, <2>2 DEF World
  <2>4. /\ y.client = x.client /\ y.queue = q /\ y.dragged = x.dragged /\ y.config = x.config
        /\ y.thrown = x.thrown /\ y.mishaps = x.mishaps
    BY <1>1 DEF World
  <2>5. Request(x, s, k) = y
    BY <1>3 DEF Request
  <2> HIDE DEF y, q
  <2>6. Good(y, None, TRUE)
    BY <1>1, <2>2, <2>3, <2>4, GoodStays
  <2> QED BY <2>3, <2>5, <2>6 DEF Sound
<1> QED BY <1>2, <1>3

\* A gadget is shown, or its class requested.
LEMMA PopulateOneSound ==
  ASSUME NEW x \in Sound, NEW s \in Shelf, NEW g \in GG
  PROVE  PopulateOne(x, s, g) \in Sound
<1>1. ClassOf[g] \in Kinds
  BY DEF Kinds
<1> QED BY <1>1, NewClientSound, RequestSound DEF PopulateOne


-----------------------------------------------------------------------------
(* The folds.                                                              *)

First(S) == CHOOSE g \in S : TRUE

PopulateStep(s, b, g, y) ==
  CASE ClassOf[g] \notin y.providers -> Queue(y, s, g)
    [] ClassOf[g] \notin y.populated[s] -> Queue(Request(y, s, ClassOf[g]), s, g)
    [] OTHER -> PopulateOne(y, s, g)

Populates == INSTANCE FoldFacts WITH F <- PopulateStep, Pick <- First

\* There are finitely many gadgets.
LEMMA GGFinite == IsFiniteSet(GG)
BY GadgetAssumption, FS_AddElement DEF GG

\* e_gadcon_populate keeps the state sound.
LEMMA PopulateSound ==
  ASSUME NEW x \in Sound, NEW s \in Shelf
  PROVE  Populate(x, s) \in Sound
<1> DEFINE T == x.config[s]
<1>1. T \in SUBSET GG
  BY DEF Sound, World
<1>2. Populate(x, s) = Populates!Fold(s, None, x, T)
  BY DEF Populate, FoldSet, MapThenFoldSet, Populates!Fold, PopulateStep, First
<1> HIDE DEF T
<1>3. Populates!Picks(T)
  <2>1. IsFiniteSet(T)
    BY <1>1, GGFinite, FS_Subset
  <2>2. Populates!IsFiniteSet(T)
    BY <2>1 DEF IsFiniteSet, Populates!IsFiniteSet
  <2>3. \A u \in SUBSET T : u # {} => First(u) \in u
    BY DEF First
  <2> QED BY <2>2, <2>3 DEF Populates!Picks
<1>4. \A g \in T : \A y \in Sound : PopulateStep(s, None, g, y) \in Sound
  <2> SUFFICES ASSUME NEW g \in GG, NEW y \in Sound PROVE PopulateStep(s, None, g, y) \in Sound
    BY <1>1
  <2>1. ClassOf[g] \in Kinds
    BY DEF Kinds
  <2>2. /\ Queue(y, s, g) \in Sound /\ PopulateOne(y, s, g) \in Sound
        /\ Request(y, s, ClassOf[g]) \in Sound
    BY <2>1, QueueSound, PopulateOneSound, RequestSound
  <2>3. Queue(Request(y, s, ClassOf[g]), s, g) \in Sound
    BY <2>2, QueueSound
  <2> QED BY <2>2, <2>3 DEF PopulateStep
<1>5. Populates!Closed(s, None, T, Sound)
  BY <1>4 DEF Populates!Closed
<1> QED BY <1>2, <1>3, <1>5, Populates!FoldClosed

\* Where a client is not gone after its deletion, the reference that is given back is
\* another's, which is a mishap.
LEMMA UnpopulateOneSound ==
  ASSUME NEW x \in Sound, NEW s \in Shelf, NEW c \in Client
  PROVE  UnpopulateOne(x, s, c) \in Sound
<1> DEFINE more == IF \E t \in Shelf : x.new[t] = c THEN {"repopulated"} ELSE {}
           z == Del(x, c)
           y == [z EXCEPT !.mishaps = IF \E t \in Shelf : x.new[t] = c
                                      THEN @ \cup {"repopulated"} ELSE @]
           v == [y EXCEPT !.mishaps = @ \cup {"dangling"}]
<1>1. z \in Sound /\ z \in World
  BY DelSound DEF Sound
<1>2. UnpopulateOne(x, s, c) = IF c \notin ToSet(x.clients[s]) THEN x
                               ELSE IF c \notin ToSet(y.clients[s]) THEN y ELSE Unref(v, c)
  BY DEF UnpopulateOne
<1> HIDE DEF z
<1>3. /\ y \in World /\ Core(y) = Core(z) /\ z.mishaps \subseteq y.mishaps
  BY <1>1 DEF World, Core, Mishap
<1>4. y \in Sound
  BY <1>1, <1>3, SoundStays
<1> HIDE DEF y
<1>5. v \in World /\ Bad(v)
  BY <1>3 DEF World, Mishap, Bad
<1> HIDE DEF v
<1>6. Unref(v, c) \in Sound
  <2>1. Good(v, c, TRUE)
    BY <1>5 DEF Good
  <2> QED BY <1>5, <2>1, UnrefIs DEF Sound, Worse
<1> QED BY <1>2, <1>4, <1>6

UnpopulateStep(s, q, i, y) == UnpopulateOne(y, s, q[i])

Unpopulates == INSTANCE FoldFacts WITH F <- UnpopulateStep, Pick <- Max

\* e_gadcon_unpopulate keeps the state sound.
LEMMA UnpopulateSound ==
  ASSUME NEW x \in Sound, NEW s \in Shelf
  PROVE  Unpopulate(x, s) \in Sound
<1> DEFINE q == x.clients[s]
           T == DOMAIN q
           y == Unpopulates!Fold(s, q, x, T)
<1>1. q \in Seq(Client)
  BY DEF Sound, World
<1>2. Unpopulate(x, s) = [y EXCEPT !.awaiting[s] = {}]
  BY DEF Unpopulate, FoldLeft, MapThenFoldSet, Unpopulates!Fold, UnpopulateStep
<1> HIDE DEF q
<1>3. Unpopulates!Picks(T)
  <2>1. T = 1 .. Len(q) /\ IsFiniteSet(T)
    BY <1>1, FS_Interval
  <2>2. Unpopulates!IsFiniteSet(T)
    BY <2>1 DEF IsFiniteSet, Unpopulates!IsFiniteSet
  <2>3. \A u \in SUBSET T : u # {} => Max(u) \in u
    BY <2>1, LargestExists
  <2> QED BY <2>2, <2>3 DEF Unpopulates!Picks
<1>4. \A i \in T : \A z \in Sound : UnpopulateStep(s, q, i, z) \in Sound
  BY <1>1, UnpopulateOneSound DEF UnpopulateStep
<1>5. Unpopulates!Closed(s, q, T, Sound)
  BY <1>4 DEF Unpopulates!Closed
<1>6. y \in Sound
  BY <1>3, <1>5, Unpopulates!FoldClosed
<1> HIDE DEF y
<1>7. y \in World
  BY <1>6 DEF Sound
<1>8. [y.awaiting EXCEPT ![s] = {}] \in [Shelf -> SUBSET GG]
  BY <1>7 DEF World
<1>9. [y EXCEPT !.awaiting[s] = {}] \in World
  BY <1>7, <1>8 DEF World
<1>10. /\ Core([y EXCEPT !.awaiting[s] = {}]) = Core(y)
       /\ [y EXCEPT !.awaiting[s] = {}].mishaps = y.mishaps
  BY <1>7 DEF World, Core
<1> QED BY <1>2, <1>6, <1>9, <1>10, SoundStays


ShowStep(s, b, g, y) == PopulateOne(y, s, g)

Shows == INSTANCE FoldFacts WITH F <- ShowStep, Pick <- First

\* Showing several gadgets on a shelf keeps the state sound.
LEMMA ShowsSound ==
  ASSUME NEW x \in Sound, NEW s \in Shelf, NEW T \in SUBSET GG
  PROVE  Shows!Fold(s, None, x, T) \in Sound
<1>1. Shows!Picks(T)
  <2>1. IsFiniteSet(T)
    BY GGFinite, FS_Subset
  <2>2. Shows!IsFiniteSet(T)
    BY <2>1 DEF IsFiniteSet, Shows!IsFiniteSet
  <2>3. \A u \in SUBSET T : u # {} => First(u) \in u
    BY DEF First
  <2> QED BY <2>2, <2>3 DEF Shows!Picks
<1>2. Shows!Closed(s, None, T, Sound)
  BY PopulateOneSound DEF Shows!Closed, ShowStep
<1> QED BY <1>1, <1>2, Shows!FoldClosed

\* The classes that were requested are populated.
Populated(y, s) ==
  [y EXCEPT !.requests[s] = {}, !.populated[s] = @ \cup y.requests[s],
            !.awaiting[s] = @ \ {g \in y.awaiting[s] : ClassOf[g] \in y.requests[s]}]

JobStep(a, b, s, y) ==
  Shows!Fold(s, None, Populated(y, s), {g \in y.awaiting[s] : ClassOf[g] \in y.requests[s]})

Jobs == INSTANCE FoldFacts WITH F <- JobStep, Pick <- First

\* There are finitely many shelves.
LEMMA ShelfPicks ==
  /\ IsFiniteSet(Shelf)
  /\ \A u \in SUBSET Shelf : u # {} => First(u) \in u
BY GadgetAssumption DEF First

\* The requests of a shelf are taken note of.
LEMMA PopulatedSound ==
  ASSUME NEW y \in Sound, NEW s \in Shelf
  PROVE  Populated(y, s) \in Sound
<1>1. y \in World
  BY DEF Sound
<1>2. /\ [y.requests EXCEPT ![s] = {}] \in [Shelf -> SUBSET Kinds]
      /\ [y.populated EXCEPT ![s] = @ \cup y.requests[s]] \in [Shelf -> SUBSET Kinds]
      /\ [y.awaiting EXCEPT ![s] = @ \ {g \in y.awaiting[s] : ClassOf[g] \in y.requests[s]}]
         \in [Shelf -> SUBSET GG]
  BY <1>1 DEF World
<1>3. Populated(y, s) \in World
  BY <1>1, <1>2 DEF World, Populated
<1>4. Core(Populated(y, s)) = Core(y) /\ Populated(y, s).mishaps = y.mishaps
  BY <1>1 DEF World, Populated, Core
<1> QED BY <1>3, <1>4, SoundStays

\* The job keeps the state sound.
LEMMA JobSound ==
  ASSUME NEW x \in Sound
  PROVE  JobRuns(x) \in Sound
<1>1. JobRuns(x) = Jobs!Fold(None, None, x, Shelf)
  BY DEF JobRuns, FoldSet, MapThenFoldSet, Jobs!Fold, JobStep, Shows!Fold, ShowStep, Populated, First
<1>2. Jobs!Picks(Shelf)
  <2>1. Jobs!IsFiniteSet(Shelf)
    BY ShelfPicks DEF IsFiniteSet, Jobs!IsFiniteSet
  <2> QED BY <2>1, ShelfPicks DEF Jobs!Picks
<1>3. \A s \in Shelf : \A y \in Sound : JobStep(None, None, s, y) \in Sound
  <2> TAKE s \in Shelf
  <2> TAKE y \in Sound
  <2> DEFINE T == {g \in y.awaiting[s] : ClassOf[g] \in y.requests[s]}
  <2>1. T \in SUBSET GG
    BY DEF Sound, World
  <2>2. JobStep(None, None, s, y) = Shows!Fold(s, None, Populated(y, s), T)
    BY DEF JobStep
  <2> HIDE DEF T
  <2> QED BY <2>1, <2>2, PopulatedSound, ShowsSound
<1>4. Jobs!Closed(None, None, Shelf, Sound)
  BY <1>3 DEF Jobs!Closed
<1> QED BY <1>1, <1>2, <1>4, Jobs!FoldClosed

RegisterStep(k, b, s, y) ==
  IF \E g \in y.awaiting[s] : ClassOf[g] = k THEN Request(y, s, k) ELSE y

Registers == INSTANCE FoldFacts WITH F <- RegisterStep, Pick <- First

\* Requesting a class for every shelf that waits for it keeps the state sound.
LEMMA RegisterSound ==
  ASSUME NEW x \in Sound, NEW k \in Class
  PROVE  Registers!Fold(k, None, x, Shelf) \in Sound
<1>1. Registers!Picks(Shelf)
  <2>1. Registers!IsFiniteSet(Shelf)
    BY ShelfPicks DEF IsFiniteSet, Registers!IsFiniteSet
  <2> QED BY <2>1, ShelfPicks DEF Registers!Picks
<1>2. \A s \in Shelf : \A y \in Sound : RegisterStep(k, None, s, y) \in Sound
  BY RequestSound DEF RegisterStep, Kinds
<1>3. Registers!Closed(k, None, Shelf, Sound)
  BY <1>2 DEF Registers!Closed
<1> QED BY <1>1, <1>3, Registers!FoldClosed

UnregisterStep(a, b, c, z) ==
  Del(SetHidden(Queue(z, z.client[c].shelf, z.client[c].cf), c, TRUE), c)

Unregisters == INSTANCE FoldFacts WITH F <- UnregisterStep, Pick <- First

\* Deleting the clients of a class keeps the state sound.
LEMMA UnregisterSound ==
  ASSUME NEW x \in Sound, NEW T \in SUBSET Client
  PROVE  Unregisters!Fold(None, None, x, T) \in Sound
<1>1. Unregisters!Picks(T)
  <2>1. IsFiniteSet(T)
    BY GadgetAssumption, FS_Subset
  <2>2. Unregisters!IsFiniteSet(T)
    BY <2>1 DEF IsFiniteSet, Unregisters!IsFiniteSet
  <2>3. \A u \in SUBSET T : u # {} => First(u) \in u
    BY DEF First
  <2> QED BY <2>2, <2>3 DEF Unregisters!Picks
<1>2. ASSUME NEW c \in Client, NEW z \in Sound PROVE UnregisterStep(None, None, c, z) \in Sound
  <2> DEFINE q == Queue(z, z.client[c].shelf, z.client[c].cf)
  <2>1. z.client[c].cf \in GG
    BY DEF Sound, World, Gcc
  <2>2. q \in Sound
    BY <2>1, QueueSound
  <2>3. UnregisterStep(None, None, c, z) = Del(SetHidden(q, c, TRUE), c)
    BY DEF UnregisterStep
  <2> HIDE DEF q
  <2>4. SetHidden(q, c, TRUE) \in Sound
    BY <2>2, HiddenIs DEF Sound, Worse
  <2> QED BY <2>3, <2>4, DelSound
<1>3. Unregisters!Closed(None, None, T, Sound)
  BY <1>2 DEF Unregisters!Closed
<1> QED BY <1>1, <1>3, Unregisters!FoldClosed


-----------------------------------------------------------------------------
(* The steps.                                                              *)

\* A step that handles what was read does what it handles.
LEMMA HandlesSound ==
  ASSUME NEW x, Handles(x)
  PROVE  w' = x
BY DEF Handles

\* The event that is delivered gives back its reference.
LEMMA DeliverSound ==
  ASSUME w \in Sound, Deliver
  PROVE  w' \in Sound
<1> DEFINE q == w.queue
           x == [w EXCEPT !.queue = Tail(@)]
<1>1. w \in World /\ Good(w, None, TRUE)
  BY DEF Sound
<1>2. q \in Seq(Ev) /\ q # <<>>
  BY <1>1 DEF World, Deliver
<1>3. w' = IF Head(q) = Job THEN JobRuns(x) ELSE Unref(x, Head(q).gcc)
  BY DEF Deliver
<1>4. Tail(q) \in Seq(Ev) /\ Head(q) \in Ev
  BY <1>2
<1>5. x \in World
  BY <1>1, <1>4 DEF World
<1>6. /\ x.client = w.client /\ x.queue = Tail(q) /\ x.dragged = w.dragged /\ x.config = w.config
      /\ x.thrown = w.thrown /\ x.mishaps = w.mishaps
  BY <1>1 DEF World
<1> HIDE DEF x
<1>7. CASE Head(q) = Job
  <2>1. \A c \in Client : EventsOf(x.queue, c) = EventsOf(q, c)
    <3> TAKE c \in Client
    <3>1. EventsOf(Tail(q), c) = EventsOf(q, c) - (IF Head(q).gcc = c THEN 1 ELSE 0)
      BY <1>2, EventsTail
    <3>2. Head(q).gcc # c
      BY <1>7, NoneIsNone DEF Job, Event
    <3>3. EventsOf(q, c) \in Nat
      BY <1>2, EventsFinite
    <3> HIDE DEF q
    <3> QED BY <1>6, <3>1, <3>2, <3>3
  <2>2. Good(x, None, TRUE)
    BY <1>1, <1>5, <1>6, <2>1, GoodStays
  <2>3. x \in Sound
    BY <1>5, <2>2 DEF Sound
  <2> QED BY <1>3, <1>7, <2>3, JobSound
<1>8. CASE Head(q) # Job
  <2> DEFINE c == Head(q).gcc
  <2>1. c \in Client
    BY <1>4, <1>8 DEF Ev
  <2> HIDE DEF c
  <2>2. Good(x, c, TRUE)
    <3>1. CASE Bad(w)
      BY <1>6, <3>1, BadStays
    <3>2. CASE ~Bad(w)
      <4>1. Counted(w, None) /\ Held(w) /\ Kept(w, TRUE)
        BY <1>1, <3>2 DEF Good
      <4>2. Counted(x, c)
        <5> SUFFICES ASSUME NEW b \in Client, ~x.client[b].freed
                     PROVE  x.client[b].refs = Owed(x, b, c)
          BY DEF Counted
        <5> DEFINE own == IF w.client[b].deleted THEN 0 ELSE 1
                   drag == IF w.dragged = b THEN 1 ELSE 0
                   one == IF c = b THEN 1 ELSE 0
        <5>1. EventsOf(Tail(q), b) = EventsOf(q, b) - one
          BY <1>2, EventsTail DEF c
        <5>2. own \in Nat /\ drag \in Nat /\ one \in Nat /\ EventsOf(q, b) \in Nat
          BY <1>2, EventsFinite
        <5>3. w.client[b].refs = own + drag + EventsOf(q, b) + 0
          BY <1>6, <4>1, NoneIsNone DEF Counted, Owed
        <5>4. Owed(x, b, c) = own + drag + EventsOf(Tail(q), b) + one
          BY <1>6 DEF Owed
        <5> HIDE DEF own, drag, one, q
        <5> QED BY <1>6, <5>1, <5>2, <5>3, <5>4
      <4>3. Held(x) /\ Kept(x, TRUE)
        BY <1>6, <4>1 DEF Held, Kept
      <4> QED BY <4>2, <4>3 DEF Good
    <3> QED BY <3>1, <3>2
  <2>3. Unref(x, c) \in Sound
    BY <1>5, <2>1, <2>2, UnrefIs DEF Sound, Worse
  <2> QED BY <1>3, <1>8, <2>3 DEF c
<1> QED BY <1>7, <1>8

\* A refresh empties and fills a shelf.
LEMMA RefreshSound ==
  ASSUME w \in Sound, NEW s \in Shelf, Refresh(s)
  PROVE  w' \in Sound
BY UnpopulateSound, PopulateSound, HandlesSound DEF Refresh

\* A shelf that is made again takes no part in the drag.
LEMMA RebuildSound ==
  ASSUME w \in Sound, NEW s \in Shelf, Rebuild(s)
  PROVE  w' \in Sound
<1> DEFINE x == Unpopulate(w, s)
           y == [x EXCEPT !.populated[s] = {}, !.requests[s] = {}, !.new[s] = None,
                          !.active = @ \ {s}, !.over = IF @ = s THEN None ELSE @]
<1>1. x \in Sound
  BY UnpopulateSound
<1>2. w' = Populate(y, s)
  BY HandlesSound DEF Rebuild
<1> HIDE DEF x
<1>3. x \in World
  BY <1>1 DEF Sound
<1>4. /\ [x.populated EXCEPT ![s] = {}] \in [Shelf -> SUBSET Kinds]
      /\ [x.requests EXCEPT ![s] = {}] \in [Shelf -> SUBSET Kinds]
      /\ [x.new EXCEPT ![s] = None] \in [Shelf -> Client \cup {None}]
      /\ x.active \ {s} \in SUBSET Shelf
      /\ (IF x.over = s THEN None ELSE x.over) \in Shelf \cup {None}
  BY <1>3 DEF World
<1>5. y \in World
  BY <1>3, <1>4 DEF World
<1>6. Core(y) = Core(x) /\ y.mishaps = x.mishaps
  BY <1>3 DEF World, Core
<1> HIDE DEF y
<1>7. y \in Sound
  BY <1>1, <1>5, <1>6, SoundStays
<1> QED BY <1>2, <1>7, PopulateSound

\* The configuration changes, and no gadget is lost.
LEMMA ConfiguredSound ==
  ASSUME NEW x \in Sound, NEW y \in World, x.mishaps \subseteq y.mishaps,
         y.client = x.client, y.queue = x.queue, y.dragged = x.dragged, Kept(x, TRUE) => Kept(y, TRUE)
  PROVE  y \in Sound
<1>1. x \in World /\ Good(x, None, TRUE)
  BY DEF Sound
<1>2. CASE Bad(x)
  BY <1>2, BadStays DEF Sound
<1>3. CASE ~Bad(x)
  <2>1. Counted(x, None) /\ Held(x) /\ Kept(x, TRUE)
    BY <1>1, <1>3 DEF Good
  <2>2. Counted(y, None) /\ Held(y)
    BY <2>1 DEF Counted, Owed, Held
  <2> QED BY <2>1, <2>2 DEF Good, Sound
<1> QED BY <1>2, <1>3

\* A gadget that is added was not in use.
LEMMA AddSound ==
  ASSUME w \in Sound, NEW s \in Shelf, NEW g \in Gadget, Add(s, g)
  PROVE  w' \in Sound
<1> DEFINE x == [w EXCEPT !.config[s] = @ \cup {g}, !.deleted = @ \ {g}, !.thrown = @ \ {g}]
<1>1. w' = Populate(Unpopulate(x, s), s)
  BY HandlesSound DEF Add
<1>2. w \in World
  BY DEF Sound
<1>3. [w.config EXCEPT ![s] = @ \cup {g}] \in [Shelf -> SUBSET GG]
  BY <1>2 DEF World, GG
<1>4. x \in World
  BY <1>2, <1>3 DEF World
<1>5. /\ x.client = w.client /\ x.queue = w.queue /\ x.dragged = w.dragged /\ x.mishaps = w.mishaps
      /\ x.config = [w.config EXCEPT ![s] = @ \cup {g}] /\ x.thrown = w.thrown \ {g}
  BY <1>2 DEF World
<1> HIDE DEF x
<1>6. /\ \A t \in Shelf : w.config[t] \subseteq x.config[t]
      /\ g \in x.config[s]
  BY <1>2, <1>5 DEF World
<1>7. Kept(w, TRUE) => Kept(x, TRUE)
  BY <1>5, <1>6 DEF Kept
<1>8. x \in Sound
  BY <1>4, <1>5, <1>7, ConfiguredSound
<1> QED BY <1>1, <1>8, UnpopulateSound, PopulateSound

\* A gadget that is removed was thrown away by the user.
LEMMA MenuRemoveSound ==
  ASSUME w \in Sound, NEW c \in Client, MenuRemove(c)
  PROVE  w' \in Sound
<1> DEFINE s == w.client[c].shelf
           g == w.client[c].cf
           x == [w EXCEPT !.thrown = @ \cup {g}]
           y == ConfigDel(x, g, c)
           z == [y EXCEPT !.config[s] = @ \ {g}]
           v == SetConfig(z, c, None)
<1>1. w' = Populate(Unpopulate(Del(v, c), s), s)
  BY HandlesSound DEF MenuRemove, SetConfig, SetClient, WithConfig
<1>2. w \in World /\ w.dragged = None /\ ~w.client[c].freed
  BY DEF Sound, MenuRemove, Shown
<1>3. w.client[c] \in Gcc
  BY <1>2 DEF World
<1>4. g \in GG
  BY <1>3 DEF Gcc
<1> HIDE DEF g
<1>5. x \in World /\ x.client = w.client /\ x.queue = w.queue /\ x.dragged = None
      /\ x.config = w.config /\ x.thrown = w.thrown \cup {g} /\ x.mishaps = w.mishaps
  BY <1>2, <1>4 DEF World
<1> HIDE DEF x
<1>6. y \in World /\ x.mishaps \subseteq y.mishaps /\ Core(y) = Core(x)
  BY <1>4, <1>5, ConfigDelIs DEF Worse
<1> HIDE DEF y
<1>7. /\ y.client = w.client /\ y.queue = w.queue /\ y.dragged = None
      /\ y.config = w.config /\ y.thrown = w.thrown \cup {g} /\ w.mishaps \subseteq y.mishaps
  BY <1>5, <1>6 DEF Core
<1>8. [y.config EXCEPT ![s] = @ \ {g}] \in [Shelf -> SUBSET GG]
  BY <1>6 DEF World
<1>9. /\ z \in World /\ z.client = w.client /\ z.queue = w.queue /\ z.dragged = None
      /\ z.config = [w.config EXCEPT ![s] = @ \ {g}] /\ z.thrown = w.thrown \cup {g}
      /\ w.mishaps \subseteq z.mishaps
  BY <1>6, <1>7, <1>8 DEF World
<1> HIDE DEF z
<1>10. Kept(w, TRUE) => Kept(z, TRUE) /\ Kept(z, FALSE)
  <2>1. \A t \in Shelf : \A h \in w.config[t] : h = g \/ h \in z.config[t]
    BY <1>2, <1>9 DEF World
  <2> QED BY <1>2, <1>9, <2>1 DEF Kept
<1>11. Good(z, None, FALSE)
  <2>1. Good(z, None, TRUE)
    BY <1>2, <1>9, <1>10, ConfiguredSound DEF Sound
  <2> QED BY <1>9, <2>1 DEF Good, Kept
<1>12. v \in World /\ Rest(v) = Rest(z) /\ Good(v, None, FALSE)
  BY <1>9, <1>11, SetConfigIs DEF Worse, GG
<1>13. v \in Sound
  BY <1>12 DEF Sound, Good, Kept
<1> HIDE DEF v
<1>14. Del(v, c) \in Sound
  BY <1>13, DelSound
<1>15. s \in Shelf
  BY <1>2, <1>3 DEF Gcc
<1> QED BY <1>1, <1>14, <1>15, UnpopulateSound, PopulateSound


\* A class is registered.
LEMMA RegisterKeeps ==
  ASSUME w \in Sound, NEW k \in Class, Register(k)
  PROVE  w' \in Sound
<1> DEFINE x == [w EXCEPT !.providers = @ \cup {k}]
<1>1. w' = Registers!Fold(k, None, x, Shelf)
  BY HandlesSound DEF Register, FoldSet, MapThenFoldSet, Registers!Fold, RegisterStep, First
<1>2. w \in World
  BY DEF Sound
<1>3. w.providers \cup {k} \in SUBSET Kinds
  BY <1>2 DEF World, Kinds
<1>4. x \in World
  BY <1>2, <1>3 DEF World
<1>5. Core(x) = Core(w) /\ x.mishaps = w.mishaps
  BY <1>2 DEF World, Core
<1> HIDE DEF x
<1>6. x \in Sound
  BY <1>4, <1>5, SoundStays
<1> QED BY <1>1, <1>6, RegisterSound

\* A class is unregistered.
LEMMA UnregisterKeeps ==
  ASSUME w \in Sound, NEW k \in Class, Unregister(k)
  PROVE  w' \in Sound
<1> DEFINE listed == UNION {ToSet(w.clients[s]) : s \in Shelf}
           its == {c \in listed : w.client[c].class = k}
           left == [s \in Shelf |-> w.requests[s] \ {k}]
           populated == [s \in Shelf |-> w.populated[s] \ {k}]
           q == IF \A s \in Shelf : left[s] = {} THEN RemoveFirst(w.queue, Job) ELSE w.queue
           m == w.mishaps \cup (IF w.dragged \in its THEN {"unloaded"} ELSE {})
                          \cup (IF \E c \in its : w.client[c].deleted THEN {"requeued"} ELSE {})
           x == [w EXCEPT !.requests = left, !.queue = q, !.populated = populated, !.mishaps = m]
           y == Unregisters!Fold(None, None, x, its)
           z == [y EXCEPT !.providers = @ \ {k}]
<1>1. w' = z
  BY HandlesSound DEF Unregister, FoldSet, MapThenFoldSet, Unregisters!Fold, UnregisterStep, First,
                      SetHidden, SetClient, WithHidden
<1>2. w \in World /\ Good(w, None, TRUE)
  BY DEF Sound
<1>3. its \in SUBSET Client
  BY <1>2 DEF World, ToSet
<1>4. left \in [Shelf -> SUBSET Kinds] /\ populated \in [Shelf -> SUBSET Kinds]
  BY <1>2 DEF World
<1>5. m \in SUBSET Mishap /\ w.mishaps \subseteq m
  BY <1>2 DEF World, Mishap
<1>6. q \in Seq(Ev) /\ \A c \in Client : EventsOf(q, c) = EventsOf(w.queue, c)
  <2>1. w.queue \in Seq(Ev)
    BY <1>2 DEF World
  <2>2. RemoveFirst(w.queue, Job) \in Seq(Ev)
    BY <2>1, RemoveFirstOmits
  <2>3. \A c \in Client : EventsOf(RemoveFirst(w.queue, Job), c) = EventsOf(w.queue, c)
    BY <2>1, EventsJob
  <2> QED BY <2>1, <2>2, <2>3
<1> HIDE DEF its, left, populated, q, m
<1>7. x \in World
  BY <1>2, <1>4, <1>5, <1>6 DEF World
<1>8. /\ x.client = w.client /\ x.queue = q /\ x.dragged = w.dragged /\ x.config = w.config
      /\ x.thrown = w.thrown /\ x.mishaps = m
  BY <1>2 DEF World
<1> HIDE DEF x
<1>9. x \in Sound
  <2>1. Good(x, None, TRUE)
    BY <1>2, <1>5, <1>6, <1>7, <1>8, GoodStays
  <2> QED BY <1>7, <2>1 DEF Sound
<1>10. y \in Sound
  BY <1>3, <1>9, UnregisterSound
<1> HIDE DEF y
<1>11. y \in World
  BY <1>10 DEF Sound
<1>12. z \in World /\ Core(z) = Core(y) /\ z.mishaps = y.mishaps
  BY <1>11 DEF World, Core
<1> HIDE DEF z
<1> QED BY <1>1, <1>10, <1>12, SoundStays

\* The drag takes a reference and the gadget out of the configuration.
LEMMA DragBeginSound ==
  ASSUME w \in Sound, NEW c \in Client, DragBegin(c)
  PROVE  w' \in Sound
<1>1. /\ w \in World /\ Good(w, None, TRUE) /\ w.dragged = None /\ ~w.client[c].freed
      /\ ~w.client[c].deleted
  BY DEF Sound, DragBegin, Shown
<1>2. w.client[c] \in Gcc /\ w.client[c].refs \in Nat
  BY <1>1 DEF World, Gcc
<1> DEFINE s == w.client[c].shelf
           g == w.client[c].cf
           n == w.client[c].refs + 1
           r == WithRefs(w.client[c], n)
<1>3. PICK hidden \in BOOLEAN :
        w' = [w EXCEPT !.dragged = c, !.active = Shelf,
                       !.client[c] = [w.client[c] EXCEPT !.refs = n, !.hidden = hidden],
                       !.config[s] = @ \ {g}]
  BY HandlesSound DEF DragBegin
<1> DEFINE t == WithHidden(r, hidden)
           y == [w EXCEPT !.dragged = c, !.active = Shelf, !.client[c] = t, !.config[s] = @ \ {g}]
<1>4. w' = y
  BY <1>3 DEF WithHidden, WithRefs
<1>5. n \in Nat
  BY <1>2
<1> HIDE DEF n
<1>6. /\ r \in Gcc /\ Alike(r, w.client[c]) /\ r.refs = n /\ r.deleted = w.client[c].deleted
  BY <1>2, <1>5, WithRefsIs
<1> HIDE DEF r
<1>7. t \in Gcc /\ Alike(t, w.client[c]) /\ t.refs = n /\ t.deleted = w.client[c].deleted
  <2>1. t \in Gcc /\ Alike(t, r) /\ t.refs = r.refs /\ t.deleted = r.deleted
    BY <1>6, WithHiddenIs
  <2> QED BY <1>6, <2>1 DEF Alike
<1> HIDE DEF t, s, g
<1>8. /\ [w.client EXCEPT ![c] = t] \in [Client -> Gcc]
      /\ [w.config EXCEPT ![s] = @ \ {g}] \in [Shelf -> SUBSET GG]
  BY <1>1, <1>7 DEF World
<1>9. y \in World
  BY <1>1, <1>8 DEF World
<1>10. /\ y.client = [w.client EXCEPT ![c] = t] /\ y.queue = w.queue /\ y.dragged = c
       /\ y.config = [w.config EXCEPT ![s] = @ \ {g}] /\ y.thrown = w.thrown
       /\ y.mishaps = w.mishaps
  BY <1>1 DEF World
<1> HIDE DEF y
<1>11. y.client[c] = t /\ \A b \in Client : b # c => y.client[b] = w.client[b]
  BY <1>1, <1>10 DEF World
<1>12. CASE Bad(w)
  BY <1>4, <1>9, <1>10, <1>12, BadStays DEF Sound
<1>13. CASE ~Bad(w)
  <2>1. Counted(w, None) /\ Kept(w, TRUE)
    BY <1>1, <1>13 DEF Good
  <2>2. Counted(y, None)
    <3> SUFFICES ASSUME NEW b \in Client, ~y.client[b].freed
                 PROVE  y.client[b].refs = Owed(y, b, None)
      BY DEF Counted
    <3>0. EventsOf(w.queue, b) \in Nat
      BY <1>1, EventsFinite DEF World
    <3>1. CASE b = c
      <4>1. w.client[c].refs = 1 + 0 + EventsOf(w.queue, c) + 0
        BY <1>1, <2>1, NoneIsNone DEF Counted, Owed
      <4>2. Owed(y, c, None) = 1 + 1 + EventsOf(w.queue, c) + 0
        BY <1>1, <1>7, <1>10, <1>11, NoneIsNone DEF Owed
      <4>3. y.client[c].refs = w.client[c].refs + 1
        BY <1>7, <1>11 DEF n
      <4> QED BY <3>0, <3>1, <4>1, <4>2, <4>3
    <3>2. CASE b # c
      <4>1. w.client[b].refs = Owed(w, b, None)
        BY <1>11, <2>1, <3>2 DEF Counted
      <4>2. Owed(y, b, None) = Owed(w, b, None)
        BY <1>1, <1>10, <1>11, <3>2, NoneIsNone DEF Owed
      <4> QED BY <1>11, <3>2, <4>1, <4>2
    <3> QED BY <3>1, <3>2
  <2>3. Held(y)
    BY <1>1, <1>7, <1>10, <1>11 DEF Held, Alike
  <2>4. Kept(y, TRUE)
    <3>1. y.client[c].cf = g
      BY <1>7, <1>11 DEF Alike, g
    <3>2. \A u \in Shelf : \A h \in w.config[u] : h = g \/ h \in y.config[u]
      BY <1>1, <1>10 DEF World
    <3> QED BY <1>1, <1>10, <2>1, <3>1, <3>2, NoneIsNone DEF Kept
  <2> QED BY <1>4, <1>9, <2>2, <2>3, <2>4 DEF Good, Sound
<1> QED BY <1>12, <1>13

\* Where the pointer is concerns nobody's references.
LEMMA SetOverSound ==
  ASSUME NEW x \in Sound, NEW s \in Shelf \cup {None}
  PROVE  [x EXCEPT !.over = s] \in Sound
BY SetOverIs, SoundStays DEF Sound, Worse

\* Nor does hiding a client.
LEMMA SetHiddenSound ==
  ASSUME NEW x \in Sound, NEW c \in Client, NEW h \in BOOLEAN
  PROVE  SetHidden(x, c, h) \in Sound
BY HiddenIs DEF Sound, Worse

\* Nor does pointing at the client that shows where the gadget would go.
LEMMA SetNewSound ==
  ASSUME NEW x \in Sound, NEW s, NEW v \in Client \cup {None}
  PROVE  SetNew(x, s, v) \in Sound
BY SetNewIs, SoundStays DEF Sound, Worse

\* The deletion of that client keeps the state sound.
LEMMA DelOtherSound ==
  ASSUME NEW x \in Sound, NEW c \in Client
  PROVE  DelOther(x, c) \in Sound
BY DelOtherIs, DelOtherGood DEF Sound, Worse

\* The pointer enters a shelf, which shows where the gadget would go.
LEMMA MoveOntoSound ==
  ASSUME w \in Sound, NEW s \in Shelf, MoveOnto(s)
  PROVE  w' \in Sound
<1> DEFINE c == w.dragged
           g == w.client[c].cf
           x == IF w.new[s] = None THEN w ELSE SetNew(DelOther(w, w.new[s]), s, None)
           y == NewClient(x, s, g)
           fresh == CHOOSE d \in Client : x.client[d] # y.client[d]
<1>1. \/ w' = [w EXCEPT !.over = s]
      \/ w' = SetHidden([x EXCEPT !.over = s], c, TRUE)
      \/ y.short /\ w' = y
      \/ ~y.short /\ w' = SetHidden(SetNew([y EXCEPT !.over = s], s, fresh), c, TRUE)
  BY HandlesSound DEF MoveOnto, SetHidden, SetClient, WithHidden, SetNew
<1>2. w \in World /\ c \in Client
  BY DEF Sound, MoveOnto, World
<1>3. g \in GG
  BY <1>2 DEF World, Gcc
<1> HIDE DEF c, g
<1>4. x \in Sound
  <2>1. CASE w.new[s] = None
    BY <2>1
  <2>2. CASE w.new[s] # None
    <3>1. w.new[s] \in Client
      BY <1>2, <2>2 DEF World
    <3>2. DelOther(w, w.new[s]) \in Sound
      BY <3>1, DelOtherSound
    <3> QED BY <2>2, <3>2, SetNewSound
  <2> QED BY <2>1, <2>2
<1> HIDE DEF x
<1>5. y \in Sound /\ (~y.short => \E b \in Client : x.client[b].freed /\ y.client[b] = Made(s, g))
  BY <1>3, <1>4, NewClientSound
<1>6. ~y.short => fresh \in Client
  <2> SUFFICES ASSUME ~y.short PROVE fresh \in Client
    OBVIOUS
  <2>1. PICK b \in Client : x.client[b].freed /\ y.client[b] = Made(s, g)
    BY <1>5
  <2>2. ~y.client[b].freed
    BY <1>3, <2>1, MadeIs
  <2>3. x.client[b] # y.client[b]
    BY <2>1, <2>2
  <2> QED BY <2>3
<1> HIDE DEF y, fresh
<1>7. /\ [w EXCEPT !.over = s] \in Sound /\ [x EXCEPT !.over = s] \in Sound
      /\ [y EXCEPT !.over = s] \in Sound
  BY <1>4, <1>5, SetOverSound
<1>8. SetHidden([x EXCEPT !.over = s], c, TRUE) \in Sound
  BY <1>2, <1>7, SetHiddenSound
<1>9. ASSUME ~y.short PROVE SetHidden(SetNew([y EXCEPT !.over = s], s, fresh), c, TRUE) \in Sound
  <2>1. SetNew([y EXCEPT !.over = s], s, fresh) \in Sound
    BY <1>6, <1>7, <1>9, SetNewSound
  <2> QED BY <1>2, <2>1, SetHiddenSound
<1> QED BY <1>1, <1>5, <1>7, <1>8, <1>9

\* The pointer leaves it.
LEMMA MoveOffSound ==
  ASSUME w \in Sound, MoveOff
  PROVE  w' \in Sound
<1>1. w \in World /\ w.dragged \in Client /\ Good(w, None, TRUE)
  BY DEF Sound, MoveOff, World
<1>2. w' = Left(w)
  BY HandlesSound DEF MoveOff
<1> QED BY <1>1, <1>2, LeftIs DEF Sound, Worse

\* The drop puts the gadget of the drag into the configuration of a shelf.
LEMMA DropOnSound ==
  ASSUME w \in Sound, DropOn
  PROVE  w' \in Sound
<1> DEFINE c == w.dragged
           s == w.over
           g == w.client[c].cf
           x == [w EXCEPT !.config[s] = @ \cup {g}]
           d == Del(x, c)
           y == IF w.new[s] = None THEN SetHidden(x, c, FALSE) ELSE SetNew(d, s, None)
<1>1. w' = End(y, c, TRUE)
  BY HandlesSound DEF DropOn, SetHidden, SetClient, WithHidden, SetNew
<1>2. w \in World /\ Good(w, None, TRUE) /\ c \in Client /\ s \in Shelf
  BY DEF Sound, DropOn, World
<1>3. g \in GG
  BY <1>2 DEF World, Gcc
<1>4. [w.config EXCEPT ![s] = @ \cup {g}] \in [Shelf -> SUBSET GG]
  BY <1>2, <1>3 DEF World
<1>5. x \in World
  BY <1>2, <1>4 DEF World
<1>6. /\ x.client = w.client /\ x.queue = w.queue /\ x.dragged = c /\ x.thrown = w.thrown
      /\ x.config = [w.config EXCEPT ![s] = @ \cup {g}] /\ x.mishaps = w.mishaps
  BY <1>2 DEF World
<1> HIDE DEF x
<1>7. /\ \A t \in Shelf : w.config[t] \subseteq x.config[t]
      /\ g \in x.config[s]
  BY <1>2, <1>6 DEF World
<1>8. Good(x, None, FALSE)
  <2>1. CASE Bad(w)
    BY <1>6, <2>1, BadStays
  <2>2. CASE ~Bad(w)
    <3>1. Counted(w, None) /\ Held(w) /\ Kept(w, TRUE)
      BY <1>2, <2>2 DEF Good
    <3>2. Kept(x, FALSE)
      BY <1>2, <1>6, <1>7, <3>1 DEF Kept
    <3>3. Counted(x, None) /\ Held(x)
      BY <1>6, <3>1 DEF Counted, Owed, Held
    <3> QED BY <3>2, <3>3 DEF Good
  <2> QED BY <2>1, <2>2
<1> HIDE DEF c, s, g
<1>9. /\ Worse(x, SetHidden(x, c, FALSE)) /\ Rest(SetHidden(x, c, FALSE)) = Rest(x)
      /\ Good(SetHidden(x, c, FALSE), None, FALSE)
  BY <1>2, <1>5, <1>8, HiddenIs
<1>10. /\ Worse(x, d) /\ (~Bad(x) => Rest(d) = Rest(x)) /\ Good(d, None, FALSE)
  BY <1>2, <1>5, <1>8, DelIs, DelOtherIs
<1> HIDE DEF d
<1>11. /\ Worse(d, SetNew(d, s, None)) /\ Core(SetNew(d, s, None)) = Core(d)
  BY <1>10, SetNewIs DEF Worse
<1>12. Good(SetNew(d, s, None), None, FALSE)
  BY <1>10, <1>11, CoreStays DEF Worse
<1>13. Worse(x, y) /\ Good(y, None, FALSE) /\ (~Bad(x) => y.dragged = c)
  <2>1. CASE w.new[s] = None
    BY <1>6, <1>9, <2>1, RestIs
  <2>2. CASE w.new[s] # None
    <3>1. Worse(x, SetNew(d, s, None))
      BY <1>10, <1>11, WorseTransitive
    <3>2. ~Bad(x) => d.dragged = c
      BY <1>6, <1>10, RestIs
    <3>3. SetNew(d, s, None).dragged = d.dragged
      BY <1>11 DEF Core
    <3> QED BY <1>12, <2>2, <3>1, <3>2, <3>3
  <2> QED BY <2>1, <2>2
<1> HIDE DEF y
<1>14. y \in World /\ (Bad(x) => Bad(y))
  BY <1>13 DEF Worse, Bad
<1>15. Worse(y, End(y, c, TRUE)) /\ (y.dragged = c => Good(End(y, c, TRUE), None, TRUE))
  BY <1>2, <1>13, <1>14, EndIs
<1>16. Bad(y) => Good(End(y, c, TRUE), None, TRUE)
  BY <1>15, BadStays DEF Worse
<1> QED BY <1>1, <1>13, <1>14, <1>15, <1>16 DEF Sound, Worse

\* A gadget that is dropped nowhere was thrown away by the user.
LEMMA DropNowhereSound ==
  ASSUME w \in Sound, DropNowhere
  PROVE  w' \in Sound
<1> DEFINE c == w.dragged
           g == w.client[c].cf
           x == [w EXCEPT !.thrown = @ \cup {g}]
<1>1. w' = End(x, c, FALSE)
  BY HandlesSound DEF DropNowhere
<1>2. w \in World /\ Good(w, None, TRUE) /\ c \in Client
  BY DEF Sound, DropNowhere, World
<1>3. g \in GG
  BY <1>2 DEF World, Gcc
<1>4. x \in World
  BY <1>2, <1>3 DEF World
<1>5. /\ x.client = w.client /\ x.queue = w.queue /\ x.dragged = c /\ x.thrown = w.thrown \cup {g}
      /\ x.config = w.config /\ x.mishaps = w.mishaps
  BY <1>2 DEF World
<1> HIDE DEF x
<1>6. Good(x, None, FALSE)
  <2>1. CASE Bad(w)
    BY <1>5, <2>1, BadStays
  <2>2. CASE ~Bad(w)
    <3>1. Counted(w, None) /\ Held(w) /\ Kept(w, TRUE)
      BY <1>2, <2>2 DEF Good
    <3>2. Kept(x, FALSE)
      BY <1>5, <3>1 DEF Kept
    <3>3. Counted(x, None) /\ Held(x)
      BY <1>5, <3>1 DEF Counted, Owed, Held
    <3> QED BY <3>2, <3>3 DEF Good
  <2> QED BY <2>1, <2>2
<1> QED BY <1>1, <1>2, <1>4, <1>5, <1>6, EndIs DEF Sound, Worse

StartStep(a, b, s, x) == Populate(x, s)

Started(config) == FoldSet(LAMBDA s, x : Populate(x, s), Start(config), Shelf)

Starts == INSTANCE FoldFacts WITH F <- StartStep, Pick <- First

\* Every gadget is in the configuration of a shelf when it is populated first.
LEMMA InitSound ==
  ASSUME Init
  PROVE  w \in Sound
<1>1. PICK config \in [Shelf -> SUBSET Gadget] :
        /\ \A g \in Gadget : Cardinality({s \in Shelf : g \in config[s]}) = 1
        /\ w = Started(config)
  BY DEF Init, Started
<1> DEFINE x == Start(config)
<1>2. x \in World
  <2>1. config \in [Shelf -> SUBSET GG]
    BY DEF GG
  <2>2. <<>> \in Seq(Client) /\ <<>> \in Seq(Ev)
    OBVIOUS
  <2> QED BY <2>1, <2>2, NobodyType DEF Start, World
<1>3. /\ \A c \in Client : x.client[c].freed
      /\ x.dragged = None /\ x.config = config
  BY DEF Start, Nobody
<1> HIDE DEF x
<1>4. Kept(x, TRUE)
  <2> SUFFICES ASSUME NEW g \in Gadget PROVE \E s \in Shelf : g \in x.config[s]
    BY DEF Kept
  <2>1. Cardinality({s \in Shelf : g \in config[s]}) # 0
    BY <1>1
  <2>2. {s \in Shelf : g \in config[s]} # {}
    BY <2>1, FS_EmptySet
  <2> QED BY <1>3, <2>2
<1>5. x \in Sound
  BY <1>2, <1>3, <1>4 DEF Sound, Good, Counted, Held
<1>6. w = Starts!Fold(None, None, x, Shelf)
  BY <1>1 DEF Started, FoldSet, MapThenFoldSet, Starts!Fold, StartStep, First, x
<1>7. Starts!Picks(Shelf)
  <2>1. Starts!IsFiniteSet(Shelf)
    BY ShelfPicks DEF IsFiniteSet, Starts!IsFiniteSet
  <2> QED BY <2>1, ShelfPicks DEF Starts!Picks
<1>8. Starts!Closed(None, None, Shelf, Sound)
  BY PopulateSound DEF Starts!Closed, StartStep
<1> QED BY <1>5, <1>6, <1>7, <1>8, Starts!FoldClosed

-----------------------------------------------------------------------------
(* Theorems.                                                               *)

\* Every step keeps the state sound.
LEMMA NextSound ==
  ASSUME w \in Sound, [Next]_vars
  PROVE  w' \in Sound
<1>1. CASE UNCHANGED vars
  BY <1>1 DEF vars
<1>2. CASE Read
  BY <1>2 DEF Read
<1>3. CASE Other
  BY <1>3 DEF Other, Handles
<1>4. ASSUME NEW s \in Shelf, Refresh(s) \/ Rebuild(s) \/ MoveOnto(s) PROVE w' \in Sound
  BY <1>4, RefreshSound, RebuildSound, MoveOntoSound
<1>5. ASSUME NEW s \in Shelf, NEW g \in Gadget, Add(s, g) PROVE w' \in Sound
  BY <1>5, AddSound
<1>6. ASSUME NEW c \in Client, MenuRemove(c) \/ DragBegin(c) PROVE w' \in Sound
  BY <1>6, MenuRemoveSound, DragBeginSound
<1>7. ASSUME NEW k \in Class, Register(k) \/ Unregister(k) PROVE w' \in Sound
  BY <1>7, RegisterKeeps, UnregisterKeeps
<1> QED BY <1>1, <1>2, <1>3, <1>4, <1>5, <1>6, <1>7, DeliverSound, MoveOffSound, DropOnSound,
           DropNowhereSound DEF Next

\* The state is well-formed, and sound unless a mishap that is excused has happened.
THEOREM GadgetTypeCorrect == Spec => [](w \in Sound)
<1>1. Init => w \in Sound
  BY InitSound
<1>2. w \in Sound /\ [Next]_vars => (w \in Sound)'
  BY NextSound
<1> QED BY <1>1, <1>2, PTL DEF Spec

\* A client has one reference of its owner until it is deleted, one of the drag and one for
\* each event that names it (e_object_ref and _unref in e_gadcon.c, e_dnd.c).
THEOREM ClientsCounted == Spec => []RefsCounted
<1>1. w \in Sound => RefsCounted
  <2> SUFFICES ASSUME w \in Sound, Without({"dangling", "wild"}), NEW c \in Client, ~w.client[c].freed
               PROVE  w.client[c].refs = (IF w.client[c].deleted THEN 0 ELSE 1)
                                         + (IF w.dragged = c THEN 1 ELSE 0) + Events(c)
    BY DEF RefsCounted
  <2> DEFINE own == IF w.client[c].deleted THEN 0 ELSE 1
             drag == IF w.dragged = c THEN 1 ELSE 0
  <2>1. w \in World /\ Counted(w, None)
    BY DEF Sound, Good, Bad, Without
  <2>2. w.client[c].refs = own + drag + EventsOf(w.queue, c) + 0
    BY <2>1, NoneIsNone DEF Counted, Owed
  <2>3. own \in Nat /\ drag \in Nat /\ EventsOf(w.queue, c) \in Nat
    BY <2>1, EventsFinite DEF World
  <2>4. Events(c) = EventsOf(w.queue, c)
    BY DEF Events, EventsOf
  <2> HIDE DEF own, drag
  <2>5. w.client[c].refs = own + drag + Events(c)
    BY <2>2, <2>3, <2>4
  <2> QED BY <2>5 DEF own, drag
<1> QED BY <1>1, GadgetTypeCorrect, PTL

\* Whatever shelves and classes do while a gadget is dragged, it is in the configuration of a
\* shelf, at the drag, or thrown away by the user (_e_gadcon_client_drag_begin and every way a
\* drag ends).
THEOREM GadgetsKept == Spec => []NoGadgetLost
<1>1. w \in Sound => NoGadgetLost
  BY DEF Sound, Good, Bad, NoGadgetLost, Without, Kept
<1> QED BY <1>1, GadgetTypeCorrect, PTL
=============================================================================
