---------------------------- MODULE FmRelayProofs ---------------------------
(***************************************************************************)
(* Proofs about FmRelay, for any number of views, operations, questions,   *)
(* dialogs and mishaps: types, the references of the registry entries,     *)
(* that an entry outlives its slave, and that the question of a slave, or  *)
(* the answer to it, is in exactly one of five queues or shown in a dialog.*)
(***************************************************************************)
EXTENDS FmRelay, FiniteSetTheorems, SequenceTheorems, TLAPS

-----------------------------------------------------------------------------
(* The inductive invariant.                                                *)

\* the rename dialogs that are open for an operation
Held(i) == {d \in open : renameOf[d] = i}

\* an entry with the references of n dialogs
Good(e, n) ==
  /\ e \in Entry
  /\ e.refs = (IF e.listed THEN 1 ELSE 0) + Len(e.events) + n
  /\ e.life = IF e.refs = 0 THEN "freed" ELSE "live"

Counted ==
  /\ \A i \in 1..last : Good(entry[i], Cardinality(Held(i)))
  /\ \A i \in Id : i > last => entry[i] = Unused
  /\ \A d \in DOMAIN renameOf : renameOf[d] \in 1..last

\* the dialogs in the list of a view are open, once each, for an entry of that view
Dialogs ==
  \A v \in View :
    /\ \A k \in DOMAIN renames[v] :
         renames[v][k] \in open /\ entry[renameOf[renames[v][k]]].view = v
    /\ \A j, k \in DOMAIN renames[v] : renames[v][j] = renames[v][k] => j = k

\* the requests to start a slave in a queue: each is there once, for an operation
\* that has no slave yet; in two queues: none is in both
Starts(s, n, sl) ==
  /\ \A k \in DOMAIN s : s[k].kind = "start" => s[k].id \in 1..n /\ sl[s[k].id] = "none"
  /\ \A j, k \in DOMAIN s : s[j].kind = "start" /\ s[k] = s[j] => j = k

Apart(s, t) ==
  \A j \in DOMAIN s, k \in DOMAIN t : s[j].kind = "start" => t[k] # s[j]

Fresh ==
  Starts(messages, last, slave) /\ Starts(toDaemon, last, slave) /\ Apart(messages, toDaemon)

\* a slave whose end was reported, or whose entry has left the registry, has ended
Gone ==
  /\ \A k \in DOMAIN toWm : toWm[k].kind = "quit" => slave[toWm[k].id] = "dead"
  /\ \A i \in Id : \A k \in DOMAIN outbox[i] : outbox[i][k].kind # "quit"
  /\ \A i \in 1..last : ~entry[i].listed => slave[i] = "dead"
  /\ \A i \in Id : i > last => slave[i] = "none"

Inv == TypeOK /\ Counted /\ Dialogs /\ Fresh /\ Gone

-----------------------------------------------------------------------------
(* What is done to an entry.                                               *)

\* The entry is as good as before, and as visible.
Kept(f, e, n) ==
  Good(f, n) /\ f.view = e.view /\ f.listed = e.listed /\ f.life = e.life

Kind == {"add", "changed", "del"}

LEMMA EntryFields ==
  ASSUME NEW e \in Entry
  PROVE  /\ e.events \in Seq(Kind) /\ Len(e.events) \in Nat
         /\ e.refs \in Nat /\ e.listed \in BOOLEAN /\ e.view \in View \cup {NoView}
<1>1. e.events \in Seq(Kind)
  BY DEF Entry, Kind
<1> QED BY <1>1, LenProperties DEF Entry

LEMMA PostsGood ==
  ASSUME NEW e, NEW n \in Nat, Good(e, n), e.life = "live", NEW k \in Kind
  PROVE  Kept(Posts(e, k), e, n)
<1>0. e \in Entry
  BY DEF Good
<1>1. /\ Append(e.events, k) \in Seq(Kind)
      /\ Len(Append(e.events, k)) = Len(e.events) + 1 /\ Len(e.events) \in Nat
  BY <1>0, EntryFields, AppendProperties
<1>2. e.refs \in Nat /\ e.listed \in BOOLEAN
  BY <1>0, EntryFields
<1>a. e.refs = (IF e.listed THEN 1 ELSE 0) + Len(e.events) + n
  BY DEF Good
<1>b. e.refs + 1 \in Nat /\ e.refs + 1 # 0
  BY <1>2
<1> DEFINE f == Posts(e, k)
<1>3. f = [e EXCEPT !.refs = e.refs + 1, !.events = Append(e.events, k)]
  BY DEF Posts
<1> HIDE DEF f
<1>4. /\ f \in Entry /\ f.refs = e.refs + 1 /\ f.events = Append(e.events, k)
      /\ f.life = "live" /\ f.listed = e.listed /\ f.view = e.view
  <2> DEFINE r == e.refs + 1
             ev == Append(e.events, k)
  <2>1. r \in Nat /\ ev \in Seq(Kind) /\ f = [e EXCEPT !.refs = r, !.events = ev]
    BY <1>1, <1>b, <1>3
  <2> HIDE DEF r, ev
  <2>2. /\ f \in Entry /\ f.refs = r /\ f.events = ev
        /\ f.life = e.life /\ f.listed = e.listed /\ f.view = e.view
    BY <1>0, <2>1 DEF Entry, Kind
  <2> QED BY <2>2 DEF r, ev
<1>5. f.refs = (IF f.listed THEN 1 ELSE 0) + Len(f.events) + n
  <2>1. f.refs = e.refs + 1 /\ f.listed = e.listed /\ Len(f.events) = Len(e.events) + 1
    BY <1>1, <1>4
  <2>2. CASE e.listed
    BY <1>1, <1>2, <1>a, <2>1, <2>2
  <2>3. CASE ~e.listed
    BY <1>1, <1>2, <1>a, <2>1, <2>3
  <2> QED BY <2>2, <2>3
<1> QED BY <1>b, <1>4, <1>5 DEF Kept, Good, f

LEMMA ChangedGood ==
  ASSUME NEW e, NEW n \in Nat, Good(e, n), e.life = "live"
  PROVE  Kept(Changed(e), e, n)
<1> DEFINE f == Posts(e, "changed")
<1>1. Kept(f, e, n)
  BY PostsGood DEF Kind
<1> HIDE DEF f
<1>2. Kept([f EXCEPT !.changed = TRUE], e, n)
  BY <1>1 DEF Kept, Good, Entry
<1>3. Kept(e, e, n)
  BY DEF Kept
<1> QED BY <1>1, <1>2, <1>3 DEF Changed, f

\* What does not concern references.
LEMMA MarksGood ==
  ASSUME NEW e, NEW n \in Nat, Good(e, n), e.life = "live",
         NEW s \in {"in progress", "successful", "aborted", "error"}, NEW b \in BOOLEAN,
         NEW c \in BOOLEAN, NEW d \in BOOLEAN
  PROVE  /\ Kept([e EXCEPT !.status = s], e, n)
         /\ Kept([e EXCEPT !.finished = b], e, n)
         /\ Kept([e EXCEPT !.status = s, !.finished = b], e, n)
         /\ Kept([e EXCEPT !.attention = b, !.dialog = c], e, n)
         /\ Kept([e EXCEPT !.status = s, !.attention = b, !.dialog = c], e, n)
         /\ Kept([e EXCEPT !.status = s, !.attention = b, !.dialog = c, !.finished = d], e, n)
<1>1. Kept([e EXCEPT !.status = s], e, n) /\ Kept([e EXCEPT !.finished = b], e, n)
  BY DEF Kept, Good, Entry
<1>2. Kept([e EXCEPT !.status = s, !.finished = b], e, n)
  BY DEF Kept, Good, Entry
<1>3. Kept([e EXCEPT !.attention = b, !.dialog = c], e, n)
  BY DEF Kept, Good, Entry
<1>4. Kept([e EXCEPT !.status = s, !.attention = b, !.dialog = c], e, n)
  BY DEF Kept, Good, Entry
<1>5. Kept([e EXCEPT !.status = s, !.attention = b, !.dialog = c, !.finished = d], e, n)
  BY DEF Kept, Good, Entry
<1> QED BY <1>1, <1>2, <1>3, <1>4, <1>5

LEMMA KeptTwice ==
  ASSUME NEW e, NEW f, NEW g, NEW n \in Nat, Kept(f, e, n), Kept(g, f, n)
  PROVE  Kept(g, e, n)
BY DEF Kept

\* What the handlers do to the entry they find.
LEMMA HandledGood ==
  ASSUME NEW e, NEW n \in Nat, Good(e, n), e.life = "live"
  PROVE  /\ Kept(GoneOn(e), e, n) /\ Kept(Aborted(e), e, n)
         /\ Kept(NeedsAttention(e), e, n) /\ Kept(Errs(e), e, n)
         /\ Kept(Changed([e EXCEPT !.status = "successful", !.finished = TRUE]), e, n)
         /\ Kept(Changed([e EXCEPT !.finished = TRUE]), e, n)
<1>1. ASSUME NEW m, Kept(m, e, n)
      PROVE  Kept(Changed(m), e, n)
  <2>1. Good(m, n) /\ m.life = "live"
    BY <1>1 DEF Kept
  <2>2. Kept(Changed(m), m, n)
    BY <2>1, ChangedGood
  <2> QED BY <1>1, <2>2, KeptTwice
<1>2. Kept(GoneOn(e), e, n)
  <2> DEFINE m == [e EXCEPT !.status = "in progress", !.attention = FALSE, !.dialog = FALSE]
  <2>1. Kept(m, e, n)
    BY MarksGood
  <2> HIDE DEF m
  <2> QED BY <1>1, <2>1 DEF GoneOn, m
<1>3. Kept(Aborted(e), e, n)
  <2> DEFINE m == [e EXCEPT !.status = "aborted", !.attention = FALSE, !.dialog = FALSE,
                            !.finished = TRUE]
  <2>1. Kept(m, e, n)
    BY MarksGood
  <2> HIDE DEF m
  <2> QED BY <1>1, <2>1 DEF Aborted, m
<1>4. Kept(NeedsAttention(e), e, n)
  <2> DEFINE m == [e EXCEPT !.attention = TRUE, !.dialog = TRUE]
  <2>1. Kept(m, e, n)
    BY MarksGood
  <2> HIDE DEF m
  <2> QED BY <1>1, <2>1 DEF NeedsAttention, m
<1>5. Kept(Errs(e), e, n)
  <2> DEFINE m == [e EXCEPT !.status = "error"]
             p == [m EXCEPT !.attention = TRUE, !.dialog = TRUE]
  <2>1. Kept(m, e, n) /\ Good(m, n) /\ m.life = "live"
    BY MarksGood DEF Kept
  <2> HIDE DEF m
  <2>2. Kept(p, m, n)
    BY <2>1, MarksGood
  <2> HIDE DEF p
  <2>3. Kept(Changed(p), e, n)
    BY <1>1, <2>1, <2>2, KeptTwice
  <2> QED BY <2>3 DEF Errs, NeedsAttention, m, p
<1>6. Kept(Changed([e EXCEPT !.status = "successful", !.finished = TRUE]), e, n)
  <2> DEFINE m == [e EXCEPT !.status = "successful", !.finished = TRUE]
  <2>1. Kept(m, e, n)
    BY MarksGood
  <2> HIDE DEF m
  <2> QED BY <1>1, <2>1 DEF m
<1>7. Kept(Changed([e EXCEPT !.finished = TRUE]), e, n)
  <2> DEFINE m == [e EXCEPT !.finished = TRUE]
  <2>1. Kept(m, e, n)
    BY MarksGood
  <2> HIDE DEF m
  <2> QED BY <1>1, <2>1 DEF m
<1> QED BY <1>2, <1>3, <1>4, <1>5, <1>6, <1>7

LEMMA Less ==
  \A x \in Nat : x # 0 => x - 1 \in Nat /\ (x - 1 = 0 <=> x = 1)
OBVIOUS

\* A reference is given back.
LEMMA UnrefGood ==
  ASSUME NEW e, NEW n \in Nat, NEW f, e.refs \in Nat \ {0}, f = Unref(e), e \in Entry,
         e.life = "live", e.refs = (IF e.listed THEN 1 ELSE 0) + Len(e.events) + n + 1
  PROVE  Good(f, n) /\ f.view = e.view /\ f.listed = e.listed
<1>0. e.refs \in Nat /\ e.refs # 0
  BY EntryFields
<1>1. /\ f \in Entry /\ f.refs = e.refs - 1 /\ f.events = e.events
      /\ f.life = (IF e.refs = 1 THEN "freed" ELSE "live")
      /\ f.listed = e.listed /\ f.view = e.view
  <2> DEFINE r == e.refs - 1
             l == IF e.refs = 1 THEN "freed" ELSE "live"
  <2>0. r \in Nat /\ l \in {"freed", "live"}
    BY <1>0, Less
  <2>a. [e EXCEPT !.refs = r].life = "live"
    BY DEF Entry
  <2>1. f = [e EXCEPT !.refs = r, !.life = l]
    BY <2>a DEF Unref
  <2> HIDE DEF r, l
  <2>2. /\ f \in Entry /\ f.refs = r /\ f.events = e.events /\ f.life = l
        /\ f.listed = e.listed /\ f.view = e.view
    BY <2>0, <2>1 DEF Entry
  <2> QED BY <2>2 DEF r, l
<1>2. Len(e.events) \in Nat /\ e.listed \in BOOLEAN
  BY EntryFields
<1>3. f.refs = (IF f.listed THEN 1 ELSE 0) + Len(f.events) + n
  <2>1. CASE e.listed
    BY <1>1, <1>2, <2>1
  <2>2. CASE ~e.listed
    BY <1>1, <1>2, <2>2
  <2> QED BY <1>2, <2>1, <2>2
<1>4. f.life = IF f.refs = 0 THEN "freed" ELSE "live"
  <2>1. e.refs - 1 = 0 <=> e.refs = 1
    BY <1>0, Less
  <2> QED BY <1>1, <2>1
<1> QED BY <1>1, <1>3, <1>4 DEF Good

LEMMA DeletedGood ==
  ASSUME NEW e, NEW n \in Nat, Good(e, n), e.life = "live", e.listed
  PROVE  Good(Deleted(e), n) /\ Deleted(e).view = e.view /\ ~Deleted(e).listed
<1> DEFINE u == [e EXCEPT !.listed = FALSE]
           p == Posts(u, "del")
<1>1. e \in Entry /\ e.refs = 1 + Len(e.events) + n /\ Len(e.events) \in Nat
  BY EntryFields DEF Good
<1>2. /\ u \in Entry /\ u.refs = e.refs /\ u.events = e.events /\ u.life = "live"
      /\ u.view = e.view /\ u.listed = FALSE
  BY <1>1 DEF Entry
<1>3. u.events \in Seq(Kind) /\ Append(u.events, "del") \in Seq(Kind)
      /\ Len(Append(u.events, "del")) = Len(u.events) + 1
  <2> HIDE DEF u
  <2>1. u.events \in Seq(Kind) /\ "del" \in Kind
    BY <1>2, EntryFields DEF Kind
  <2> QED BY <2>1, AppendProperties
<1> HIDE DEF u
<1>4. /\ p \in Entry /\ p.refs = u.refs + 1 /\ p.events = Append(u.events, "del")
      /\ p.life = "live" /\ p.view = u.view /\ p.listed = FALSE
  <2> DEFINE r == u.refs + 1
             ev == Append(u.events, "del")
  <2>1. r \in Nat /\ ev \in Seq(Kind) /\ p = [u EXCEPT !.refs = r, !.events = ev]
    BY <1>2, <1>3, EntryFields DEF Posts
  <2> HIDE DEF r, ev, p
  <2>2. p \in Entry /\ p.refs = r /\ p.events = ev
        /\ p.life = "live" /\ p.view = u.view /\ p.listed = FALSE
    BY <1>2, <2>1 DEF Entry, Kind
  <2> QED BY <2>2 DEF r, ev
<1> HIDE DEF p
<1>5. p.refs = (IF p.listed THEN 1 ELSE 0) + Len(p.events) + n + 1
  <2>1. p.refs = 1 + Len(e.events) + n + 1
    BY <1>1, <1>2, <1>4
  <2>2. Len(p.events) = Len(e.events) + 1
    BY <1>2, <1>3, <1>4
  <2>3. p.refs = 0 + Len(p.events) + n + 1
    BY <1>1, <2>1, <2>2
  <2> QED BY <1>4, <2>3
<1>6. p.refs \in Nat \ {0}
  BY <1>1, <1>2, <1>4
<1>7. Good(Unref(p), n) /\ Unref(p).view = p.view /\ Unref(p).listed = p.listed
  BY <1>4, <1>5, <1>6, UnrefGood
<1> QED BY <1>2, <1>4, <1>7 DEF Deleted, u, p

LEMMA DeliveredGood ==
  ASSUME NEW e, NEW n \in Nat, Good(e, n), e.events # <<>>, NEW b \in BOOLEAN, NEW f,
         f = Unref([e EXCEPT !.events = Tail(e.events), !.changed = b])
  PROVE  Good(f, n) /\ f.view = e.view /\ f.listed = e.listed
<1> DEFINE m == [e EXCEPT !.events = Tail(e.events), !.changed = b]
<1>1. e \in Entry /\ e.events \in Seq(Kind) /\ Len(e.events) \in Nat /\ e.listed \in BOOLEAN
      /\ e.refs \in Nat
  BY EntryFields DEF Good
<1>2. Tail(e.events) \in Seq(Kind) /\ Len(Tail(e.events)) = Len(e.events) - 1
      /\ Len(e.events) # 0
  BY <1>1, HeadTailProperties, EmptySeq
<1>3. e.refs = (IF e.listed THEN 1 ELSE 0) + Len(e.events) + n
      /\ e.life = IF e.refs = 0 THEN "freed" ELSE "live"
  BY DEF Good
<1>4. e.refs # 0 /\ e.life = "live"
  <2>1. e.refs # 0
    <3>1. CASE e.listed
      BY <1>1, <1>2, <1>3, <3>1
    <3>2. CASE ~e.listed
      BY <1>1, <1>2, <1>3, <3>2
    <3> QED BY <1>1, <3>1, <3>2
  <2> QED BY <1>3, <2>1
<1>5. /\ m \in Entry /\ m.refs = e.refs /\ m.events = Tail(e.events) /\ m.life = "live"
      /\ m.view = e.view /\ m.listed = e.listed
  <2> DEFINE ev == Tail(e.events)
  <2>1. ev \in Seq(Kind) /\ m = [e EXCEPT !.events = ev, !.changed = b]
    BY <1>2
  <2> HIDE DEF m, ev
  <2>2. /\ m \in Entry /\ m.refs = e.refs /\ m.events = ev /\ m.life = "live"
        /\ m.view = e.view /\ m.listed = e.listed
    BY <1>1, <1>4, <2>1 DEF Entry, Kind
  <2> QED BY <2>2 DEF ev
<1> HIDE DEF m
<1>6. m.refs = (IF m.listed THEN 1 ELSE 0) + Len(m.events) + n + 1
  <2>1. CASE e.listed
    BY <1>1, <1>2, <1>3, <1>5, <2>1
  <2>2. CASE ~e.listed
    BY <1>1, <1>2, <1>3, <1>5, <2>2
  <2> QED BY <1>1, <2>1, <2>2
<1>7. m.refs \in Nat \ {0} /\ f = Unref(m)
  BY <1>1, <1>4, <1>5 DEF m
<1> QED BY <1>5, <1>6, <1>7, UnrefGood

LEMMA AddedGood ==
  ASSUME NEW v \in View \cup {NoView}
  PROVE  Good(Added(v), 0) /\ Added(v).view = v /\ Added(v).listed
<1> DEFINE m == [Unused EXCEPT !.life = "live", !.listed = TRUE, !.refs = 1, !.view = v,
                               !.status = "in progress"]
           f == [m EXCEPT !.refs = 2, !.events = <<"add">>]
<1>1. <<"add">> \in Seq(Kind) /\ Len(<<"add">>) = 1 /\ <<>> \in Seq(Kind)
  BY DEF Kind
<1>2. m \in Entry /\ m.refs = 1 /\ m.events = <<>> /\ m.life = "live" /\ m.view = v /\ m.listed
  BY <1>1 DEF Entry, Kind, Unused
<1>3. Added(v) = f
  <2>1. Append(<<>>, "add") = <<"add">>
    OBVIOUS
  <2>2. Added(v) = [m EXCEPT !.refs = m.refs + 1, !.events = Append(m.events, "add")]
    BY DEF Added, Posts
  <2> HIDE DEF m
  <2> QED BY <1>2, <2>1, <2>2
<1> HIDE DEF m
<1>4. f \in Entry /\ f.refs = 2 /\ f.events = <<"add">> /\ f.life = "live" /\ f.view = v /\ f.listed
  BY <1>1, <1>2 DEF Entry, Kind
<1> HIDE DEF f
<1>5. f.refs = (IF f.listed THEN 1 ELSE 0) + Len(f.events) + 0
  BY <1>1, <1>4
<1> QED BY <1>3, <1>4, <1>5 DEF Good

LEMMA ListedLives ==
  ASSUME NEW e, NEW n \in Nat, Good(e, n), e.listed
  PROVE  e.life = "live"
<1>1. e.refs = 1 + Len(e.events) + n /\ Len(e.events) \in Nat /\ e.refs \in Nat
  BY EntryFields DEF Good
<1>2. e.refs # 0
  BY <1>1
<1> QED BY <1>2 DEF Good

-----------------------------------------------------------------------------
(* Queues of messages.                                                     *)

LEMMA TailFacts ==
  ASSUME NEW S, NEW s \in Seq(S), s # <<>>
  PROVE  /\ Head(s) \in S /\ Head(s) = s[1] /\ 1 \in DOMAIN s
         /\ Tail(s) \in Seq(S)
         /\ \A k \in DOMAIN Tail(s) : k \in Nat \ {0} /\ k + 1 \in DOMAIN s /\ Tail(s)[k] = s[k + 1]
<1>1. Len(s) \in Nat \ {0} /\ DOMAIN s = 1..Len(s)
  BY EmptySeq, LenProperties
<1>2. Tail(s) \in Seq(S) /\ Len(Tail(s)) = Len(s) - 1 /\ Head(s) \in S
      /\ \A k \in 1..Len(Tail(s)) : Tail(s)[k] = s[k + 1]
  BY HeadTailProperties
<1>3. DOMAIN Tail(s) = 1..Len(Tail(s))
  BY <1>2, LenProperties
<1>4. Head(s) = s[1]
  OBVIOUS
<1> QED BY <1>1, <1>2, <1>3, <1>4

LEMMA CatFacts ==
  ASSUME NEW S, NEW s \in Seq(S), NEW t \in Seq(S)
  PROVE  /\ s \o t \in Seq(S) /\ Len(s) \in Nat
         /\ DOMAIN s \subseteq Nat /\ DOMAIN t \subseteq Nat
         /\ \A k \in DOMAIN (s \o t) :
              \/ k \in DOMAIN s /\ k <= Len(s) /\ (s \o t)[k] = s[k]
              \/ /\ k \in Nat /\ k > Len(s)
                 /\ k - Len(s) \in DOMAIN t /\ (s \o t)[k] = t[k - Len(s)]
<1>1. /\ Len(s) \in Nat /\ DOMAIN s = 1..Len(s)
      /\ Len(t) \in Nat /\ DOMAIN t = 1..Len(t)
  BY LenProperties
<1>2. s \o t \in Seq(S) /\ Len(s \o t) = Len(s) + Len(t)
      /\ \A k \in 1..Len(s) + Len(t) : (s \o t)[k] = IF k <= Len(s) THEN s[k] ELSE t[k - Len(s)]
  BY ConcatProperties
<1>3. DOMAIN (s \o t) = 1..Len(s) + Len(t)
  BY <1>2, LenProperties
<1>4. ASSUME NEW k \in DOMAIN (s \o t)
      PROVE  \/ k \in DOMAIN s /\ k <= Len(s) /\ (s \o t)[k] = s[k]
             \/ /\ k \in Nat /\ k > Len(s)
                /\ k - Len(s) \in DOMAIN t /\ (s \o t)[k] = t[k - Len(s)]
  <2>1. CASE k <= Len(s)
    BY <1>1, <1>2, <1>3, <2>1
  <2>2. CASE ~(k <= Len(s))
    BY <1>1, <1>2, <1>3, <2>2
  <2> QED BY <2>1, <2>2
<1> QED BY <1>1, <1>2, <1>4

LEMMA AppendFacts ==
  ASSUME NEW S, NEW s \in Seq(S), NEW e \in S
  PROVE  /\ Append(s, e) \in Seq(S)
         /\ \A k \in DOMAIN Append(s, e) :
              \/ k \in DOMAIN s /\ Append(s, e)[k] = s[k]
              \/ k \notin DOMAIN s /\ k = Len(s) + 1 /\ Append(s, e)[k] = e
<1>1. Len(s) \in Nat /\ DOMAIN s = 1..Len(s)
  BY LenProperties
<1>2. Append(s, e) \in Seq(S) /\ Len(Append(s, e)) = Len(s) + 1
      /\ (\A k \in 1..Len(s) : Append(s, e)[k] = s[k]) /\ Append(s, e)[Len(s) + 1] = e
  BY AppendProperties
<1>3. DOMAIN Append(s, e) = 1..Len(s) + 1
  BY <1>2, LenProperties
<1>4. ASSUME NEW k \in DOMAIN Append(s, e)
      PROVE  \/ k \in DOMAIN s /\ Append(s, e)[k] = s[k]
             \/ k \notin DOMAIN s /\ k = Len(s) + 1 /\ Append(s, e)[k] = e
  <2>1. k \in 1..Len(s) \/ k = Len(s) + 1
    BY <1>1, <1>3
  <2> QED BY <1>1, <1>2, <2>1
<1> QED BY <1>2, <1>4

\* what the window manager adds: at most one request, for the operation it has
\* just numbered
Newcomers(ms, n, m) ==
  \A k \in DOMAIN ms : ms[k].kind = "start" => k = 1 /\ ms[k].id = n + 1 /\ m = n + 1

LEMMA StartsGrow ==
  ASSUME NEW s \in Seq(Msgs), NEW ms \in Seq(Msgs), NEW n \in Nat, NEW m \in {n, n + 1}, NEW sl,
         Starts(s, n, sl), Newcomers(ms, n, m), m = n + 1 => sl[n + 1] = "none"
  PROVE  Starts(s \o ms, m, sl) /\ s \o ms \in Seq(Msgs)
<1> DEFINE c == s \o ms
<1>1. /\ c \in Seq(Msgs) /\ Len(s) \in Nat /\ DOMAIN s \subseteq Nat /\ DOMAIN ms \subseteq Nat
      /\ \A k \in DOMAIN c :
           \/ k \in DOMAIN s /\ k <= Len(s) /\ c[k] = s[k]
           \/ k \in Nat /\ k > Len(s) /\ k - Len(s) \in DOMAIN ms /\ c[k] = ms[k - Len(s)]
  BY CatFacts
<1> HIDE DEF c
<1>2. ASSUME NEW k \in DOMAIN c, c[k].kind = "start"
      PROVE  /\ c[k].id \in 1..m /\ sl[c[k].id] = "none"
             /\ \/ k \in DOMAIN s /\ c[k] = s[k] /\ c[k].id \in 1..n
                \/ k = Len(s) + 1 /\ c[k].id = n + 1
  <2>1. CASE k \in DOMAIN s /\ c[k] = s[k]
    BY <1>2, <2>1 DEF Starts
  <2>2. CASE k \in Nat /\ k > Len(s) /\ k - Len(s) \in DOMAIN ms /\ c[k] = ms[k - Len(s)]
    <3>1. k - Len(s) = 1 /\ c[k].id = n + 1 /\ m = n + 1
      BY <1>2, <2>2 DEF Newcomers
    <3>2. k = Len(s) + 1
      BY <1>1, <2>2, <3>1
    <3>3. n + 1 \in 1..m /\ sl[n + 1] = "none"
      BY <3>1
    <3> QED BY <3>1, <3>2, <3>3
  <2> QED BY <1>1, <2>1, <2>2
<1>3. ASSUME NEW j \in DOMAIN c, NEW k \in DOMAIN c, c[j].kind = "start", c[k] = c[j]
      PROVE  j = k
  <2>1. \/ j \in DOMAIN s /\ c[j] = s[j] /\ c[j].id \in 1..n
        \/ j = Len(s) + 1 /\ c[j].id = n + 1
    BY <1>2, <1>3
  <2>2. \/ k \in DOMAIN s /\ c[k] = s[k] /\ c[k].id \in 1..n
        \/ k = Len(s) + 1 /\ c[k].id = n + 1
    BY <1>2, <1>3
  <2>3. CASE c[j].id \in 1..n
    <3>1. j \in DOMAIN s /\ c[j] = s[j] /\ k \in DOMAIN s /\ c[k] = s[k]
      BY <1>3, <2>1, <2>2, <2>3
    <3> QED BY <1>3, <3>1 DEF Starts
  <2>4. CASE c[j].id = n + 1
    BY <1>3, <2>1, <2>2, <2>4
  <2> QED BY <2>1, <2>3, <2>4
<1> QED BY <1>1, <1>2, <1>3 DEF Starts, c

LEMMA StartsWiden ==
  ASSUME NEW s, NEW n \in Nat, NEW m \in {n, n + 1}, NEW sl, Starts(s, n, sl)
  PROVE  Starts(s, m, sl)
BY DEF Starts

\* Newcomers are in no other queue either.
LEMMA ApartGrow ==
  ASSUME NEW s \in Seq(Msgs), NEW t \in Seq(Msgs), NEW ms \in Seq(Msgs), NEW n \in Nat,
         NEW m \in {n, n + 1}, NEW sl, Starts(s, n, sl), Starts(t, n, sl), Newcomers(ms, n, m)
  PROVE  /\ Apart(s, t) => Apart(s \o ms, t)
         /\ Apart(t, s) => Apart(t, s \o ms)
<1> DEFINE c == s \o ms
<1>1. /\ c \in Seq(Msgs) /\ Len(s) \in Nat
      /\ \A k \in DOMAIN c :
           \/ k \in DOMAIN s /\ k <= Len(s) /\ c[k] = s[k]
           \/ k \in Nat /\ k > Len(s) /\ k - Len(s) \in DOMAIN ms /\ c[k] = ms[k - Len(s)]
  BY CatFacts
<1> HIDE DEF c
<1>2. ASSUME NEW k \in DOMAIN c, NEW j \in DOMAIN t, c[k].kind = "start", t[j] = c[k]
      PROVE  k \in DOMAIN s /\ c[k] = s[k]
  <2>1. c[k].id \in 1..n
    BY <1>2 DEF Starts
  <2>2. CASE k - Len(s) \in DOMAIN ms /\ c[k] = ms[k - Len(s)]
    <3>1. c[k].id = n + 1
      BY <1>2, <2>2 DEF Newcomers
    <3> QED BY <2>1, <3>1
  <2> QED BY <1>1, <2>2
<1>3. ASSUME Apart(s, t) PROVE Apart(c, t)
  BY <1>2, <1>3 DEF Apart
<1>4. ASSUME Apart(t, s) PROVE Apart(t, c)
  BY <1>2, <1>4 DEF Apart
<1> QED BY <1>3, <1>4 DEF c

LEMMA StartsTail ==
  ASSUME NEW s \in Seq(Msgs), s # <<>>, NEW n \in Nat, NEW sl, NEW sr, Starts(s, n, sl),
         \A i \in 1..n : sl[i] = "none" =>
           sr[i] = "none" \/ Head(s) = Msg("start", i)
  PROVE  Starts(Tail(s), n, sr) /\ Tail(s) \in Seq(Msgs)
<1>1. /\ Head(s) = s[1] /\ 1 \in DOMAIN s /\ Tail(s) \in Seq(Msgs)
      /\ \A k \in DOMAIN Tail(s) : k \in Nat \ {0} /\ k + 1 \in DOMAIN s /\ Tail(s)[k] = s[k + 1]
  BY TailFacts
<1>2. ASSUME NEW k \in DOMAIN Tail(s), Tail(s)[k].kind = "start"
      PROVE  Tail(s)[k].id \in 1..n /\ sr[Tail(s)[k].id] = "none"
  <2>1. k + 1 \in DOMAIN s /\ Tail(s)[k] = s[k + 1] /\ k + 1 # 1
    BY <1>1
  <2>2. s[k + 1].id \in 1..n /\ sl[s[k + 1].id] = "none"
    BY <1>2, <2>1 DEF Starts
  <2>3. s[k + 1] \in Msgs
    BY <2>1, LenProperties
  <2>4. s[k + 1] = Msg("start", s[k + 1].id)
    BY <1>2, <2>1, <2>3 DEF Msgs, Msg
  <2>5. Head(s) # s[k + 1]
    BY <1>1, <1>2, <2>1 DEF Starts
  <2> QED BY <2>1, <2>2, <2>4, <2>5
<1>3. ASSUME NEW j \in DOMAIN Tail(s), NEW k \in DOMAIN Tail(s), Tail(s)[j].kind = "start",
             Tail(s)[k] = Tail(s)[j]
      PROVE  j = k
  <2>1. j + 1 = k + 1
    BY <1>1, <1>3 DEF Starts
  <2> QED BY <1>1, <2>1
<1> QED BY <1>1, <1>2, <1>3 DEF Starts

LEMMA StartsMove ==
  ASSUME NEW s \in Seq(Msgs), NEW t \in Seq(Msgs), NEW n \in Nat, NEW sl,
         Starts(s, n, sl), Starts(t, n, sl), Apart(s, t)
  PROVE  Starts(t \o s, n, sl) /\ t \o s \in Seq(Msgs)
<1> DEFINE c == t \o s
<1>1. /\ c \in Seq(Msgs) /\ Len(t) \in Nat /\ DOMAIN t \subseteq Nat /\ DOMAIN s \subseteq Nat
      /\ \A k \in DOMAIN c :
           \/ k \in DOMAIN t /\ k <= Len(t) /\ c[k] = t[k]
           \/ k \in Nat /\ k > Len(t) /\ k - Len(t) \in DOMAIN s /\ c[k] = s[k - Len(t)]
  BY CatFacts
<1> HIDE DEF c
<1>2. ASSUME NEW k \in DOMAIN c, c[k].kind = "start"
      PROVE  c[k].id \in 1..n /\ sl[c[k].id] = "none"
  BY <1>1, <1>2 DEF Starts
<1>3. ASSUME NEW j \in DOMAIN c, NEW k \in DOMAIN c, c[j].kind = "start", c[k] = c[j]
      PROVE  j = k
  <2>1. CASE j \in DOMAIN t /\ c[j] = t[j]
    <3>1. k \in DOMAIN t /\ c[k] = t[k]
      BY <1>1, <1>3, <2>1 DEF Apart
    <3> QED BY <1>3, <2>1, <3>1 DEF Starts
  <2>2. CASE j \in Nat /\ j > Len(t) /\ j - Len(t) \in DOMAIN s /\ c[j] = s[j - Len(t)]
    <3>1. k \in Nat /\ k > Len(t) /\ k - Len(t) \in DOMAIN s /\ c[k] = s[k - Len(t)]
      BY <1>1, <1>3, <2>2 DEF Apart
    <3>2. j - Len(t) = k - Len(t)
      BY <1>3, <2>2, <3>1 DEF Starts
    <3> QED BY <1>1, <2>2, <3>1, <3>2
  <2> QED BY <1>1, <2>1, <2>2
<1> QED BY <1>1, <1>2, <1>3 DEF Starts, c

LEMMA StartsNone ==
  ASSUME NEW n \in Nat, NEW sl, NEW s
  PROVE  Starts(<<>>, n, sl) /\ Apart(<<>>, s) /\ Apart(s, <<>>)
<1>1. DOMAIN <<>> = {}
  OBVIOUS
<1> QED BY <1>1 DEF Starts, Apart

LEMMA ApartTail ==
  ASSUME NEW s, NEW t \in Seq(Msgs), t # <<>>, Apart(s, t)
  PROVE  Apart(s, Tail(t))
BY TailFacts DEF Apart

LEMMA StartsStay ==
  ASSUME NEW s, NEW n \in Nat, NEW sl, NEW sr, Starts(s, n, sl),
         \A i \in 1..n : sl[i] = "none" => sr[i] = "none"
  PROVE  Starts(s, n, sr)
BY DEF Starts

-----------------------------------------------------------------------------
(* The parts of the invariant.                                             *)

WmTypes ==
  /\ undefined \in BOOLEAN /\ views \subseteq View /\ last \in 0..MaxOps
  /\ dialog \in [Id -> {"none", "overwrite"} \cup ErrorDialog]
  /\ dismissed \subseteq Id

BookTypes ==
  /\ entry \in [Id -> Entry]
  /\ renames \in [View -> Seq(Rename)] /\ renameOf \in Seq(Id)
  /\ open \subseteq DOMAIN renameOf /\ Len(renameOf) <= MaxRenames

ConnTypes ==
  /\ connected \in BOOLEAN /\ spawning \in BOOLEAN /\ req \in Int
  /\ daemon \in {"down", "starting", "up"}
  /\ messages \in Seq(Msgs) /\ toDaemon \in Seq(Msgs)

PipeTypes ==
  /\ toWm \in Seq(Msgs)
  /\ slaves \in Seq([id : Id, freed : BOOLEAN])
  /\ slave \in [Id -> {"none", "running", "ended", "dead", "lost"} \cup Question]
  /\ inbox \in [Id -> Seq(Msgs)] /\ outbox \in [Id -> Seq(Msgs)]
  /\ reports \in [Id -> 0..MaxReports]
  /\ aborting \subseteq Id

Mishaps == mishaps \in 0..MaxMishaps

LEMMA TypeParts == TypeOK <=> WmTypes /\ BookTypes /\ ConnTypes /\ PipeTypes /\ Mishaps
BY DEF TypeOK, WmTypes, BookTypes, ConnTypes, PipeTypes, Mishaps

LEMMA TypePartsNext ==
  TypeOK' <=> WmTypes' /\ BookTypes' /\ ConnTypes' /\ PipeTypes' /\ Mishaps'
BY DEF TypeOK, WmTypes, BookTypes, ConnTypes, PipeTypes, Mishaps

Unlisted == \A i \in 1..last : ~entry[i].listed => slave[i] = "dead"

\* the books of the window manager, and what is between it and the slaves
Book == BookTypes /\ Counted /\ Dialogs /\ Unlisted
Wire ==
  /\ ConnTypes /\ PipeTypes /\ Fresh
  /\ \A k \in DOMAIN toWm : toWm[k].kind = "quit" => slave[toWm[k].id] = "dead"
  /\ \A i \in Id : \A k \in DOMAIN outbox[i] : outbox[i][k].kind # "quit"
  /\ \A i \in Id : i > last => slave[i] = "none"

LEMMA Parts == Inv <=> WmTypes /\ Book /\ Wire /\ Mishaps
BY TypeParts DEF Inv, Book, Wire, Gone, Unlisted

LEMMA PartsNext == Inv' <=> WmTypes' /\ Book' /\ Wire' /\ Mishaps'
BY TypePartsNext DEF Inv, Book, Wire, Gone, Unlisted

LEMMA Numbers == MaxOps \in Nat /\ MaxReports \in Nat /\ MaxRenames \in Nat /\ MaxMishaps \in Nat
BY RelayAssumption

LEMMA MsgType ==
  ASSUME NEW k \in Kinds, NEW i \in Id
  PROVE  Msg(k, i) \in Msgs /\ Msg(k, i).kind = k /\ Msg(k, i).id = i
BY DEF Msgs, Msg

LEMMA OneMsg ==
  ASSUME NEW k \in Kinds, NEW i \in Id
  PROVE  /\ <<Msg(k, i)>> \in Seq(Msgs)
         /\ DOMAIN <<Msg(k, i)>> = {1} /\ <<Msg(k, i)>>[1] = Msg(k, i)
BY MsgType

-----------------------------------------------------------------------------
(* The books.                                                              *)

LEMMA HeldFinite ==
  ASSUME BookTypes
  PROVE  \A i : IsFiniteSet(Held(i)) /\ Cardinality(Held(i)) \in Nat
<1> TAKE i
<1>1. DOMAIN renameOf = 1..Len(renameOf) /\ Len(renameOf) \in Nat
  BY LenProperties DEF BookTypes
<1>2. IsFiniteSet(DOMAIN renameOf)
  BY <1>1, FS_Interval
<1>3. Held(i) \in SUBSET DOMAIN renameOf
  BY DEF Held, BookTypes
<1>4. IsFiniteSet(Held(i))
  BY <1>2, <1>3, FS_Subset
<1> QED BY <1>4, FS_CardinalityType

LEMMA GoodEntry ==
  ASSUME Book, NEW i \in 1..last
  PROVE  Good(entry[i], Cardinality(Held(i))) /\ Cardinality(Held(i)) \in Nat
BY HeldFinite DEF Book, Counted

LEMMA ListedNumbered ==
  ASSUME WmTypes, Book, NEW i \in Id, entry[i].listed
  PROVE  i \in 1..last /\ entry[i].life = "live"
<1>1. i <= last
  BY DEF Book, Counted, Unused, Id, WmTypes
<1>2. i \in 1..last
  BY <1>1 DEF Id, WmTypes
<1> QED BY <1>2, GoodEntry, ListedLives

\* what a handler may make of the entries, other than for a dialog
Handled(g) ==
  /\ g \in [Id -> Entry]
  /\ \A i \in 1..last : /\ Good(g[i], Cardinality(Held(i))) /\ g[i].view = entry[i].view
                        /\ ~g[i].listed => slave[i] = "dead"
  /\ \A i \in Id : i > last => g[i] = Unused

\* and with a new one or without it
Extended(g) ==
  \/ entry' = g /\ last' = last
  \/ \E v \in View \cup {NoView} :
       last < MaxOps /\ last' = last + 1 /\ entry' = [g EXCEPT ![last + 1] = Added(v)]

LEMMA HandledSame ==
  ASSUME Book
  PROVE  Handled(entry)
BY DEF Book, BookTypes, Counted, Unlisted, Handled

LEMMA HandledAt ==
  ASSUME WmTypes, Book, NEW i \in 1..last, NEW f, Good(f, Cardinality(Held(i))),
         f.view = entry[i].view, ~f.listed => slave[i] = "dead"
  PROVE  Handled([entry EXCEPT ![i] = f])
<1>1. i \in Id /\ f \in Entry /\ last \in Nat
  BY Numbers DEF WmTypes, Id, Good
<1> QED BY <1>1, HandledSame DEF Handled, Book, BookTypes

LEMMA HandledIfListed ==
  ASSUME WmTypes, Book, NEW i \in Id, NEW f,
         entry[i].listed => /\ Good(f, Cardinality(Held(i))) /\ f.view = entry[i].view
                            /\ ~f.listed => slave[i] = "dead"
  PROVE  Handled(IfListed(i, f))
<1>1. CASE entry[i].listed
  BY <1>1, ListedNumbered, HandledAt DEF IfListed
<1>2. CASE ~entry[i].listed
  BY <1>2, HandledSame DEF IfListed
<1> QED BY <1>1, <1>2

LEMMA BookKept ==
  ASSUME WmTypes, Book, UNCHANGED <<renames, renameOf, open, slave>>,
         NEW g, Handled(g), Extended(g), \A i \in Id : i > last => slave[i] = "none"
  PROVE  Book' /\ last' \in 0..MaxOps /\ last' \in {last, last + 1}
<1>1. \A i : Held(i)' = Held(i)
  BY DEF Held
<1>2. last \in Nat /\ last <= MaxOps /\ MaxOps \in Nat /\ Id = 1..MaxOps
  BY Numbers DEF WmTypes, Id
<1>3. CASE entry' = g /\ last' = last
  <2>1. BookTypes'
    BY <1>3 DEF Book, BookTypes, Handled
  <2>2. Counted'
    BY <1>1, <1>3 DEF Book, Counted, Handled
  <2>3. Dialogs'
    <3>1. \A v \in View : \A k \in DOMAIN renames[v] : renameOf[renames[v][k]] \in 1..last
      BY DEF Book, Dialogs, BookTypes, Counted
    <3>2. \A i \in 1..last : entry'[i].view = entry[i].view
      BY <1>3 DEF Handled
    <3> QED BY <3>1, <3>2 DEF Book, Dialogs
  <2>4. Unlisted'
    BY <1>3 DEF Handled, Unlisted
  <2> QED BY <1>2, <1>3, <2>1, <2>2, <2>3, <2>4 DEF Book
<1>4. ASSUME NEW v \in View \cup {NoView}, last < MaxOps, last' = last + 1,
             entry' = [g EXCEPT ![last + 1] = Added(v)]
      PROVE  Book' /\ last' \in 0..MaxOps
  <2>1. last + 1 \in Id
    BY <1>2, <1>4
  <2>2. /\ Good(Added(v), 0) /\ Added(v).listed /\ Added(v) \in Entry
    BY AddedGood DEF Good
  <2>3. /\ entry'[last + 1] = Added(v) /\ entry' \in [Id -> Entry]
        /\ \A i \in Id : i # last + 1 => entry'[i] = g[i]
    BY <1>4, <2>1, <2>2 DEF Handled
  <2>4. Held(last + 1) = {}
    BY <1>2 DEF Held, Book, BookTypes, Counted
  <2>5. BookTypes'
    BY <2>3 DEF Book, BookTypes
  <2>6. Counted'
    <3>1. \A i \in 1..last' : Good(entry'[i], Cardinality(Held(i)))
      <4>1. Good(entry'[last + 1], Cardinality(Held(last + 1)))
        BY <2>2, <2>3, <2>4, FS_EmptySet
      <4>2. \A i \in 1..last : i \in Id /\ i # last + 1
        BY <1>2
      <4>3. \A i \in 1..last : Good(entry'[i], Cardinality(Held(i)))
        BY <2>3, <4>2 DEF Handled
      <4>4. \A i \in 1..last' : i \in 1..last \/ i = last + 1
        BY <1>2, <1>4
      <4> QED BY <4>1, <4>3, <4>4
    <3>2. \A i \in Id : i > last' => entry'[i] = Unused
      BY <1>2, <1>4, <2>3 DEF Handled
    <3>3. \A d \in DOMAIN renameOf : renameOf[d] \in 1..last'
      BY <1>2, <1>4 DEF Book, Counted
    <3> QED BY <1>1, <3>1, <3>2, <3>3 DEF Counted
  <2>7. Dialogs'
    <3>1. \A w \in View : \A k \in DOMAIN renames[w] : renameOf[renames[w][k]] \in 1..last
      BY DEF Book, Dialogs, BookTypes, Counted
    <3>2. \A i \in 1..last : entry'[i].view = entry[i].view
      BY <1>2, <2>3 DEF Handled
    <3> QED BY <3>1, <3>2 DEF Book, Dialogs
  <2>8. Unlisted'
    <3>1. \A i \in 1..last' : i = last + 1 \/ (i \in 1..last /\ i \in Id /\ i # last + 1)
      BY <1>2, <1>4
    <3> QED BY <2>2, <2>3, <3>1 DEF Unlisted, Handled
  <2> QED BY <1>2, <1>4, <2>5, <2>6, <2>7, <2>8 DEF Book
<1>5. last' \in {last, last + 1}
  BY DEF Extended
<1> QED BY <1>3, <1>4, <1>5 DEF Extended

\* A request is queued or sent.
LEMMA SendsKeeps ==
  ASSUME WmTypes, Wire, NEW ms \in Seq(Msgs), Sends(ms), UNCHANGED slave,
         last' \in {last, last + 1}, last' \in 0..MaxOps, Newcomers(ms, last, last')
  PROVE  Fresh' /\ ConnTypes'
<1>1. last \in Nat /\ messages \in Seq(Msgs) /\ toDaemon \in Seq(Msgs)
  BY Numbers DEF WmTypes, Wire, ConnTypes
<1>2. last' = last + 1 => slave[last + 1] = "none"
  BY <1>1 DEF Wire, Id
<1>3. /\ Starts(messages, last', slave) /\ Starts(toDaemon, last', slave)
      /\ Starts(messages, last, slave) /\ Starts(toDaemon, last, slave)
      /\ Apart(messages, toDaemon)
  BY <1>1, StartsWiden DEF Wire, Fresh
<1>4. /\ Starts(toDaemon \o ms, last', slave) /\ toDaemon \o ms \in Seq(Msgs)
      /\ Apart(messages, toDaemon \o ms)
  BY <1>1, <1>2, <1>3, StartsGrow, ApartGrow
<1>5. /\ Starts(messages \o ms, last', slave) /\ messages \o ms \in Seq(Msgs)
      /\ Apart(messages \o ms, toDaemon)
  BY <1>1, <1>2, <1>3, StartsGrow, ApartGrow
<1>6. CASE connected
  <2>1. /\ UNCHANGED <<connected, spawning, messages, daemon>> /\ req' = req + Len(ms)
        /\ toDaemon' = IF daemon = "up" THEN toDaemon \o ms ELSE toDaemon
    BY <1>6 DEF Sends
  <2>2. Len(ms) \in Nat
    BY LenProperties
  <2>3. ConnTypes'
    BY <1>4, <2>1, <2>2 DEF Wire, ConnTypes
  <2> QED BY <1>3, <1>4, <2>1, <2>3 DEF Fresh
<1>7. CASE ~connected
  <2>1. /\ UNCHANGED <<connected, req, toDaemon>> /\ messages' = messages \o ms /\ spawning' = TRUE
        /\ daemon' = IF spawning THEN daemon ELSE "starting"
    BY <1>7 DEF Sends
  <2>2. ConnTypes'
    BY <1>5, <2>1 DEF Wire, ConnTypes
  <2> QED BY <1>3, <1>5, <2>1, <2>2 DEF Fresh
<1> QED BY <1>6, <1>7

LEMMA SendsOne ==
  ASSUME WmTypes, Wire, NEW k \in Kinds \ {"start"}, NEW i \in Id, Sends(<<Msg(k, i)>>),
         UNCHANGED <<slave, last>>
  PROVE  Fresh' /\ ConnTypes'
<1>1. <<Msg(k, i)>> \in Seq(Msgs) /\ Newcomers(<<Msg(k, i)>>, last, last)
  BY OneMsg, MsgType DEF Newcomers
<1> QED BY <1>1, SendsKeeps DEF WmTypes

LEMMA SendsStart ==
  ASSUME WmTypes, Wire, Sends(<<Msg("start", last + 1)>>), last < MaxOps, last' = last + 1,
         UNCHANGED slave
  PROVE  Fresh' /\ ConnTypes'
<1>1. last + 1 \in Id /\ "start" \in Kinds /\ last' \in 0..MaxOps
  BY Numbers DEF WmTypes, Id, Kinds
<1>2. /\ <<Msg("start", last + 1)>> \in Seq(Msgs)
      /\ Newcomers(<<Msg("start", last + 1)>>, last, last')
  BY <1>1, OneMsg, MsgType DEF Newcomers
<1> QED BY <1>1, <1>2, SendsKeeps

\* Nothing is sent and no operation is numbered.
LEMMA SendsNothing ==
  ASSUME Wire, UNCHANGED <<connVars, daemon, toDaemon, slave, last>>
  PROVE  Fresh' /\ ConnTypes'
BY DEF Wire, Fresh, Starts, Apart, ConnTypes, connVars

LEMMA WireKept ==
  ASSUME WmTypes, Wire, ConnTypes', Fresh', UNCHANGED <<slaves, slaveVars>>,
         toWm' = toWm \/ (toWm # <<>> /\ toWm' = Tail(toWm)),
         last' \in {last, last + 1}
  PROVE  Wire'
<1>1. PipeTypes' /\ \A k \in DOMAIN toWm' : toWm'[k].kind = "quit" => slave[toWm'[k].id] = "dead"
  <2>1. CASE toWm' = toWm
    BY <2>1 DEF Wire, PipeTypes, slaveVars
  <2>2. CASE toWm # <<>> /\ toWm' = Tail(toWm)
    <3>1. /\ Tail(toWm) \in Seq(Msgs)
          /\ \A k \in DOMAIN Tail(toWm) : k + 1 \in DOMAIN toWm /\ Tail(toWm)[k] = toWm[k + 1]
      BY <2>2, TailFacts DEF Wire, PipeTypes
    <3> QED BY <2>2, <3>1 DEF Wire, PipeTypes, slaveVars
  <2> QED BY <2>1, <2>2
<1>2. \A i \in Id : i > last' => slave[i] = "none"
  BY Numbers DEF Wire, WmTypes, Id
<1> QED BY <1>1, <1>2 DEF Wire, slaveVars

-----------------------------------------------------------------------------
(* The steps of the window manager that leave the rename dialogs alone.    *)

\* What such a step has to show.
LEMMA WmKeeps ==
  ASSUME Inv, WmTypes', NoDialogs, NEW g, Handled(g), Extended(g), UNCHANGED <<slaves, slaveVars>>,
         toWm' = toWm \/ (toWm # <<>> /\ toWm' = Tail(toWm)), Fresh' /\ ConnTypes', Mishaps'
  PROVE  Inv'
<1>1. WmTypes /\ Book /\ Wire
  BY Parts
<1>2. \A i \in Id : i > last => slave[i] = "none"
  BY <1>1 DEF Wire
<1>3. UNCHANGED <<renames, renameOf, open, slave>>
  BY DEF NoDialogs, slaveVars
<1>4. Book' /\ last' \in {last, last + 1}
  BY <1>1, <1>2, <1>3, BookKept
<1>5. Wire'
  BY <1>1, <1>4, WireKept
<1> QED BY <1>4, <1>5, PartsNext

LEMMA StartKeeps ==
  ASSUME Inv, NEW v \in View, Start(v)
  PROVE  Inv'
<1> USE DEF Start, Quietly, WmStep
<1>1. WmTypes /\ Book /\ Wire /\ Mishaps
  BY Parts
<1>2. Handled(entry) /\ Extended(entry)
  BY <1>1, HandledSame DEF Extended
<1>3. UNCHANGED slave
  BY DEF slaveVars
<1>4. Fresh' /\ ConnTypes'
  BY <1>1, <1>3, SendsStart
<1>5. WmTypes'
  BY <1>1, Numbers DEF WmTypes
<1> QED BY <1>1, <1>2, <1>4, <1>5, WmKeeps DEF Mishaps

LEMMA AbortKeeps ==
  ASSUME Inv, NEW i \in Id, Abort(i)
  PROVE  Inv'
<1> USE DEF Abort, WmStep
<1>1. WmTypes /\ Book /\ Wire /\ Mishaps
  BY Parts
<1>2. i \in 1..last /\ entry[i].life = "live" /\ entry[i].listed
  BY <1>1, ListedNumbered
<1>3. Kept(Aborted(entry[i]), entry[i], Cardinality(Held(i)))
  BY <1>1, <1>2, GoodEntry, HandledGood
<1> DEFINE g == [entry EXCEPT ![i] = Aborted(entry[i])]
<1>4. Handled(g)
  BY <1>1, <1>2, <1>3, HandledAt DEF Kept
<1>5. Extended(g)
  BY DEF Extended
<1>6. UNCHANGED <<slave, last>> /\ "abort" \in Kinds \ {"start"}
  BY DEF slaveVars, Kinds
<1>7. Fresh' /\ ConnTypes'
  BY <1>1, <1>6, SendsOne
<1>8. WmTypes' /\ Mishaps'
  BY <1>1, Numbers DEF WmTypes, Mishaps, Mishap
<1> HIDE DEF g
<1> QED BY <1>4, <1>5, <1>7, <1>8, WmKeeps

LEMMA AnswerKinds ==
  /\ Answer \subseteq Kinds \ {"start"} /\ Question \subseteq Kinds \ {"start"}
  /\ ErrorAnswer \subseteq Answer /\ OverwriteAnswer \subseteq Answer
  /\ "no" \in Kinds \ {"start"} /\ "give up" \in Kinds \ {"start"} /\ "start" \in Kinds
BY DEF Kinds, Answer, ErrorAnswer, OverwriteAnswer, Question

LEMMA ListedHandled ==
  ASSUME WmTypes, Book, NEW i \in Id, NEW f,
         entry[i].listed => Kept(f, entry[i], Cardinality(Held(i)))
  PROVE  Handled(IfListed(i, f))
<1>1. entry[i].listed => /\ Good(f, Cardinality(Held(i))) /\ f.view = entry[i].view
                         /\ ~f.listed => slave[i] = "dead"
  BY DEF Kept
<1> QED BY <1>1, HandledIfListed

LEMMA ListedGood ==
  ASSUME WmTypes, Book, NEW i \in Id, entry[i].listed
  PROVE  LET e == entry[i]
             n == Cardinality(Held(i)) IN
         /\ Kept(GoneOn(e), e, n) /\ Kept(Aborted(e), e, n)
         /\ Kept(NeedsAttention(e), e, n) /\ Kept(Errs(e), e, n)
         /\ Kept(Changed(e), e, n)
         /\ Kept(Changed([e EXCEPT !.status = "successful", !.finished = TRUE]), e, n)
         /\ Kept(Changed([e EXCEPT !.finished = TRUE]), e, n)
<1> DEFINE e == entry[i]
           n == Cardinality(Held(i))
<1>1. i \in 1..last /\ e.life = "live"
  BY ListedNumbered
<1>2. Good(e, n) /\ n \in Nat
  BY <1>1, GoodEntry
<1> HIDE DEF e, n
<1>3. /\ Kept(GoneOn(e), e, n) /\ Kept(Aborted(e), e, n)
      /\ Kept(NeedsAttention(e), e, n) /\ Kept(Errs(e), e, n)
      /\ Kept(Changed([e EXCEPT !.status = "successful", !.finished = TRUE]), e, n)
      /\ Kept(Changed([e EXCEPT !.finished = TRUE]), e, n)
  BY <1>1, <1>2, HandledGood
<1>4. Kept(Changed(e), e, n)
  BY <1>1, <1>2, ChangedGood
<1> QED BY <1>3, <1>4 DEF e, n

LEMMA AnswerErrorKeeps ==
  ASSUME Inv, NEW i \in Id, AnswerError(i)
  PROVE  Inv'
<1> USE DEF AnswerError, Quietly, WmStep
<1>1. WmTypes /\ Book /\ Wire /\ Mishaps
  BY Parts
<1>2. PICK a \in ErrorAnswer :
        /\ entry' = IfListed(i, IF a = "give up" THEN Aborted(entry[i]) ELSE GoneOn(entry[i]))
        /\ Sends(<<Msg(a, i)>>)
  OBVIOUS
<1> DEFINE f == IF a = "give up" THEN Aborted(entry[i]) ELSE GoneOn(entry[i])
<1>3. entry[i].listed => Kept(f, entry[i], Cardinality(Held(i)))
  BY <1>1, ListedGood
<1> HIDE DEF f
<1>4. Handled(IfListed(i, f))
  BY <1>1, <1>3, ListedHandled
<1>5. Extended(IfListed(i, f))
  BY <1>2 DEF Extended, f
<1>6. UNCHANGED <<slave, last>> /\ a \in Kinds \ {"start"}
  BY AnswerKinds DEF slaveVars
<1>7. Fresh' /\ ConnTypes'
  BY <1>1, <1>2, <1>6, SendsOne
<1>8. WmTypes' /\ Mishaps'
  BY <1>1 DEF WmTypes, Mishaps
<1> QED BY <1>4, <1>5, <1>7, <1>8, WmKeeps

LEMMA AnswerOverwriteKeeps ==
  ASSUME Inv, NEW i \in Id, AnswerOverwrite(i)
  PROVE  Inv'
<1> USE DEF AnswerOverwrite, Quietly, WmStep
<1>1. WmTypes /\ Book /\ Wire /\ Mishaps
  BY Parts
<1>2. PICK a \in OverwriteAnswer : Sends(<<Msg(a, i)>>)
  OBVIOUS
<1>3. entry[i].listed => Kept(GoneOn(entry[i]), entry[i], Cardinality(Held(i)))
  BY <1>1, ListedGood
<1>4. Handled(IfListed(i, GoneOn(entry[i])))
  BY <1>1, <1>3, ListedHandled
<1>5. Extended(IfListed(i, GoneOn(entry[i])))
  BY DEF Extended
<1>6. UNCHANGED <<slave, last>> /\ a \in Kinds \ {"start"}
  BY AnswerKinds DEF slaveVars
<1>7. Fresh' /\ ConnTypes'
  BY <1>1, <1>2, <1>6, SendsOne
<1>8. WmTypes' /\ Mishaps'
  BY <1>1 DEF WmTypes, Mishaps
<1> QED BY <1>4, <1>5, <1>7, <1>8, WmKeeps

LEMMA LastType == WmTypes => last \in Nat /\ MaxOps \in Nat
BY Numbers DEF WmTypes

LEMMA TwoMsgs ==
  ASSUME NEW x \in Msgs, NEW y \in Msgs
  PROVE  /\ <<x, y>> \in Seq(Msgs) /\ DOMAIN <<x, y>> = {1, 2}
         /\ <<x, y>>[1] = x /\ <<x, y>>[2] = y
<1>1. <<x, y>>[1] = x /\ <<x, y>>[2] = y /\ DOMAIN <<x, y>> = 1..2 /\ Len(<<x, y>>) = 2
  OBVIOUS
<1>2. <<x, y>> \in Seq(Msgs)
  OBVIOUS
<1> QED BY <1>1, <1>2

LEMMA MoveSourceKeeps ==
  ASSUME Inv, NEW i \in Id, MoveSource(i)
  PROVE  Inv'
<1> USE DEF MoveSource, Quietly, WmStep
<1>1. WmTypes /\ Book /\ Wire /\ Mishaps
  BY Parts
<1>2. UNCHANGED slave
  BY DEF slaveVars
<1>3. CASE entry[i].life = "freed"
  <2>1. undefined' = TRUE /\ UNCHANGED <<last, entry, connVars, daemon, toDaemon, dialog>>
    BY <1>3
  <2>2. Handled(entry) /\ Extended(entry)
    BY <1>1, <2>1, HandledSame DEF Extended
  <2>3. Fresh' /\ ConnTypes'
    BY <1>1, <1>2, <2>1, SendsNothing
  <2>4. WmTypes' /\ Mishaps'
    BY <1>1, <2>1 DEF WmTypes, Mishaps
  <2> QED BY <2>2, <2>3, <2>4, WmKeeps
<1>4. CASE entry[i].life # "freed"
  <2> DEFINE g == IfListed(i, Aborted(entry[i]))
             ms == <<Msg("start", last + 1), Msg("give up", i)>>
             v == entry[i].view
  <2>1. /\ last < MaxOps /\ last' = last + 1 /\ UNCHANGED undefined
        /\ entry' = [g EXCEPT ![last + 1] = Added(v)]
        /\ Sends(ms) /\ dialog' = [dialog EXCEPT ![i] = "none"]
    BY <1>4
  <2>2. v \in View \cup {NoView}
    BY <1>1, EntryFields DEF Book, BookTypes
  <2>3. entry[i].listed => Kept(Aborted(entry[i]), entry[i], Cardinality(Held(i)))
    BY <1>1, ListedGood
  <2>4. Handled(g)
    BY <1>1, <2>3, ListedHandled
  <2>5. last + 1 \in Id /\ last' \in 0..MaxOps /\ last' \in {last, last + 1}
    <3>1. last \in Nat /\ MaxOps \in Nat
      BY <1>1, LastType
    <3> HIDE DEF MoveSource, g, ms, v
    <3> QED BY <2>1, <3>1 DEF Id
  <2>6. /\ Msg("start", last + 1) \in Msgs /\ Msg("start", last + 1).id = last + 1
        /\ Msg("give up", i) \in Msgs /\ Msg("give up", i).kind = "give up"
    BY <2>5, AnswerKinds, MsgType
  <2>7. ms \in Seq(Msgs) /\ DOMAIN ms = {1, 2} /\ ms[1] = Msg("start", last + 1)
        /\ ms[2] = Msg("give up", i)
    <3> DEFINE x == Msg("start", last + 1)
               y == Msg("give up", i)
    <3>1. x \in Msgs /\ y \in Msgs /\ ms = <<x, y>>
      BY <2>6
    <3> HIDE DEF ms, x, y, MoveSource
    <3>2. ms \in Seq(Msgs) /\ DOMAIN ms = {1, 2} /\ ms[1] = x /\ ms[2] = y
      BY <3>1, TwoMsgs
    <3> QED BY <3>2 DEF x, y
  <2> HIDE DEF g, ms, v
  <2>8. Extended(g)
    BY <2>1, <2>2 DEF Extended
  <2>9. Newcomers(ms, last, last')
    BY <2>1, <2>6, <2>7 DEF Newcomers
  <2>10. Fresh' /\ ConnTypes'
    BY <1>1, <1>2, <2>1, <2>5, <2>7, <2>9, SendsKeeps
  <2>11. WmTypes' /\ Mishaps'
    BY <1>1, <2>1, <2>5 DEF WmTypes, Mishaps
  <2> QED BY <2>4, <2>8, <2>10, <2>11, WmKeeps
<1> QED BY <1>3, <1>4

LEMMA DismissKeeps ==
  ASSUME Inv, NEW i \in Id, Dismiss(i)
  PROVE  Inv'
<1> USE DEF Dismiss, WmStep
<1>1. WmTypes /\ Book /\ Wire /\ Mishaps
  BY Parts
<1>2. Handled(entry) /\ Extended(entry)
  BY <1>1, HandledSame DEF Extended
<1>3. Fresh' /\ ConnTypes'
  BY <1>1, SendsNothing DEF slaveVars
<1>4. WmTypes' /\ Mishaps'
  BY <1>1, Numbers DEF WmTypes, Mishaps, Mishap
<1> QED BY <1>2, <1>3, <1>4, WmKeeps

LEMMA DeliverKeeps ==
  ASSUME Inv, NEW i \in Id, Deliver(i)
  PROVE  Inv'
<1> USE DEF Deliver, Quietly, WmStep
<1>1. WmTypes /\ Book /\ Wire /\ Mishaps
  BY Parts
<1>2. i \in 1..last
  <2>1. i <= last
    BY <1>1 DEF Book, Counted, Unused, Id, WmTypes
  <2> QED BY <1>1, <2>1 DEF Id, WmTypes
<1> DEFINE e == entry[i]
           b == e.changed /\ Head(e.events) # "changed"
           f == Delivered(e)
           n == Cardinality(Held(i))
           g == [entry EXCEPT ![i] = f]
<1>3. entry' = g /\ f = Unref([e EXCEPT !.events = Tail(e.events), !.changed = b])
  BY DEF Delivered
<1>4. Good(e, n) /\ n \in Nat /\ e.events # <<>> /\ b \in BOOLEAN
  BY <1>1, <1>2, GoodEntry
<1>5. Good(f, n) /\ f.view = e.view /\ f.listed = e.listed
  <2> HIDE DEF e, b, n, f
  <2> QED BY <1>3, <1>4, DeliveredGood
<1>6. ~f.listed => slave[i] = "dead"
  BY <1>1, <1>2, <1>5 DEF Book, Unlisted
<1>7. Handled(g)
  <2> HIDE DEF f
  <2> QED BY <1>1, <1>2, <1>5, <1>6, HandledAt
<1> HIDE DEF g
<1>8. Extended(g)
  BY <1>3 DEF Extended
<1>9. Fresh' /\ ConnTypes'
  BY <1>1, SendsNothing DEF slaveVars
<1>10. WmTypes' /\ Mishaps'
  BY <1>1 DEF WmTypes, Mishaps
<1> QED BY <1>7, <1>8, <1>9, <1>10, WmKeeps

-----------------------------------------------------------------------------
(* The messages of the daemon.                                             *)

LEMMA HeadIn ==
  ASSUME Wire, toWm # <<>>
  PROVE  /\ Head(toWm) \in Msgs
         /\ Head(toWm).kind = "quit" => slave[Head(toWm).id] = "dead"
         /\ Head(toWm).kind \in Kinds \ Told => Head(toWm).id \in Id
<1>1. Head(toWm) \in Msgs /\ Head(toWm) = toWm[1] /\ 1 \in DOMAIN toWm
  BY TailFacts DEF Wire, PipeTypes
<1>2. Head(toWm).kind \in Kinds \ Told => Head(toWm).id \in Id
  BY <1>1 DEF Msgs
<1> QED BY <1>1, <1>2 DEF Wire

LEMMA NotTold == (Kinds \ {"start"}) \cap Told = {} /\ "start" \notin Told
BY DEF Kinds, Told, Answer, ErrorAnswer, OverwriteAnswer, Question

LEMMA HelloKeeps ==
  ASSUME Inv, Hello
  PROVE  Inv'
<1>1. WmTypes /\ Book /\ Wire /\ Mishaps
  BY Parts
<1>2. Handled(entry) /\ Extended(entry)
  BY <1>1, HandledSame DEF Extended, Hello, Takes
<1>3. last \in Nat /\ Starts(messages, last, slave) /\ Starts(toDaemon, last, slave)
      /\ Apart(messages, toDaemon) /\ messages \in Seq(Msgs) /\ toDaemon \in Seq(Msgs)
  BY <1>1, LastType DEF Wire, Fresh, ConnTypes
<1>4. Starts(toDaemon \o messages, last, slave) /\ toDaemon \o messages \in Seq(Msgs)
  BY <1>3, StartsMove
<1>5. /\ toDaemon' = IF daemon = "up" THEN toDaemon \o messages ELSE toDaemon
      /\ messages' = <<>> /\ last' = last /\ slave' = slave
  BY DEF Hello, Takes, slaveVars
<1>6. Fresh'
  BY <1>3, <1>4, <1>5, StartsNone DEF Fresh
<1>7. Len(messages) \in Nat
  BY <1>3, LenProperties
<1>8. <<>> \in Seq(Msgs)
  OBVIOUS
<1>9. ConnTypes'
  <2>1. connected' = TRUE /\ spawning' = FALSE /\ req' = Len(messages) /\ daemon' = daemon
    BY DEF Hello
  <2>2. req' \in Int
    BY <1>7, <2>1
  <2>3. toDaemon' \in Seq(Msgs) /\ messages' \in Seq(Msgs)
    BY <1>3, <1>4, <1>5, <1>8
  <2>4. daemon' \in {"down", "starting", "up"}
    BY <1>1, <2>1 DEF ConnTypes, Wire
  <2> QED BY <2>1, <2>2, <2>3, <2>4 DEF ConnTypes
<1>10. WmTypes' /\ Mishaps' /\ UNCHANGED <<slaves, slaveVars>> /\ NoDialogs
       /\ toWm # <<>> /\ toWm' = Tail(toWm)
  BY <1>1 DEF Hello, Takes, WmTypes, Mishaps
<1> QED BY <1>2, <1>6, <1>9, <1>10, WmKeeps

LEMMA OkKeeps ==
  ASSUME Inv, Ok
  PROVE  Inv'
<1>1. WmTypes /\ Book /\ Wire /\ Mishaps
  BY Parts
<1>2. Handled(entry) /\ Extended(entry)
  BY <1>1, HandledSame DEF Extended, Ok, Takes
<1>3. Cardinality(views) \in Nat
  BY <1>1, RelayAssumption, FS_Subset, FS_CardinalityType DEF WmTypes
<1>4. ConnTypes'
  <2>1. req' = req - Cardinality(views) /\ UNCHANGED <<connected, spawning, messages, daemon, toDaemon>>
    BY DEF Ok, NoReply
  <2>2. req \in Int
    BY <1>1 DEF ConnTypes, Wire
  <2>3. req' \in Int
    BY <1>3, <2>1, <2>2
  <2>4. ConnTypes
    BY <1>1 DEF Wire
  <2>5. /\ connected' \in BOOLEAN /\ spawning' \in BOOLEAN /\ daemon' \in {"down", "starting", "up"}
        /\ messages' \in Seq(Msgs) /\ toDaemon' \in Seq(Msgs)
    BY <2>1, <2>4 DEF ConnTypes
  <2> QED BY <2>3, <2>5 DEF ConnTypes
<1>5. Fresh'
  BY <1>1 DEF Ok, NoReply, Takes, slaveVars, Wire, Fresh, Starts, Apart
<1>6. WmTypes' /\ Mishaps' /\ UNCHANGED <<slaves, slaveVars>> /\ NoDialogs
      /\ toWm # <<>> /\ toWm' = Tail(toWm)
  BY <1>1 DEF Ok, Takes, WmTypes, Mishaps
<1> QED BY <1>2, <1>4, <1>5, <1>6, WmKeeps

LEMMA ConnectionEndsKeeps ==
  ASSUME Inv, ConnectionEnds
  PROVE  Inv'
<1>1. WmTypes /\ Book /\ Wire /\ Mishaps
  BY Parts
<1>2. Handled(entry) /\ Extended(entry)
  BY <1>1, HandledSame DEF Extended, ConnectionEnds, Takes
<1>3. ConnTypes'
  <2>1. connected' = FALSE /\ req' = 0 /\ UNCHANGED <<spawning, messages, daemon, toDaemon>>
    BY DEF ConnectionEnds, NoReply
  <2>2. ConnTypes /\ 0 \in Int
    BY <1>1 DEF Wire
  <2> QED BY <2>1, <2>2 DEF ConnTypes
<1>4. Fresh'
  BY <1>1 DEF ConnectionEnds, NoReply, Takes, slaveVars, Wire, Fresh, Starts, Apart
<1>5. WmTypes' /\ Mishaps' /\ UNCHANGED <<slaves, slaveVars>> /\ NoDialogs
      /\ toWm # <<>> /\ toWm' = Tail(toWm)
  BY <1>1 DEF ConnectionEnds, Takes, WmTypes, Mishaps
<1> QED BY <1>2, <1>3, <1>4, <1>5, WmKeeps

\* A message about an operation, from which nothing follows but what becomes of
\* its entry and its dialog.
LEMMA TakenKeeps ==
  ASSUME Inv, NEW kinds \in SUBSET (Kinds \ {"start"}), Takes(kinds), NoReply,
         UNCHANGED connVars, undefined' \in BOOLEAN,
         dialog' \in [Id -> {"none", "overwrite"} \cup ErrorDialog],
         NEW g, Handled(g), entry' = g
  PROVE  Inv'
<1>1. WmTypes /\ Book /\ Wire /\ Mishaps
  BY Parts
<1>2. UNCHANGED slave /\ last' = last
  BY DEF Takes, slaveVars
<1>3. Extended(g)
  BY <1>2 DEF Extended
<1>4. Fresh' /\ ConnTypes'
  BY <1>1, <1>2, SendsNothing DEF NoReply
<1>5. WmTypes' /\ Mishaps' /\ UNCHANGED <<slaves, slaveVars>> /\ NoDialogs
      /\ toWm # <<>> /\ toWm' = Tail(toWm)
  BY <1>1 DEF Takes, WmTypes, Mishaps
<1> QED BY <1>3, <1>4, <1>5, WmKeeps

LEMMA TakenId ==
  ASSUME Wire, NEW kinds \in SUBSET (Kinds \ {"start"}), Takes(kinds)
  PROVE  Head(toWm).id \in Id
<1>1. toWm # <<>> /\ Head(toWm).kind \in Kinds \ {"start"}
  BY DEF Takes
<1> QED BY <1>1, HeadIn, NotTold

LEMMA ErrorArrivesKeeps ==
  ASSUME Inv, ErrorArrives
  PROVE  Inv'
<1> DEFINE i == Head(toWm).id
<1>1. WmTypes /\ Book /\ Wire /\ Mishaps
  BY Parts
<1>2. Takes({"error"}) /\ NoReply /\ UNCHANGED connVars /\ {"error"} \in SUBSET (Kinds \ {"start"})
  BY DEF ErrorArrives, Kinds, Question
<1>3. i \in Id
  BY <1>1, <1>2, TakenId
<1>4. CASE entry[i].listed /\ entry[i].view = NoView
  <2>1. undefined' = TRUE /\ entry' = entry /\ dialog' = dialog
    BY <1>4 DEF ErrorArrives
  <2> QED BY <1>1, <1>2, <2>1, HandledSame, TakenKeeps DEF WmTypes
<1>5. CASE ~(entry[i].listed /\ entry[i].view = NoView)
  <2> DEFINE g == IfListed(i, Errs(entry[i]))
  <2>1. /\ entry' = g /\ undefined' = undefined
        /\ \E k \in ErrorDialog : dialog' = [dialog EXCEPT ![i] = IF entry[i].listed THEN k ELSE @]
    BY <1>5 DEF ErrorArrives
  <2>2. dialog' \in [Id -> {"none", "overwrite"} \cup ErrorDialog] /\ undefined' \in BOOLEAN
    BY <1>1, <1>3, <2>1 DEF WmTypes
  <2> HIDE DEF i
  <2>3. Handled(g)
    BY <1>1, <1>3, ListedGood, ListedHandled
  <2> HIDE DEF g
  <2> QED BY <1>2, <2>1, <2>2, <2>3, TakenKeeps
<1> QED BY <1>4, <1>5

LEMMA OverwriteArrivesKeeps ==
  ASSUME Inv, OverwriteArrives
  PROVE  Inv'
<1> DEFINE i == Head(toWm).id
           g == IfListed(i, NeedsAttention(entry[i]))
<1>1. WmTypes /\ Book /\ Wire /\ Mishaps
  BY Parts
<1>2. Takes({"overwrite"}) /\ NoReply /\ UNCHANGED connVars
      /\ {"overwrite"} \in SUBSET (Kinds \ {"start"})
  BY DEF OverwriteArrives, Kinds, Question
<1>3. i \in Id
  BY <1>1, <1>2, TakenId
<1>4. entry' = g /\ undefined' = undefined /\ dialog' = [dialog EXCEPT ![i] = "overwrite"]
  BY DEF OverwriteArrives
<1>5. dialog' \in [Id -> {"none", "overwrite"} \cup ErrorDialog] /\ undefined' \in BOOLEAN
  BY <1>1, <1>3, <1>4 DEF WmTypes
<1> HIDE DEF i
<1>6. Handled(g)
  BY <1>1, <1>3, ListedGood, ListedHandled
<1> HIDE DEF g
<1> QED BY <1>2, <1>4, <1>5, <1>6, TakenKeeps

LEMMA ProgressArrivesKeeps ==
  ASSUME Inv, ProgressArrives
  PROVE  Inv'
<1> DEFINE i == Head(toWm).id
           e == entry[i]
           f == Changed(IF Head(toWm).kind = "complete"
                        THEN [e EXCEPT !.status = "successful", !.finished = TRUE] ELSE e)
           g == IfListed(i, f)
<1>1. WmTypes /\ Book /\ Wire /\ Mishaps
  BY Parts
<1>2. Takes({"progress", "complete"}) /\ NoReply /\ UNCHANGED connVars
      /\ {"progress", "complete"} \in SUBSET (Kinds \ {"start"})
  BY DEF ProgressArrives, Kinds
<1>3. i \in Id
  BY <1>1, <1>2, TakenId
<1>4. entry' = g /\ undefined' = undefined /\ dialog' = dialog
  BY DEF ProgressArrives
<1>5. dialog' \in [Id -> {"none", "overwrite"} \cup ErrorDialog] /\ undefined' \in BOOLEAN
  BY <1>1, <1>4 DEF WmTypes
<1> HIDE DEF i
<1>6. e.listed => Kept(f, e, Cardinality(Held(i)))
  BY <1>1, <1>3, ListedGood
<1> HIDE DEF f
<1>7. Handled(g)
  BY <1>1, <1>3, <1>6, ListedHandled
<1> HIDE DEF g
<1> QED BY <1>2, <1>4, <1>5, <1>7, TakenKeeps

LEMMA QuitArrivesKeeps ==
  ASSUME Inv, QuitArrives
  PROVE  Inv'
<1> DEFINE i == Head(toWm).id
           c == Changed([entry[i] EXCEPT !.finished = TRUE])
           g == IfListed(i, Deleted(c))
<1>1. WmTypes /\ Book /\ Wire /\ Mishaps
  BY Parts
<1>2. Takes({"quit"}) /\ NoReply /\ UNCHANGED connVars /\ {"quit"} \in SUBSET (Kinds \ {"start"})
  BY DEF QuitArrives, Kinds
<1>3. i \in Id /\ slave[i] = "dead"
  BY <1>1, <1>2, TakenId, HeadIn DEF Takes
<1>4. entry' = g /\ undefined' = undefined /\ dialog' = dialog
  BY DEF QuitArrives
<1>5. dialog' \in [Id -> {"none", "overwrite"} \cup ErrorDialog] /\ undefined' \in BOOLEAN
  BY <1>1, <1>4 DEF WmTypes
<1> HIDE DEF i
<1>6. entry[i].listed => /\ Good(Deleted(c), Cardinality(Held(i)))
                         /\ Deleted(c).view = entry[i].view
  <2>1. ASSUME entry[i].listed PROVE Kept(c, entry[i], Cardinality(Held(i)))
    BY <1>1, <1>3, <2>1, ListedGood
  <2> HIDE DEF c
  <2>2. ASSUME entry[i].listed
        PROVE  Good(Deleted(c), Cardinality(Held(i))) /\ Deleted(c).view = entry[i].view
    <3>1. Good(c, Cardinality(Held(i))) /\ c.life = "live" /\ c.listed /\ c.view = entry[i].view
      BY <1>1, <1>3, <2>1, <2>2, ListedNumbered DEF Kept
    <3>2. Cardinality(Held(i)) \in Nat
      BY <1>1, HeldFinite DEF Book
    <3> QED BY <3>1, <3>2, DeletedGood
  <2> QED BY <2>2
<1> HIDE DEF c
<1>7. Handled(g)
  BY <1>1, <1>3, <1>6, HandledIfListed
<1> HIDE DEF g
<1> QED BY <1>2, <1>4, <1>5, <1>7, TakenKeeps

-----------------------------------------------------------------------------
(* The steps that open or close rename dialogs.                            *)

LEMMA LengthBehind ==
  \A n \in Nat : \A c \in 1..n : (IF c + 1 <= n THEN n - (c + 1) + 1 ELSE 0) = n - c
OBVIOUS

LEMMA ChosenIndex ==
  ASSUME NEW s \in Seq(Rename), NEW d, \E k \in DOMAIN s : s[k] = d
  PROVE  LET c == CHOOSE k \in DOMAIN s : s[k] = d IN
           /\ c \in 1..Len(s) /\ Len(s) \in Nat /\ DOMAIN s = 1..Len(s) /\ s[c] = d
           /\ Without(s, d) = RemoveAt(s, c)
<1> DEFINE c == CHOOSE k \in DOMAIN s : s[k] = d
<1>1. DOMAIN s = 1..Len(s) /\ Len(s) \in Nat
  BY LenProperties
<1>2. c \in DOMAIN s /\ s[c] = d
  OBVIOUS
<1> QED BY <1>1, <1>2 DEF Without

\* A list with each member once does not have what is taken out, and the rest is
\* in it once.
LEMMA WithoutFacts ==
  ASSUME NEW s \in Seq(Rename), NEW d, \A j, k \in DOMAIN s : s[j] = s[k] => j = k
  PROVE  LET t == Without(s, d) IN
           /\ t \in Seq(Rename)
           /\ \A k \in DOMAIN t : t[k] # d /\ \E j \in DOMAIN s : t[k] = s[j]
           /\ \A j, k \in DOMAIN t : t[j] = t[k] => j = k
<1>1. CASE ~\E k \in DOMAIN s : s[k] = d
  BY <1>1 DEF Without
<1>2. CASE \E k \in DOMAIN s : s[k] = d
  <2> DEFINE c == CHOOSE k \in DOMAIN s : s[k] = d
             n == Len(s)
             p == SubSeq(s, 1, c - 1)
             q == SubSeq(s, c + 1, n)
             t == p \o q
  <2>1. c \in 1..n /\ n \in Nat /\ DOMAIN s = 1..n /\ s[c] = d /\ Without(s, d) = t
    BY <1>2, ChosenIndex DEF RemoveAt
  <2> HIDE DEF c
  <2>2. /\ p \in Seq(Rename) /\ Len(p) = c - 1 /\ \A k \in 1..c - 1 : p[k] = s[k]
    <3>1. p \in Seq(Rename)
      BY <2>1
    <3>2. Len(p) = c - 1
      BY <2>1
    <3>3. \A k \in 1..c - 1 : p[k] = s[k]
      BY <2>1
    <3> QED BY <3>1, <3>2, <3>3
  <2>3. /\ q \in Seq(Rename) /\ Len(q) = n - c /\ \A k \in 1..n - c : q[k] = s[k + c]
    <3>1. q \in Seq(Rename)
      BY <2>1
    <3>2. Len(q) = n - c
      <4>1. c + 1 \in Int /\ n \in Int /\ \A i \in c + 1 .. n : s[i] \in Rename
        BY <2>1
      <4>2. Len(q) = IF c + 1 <= n THEN n - (c + 1) + 1 ELSE 0
        BY <4>1, SubSeqProperties
      <4>3. (IF c + 1 <= n THEN n - (c + 1) + 1 ELSE 0) = n - c
        BY <2>1, LengthBehind
      <4> HIDE DEF q, n
      <4> QED BY <4>2, <4>3
    <3>3. \A k \in 1..n - c : q[k] = s[k + c]
      BY <2>1
    <3> QED BY <3>1, <3>2, <3>3
  <2> HIDE DEF p, q, n
  <2>4. /\ t \in Seq(Rename) /\ DOMAIN t = 1..n - 1
        /\ \A k \in 1..n - 1 : t[k] = IF k <= c - 1 THEN p[k] ELSE q[k - (c - 1)]
    <3>1. /\ t \in Seq(Rename) /\ Len(t) = Len(p) + Len(q)
          /\ \A k \in 1..Len(p) + Len(q) : t[k] = IF k <= Len(p) THEN p[k] ELSE q[k - Len(p)]
      BY <2>2, <2>3, ConcatProperties
    <3>2. Len(p) + Len(q) = n - 1
      BY <2>1, <2>2, <2>3
    <3>3. DOMAIN t = 1..Len(t)
      BY <3>1, LenProperties
    <3> HIDE DEF t
    <3> QED BY <2>2, <3>1, <3>2, <3>3
  <2> HIDE DEF t
  <2>5. \A k \in 1..n - 1 : t[k] = s[IF k < c THEN k ELSE k + 1]
    <3> TAKE k \in 1..n - 1
    <3>1. CASE k < c
      BY <2>1, <2>2, <2>4, <3>1
    <3>2. CASE ~(k < c)
      <4>1. k - (c - 1) \in 1..n - c /\ ~(k <= c - 1)
        BY <2>1, <3>2
      <4>2. t[k] = q[k - (c - 1)]
        BY <2>4, <4>1
      <4>3. q[k - (c - 1)] = s[(k - (c - 1)) + c]
        BY <2>3, <4>1
      <4>4. (k - (c - 1)) + c = k + 1
        BY <2>1
      <4> QED BY <3>2, <4>2, <4>3, <4>4
    <3> QED BY <3>1, <3>2
  <2>6. ASSUME NEW k \in DOMAIN t
        PROVE  t[k] # d /\ \E j \in DOMAIN s : t[k] = s[j]
    <3> DEFINE j == IF k < c THEN k ELSE k + 1
    <3>1. j \in 1..n /\ j # c
      BY <2>1, <2>4
    <3>2. t[k] = s[j]
      BY <2>4, <2>5
    <3> HIDE DEF j
    <3> QED BY <2>1, <3>1, <3>2
  <2>7. ASSUME NEW j \in DOMAIN t, NEW k \in DOMAIN t, t[j] = t[k]
        PROVE  j = k
    <3> DEFINE x == IF j < c THEN j ELSE j + 1
               y == IF k < c THEN k ELSE k + 1
    <3>1. x \in 1..n /\ y \in 1..n /\ (x = y => j = k)
      BY <2>1, <2>4
    <3>2. t[j] = s[x] /\ t[k] = s[y]
      BY <2>4, <2>5
    <3> HIDE DEF x, y
    <3> QED BY <2>1, <2>7, <3>1, <3>2
  <2> QED BY <2>1, <2>4, <2>6, <2>7
<1> QED BY <1>1, <1>2

\* What a step has to show that changes dialogs: Book' and the types of what is
\* neither of the books nor of the wire.
LEMMA DialogStep ==
  ASSUME Inv, Book', WmTypes', Mishaps', UNCHANGED <<toWm, slaves, slaveVars>>,
         last' \in {last, last + 1}, Fresh' /\ ConnTypes'
  PROVE  Inv'
<1>1. WmTypes /\ Wire
  BY Parts
<1>2. Wire'
  BY <1>1, WireKept
<1> QED BY <1>2, PartsNext

LEMMA OpenNumbered ==
  ASSUME WmTypes, Book, NEW d \in open
  PROVE  /\ renameOf[d] \in 1..last /\ renameOf[d] \in Id
         /\ d \in 1..Len(renameOf) /\ d \in Rename
<1>1. d \in DOMAIN renameOf
  BY DEF Book, BookTypes
<1>2. DOMAIN renameOf = 1..Len(renameOf) /\ Len(renameOf) \in Nat /\ Len(renameOf) <= MaxRenames
  BY LenProperties DEF Book, BookTypes
<1>3. renameOf[d] \in 1..last
  BY <1>1 DEF Book, Counted
<1>4. renameOf[d] \in Id
  BY <1>3, LastType DEF WmTypes, Id
<1>5. d \in Rename
  BY <1>1, <1>2, Numbers DEF Rename
<1> QED BY <1>1, <1>2, <1>3, <1>4, <1>5

\* A dialog takes a reference.
LEMMA RefGood ==
  ASSUME NEW e, NEW n \in Nat, Good(e, n), e.life = "live"
  PROVE  Good(Ref(e), n + 1) /\ Ref(e).view = e.view /\ Ref(e).listed = e.listed
         /\ Ref(e).life = "live"
<1>1. e \in Entry /\ e.refs \in Nat /\ Len(e.events) \in Nat /\ e.listed \in BOOLEAN
  BY EntryFields DEF Good
<1>2. e.refs = (IF e.listed THEN 1 ELSE 0) + Len(e.events) + n
  BY DEF Good
<1> DEFINE r == e.refs + 1
           f == Ref(e)
<1>3. r \in Nat /\ r # 0 /\ f = [e EXCEPT !.refs = r]
  BY <1>1 DEF Ref
<1> HIDE DEF f
<1>4. r = (IF e.listed THEN 1 ELSE 0) + Len(e.events) + (n + 1)
  <2> DEFINE b == IF e.listed THEN 1 ELSE 0
             l == Len(e.events)
  <2>1. b \in Nat /\ l \in Nat /\ e.refs = b + l + n
    BY <1>1, <1>2
  <2> HIDE DEF b, l
  <2>2. e.refs + 1 = b + l + (n + 1)
    BY <2>1
  <2> QED BY <2>2 DEF b, l
<1> HIDE DEF r
<1>5. /\ f \in Entry /\ f.refs = r /\ f.events = e.events /\ f.listed = e.listed
      /\ f.view = e.view /\ f.life = "live"
  BY <1>1, <1>3 DEF Entry
<1> QED BY <1>3, <1>4, <1>5 DEF Good, f

LEMMA AnswerRenameKeeps ==
  ASSUME Inv, NEW i \in Id, AnswerRename(i)
  PROVE  Inv'
<1> DEFINE d == Len(renameOf) + 1
           v == entry[i].view
           n == Cardinality(Held(i))
           f == GoneOn(Ref(entry[i]))
<1>1. WmTypes /\ Book /\ Wire /\ Mishaps
  BY Parts
<1>2. UNCHANGED slave /\ UNCHANGED <<last, views, dismissed, toWm, slaves, slaveVars, mishaps>>
  BY DEF AnswerRename, Quietly, WmStep, slaveVars
<1>3. CASE v = NoView
  <2>1. /\ undefined' = TRUE
        /\ UNCHANGED <<entry, renames, renameOf, open, connVars, daemon, toDaemon, dialog>>
    BY <1>3 DEF AnswerRename
  <2>2. Handled(entry) /\ Extended(entry) /\ NoDialogs
    BY <1>1, <1>2, <2>1, HandledSame DEF Extended, NoDialogs
  <2>3. Fresh' /\ ConnTypes'
    BY <1>1, <1>2, <2>1, SendsNothing
  <2>4. WmTypes' /\ Mishaps'
    BY <1>1, <1>2, <2>1 DEF WmTypes, Mishaps
  <2> QED BY <1>2, <2>2, <2>3, <2>4, WmKeeps
<1>4. CASE v # NoView
  <2>1. /\ d \in Rename /\ renameOf' = Append(renameOf, i) /\ open' = open \cup {d}
        /\ renames' = [renames EXCEPT ![v] = Append(@, d)]
        /\ entry' = [entry EXCEPT ![i] = f]
        /\ Sends(<<Msg("no", i)>>)
        /\ dialog' = [dialog EXCEPT ![i] = "none"]
        /\ UNCHANGED undefined /\ entry[i].listed
    BY <1>4 DEF AnswerRename
  <2>2. i \in 1..last /\ entry[i].life = "live" /\ Good(entry[i], n) /\ n \in Nat
    BY <1>1, <2>1, ListedNumbered, GoodEntry
  <2>3. Good(f, n + 1) /\ f.view = v /\ f.listed /\ f \in Entry
    <3> DEFINE r == Ref(entry[i])
    <3>1. Good(r, n + 1) /\ r.view = v /\ r.listed = entry[i].listed /\ r.life = "live"
      <4> HIDE DEF n
      <4> QED BY <2>2, RefGood
    <3> HIDE DEF r
    <3>2. n + 1 \in Nat
      BY <2>2
    <3>3. Kept(GoneOn(r), r, n + 1)
      <4> HIDE DEF n
      <4> QED BY <3>1, <3>2, HandledGood
    <3> QED BY <2>1, <3>1, <3>3 DEF Kept, Good, r
  <2>4. /\ renameOf \in Seq(Id) /\ DOMAIN renameOf = 1..Len(renameOf) /\ Len(renameOf) \in Nat
        /\ open \subseteq DOMAIN renameOf /\ entry \in [Id -> Entry]
        /\ renames \in [View -> Seq(Rename)]
        /\ v \in View /\ d \in Nat /\ d \notin open
    <3>1. renameOf \in Seq(Id) /\ entry \in [Id -> Entry] /\ open \subseteq DOMAIN renameOf
          /\ renames \in [View -> Seq(Rename)]
      BY <1>1 DEF Book, BookTypes
    <3>2. DOMAIN renameOf = 1..Len(renameOf) /\ Len(renameOf) \in Nat
      BY <3>1, LenProperties
    <3>3. v \in View
      BY <1>4, <3>1, EntryFields
    <3> QED BY <3>1, <3>2, <3>3
  <2>5. /\ renameOf' \in Seq(Id) /\ DOMAIN renameOf' = 1..d /\ Len(renameOf') = d
        /\ renameOf'[d] = i /\ \A c \in 1..Len(renameOf) : renameOf'[c] = renameOf[c]
    <3>1. /\ Append(renameOf, i) \in Seq(Id) /\ Len(Append(renameOf, i)) = Len(renameOf) + 1
          /\ Append(renameOf, i)[Len(renameOf) + 1] = i
          /\ \A c \in 1..Len(renameOf) : Append(renameOf, i)[c] = renameOf[c]
      BY <2>4, AppendProperties
    <3>2. DOMAIN Append(renameOf, i) = 1..Len(Append(renameOf, i))
      BY <3>1, LenProperties
    <3> QED BY <2>1, <3>1, <3>2
  <2>6. /\ entry' \in [Id -> Entry] /\ entry'[i] = f
        /\ \A j \in Id : j # i => entry'[j] = entry[j]
    BY <2>1, <2>3, <2>4
  <2>7. \A j : Held(j)' = IF j = i THEN Held(i) \cup {d} ELSE Held(j)
    <3>1. \A c \in open : c \in 1..Len(renameOf) /\ renameOf'[c] = renameOf[c]
      BY <2>4, <2>5
    <3> QED BY <2>1, <2>5, <3>1 DEF Held
  <2>8. Cardinality(Held(i) \cup {d}) = n + 1
    <3>1. d \notin Held(i) /\ IsFiniteSet(Held(i))
      BY <1>1, <2>4, HeldFinite DEF Held, Book
    <3> QED BY <3>1, FS_AddElement
  <2>9. BookTypes'
    <3>1. renames' \in [View -> Seq(Rename)]
      <4>1. Append(renames[v], d) \in Seq(Rename)
        BY <2>1, <2>4, AppendProperties
      <4> QED BY <2>1, <2>4, <4>1
    <3>2. d <= MaxRenames
      BY <2>1 DEF Rename
    <3>3. open' \subseteq DOMAIN renameOf'
      BY <2>1, <2>4, <2>5
    <3> QED BY <2>5, <2>6, <3>1, <3>2, <3>3 DEF BookTypes
  <2>10. Counted'
    <3>1. \A j \in 1..last : Good(entry'[j], Cardinality(Held(j)'))
      <4> TAKE j \in 1..last
      <4>1. j \in Id
        BY <1>1, LastType DEF Id, WmTypes
      <4>2. CASE j = i
        BY <2>3, <2>6, <2>7, <2>8, <4>2
      <4>3. CASE j # i
        BY <1>1, <2>6, <2>7, <4>1, <4>3, GoodEntry
      <4> QED BY <4>2, <4>3
    <3>2. \A j \in Id : j > last => entry'[j] = Unused
      <4>1. \A j \in Id : j > last => j # i
        BY <1>1, <2>2, LastType DEF Id
      <4> QED BY <1>1, <2>6, <4>1 DEF Book, Counted
    <3>3. \A c \in DOMAIN renameOf' : renameOf'[c] \in 1..last
      <4>1. \A c \in DOMAIN renameOf' : c = d \/ c \in 1..Len(renameOf)
        BY <2>4, <2>5
      <4> QED BY <1>1, <2>2, <2>4, <2>5, <4>1 DEF Book, Counted
    <3> QED BY <1>2, <3>1, <3>2, <3>3 DEF Counted
  <2>11. Dialogs'
    <3>1. \A c \in open : renameOf'[c] = renameOf[c] /\ renameOf[c] \in Id
                          /\ entry'[renameOf[c]].view = entry[renameOf[c]].view
      BY <1>1, <2>3, <2>5, <2>6, OpenNumbered
    <3>2. ASSUME NEW w \in View
          PROVE  /\ \A k \in DOMAIN renames'[w] :
                      renames'[w][k] \in open' /\ entry'[renameOf'[renames'[w][k]]].view = w
                 /\ \A j, k \in DOMAIN renames'[w] : renames'[w][j] = renames'[w][k] => j = k
      <4>1. /\ \A k \in DOMAIN renames[w] : renames[w][k] \in open
                                            /\ entry[renameOf[renames[w][k]]].view = w
            /\ \A j, k \in DOMAIN renames[w] : renames[w][j] = renames[w][k] => j = k
        BY <1>1 DEF Book, Dialogs
      <4>2. CASE w # v
        <5>1. renames'[w] = renames[w]
          BY <2>1, <2>4, <4>2
        <5>2. \A k \in DOMAIN renames[w] :
                /\ renames[w][k] \in open'
                /\ entry'[renameOf'[renames[w][k]]].view = w
          <6>1. open \subseteq open'
            BY <2>1
          <6> HIDE DEF d, v, n, f
          <6> QED BY <3>1, <4>1, <6>1
        <5> DEFINE a == renames'[w]
        <5>3. a = renames[w]
          BY <5>1
        <5> HIDE DEF a
        <5>4. /\ \A k \in DOMAIN a : a[k] \in open' /\ entry'[renameOf'[a[k]]].view = w
              /\ \A j, k \in DOMAIN a : a[j] = a[k] => j = k
          BY <4>1, <5>2, <5>3
        <5> QED BY <5>4 DEF a
      <4>3. CASE w = v
        <5> DEFINE s == renames[v]
        <5>1. renames'[w] = Append(s, d) /\ s \in Seq(Rename)
          BY <2>1, <2>4, <4>3
        <5>2. \A k \in DOMAIN Append(s, d) :
                \/ k \in DOMAIN s /\ Append(s, d)[k] = s[k]
                \/ k \notin DOMAIN s /\ k = Len(s) + 1 /\ Append(s, d)[k] = d
          BY <2>1, <5>1, AppendFacts
        <5>3. d \in open' /\ entry'[renameOf'[d]].view = w
          BY <2>1, <2>3, <2>5, <2>6, <4>3
        <5>4. \A k \in DOMAIN s : s[k] \in open /\ s[k] # d /\ s[k] \in open'
                                  /\ entry'[renameOf'[s[k]]].view = w
          BY <2>1, <2>4, <3>1, <4>1, <4>3
        <5> HIDE DEF s, d
        <5> DEFINE a == renames'[w]
        <5>5. a = Append(s, d)
          BY <5>1
        <5> HIDE DEF a
        <5>6. \A k \in DOMAIN a : a[k] \in open' /\ entry'[renameOf'[a[k]]].view = w
          BY <5>2, <5>3, <5>4, <5>5
        <5>7. \A j, k \in DOMAIN s : s[j] = s[k] => j = k
          BY <4>1, <4>3 DEF s
        <5>8. \A j, k \in DOMAIN a : a[j] = a[k] => j = k
          BY <5>2, <5>4, <5>5, <5>7
        <5> QED BY <5>6, <5>8 DEF a
      <4> QED BY <4>2, <4>3
    <3> QED BY <3>2 DEF Dialogs
  <2>12. Unlisted'
    BY <1>1, <1>2, <2>3, <2>6, LastType DEF Book, Unlisted, Id, WmTypes
  <2>13. Fresh' /\ ConnTypes'
    BY <1>1, <1>2, <2>1, AnswerKinds, SendsOne
  <2>14. WmTypes' /\ Mishaps' /\ last' \in {last, last + 1}
    BY <1>1, <1>2, <2>1 DEF WmTypes, Mishaps
  <2> QED BY <1>2, <2>9, <2>10, <2>11, <2>12, <2>13, <2>14, DialogStep DEF Book
<1> QED BY <1>3, <1>4

\* the same as Handled for a step that closes dialogs
Reckoned(g) ==
  /\ g \in [Id -> Entry]
  /\ \A j \in 1..last : /\ Good(g[j], Cardinality(Held(j)'))
                        /\ ~g[j].listed => slave[j] = "dead"
  /\ \A j \in Id : j > last => g[j] = Unused
  /\ \A w \in View :
       /\ \A k \in DOMAIN renames'[w] :
            renames'[w][k] \in open' /\ g[renameOf[renames'[w][k]]].view = w
       /\ \A j, k \in DOMAIN renames'[w] : renames'[w][j] = renames'[w][k] => j = k

LEMMA BookReckoned ==
  ASSUME WmTypes, Book, UNCHANGED <<renameOf, slave>>, open' \subseteq open,
         renames' \in [View -> Seq(Rename)],
         NEW g, Reckoned(g), Extended(g), \A i \in Id : i > last => slave[i] = "none"
  PROVE  Book' /\ last' \in 0..MaxOps /\ last' \in {last, last + 1}
<1>1. /\ renameOf \in Seq(Id) /\ Len(renameOf) <= MaxRenames /\ open' \subseteq DOMAIN renameOf
      /\ \A d \in DOMAIN renameOf : renameOf[d] \in 1..last
  BY DEF Book, BookTypes, Counted
<1>2. last \in Nat /\ last <= MaxOps /\ MaxOps \in Nat /\ Id = 1..MaxOps
  BY Numbers DEF WmTypes, Id
<1>3. ASSUME entry' = g, last' = last
      PROVE  Book'
  <2>1. BookTypes'
    BY <1>1, <1>3 DEF BookTypes, Reckoned
  <2>2. Counted'
    BY <1>1, <1>3 DEF Counted, Reckoned
  <2>3. Dialogs'
    BY <1>3 DEF Dialogs, Reckoned
  <2>4. Unlisted'
    BY <1>3 DEF Unlisted, Reckoned
  <2> QED BY <2>1, <2>2, <2>3, <2>4 DEF Book
<1>4. ASSUME NEW v \in View \cup {NoView}, last < MaxOps, last' = last + 1,
             entry' = [g EXCEPT ![last + 1] = Added(v)]
      PROVE  Book'
  <2>1. last + 1 \in Id
    BY <1>2, <1>4
  <2>2. /\ Good(Added(v), 0) /\ Added(v).listed /\ Added(v) \in Entry
    BY AddedGood DEF Good
  <2>3. /\ entry'[last + 1] = Added(v) /\ entry' \in [Id -> Entry]
        /\ \A i \in Id : i # last + 1 => entry'[i] = g[i]
    BY <1>4, <2>1, <2>2 DEF Reckoned
  <2>4. ASSUME NEW i, i = last + 1
        PROVE  Held(i)' = {}
    BY <1>1, <1>2, <2>4 DEF Held
  <2>5. BookTypes'
    BY <1>1, <2>3 DEF BookTypes
  <2>6. \A i \in 1..last' : i = last + 1 \/ (i \in 1..last /\ i \in Id /\ i # last + 1)
    BY <1>2, <1>4
  <2>7. \A i \in 1..last : i \in Id /\ entry'[i] = g[i]
    BY <1>2, <2>3
  <2>8. Counted'
    <3>1. ASSUME NEW i, i = last + 1
          PROVE  Good(entry'[i], Cardinality(Held(i)'))
      BY <2>2, <2>3, <2>4, <3>1, FS_EmptySet
    <3>2. \A i \in 1..last : Good(entry'[i], Cardinality(Held(i)'))
      BY <2>7 DEF Reckoned
    <3>3. \A i \in 1..last' : Good(entry'[i], Cardinality(Held(i)'))
      BY <2>6, <3>1, <3>2
    <3>4. \A i \in Id : i > last' => entry'[i] = Unused
      BY <1>2, <1>4, <2>3 DEF Reckoned
    <3>5. \A d \in DOMAIN renameOf : renameOf[d] \in 1..last'
      BY <1>1, <1>2, <1>4
    <3> QED BY <3>3, <3>4, <3>5 DEF Counted
  <2>9. Dialogs'
    <3>1. ASSUME NEW w \in View, NEW k \in DOMAIN renames'[w]
          PROVE  entry'[renameOf[renames'[w][k]]].view = w
      <4>1. renames'[w][k] \in open' /\ g[renameOf[renames'[w][k]]].view = w
        BY DEF Reckoned
      <4>2. renameOf[renames'[w][k]] \in 1..last
        BY <1>1, <4>1
      <4> QED BY <2>7, <4>1, <4>2
    <3> QED BY <3>1 DEF Dialogs, Reckoned
  <2>10. Unlisted'
    BY <2>2, <2>3, <2>6 DEF Unlisted, Reckoned
  <2> QED BY <2>5, <2>8, <2>9, <2>10 DEF Book
<1>5. last' \in {last, last + 1} /\ last' \in 0..MaxOps
  BY <1>2 DEF Extended
<1> QED BY <1>3, <1>4, <1>5 DEF Extended

LEMMA OneLess ==
  \A x, m \in Nat : m # 0 => m - 1 \in Nat /\ x + m = x + (m - 1) + 1 /\ x + m # 0
OBVIOUS

LEMMA RenameEndsKeeps ==
  ASSUME Inv, NEW d \in Rename, RenameEnds(d)
  PROVE  Inv'
<1> DEFINE i == renameOf[d]
           v == entry[i].view
           u == Unref(entry[i])
           g == [entry EXCEPT ![i] = u]
           n == Cardinality(Held(i))
           h == Held(i) \ {d}
           m == Cardinality(h)
<1>1. WmTypes /\ Book /\ Wire /\ Mishaps
  BY Parts
<1>2. /\ UNCHANGED <<views, dialog, renameOf, dismissed, toWm, slaves, slaveVars, mishaps, slave>>
      /\ d \in open
  BY DEF RenameEnds, Quietly, WmStep, slaveVars
<1>3. CASE v = NoView
  <2>1. undefined' = TRUE /\ UNCHANGED <<last, entry, renames, open, connVars, daemon, toDaemon>>
    BY <1>3 DEF RenameEnds
  <2>2. Handled(entry) /\ Extended(entry) /\ NoDialogs
    BY <1>1, <1>2, <2>1, HandledSame DEF Extended, NoDialogs
  <2>3. Fresh' /\ ConnTypes'
    BY <1>1, <1>2, <2>1, SendsNothing
  <2>4. WmTypes' /\ Mishaps'
    BY <1>1, <1>2, <2>1 DEF WmTypes, Mishaps
  <2> QED BY <1>2, <2>2, <2>3, <2>4, WmKeeps
<1>4. CASE v # NoView
  <2>1. /\ renames' = [renames EXCEPT ![v] = Without(@, d)] /\ open' = open \ {d}
        /\ UNCHANGED undefined
        /\ \/ entry' = g /\ UNCHANGED <<last, connVars, daemon, toDaemon>>
           \/ /\ last < MaxOps /\ last' = last + 1
              /\ entry' = [g EXCEPT ![last + 1] = Added(v)]
              /\ Sends(<<Msg("start", last + 1)>>)
    BY <1>4 DEF RenameEnds
  <2>2. i \in 1..last /\ i \in Id
    BY <1>1, <1>2, OpenNumbered
  <2>3. Good(entry[i], n) /\ n \in Nat
    BY <1>1, <2>2, GoodEntry
  <2>4. m = n - 1 /\ m \in Nat /\ n # 0
    <3>1. IsFiniteSet(Held(i)) /\ d \in Held(i)
      BY <1>1, <1>2, HeldFinite DEF Book, Held
    <3>2. IsFiniteSet(h) /\ Cardinality(h) = Cardinality(Held(i)) - 1
      BY <3>1, FS_RemoveElement
    <3>3. m \in Nat
      BY <3>2, FS_CardinalityType
    <3>4. n # 0
      BY <3>1, FS_EmptySet
    <3> QED BY <3>2, <3>3, <3>4
  <2>5. Good(u, m) /\ u.view = v /\ u.listed = entry[i].listed
    <3> DEFINE e == entry[i]
               b == IF e.listed THEN 1 ELSE 0
               x == b + Len(e.events)
    <3>1. e \in Entry /\ e.refs \in Nat /\ Len(e.events) \in Nat
      BY <2>3, EntryFields DEF Good
    <3>2. e.refs = x + n /\ x \in Nat /\ e.life = IF e.refs = 0 THEN "freed" ELSE "live"
      <4>1. x \in Nat
        <5>1. b \in Nat
          OBVIOUS
        <5> HIDE DEF b, e
        <5> QED BY <3>1, <5>1
      <4> HIDE DEF e, n
      <4> QED BY <2>3, <4>1 DEF Good, e
    <3>3. e.refs = x + m + 1 /\ e.refs # 0
      <4> HIDE DEF x, e, n, m
      <4> QED BY <2>3, <2>4, <3>2, OneLess
    <3>4. e.refs = b + Len(e.events) + m + 1
      BY <3>3
    <3>5. e.life = "live" /\ e.refs \in Nat \ {0}
      BY <3>1, <3>2, <3>3
    <3> HIDE DEF e, m
    <3>6. e.refs = (IF e.listed THEN 1 ELSE 0) + Len(e.events) + m + 1
      BY <3>4
    <3>7. m \in Nat
      BY <2>4
    <3>8. Good(Unref(e), m) /\ Unref(e).view = e.view /\ Unref(e).listed = e.listed
      BY <3>1, <3>5, <3>6, <3>7, UnrefGood
    <3> QED BY <3>8 DEF e
  <2>6. /\ g \in [Id -> Entry] /\ g[i] = u
        /\ \A j \in Id : j # i => g[j] = entry[j]
    BY <1>1, <2>2, <2>5 DEF Book, BookTypes, Good
  <2>7. /\ renames \in [View -> Seq(Rename)] /\ v \in View
        /\ renames' \in [View -> Seq(Rename)]
        /\ renames'[v] = Without(renames[v], d) /\ renames[v] \in Seq(Rename)
        /\ \A w \in View : w # v => renames'[w] = renames[w]
    <3>1. renames \in [View -> Seq(Rename)] /\ entry[i] \in Entry
      BY <1>1, <2>2 DEF Book, BookTypes
    <3>2. v \in View
      BY <1>4, <3>1, EntryFields
    <3>3. \A j, k \in DOMAIN renames[v] : renames[v][j] = renames[v][k] => j = k
      BY <1>1, <3>2 DEF Book, Dialogs
    <3>4. Without(renames[v], d) \in Seq(Rename)
      BY <3>1, <3>2, <3>3, WithoutFacts
    <3> HIDE DEF v
    <3> QED BY <2>1, <3>1, <3>2, <3>4
  <2>8. Reckoned(g)
    <3>1. \A j : Held(j)' = IF j = i THEN h ELSE Held(j)
      BY <1>2, <2>1 DEF Held
    <3>2. ASSUME NEW j \in 1..last
          PROVE  Good(g[j], Cardinality(Held(j)')) /\ (~g[j].listed => slave[j] = "dead")
      <4>1. j \in Id /\ (~entry[j].listed => slave[j] = "dead")
        BY <1>1, LastType DEF Id, WmTypes, Book, Unlisted
      <4>2. CASE j = i
        BY <2>5, <2>6, <3>1, <4>1, <4>2
      <4>3. CASE j # i
        BY <1>1, <2>6, <3>1, <4>1, <4>3, GoodEntry
      <4> QED BY <4>2, <4>3
    <3>3. \A j \in Id : j > last => g[j] = Unused
      <4>1. \A j \in Id : j > last => j # i
        BY <1>1, <2>2, LastType DEF Id
      <4> QED BY <1>1, <2>6, <4>1 DEF Book, Counted
    <3>4. \A c \in open : renameOf[c] \in Id /\ g[renameOf[c]].view = entry[renameOf[c]].view
      BY <1>1, <2>5, <2>6, OpenNumbered
    <3>5. ASSUME NEW w \in View
          PROVE  LET a == renames'[w] IN
                 /\ \A k \in DOMAIN a : a[k] \in open' /\ g[renameOf[a[k]]].view = w
                 /\ \A j, k \in DOMAIN a : a[j] = a[k] => j = k
      <4> DEFINE a == renames'[w]
                 s == renames[w]
      <4>1. /\ \A k \in DOMAIN s : s[k] \in open /\ entry[renameOf[s[k]]].view = w
            /\ \A j, k \in DOMAIN s : s[j] = s[k] => j = k
        BY <1>1 DEF Book, Dialogs
      <4>2. /\ \A k \in DOMAIN a : a[k] # d /\ \E j \in DOMAIN s : a[k] = s[j]
            /\ \A j, k \in DOMAIN a : a[j] = a[k] => j = k
        <5>1. CASE w = v
          <6>1. a = Without(s, d) /\ s \in Seq(Rename)
            BY <2>7, <5>1
          <6> HIDE DEF a, s
          <6> QED BY <4>1, <6>1, WithoutFacts
        <5>2. CASE w # v
          <6>1. a = s
            BY <2>7, <5>2
          <6>2. \A k \in DOMAIN s : s[k] # d
            BY <4>1, <5>2
          <6> HIDE DEF a, s
          <6> QED BY <4>1, <6>1, <6>2
        <5> QED BY <5>1, <5>2
      <4> HIDE DEF a, s, g, i, v
      <4>3. \A k \in DOMAIN a : a[k] \in open'
        BY <2>1, <4>1, <4>2
      <4>4. \A k \in DOMAIN a : g[renameOf[a[k]]].view = w
        BY <3>4, <4>1, <4>2
      <4> QED BY <4>2, <4>3, <4>4 DEF a
    <3> HIDE DEF g
    <3> QED BY <2>6, <3>2, <3>3, <3>5 DEF Reckoned
  <2>9. Extended(g)
    <3> HIDE DEF g, v
    <3> QED BY <2>1, <2>7 DEF Extended
  <2>10. Book' /\ last' \in 0..MaxOps /\ last' \in {last, last + 1}
    <3>1. open' \subseteq open /\ UNCHANGED <<renameOf, slave>>
          /\ \A j \in Id : j > last => slave[j] = "none"
      BY <1>1, <1>2, <2>1 DEF Wire
    <3> HIDE DEF g
    <3> QED BY <1>1, <2>7, <2>8, <2>9, <3>1, BookReckoned
  <2>11. Fresh' /\ ConnTypes'
    BY <1>1, <1>2, <2>1, SendsStart, SendsNothing
  <2>12. WmTypes' /\ Mishaps'
    BY <1>1, <1>2, <2>1, <2>10 DEF WmTypes, Mishaps
  <2> QED BY <1>2, <2>10, <2>11, <2>12, DialogStep
<1> QED BY <1>3, <1>4

LEMMA Minus ==
  \A x, n, c \in Nat : c <= n =>
    /\ n - c \in Nat /\ x + n - c \in Nat /\ x + n - c = x + (n - c)
    /\ (x + n - c = 0 <=> x + n = c) /\ (~(c > 0) => c = 0)
OBVIOUS

\* An entry loses the references of c of its n dialogs.
Lost(e, c) ==
  [e EXCEPT !.refs = e.refs - c,
            !.life = IF c > 0 /\ e.refs = c THEN "freed" ELSE e.life]

LEMMA LostGood ==
  ASSUME NEW e, NEW n \in Nat, NEW c \in Nat, c <= n, Good(e, n)
  PROVE  /\ Good(Lost(e, c), n - c) /\ n - c \in Nat
         /\ Lost(e, c).view = e.view /\ Lost(e, c).listed = e.listed
<1> DEFINE f == Lost(e, c)
           b == IF e.listed THEN 1 ELSE 0
           l == Len(e.events)
           x == b + l
           r == e.refs - c
           y == IF c > 0 /\ e.refs = c THEN "freed" ELSE e.life
<1>1. e \in Entry /\ e.refs \in Nat /\ l \in Nat
  BY EntryFields DEF Good
<1>2. b \in Nat
  OBVIOUS
<1>3. e.refs = b + l + n /\ e.life = IF e.refs = 0 THEN "freed" ELSE "live"
  BY DEF Good
<1> HIDE DEF b, l
<1>4. e.refs = x + n /\ x \in Nat
  BY <1>1, <1>2, <1>3
<1> HIDE DEF x
<1>5. n - c \in Nat /\ r \in Nat /\ r = x + (n - c) /\ (r = 0 <=> e.refs = c) /\ (~(c > 0) => c = 0)
  BY <1>4, Minus
<1>6. y = IF r = 0 THEN "freed" ELSE "live"
  <2>1. CASE c > 0 /\ e.refs = c
    BY <1>5, <2>1
  <2>2. CASE ~(c > 0)
    <3>1. c = 0 /\ r = e.refs
      BY <1>1, <1>5, <2>2
    <3> QED BY <1>3, <2>2, <3>1
  <2>3. CASE e.refs # c /\ c > 0
    <3>1. r # 0
      BY <1>5, <2>3
    <3>2. e.refs # 0
      BY <1>4, <2>3
    <3> QED BY <1>3, <2>3, <3>1, <3>2
  <2> QED BY <2>1, <2>2, <2>3
<1>7. f = [e EXCEPT !.refs = r, !.life = y]
  BY DEF Lost
<1>8. y \in {"none", "live", "freed"}
  BY <1>6
<1> HIDE DEF f, r, y
<1>9. /\ f \in Entry /\ f.refs = r /\ f.life = y /\ f.events = e.events
      /\ f.view = e.view /\ f.listed = e.listed
  BY <1>1, <1>5, <1>7, <1>8 DEF Entry
<1>10. f.refs = (IF f.listed THEN 1 ELSE 0) + Len(f.events) + (n - c)
  BY <1>5, <1>9 DEF x, b, l
<1> QED BY <1>5, <1>6, <1>9, <1>10 DEF Good, f

LEMMA ViewGood ==
  ASSUME NEW e, NEW n \in Nat, Good(e, n), e.life = "live", NEW f,
         f = Changed([e EXCEPT !.view = NoView])
  PROVE  Good(f, n) /\ f.listed = e.listed
<1> DEFINE m == [e EXCEPT !.view = NoView]
<1>1. Good(m, n) /\ m.life = "live" /\ m.listed = e.listed
  BY DEF Good, Entry
<1> HIDE DEF m
<1>2. Kept(Changed(m), m, n)
  BY <1>1, ChangedGood
<1> QED BY <1>1, <1>2 DEF Kept, m

LEMMA UnusedEntry == Unused \in Entry /\ Unused.refs = 0 /\ Unused.life = "none"
<1>1. <<>> \in Seq(Kind)
  OBVIOUS
<1> QED BY <1>1 DEF Unused, Entry, Kind

LEMMA SameEntry ==
  ASSUME NEW e \in Entry, e.refs = 0, e.life = "none"
  PROVE  [e EXCEPT !.refs = 0, !.life = "none"] = e
BY DEF Entry

LEMMA CloseViewKeeps ==
  ASSUME Inv, NEW v \in View, CloseView(v)
  PROVE  Inv'
<1> DEFINE C == Closed(renames[v])
           Of(i) == {d \in C : renameOf[d] = i}
           n(i) == Cardinality(Of(i))
           lost(i) == [entry[i] EXCEPT !.refs = entry[i].refs - n(i),
                         !.life = IF n(i) > 0 /\ entry[i].refs = n(i) THEN "freed" ELSE entry[i].life]
           gone(i) == IF lost(i).view = v /\ lost(i).life = "live"
                      THEN Changed([lost(i) EXCEPT !.view = NoView]) ELSE lost(i)
           g == [i \in Id |-> gone(i)]
<1>1. WmTypes /\ Book /\ Wire /\ Mishaps
  BY Parts
<1>2. /\ entry' = g /\ renames' = [renames EXCEPT ![v] = <<>>] /\ open' = open \ C
      /\ views' = views \ {v}
  BY DEF CloseView
<1>3. /\ UNCHANGED <<undefined, last, dialog, renameOf, dismissed, connVars, daemon, toDaemon>>
      /\ UNCHANGED <<toWm, slaves, slaveVars, slave>> /\ Mishap
  BY DEF CloseView, WmStep, slaveVars
<1>4. /\ \A w \in View : \A k \in DOMAIN renames[w] :
           renames[w][k] \in open /\ entry[renameOf[renames[w][k]]].view = w
      /\ \A w \in View : \A j, k \in DOMAIN renames[w] : renames[w][j] = renames[w][k] => j = k
      /\ renames \in [View -> Seq(Rename)] /\ entry \in [Id -> Entry]
      /\ \A i \in Id : i > last => entry[i] = Unused
  BY <1>1 DEF Book, Dialogs, BookTypes, Counted
<1>5. C \subseteq open /\ \A d \in C : entry[renameOf[d]].view = v
  BY <1>4 DEF Closed
<1>6. ASSUME NEW i
      PROVE  /\ Held(i)' = Held(i) \ Of(i) /\ IsFiniteSet(Held(i)) /\ n(i) \in Nat
             /\ Cardinality(Held(i)) \in Nat /\ n(i) <= Cardinality(Held(i))
             /\ Cardinality(Held(i)') = Cardinality(Held(i)) - n(i)
  <2> HIDE DEF C
  <2>1. Held(i)' = Held(i) \ Of(i) /\ Of(i) \subseteq Held(i)
    BY <1>2, <1>3, <1>5 DEF Held
  <2>2. IsFiniteSet(Held(i)) /\ Cardinality(Held(i)) \in Nat
    BY <1>1, HeldFinite DEF Book
  <2>3. Of(i) \in SUBSET Held(i) /\ Held(i) \cap Of(i) = Of(i)
    BY <2>1
  <2> HIDE DEF Of
  <2>4. IsFiniteSet(Of(i)) /\ n(i) <= Cardinality(Held(i))
    BY <2>2, <2>3, FS_Subset
  <2>5. n(i) \in Nat
    BY <2>4, FS_CardinalityType
  <2>6. Cardinality(Held(i) \ Of(i)) = Cardinality(Held(i)) - n(i)
    BY <2>2, <2>3, FS_Difference
  <2> QED BY <2>1, <2>2, <2>4, <2>5, <2>6
<1>7. ASSUME NEW i \in Id
      PROVE  g[i] = gone(i)
  OBVIOUS
<1>8. ASSUME NEW i \in 1..last
      PROVE  /\ Good(gone(i), Cardinality(Held(i)')) /\ gone(i).listed = entry[i].listed
             /\ entry[i].view # v => gone(i).view = entry[i].view
  <2> DEFINE e == entry[i]
             f == lost(i)
             m == Cardinality(Held(i))
             c == n(i)
  <2>1. Good(e, m) /\ m \in Nat /\ c \in Nat /\ c <= m /\ Cardinality(Held(i)') = m - c
    BY <1>1, <1>6, GoodEntry
  <2>2. f = Lost(e, c)
    BY DEF Lost
  <2> HIDE DEF e, f, m, c
  <2>3. Good(f, m - c) /\ m - c \in Nat /\ f.view = e.view /\ f.listed = e.listed
    BY <2>1, <2>2, LostGood
  <2> DEFINE h == Changed([f EXCEPT !.view = NoView])
             p == m - c
  <2>4. f.life = "live" => Good(h, m - c) /\ h.listed = f.listed
    <3>1. Good(f, p) /\ p \in Nat
      BY <2>3
    <3> HIDE DEF h, p
    <3>2. ASSUME f.life = "live" PROVE Good(h, p) /\ h.listed = f.listed
      BY <3>1, <3>2, ViewGood DEF h
    <3> QED BY <3>2 DEF p
  <2>5. gone(i) = IF f.view = v /\ f.life = "live" THEN h ELSE f
    BY DEF f
  <2> HIDE DEF gone, h, p
  <2>6. /\ Good(gone(i), m - c) /\ gone(i).listed = e.listed
        /\ e.view # v => gone(i).view = e.view
    BY <2>3, <2>4, <2>5
  <2> QED BY <2>1, <2>6 DEF e
<1>9. ASSUME NEW i \in Id, i > last
      PROVE  gone(i) = Unused
  <2>1. entry[i] = Unused
    BY <1>4, <1>9
  <2>2. Held(i) = {}
    BY <1>1, <1>9, OpenNumbered, LastType DEF Held
  <2>3. n(i) = 0
    <3>1. n(i) <= 0 /\ n(i) \in Nat
      BY <1>6, <2>2, FS_EmptySet
    <3> HIDE DEF n
    <3> QED BY <3>1
  <2> HIDE DEF n
  <2>4. lost(i) = Unused
    <3>1. /\ Unused.refs = 0 /\ Unused.life = "none"
          /\ [Unused EXCEPT !.refs = 0, !.life = "none"] = Unused
      BY UnusedEntry, SameEntry
    <3>2. lost(i) = [Unused EXCEPT !.refs = 0, !.life = "none"]
      BY <2>1, <2>3, <3>1
    <3> QED BY <3>1, <3>2
  <2>5. Unused.view # v
    BY RelayAssumption DEF Unused
  <2> HIDE DEF lost
  <2> QED BY <2>4, <2>5
<1> HIDE DEF gone
<1>10. \A i \in 1..last : i \in Id
  BY <1>1, LastType DEF Id, WmTypes
<1>11. \A i \in Id : i \in 1..last \/ i > last
  BY <1>1, LastType DEF Id
<1>12. g \in [Id -> Entry]
  <2>1. \A i \in Id : gone(i) \in Entry
    BY <1>8, <1>9, <1>11, UnusedEntry DEF Good
  <2> QED BY <2>1
<1>13. Reckoned(g)
  <2>1. ASSUME NEW i \in 1..last
        PROVE  Good(g[i], Cardinality(Held(i)')) /\ (~g[i].listed => slave[i] = "dead")
    <3>1. g[i] = gone(i)
      BY <1>10
    <3>2. ~entry[i].listed => slave[i] = "dead"
      BY <1>1 DEF Book, Unlisted
    <3> HIDE DEF g
    <3> QED BY <1>8, <3>1, <3>2
  <2>2. \A i \in Id : i > last => g[i] = Unused
    BY <1>9
  <2>3. ASSUME NEW w \in View
        PROVE  LET a == renames'[w] IN
               /\ \A k \in DOMAIN a : a[k] \in open' /\ g[renameOf[a[k]]].view = w
               /\ \A j, k \in DOMAIN a : a[j] = a[k] => j = k
    <3>1. CASE w = v
      <4>1. renames'[w] = <<>>
        BY <1>2, <1>4, <3>1
      <4>2. DOMAIN renames'[w] = {}
        BY <4>1
      <4> QED BY <4>2
    <3>2. CASE w # v
      <4> DEFINE s == renames[w]
      <4>1. renames'[w] = s
        BY <1>2, <1>4, <3>2
      <4>2. \A k \in DOMAIN s : s[k] \in open' /\ entry[renameOf[s[k]]].view = w
                                /\ renameOf[s[k]] \in 1..last
        <5>1. \A k \in DOMAIN s : s[k] \in open /\ entry[renameOf[s[k]]].view = w
          BY <1>4
        <5> HIDE DEF s, C, g
        <5>2. \A k \in DOMAIN s : s[k] \notin C
          BY <1>5, <3>2, <5>1
        <5> QED BY <1>1, <1>2, <5>1, <5>2, OpenNumbered
      <4>3. \A i \in 1..last : g[i] = gone(i)
        BY <1>10
      <4>4. \A j, k \in DOMAIN s : s[j] = s[k] => j = k
        BY <1>4
      <4> HIDE DEF s, g
      <4>5. \A k \in DOMAIN s : g[renameOf[s[k]]].view = w
        BY <1>8, <3>2, <4>2, <4>3
      <4> QED BY <4>1, <4>2, <4>4, <4>5
    <3> QED BY <3>1, <3>2
  <2> HIDE DEF g
  <2> QED BY <1>12, <2>1, <2>2, <2>3 DEF Reckoned
<1>14. /\ renames' \in [View -> Seq(Rename)] /\ open' \subseteq open
       /\ Extended(g) /\ \A i \in Id : i > last => slave[i] = "none"
  <2>1. <<>> \in Seq(Rename)
    OBVIOUS
  <2> HIDE DEF g
  <2> QED BY <1>1, <1>2, <1>3, <1>4, <2>1 DEF Extended, Wire
<1> HIDE DEF g
<1>15. Book' /\ last' \in {last, last + 1}
  BY <1>1, <1>3, <1>13, <1>14, BookReckoned
<1>16. Fresh' /\ ConnTypes'
  BY <1>1, <1>3, SendsNothing
<1>17. WmTypes' /\ Mishaps'
  BY <1>1, <1>2, <1>3, Numbers DEF WmTypes, Mishaps, Mishap
<1> QED BY <1>3, <1>15, <1>16, <1>17, DialogStep

-----------------------------------------------------------------------------
(* The steps of the daemon and of the slaves.                              *)

\* what such a step may do to the slaves
Lawful ==
  \A i \in Id : /\ slave[i] = "dead" => slave'[i] = "dead"
                /\ i > last => slave'[i] = "none"

\* and to what the window manager will read
Written ==
  \/ toWm' = toWm
  \/ toWm' = <<Msg("hello", 0)>>
  \/ \E m \in Msgs : /\ toWm' = Append(toWm, m)
                     /\ m.kind = "quit" => m.id \in Id /\ slave'[m.id] = "dead"

LEMMA HelperMsgs ==
  /\ Msg("hello", 0) \in Msgs /\ Msg("hello", 0).kind = "hello"
  /\ Msg("ok", 0) \in Msgs /\ Msg("ok", 0).kind = "ok"
  /\ Msg("eof", 0) \in Msgs /\ Msg("eof", 0).kind = "eof"
BY DEF Msg, Msgs, Told

LEMMA WrittenQuits ==
  ASSUME Wire, Lawful, Written
  PROVE  /\ toWm' \in Seq(Msgs)
         /\ \A k \in DOMAIN toWm' : toWm'[k].kind = "quit" => slave'[toWm'[k].id] = "dead"
<1>1. /\ toWm \in Seq(Msgs)
      /\ \A k \in DOMAIN toWm : toWm[k].kind = "quit" => slave[toWm[k].id] = "dead"
  BY DEF Wire, PipeTypes
<1>2. \A k \in DOMAIN toWm : toWm[k].kind = "quit" => slave'[toWm[k].id] = "dead"
  <2> SUFFICES ASSUME NEW k \in DOMAIN toWm, toWm[k].kind = "quit"
               PROVE  slave'[toWm[k].id] = "dead"
    OBVIOUS
  <2>1. toWm[k] \in Msgs
    BY <1>1
  <2>2. toWm[k].id \in Id
    BY <2>1 DEF Msgs, Told
  <2> QED BY <1>1, <2>2 DEF Lawful
<1>3. CASE toWm' = toWm
  BY <1>1, <1>2, <1>3
<1>4. CASE toWm' = <<Msg("hello", 0)>>
  <2> DEFINE h == Msg("hello", 0)
  <2>1. h \in Msgs /\ h.kind = "hello"
    BY HelperMsgs
  <2> HIDE DEF h
  <2>2. <<h>> \in Seq(Msgs) /\ \A k \in DOMAIN <<h>> : <<h>>[k] = h
    BY <2>1
  <2>3. toWm' = <<h>>
    BY <1>4 DEF h
  <2> QED BY <2>1, <2>2, <2>3
<1>5. ASSUME NEW m \in Msgs, toWm' = Append(toWm, m),
             m.kind = "quit" => m.id \in Id /\ slave'[m.id] = "dead"
      PROVE  /\ toWm' \in Seq(Msgs)
             /\ \A k \in DOMAIN toWm' : toWm'[k].kind = "quit" => slave'[toWm'[k].id] = "dead"
  <2> DEFINE a == Append(toWm, m)
  <2>1. /\ a \in Seq(Msgs)
        /\ \A k \in DOMAIN a : (k \in DOMAIN toWm /\ a[k] = toWm[k]) \/ a[k] = m
    BY <1>1, AppendFacts
  <2> HIDE DEF a
  <2>2. \A k \in DOMAIN a : a[k].kind = "quit" => slave'[a[k].id] = "dead"
    BY <1>2, <1>5, <2>1
  <2> QED BY <1>5, <2>1, <2>2 DEF a
<1> QED BY <1>3, <1>4, <1>5 DEF Written

\* What a step of the daemon or of a slave has to show.
LEMMA HelperKeeps ==
  ASSUME Inv, HelperStep, Lawful, Written, Fresh', Mishaps',
         daemon' \in {"down", "starting", "up"}, toDaemon' \in Seq(Msgs),
         slaves' \in Seq([id : Id, freed : BOOLEAN]),
         slave' \in [Id -> {"none", "running", "ended", "dead", "lost"} \cup Question],
         inbox' \in [Id -> Seq(Msgs)], outbox' \in [Id -> Seq(Msgs)],
         \A i \in Id : \A k \in DOMAIN outbox'[i] : outbox'[i][k].kind # "quit",
         reports' \in [Id -> 0..MaxReports], aborting' \subseteq Id
  PROVE  Inv'
<1>1. WmTypes /\ Book /\ Wire
  BY Parts
<1>2. /\ UNCHANGED <<undefined, views, last, entry, dialog, renames, renameOf, open, dismissed>>
      /\ UNCHANGED <<connected, spawning, messages, req>>
  BY DEF HelperStep, wmVars, connVars
<1>3. WmTypes'
  BY <1>1, <1>2 DEF WmTypes
<1>4. Book'
  <2>1. BookTypes'
    BY <1>1, <1>2 DEF Book, BookTypes
  <2>2. \A i : Held(i)' = Held(i)
    BY <1>2 DEF Held
  <2>3. Counted'
    BY <1>1, <1>2, <2>2 DEF Book, Counted
  <2>4. Dialogs'
    BY <1>1, <1>2 DEF Book, Dialogs
  <2>5. \A i \in 1..last : i \in Id
    BY <1>1, LastType DEF Id, WmTypes
  <2>6. Unlisted'
    BY <1>1, <1>2, <2>5 DEF Book, Unlisted, Lawful
  <2> QED BY <2>1, <2>3, <2>4, <2>6 DEF Book
<1>5. /\ toWm' \in Seq(Msgs)
      /\ \A k \in DOMAIN toWm' : toWm'[k].kind = "quit" => slave'[toWm'[k].id] = "dead"
  BY <1>1, WrittenQuits
<1>6. ConnTypes'
  BY <1>1, <1>2 DEF Wire, ConnTypes
<1>7. PipeTypes'
  BY <1>5 DEF PipeTypes
<1>8. \A i \in Id : i > last' => slave'[i] = "none"
  BY <1>2 DEF Lawful
<1>9. Wire'
  BY <1>5, <1>6, <1>7, <1>8 DEF Wire
<1> QED BY <1>3, <1>4, <1>9, PartsNext

\* What is queued stays fresh if a slave that was not started is not started.
LEMMA FreshStays ==
  ASSUME WmTypes, Wire, UNCHANGED <<messages, last>>, toDaemon' = toDaemon \/ toDaemon' = <<>>,
         \A i \in Id : slave[i] = "none" => slave'[i] = "none"
  PROVE  Fresh' /\ toDaemon' \in Seq(Msgs)
<1>1. \A i \in 1..last : i \in Id
  BY LastType DEF Id, WmTypes
<1>2. last \in Nat
  BY LastType
<1>3. Starts(messages, last, slave') /\ Starts(toDaemon, last, slave')
  BY <1>1, <1>2, StartsStay DEF Wire, Fresh
<1>4. toDaemon' \in Seq(Msgs)
  <2>1. <<>> \in Seq(Msgs)
    OBVIOUS
  <2> QED BY <2>1 DEF Wire, ConnTypes
<1>5. Starts(toDaemon', last, slave') /\ Apart(messages, toDaemon')
  BY <1>2, <1>3, StartsNone DEF Wire, Fresh
<1> QED BY <1>3, <1>4, <1>5 DEF Fresh

\* the pipes have their types
LEMMA Pipes ==
  ASSUME Wire
  PROVE  /\ daemon \in {"down", "starting", "up"}
         /\ slaves \in Seq([id : Id, freed : BOOLEAN])
         /\ slave \in [Id -> {"none", "running", "ended", "dead", "lost"} \cup Question]
         /\ inbox \in [Id -> Seq(Msgs)] /\ outbox \in [Id -> Seq(Msgs)]
         /\ toDaemon \in Seq(Msgs) /\ messages \in Seq(Msgs) /\ toWm \in Seq(Msgs)
         /\ \A i \in Id : \A k \in DOMAIN outbox[i] : outbox[i][k].kind # "quit"
         /\ reports \in [Id -> 0..MaxReports] /\ aborting \subseteq Id
         /\ \A i \in Id : i > last => slave[i] = "none"
BY DEF Wire, PipeTypes, ConnTypes

LEMMA DaemonStartsKeeps ==
  ASSUME Inv, DaemonStarts
  PROVE  Inv'
<1>1. WmTypes /\ Wire /\ Mishaps
  BY Parts
<1>2. /\ daemon' = "up" /\ toWm' = <<Msg("hello", 0)>> /\ HelperStep
      /\ UNCHANGED <<toDaemon, slaves, slave, aborting, inbox, outbox, reports, mishaps>>
      /\ UNCHANGED <<last, messages>>
  BY DEF DaemonStarts, slaveVars, HelperStep, wmVars, connVars
<1>3. Lawful /\ Written
  BY <1>1, <1>2, Pipes DEF Lawful, Written
<1>4. Fresh'
  BY <1>1, <1>2, FreshStays
<1> QED BY <1>1, <1>2, <1>3, <1>4, Pipes, HelperKeeps DEF Mishaps

\* The daemon is gone.
LEMMA DaemonEndsKeeps ==
  ASSUME Inv, HelperStep, DaemonEnds, Mishaps'
  PROVE  Inv'
<1>1. WmTypes /\ Wire
  BY Parts
<1>2. UNCHANGED <<last, messages>>
  BY DEF HelperStep, wmVars, connVars
<1>3. slave' = [i \in Id |-> IF slave[i] \in {"none", "dead"} THEN slave[i] ELSE "lost"]
  BY DEF DaemonEnds
<1>4. Lawful
  BY <1>1, <1>3, Pipes DEF Lawful
<1>5. Written
  <2>1. CASE daemon = "up"
    <3>1. toWm' = Append(toWm, Msg("eof", 0))
      BY <2>1 DEF DaemonEnds
    <3> QED BY <3>1, HelperMsgs DEF Written
  <2>2. CASE daemon # "up"
    BY <2>2 DEF DaemonEnds, Written
  <2> QED BY <2>1, <2>2
<1>6. toDaemon' = <<>> /\ \A i \in Id : slave[i] = "none" => slave'[i] = "none"
  BY <1>3 DEF DaemonEnds
<1>7. Fresh' /\ toDaemon' \in Seq(Msgs)
  BY <1>1, <1>2, <1>6, FreshStays
<1>8. slave' \in [Id -> {"none", "running", "ended", "dead", "lost"} \cup Question]
  BY <1>1, <1>3, Pipes
<1>9. /\ inbox' = [i \in Id |-> <<>>] /\ outbox' = [i \in Id |-> <<>>] /\ slaves' = <<>>
      /\ daemon' = "down" /\ UNCHANGED <<aborting, reports>>
  BY DEF DaemonEnds
<1>10. /\ inbox' \in [Id -> Seq(Msgs)] /\ outbox' \in [Id -> Seq(Msgs)]
       /\ \A i \in Id : \A k \in DOMAIN outbox'[i] : outbox'[i][k].kind # "quit"
       /\ slaves' \in Seq([id : Id, freed : BOOLEAN])
  BY <1>9
<1> QED BY <1>1, <1>4, <1>5, <1>7, <1>8, <1>9, <1>10, Pipes, HelperKeeps

\* the request at the head of the queue of the daemon is taken
LEMMA TakenRequest ==
  ASSUME Inv, NEW kinds \in SUBSET Kinds, DaemonTakes(kinds), kinds \cap Told = {}
  PROVE  /\ Head(toDaemon) \in Msgs /\ Head(toDaemon).id \in Id /\ Head(toDaemon).kind \in kinds
         /\ toDaemon \in Seq(Msgs) /\ toDaemon # <<>>
         /\ Head(toDaemon) = toDaemon[1] /\ 1 \in DOMAIN toDaemon
         /\ Tail(toDaemon) \in Seq(Msgs)
         /\ HelperStep /\ UNCHANGED <<mishaps, last, messages>> /\ daemon = "up" /\ Mishaps'
<1>1. Wire /\ Mishaps
  BY Parts
<1>2. toDaemon \in Seq(Msgs) /\ toDaemon # <<>> /\ Head(toDaemon).kind \in kinds
  BY <1>1, Pipes DEF DaemonTakes
<1>3. /\ Head(toDaemon) \in Msgs /\ Head(toDaemon) = toDaemon[1] /\ 1 \in DOMAIN toDaemon
      /\ Tail(toDaemon) \in Seq(Msgs)
  BY <1>2, TailFacts
<1>4. Head(toDaemon).id \in Id
  BY <1>2, <1>3 DEF Msgs
<1> QED BY <1>1, <1>2, <1>3, <1>4 DEF DaemonTakes, HelperStep, wmVars, connVars, Mishaps

LEMMA DaemonRunsKeeps ==
  ASSUME Inv, DaemonRuns
  PROVE  Inv'
<1> DEFINE i == Head(toDaemon).id
<1>1. WmTypes /\ Wire
  BY Parts
<1>2. /\ toDaemon' = Tail(toDaemon) /\ toWm' = Append(toWm, Msg("ok", 0))
      /\ slaves' = Append(slaves, [id |-> i, freed |-> FALSE])
      /\ slave' = [slave EXCEPT ![i] = "running"]
      /\ UNCHANGED <<daemon, aborting, outbox, reports, inbox>> /\ DaemonTakes({"start"})
  BY DEF DaemonRuns, DaemonGoesOn
<1>3. /\ Head(toDaemon) \in Msgs /\ i \in Id /\ Head(toDaemon).kind = "start"
      /\ toDaemon \in Seq(Msgs) /\ toDaemon # <<>>
      /\ Head(toDaemon) = toDaemon[1] /\ 1 \in DOMAIN toDaemon
      /\ Tail(toDaemon) \in Seq(Msgs)
      /\ HelperStep /\ UNCHANGED <<last, messages>> /\ daemon = "up" /\ Mishaps'
  <2>1. {"start"} \in SUBSET Kinds /\ {"start"} \cap Told = {}
    BY DEF Kinds, Told
  <2> QED BY <1>2, <2>1, TakenRequest
<1>4. /\ Starts(messages, last, slave) /\ Starts(toDaemon, last, slave) /\ Apart(messages, toDaemon)
      /\ last \in Nat /\ messages \in Seq(Msgs)
  BY <1>1, LastType, Pipes DEF Wire, Fresh
<1>5. i \in 1..last /\ slave[i] = "none"
  BY <1>3, <1>4 DEF Starts
<1>6. slave \in [Id -> {"none", "running", "ended", "dead", "lost"} \cup Question]
  BY <1>1, Pipes
<1>7. Head(toDaemon) = Msg("start", i)
  BY <1>3 DEF Msgs, Msg
<1> HIDE DEF i
<1>8. /\ slave' \in [Id -> {"none", "running", "ended", "dead", "lost"} \cup Question]
      /\ \A j \in Id : slave'[j] = IF j = i THEN "running" ELSE slave[j]
  BY <1>2, <1>3, <1>6
<1>9. \A j \in 1..last : j \in Id
  BY <1>1, LastType DEF Id, WmTypes
<1>10. Starts(Tail(toDaemon), last, slave')
  <2>1. \A j \in 1..last : slave[j] = "none" => slave'[j] = "none" \/ Head(toDaemon) = Msg("start", j)
    BY <1>7, <1>8, <1>9
  <2> QED BY <1>3, <1>4, <2>1, StartsTail
<1>11. Starts(messages, last, slave')
  <2>1. ASSUME NEW k \in DOMAIN messages, messages[k].kind = "start"
        PROVE  messages[k].id \in 1..last /\ slave'[messages[k].id] = "none"
    <3>1. messages[k].id \in 1..last /\ slave[messages[k].id] = "none" /\ messages[k] \in Msgs
      BY <1>4, <2>1 DEF Starts
    <3>2. messages[k] # Head(toDaemon)
      BY <1>3, <1>4, <2>1 DEF Apart
    <3>3. messages[k] = Msg("start", messages[k].id)
      BY <2>1, <3>1 DEF Msgs, Msg
    <3>4. messages[k].id # i
      BY <1>7, <3>2, <3>3
    <3> QED BY <1>8, <1>9, <3>1, <3>4
  <2> QED BY <1>4, <2>1 DEF Starts
<1>12. Fresh'
  <2>1. Apart(messages, Tail(toDaemon))
    BY <1>3, <1>4, ApartTail
  <2> QED BY <1>2, <1>3, <1>10, <1>11, <2>1 DEF Fresh
<1>13. Lawful
  <2>1. \A j \in Id : j > last => j # i /\ slave[j] = "none"
    BY <1>1, <1>4, <1>5, Pipes
  <2> QED BY <1>5, <1>8, <2>1 DEF Lawful
<1>14. Written
  BY <1>2, HelperMsgs DEF Written
<1>15. slaves' \in Seq([id : Id, freed : BOOLEAN])
  <2> DEFINE r == [id |-> i, freed |-> FALSE]
  <2>1. r \in [id : Id, freed : BOOLEAN] /\ slaves \in Seq([id : Id, freed : BOOLEAN])
    BY <1>1, <1>3, Pipes
  <2>2. slaves' = Append(slaves, r)
    BY <1>2
  <2> HIDE DEF r
  <2> QED BY <2>1, <2>2, AppendProperties
<1>16. toDaemon' \in Seq(Msgs) /\ daemon' \in {"down", "starting", "up"}
  BY <1>2, <1>3
<1> QED BY <1>1, <1>2, <1>3, <1>8, <1>12, <1>13, <1>14, <1>15, <1>16, Pipes, HelperKeeps

LEMMA AppendAt ==
  ASSUME NEW box \in [Id -> Seq(Msgs)], NEW i \in Id, NEW m \in Msgs
  PROVE  /\ [box EXCEPT ![i] = Append(@, m)] \in [Id -> Seq(Msgs)]
         /\ \A j \in Id : \A k \in DOMAIN [box EXCEPT ![i] = Append(@, m)][j] :
              \/ k \in DOMAIN box[j] /\ [box EXCEPT ![i] = Append(@, m)][j][k] = box[j][k]
              \/ [box EXCEPT ![i] = Append(@, m)][j][k] = m
<1> DEFINE a == Append(box[i], m)
           b == [box EXCEPT ![i] = a]
<1>1. /\ a \in Seq(Msgs)
      /\ \A k \in DOMAIN a : (k \in DOMAIN box[i] /\ a[k] = box[i][k]) \/ a[k] = m
  BY AppendFacts
<1> HIDE DEF a
<1>2. b \in [Id -> Seq(Msgs)] /\ b[i] = a /\ \A j \in Id : j # i => b[j] = box[j]
  BY <1>1
<1> HIDE DEF b
<1>3. \A j \in Id : \A k \in DOMAIN b[j] : (k \in DOMAIN box[j] /\ b[j][k] = box[j][k]) \/ b[j][k] = m
  BY <1>1, <1>2
<1> QED BY <1>2, <1>3 DEF b, a

LEMMA TailAt ==
  ASSUME NEW box \in [Id -> Seq(Msgs)], NEW i \in Id, box[i] # <<>>
  PROVE  /\ [box EXCEPT ![i] = Tail(@)] \in [Id -> Seq(Msgs)]
         /\ Head(box[i]) \in Msgs /\ \E k \in DOMAIN box[i] : Head(box[i]) = box[i][k]
         /\ \A j \in Id : \A k \in DOMAIN [box EXCEPT ![i] = Tail(@)][j] :
              \E l \in DOMAIN box[j] : [box EXCEPT ![i] = Tail(@)][j][k] = box[j][l]
<1> DEFINE a == Tail(box[i])
           b == [box EXCEPT ![i] = a]
<1>1. /\ a \in Seq(Msgs) /\ Head(box[i]) \in Msgs /\ Head(box[i]) = box[i][1] /\ 1 \in DOMAIN box[i]
      /\ \A k \in DOMAIN a : k + 1 \in DOMAIN box[i] /\ a[k] = box[i][k + 1]
  BY TailFacts
<1> HIDE DEF a
<1>2. b \in [Id -> Seq(Msgs)] /\ b[i] = a /\ \A j \in Id : j # i => b[j] = box[j]
  BY <1>1
<1> HIDE DEF b
<1>3. ASSUME NEW j \in Id, NEW k \in DOMAIN b[j]
      PROVE  \E l \in DOMAIN box[j] : b[j][k] = box[j][l]
  <2>1. CASE j = i
    <3>1. k + 1 \in DOMAIN box[i] /\ b[j][k] = box[i][k + 1]
      BY <1>1, <1>2, <2>1
    <3> QED BY <2>1, <3>1
  <2>2. CASE j # i
    BY <1>2, <2>2
  <2> QED BY <2>1, <2>2
<1> QED BY <1>1, <1>2, <1>3 DEF b, a

\* the tail of the requests, when no slave is started
LEMMA FreshTail ==
  ASSUME WmTypes, Wire, toDaemon # <<>>, toDaemon' = Tail(toDaemon),
         UNCHANGED <<last, messages, slave>>
  PROVE  Fresh' /\ toDaemon' \in Seq(Msgs)
<1>1. /\ Starts(messages, last, slave) /\ Starts(toDaemon, last, slave) /\ Apart(messages, toDaemon)
      /\ last \in Nat /\ toDaemon \in Seq(Msgs)
  BY LastType, Pipes DEF Wire, Fresh
<1>2. Starts(Tail(toDaemon), last, slave) /\ Tail(toDaemon) \in Seq(Msgs)
  BY <1>1, StartsTail
<1>3. Apart(messages, Tail(toDaemon))
  BY <1>1, ApartTail
<1> QED BY <1>1, <1>2, <1>3 DEF Fresh

LEMMA DaemonAnswersKeeps ==
  ASSUME Inv, DaemonAnswers
  PROVE  Inv'
<1> DEFINE m == Head(toDaemon)
<1>1. WmTypes /\ Wire
  BY Parts
<1>2. /\ m \in Msgs /\ m.id \in Id /\ toDaemon # <<>> /\ HelperStep
      /\ UNCHANGED <<mishaps, last, messages>> /\ Mishaps'
  <2>1. {"abort"} \cup Answer \in SUBSET Kinds /\ ({"abort"} \cup Answer) \cap Told = {}
    BY DEF Kinds, Told, Answer, ErrorAnswer, OverwriteAnswer
  <2>2. DaemonTakes({"abort"} \cup Answer)
    BY DEF DaemonAnswers
  <2> QED BY <2>1, <2>2, TakenRequest
<1>3. ASSUME DaemonGoesOn, UNCHANGED <<slaves, slave>>, inbox' \in [Id -> Seq(Msgs)]
      PROVE  Inv'
  <2>1. /\ toDaemon' = Tail(toDaemon) /\ toWm' = Append(toWm, Msg("ok", 0))
        /\ UNCHANGED <<daemon, aborting, outbox, reports>>
    BY <1>3 DEF DaemonGoesOn
  <2>2. Fresh' /\ toDaemon' \in Seq(Msgs)
    BY <1>1, <1>2, <1>3, <2>1, FreshTail
  <2>3. Lawful
    BY <1>1, <1>3, Pipes DEF Lawful
  <2>4. Written
    BY <2>1, HelperMsgs DEF Written
  <2> QED BY <1>1, <1>2, <1>3, <2>1, <2>2, <2>3, <2>4, Pipes, HelperKeeps
<1>4. CASE DaemonSends(m.id)
  <2>1. inbox' = [inbox EXCEPT ![m.id] = Append(@, m)] /\ inbox \in [Id -> Seq(Msgs)]
    BY <1>1, <1>4, Pipes DEF DaemonSends
  <2>2. inbox' \in [Id -> Seq(Msgs)]
    BY <1>2, <2>1, AppendAt
  <2> QED BY <1>3, <1>4, <2>2 DEF DaemonSends
<1>5. CASE DaemonIgnores
  BY <1>1, <1>3, <1>5, Pipes DEF DaemonIgnores
<1>6. CASE DaemonEnds
  BY <1>2, <1>6, DaemonEndsKeeps
<1>7. DaemonSends(m.id) \/ DaemonIgnores \/ DaemonEnds
  BY DEF DaemonAnswers
<1> QED BY <1>4, <1>5, <1>6, <1>7

LEMMA DaemonRelaysKeeps ==
  ASSUME Inv, NEW i \in Id, DaemonRelays(i)
  PROVE  Inv'
<1>1. WmTypes /\ Wire /\ Mishaps
  BY Parts
<1>2. /\ outbox[i] # <<>> /\ outbox' = [outbox EXCEPT ![i] = Tail(@)]
      /\ toWm' = Append(toWm, Head(outbox[i])) /\ HelperStep
      /\ UNCHANGED <<daemon, toDaemon, slaves, slave, aborting, inbox, reports, mishaps>>
      /\ UNCHANGED <<last, messages>>
  BY DEF DaemonRelays, HelperStep, wmVars, connVars
<1>3. outbox \in [Id -> Seq(Msgs)] /\ \A j \in Id : \A k \in DOMAIN outbox[j] : outbox[j][k].kind # "quit"
  BY <1>1, Pipes
<1>4. /\ outbox' \in [Id -> Seq(Msgs)] /\ Head(outbox[i]) \in Msgs /\ Head(outbox[i]).kind # "quit"
      /\ \A j \in Id : \A k \in DOMAIN outbox'[j] : outbox'[j][k].kind # "quit"
  <2> DEFINE b == [outbox EXCEPT ![i] = Tail(@)]
  <2>1. /\ b \in [Id -> Seq(Msgs)] /\ Head(outbox[i]) \in Msgs
        /\ \E k \in DOMAIN outbox[i] : Head(outbox[i]) = outbox[i][k]
        /\ \A j \in Id : \A k \in DOMAIN b[j] : \E l \in DOMAIN outbox[j] : b[j][k] = outbox[j][l]
    BY <1>2, <1>3, TailAt
  <2>2. outbox' = b
    BY <1>2
  <2> HIDE DEF b
  <2>3. \A j \in Id : \A k \in DOMAIN b[j] : b[j][k].kind # "quit"
    BY <1>3, <2>1
  <2>4. Head(outbox[i]).kind # "quit"
    BY <1>3, <2>1
  <2> QED BY <2>1, <2>2, <2>3, <2>4
<1>5. Lawful
  BY <1>1, <1>2, Pipes DEF Lawful
<1>6. Written
  BY <1>2, <1>4 DEF Written
<1>7. Fresh'
  BY <1>1, <1>2, FreshStays
<1>8. Mishaps'
  BY <1>1, <1>2 DEF Mishaps
<1> QED BY <1>1, <1>2, <1>4, <1>5, <1>6, <1>7, <1>8, Pipes, HelperKeeps

LEMMA DaemonSeesEndKeeps ==
  ASSUME Inv, NEW i \in Id, DaemonSeesEnd(i)
  PROVE  Inv'
<1>1. WmTypes /\ Wire /\ Mishaps
  BY Parts
<1>2. /\ slave[i] = "ended" /\ toWm' = Append(toWm, Msg("quit", i)) /\ HelperStep
      /\ slaves' = [k \in DOMAIN slaves |->
                      IF slaves[k].id = i THEN [slaves[k] EXCEPT !.freed = TRUE] ELSE slaves[k]]
      /\ slave' = [slave EXCEPT ![i] = "dead"]
      /\ UNCHANGED <<daemon, toDaemon, aborting, inbox, outbox, reports, mishaps>>
      /\ UNCHANGED <<last, messages>>
  BY DEF DaemonSeesEnd, HelperStep, wmVars, connVars
<1>3. /\ slave' \in [Id -> {"none", "running", "ended", "dead", "lost"} \cup Question]
      /\ slave'[i] = "dead" /\ \A j \in Id : j # i => slave'[j] = slave[j]
  BY <1>1, <1>2, Pipes
<1>4. slaves' \in Seq([id : Id, freed : BOOLEAN])
  <2> DEFINE R == [id : Id, freed : BOOLEAN]
             f(r) == IF r.id = i THEN [r EXCEPT !.freed = TRUE] ELSE r
  <2>1. slaves \in Seq(R) /\ DOMAIN slaves = 1..Len(slaves) /\ Len(slaves) \in Nat
    BY <1>1, Pipes, LenProperties
  <2>2. \A r \in R : f(r) \in R
    OBVIOUS
  <2>3. slaves' = [k \in 1..Len(slaves) |-> f(slaves[k])]
    BY <1>2, <2>1
  <2> HIDE DEF f, R
  <2>4. \A k \in 1..Len(slaves) : slaves[k] \in R
    BY <2>1
  <2>5. slaves' \in [1..Len(slaves) -> R]
    BY <2>2, <2>3, <2>4
  <2>6. slaves' \in Seq(R)
    BY <2>1, <2>5, SeqDef
  <2> QED BY <2>6 DEF R
<1>5. Lawful
  <2>1. \A j \in Id : j > last => j # i /\ slave[j] = "none"
    BY <1>1, <1>2, Pipes
  <2> QED BY <1>3, <2>1 DEF Lawful
<1>6. Written
  <2>1. Msg("quit", i) \in Msgs /\ Msg("quit", i).id = i
    BY MsgType DEF Kinds
  <2> QED BY <1>2, <1>3, <2>1 DEF Written
<1>7. Fresh'
  BY <1>1, <1>2, <1>3, FreshStays
<1>8. Mishaps'
  BY <1>1, <1>2 DEF Mishaps
<1> QED BY <1>1, <1>2, <1>3, <1>4, <1>5, <1>6, <1>7, <1>8, Pipes, HelperKeeps

\* What a step of a slave has to show.
LEMMA SlaveKeeps ==
  ASSUME Inv, NEW i \in Id, SlaveStep, slave[i] \in {"running"} \cup Question,
         NEW s \in {"running", "ended"} \cup Question, slave' = [slave EXCEPT ![i] = s],
         Mishaps', inbox' \in [Id -> Seq(Msgs)], outbox' \in [Id -> Seq(Msgs)],
         \A j \in Id : \A k \in DOMAIN outbox'[j] : outbox'[j][k].kind # "quit",
         reports' \in [Id -> 0..MaxReports], aborting' \subseteq Id
  PROVE  Inv'
<1>1. WmTypes /\ Wire
  BY Parts
<1>2. HelperStep /\ UNCHANGED <<daemon, toDaemon, toWm, slaves, last, messages>>
  BY DEF SlaveStep, HelperStep, wmVars, connVars
<1>3. /\ slave' \in [Id -> {"none", "running", "ended", "dead", "lost"} \cup Question]
      /\ slave'[i] = s /\ \A j \in Id : j # i => slave'[j] = slave[j]
  BY <1>1, Pipes
<1>4. slave[i] # "dead" /\ slave[i] # "none"
  BY DEF Question
<1>5. Lawful
  <2>1. \A j \in Id : j > last => j # i /\ slave[j] = "none"
    BY <1>1, <1>4, Pipes
  <2> QED BY <1>3, <1>4, <2>1 DEF Lawful
<1>6. Fresh'
  BY <1>1, <1>2, <1>3, <1>4, FreshStays
<1> QED BY <1>1, <1>2, <1>3, <1>5, <1>6, Pipes, HelperKeeps DEF Written

LEMMA SlaveWritesKeeps ==
  ASSUME Inv, NEW i \in Id, NEW kinds \in SUBSET (Question \cup {"progress", "complete"}),
         SlaveWrites(i, kinds)
  PROVE  Inv'
<1>1. Wire /\ Mishaps
  BY Parts
<1>2. PICK k \in kinds : /\ outbox' = [outbox EXCEPT ![i] = Append(@, Msg(k, i))]
                         /\ slave' = [slave EXCEPT ![i] = IF k \in Question THEN k ELSE @]
  BY DEF SlaveWrites
<1>3. /\ slave[i] = "running" /\ reports[i] < MaxReports /\ SlaveStep
      /\ reports' = [reports EXCEPT ![i] = @ + 1] /\ UNCHANGED <<aborting, inbox, mishaps>>
  BY DEF SlaveWrites
<1>4. outbox \in [Id -> Seq(Msgs)] /\ \A j \in Id : \A l \in DOMAIN outbox[j] : outbox[j][l].kind # "quit"
  BY <1>1, Pipes
<1>5. Msg(k, i) \in Msgs /\ Msg(k, i).kind # "quit"
  <2>1. k \in Kinds /\ k # "quit"
    BY DEF Kinds, Question
  <2> QED BY <2>1, MsgType
<1>6. /\ outbox' \in [Id -> Seq(Msgs)]
      /\ \A j \in Id : \A l \in DOMAIN outbox'[j] : outbox'[j][l].kind # "quit"
  <2> DEFINE m == Msg(k, i)
             b == [outbox EXCEPT ![i] = Append(@, m)]
  <2>1. m \in Msgs /\ m.kind # "quit" /\ outbox' = b
    BY <1>2, <1>5
  <2> HIDE DEF m
  <2>2. /\ b \in [Id -> Seq(Msgs)]
        /\ \A j \in Id : \A l \in DOMAIN b[j] :
             (l \in DOMAIN outbox[j] /\ b[j][l] = outbox[j][l]) \/ b[j][l] = m
    BY <1>4, <2>1, AppendAt
  <2> HIDE DEF b
  <2> QED BY <1>4, <2>1, <2>2
<1>7. reports' \in [Id -> 0..MaxReports]
  <2>1. reports \in [Id -> 0..MaxReports] /\ reports[i] + 1 \in 0..MaxReports
    BY <1>1, <1>3, Pipes, Numbers
  <2> QED BY <1>3, <2>1
<1> DEFINE s == IF k \in Question THEN k ELSE slave[i]
<1>8. s \in {"running", "ended"} \cup Question /\ slave' = [slave EXCEPT ![i] = s]
  BY <1>2, <1>3
<1> HIDE DEF s
<1>9. /\ Mishaps' /\ aborting' \subseteq Id /\ inbox' \in [Id -> Seq(Msgs)]
      /\ slave[i] \in {"running"} \cup Question
  BY <1>1, <1>3, Pipes DEF Mishaps
<1> QED BY <1>3, <1>6, <1>7, <1>8, <1>9, SlaveKeeps

LEMMA SlaveReadsKeeps ==
  ASSUME Inv, NEW i \in Id, SlaveReads(i)
  PROVE  Inv'
<1>1. Wire /\ Mishaps
  BY Parts
<1> DEFINE k == Head(inbox[i]).kind
           s == IF k \in Answer THEN "running" ELSE slave[i]
<1>2. /\ slave[i] \in {"running"} \cup Question /\ inbox[i] # <<>> /\ SlaveStep
      /\ aborting' = IF k \in {"abort", "give up"} THEN aborting \cup {i} ELSE aborting
      /\ slave' = [slave EXCEPT ![i] = s]
      /\ inbox' = [inbox EXCEPT ![i] = Tail(@)]
      /\ UNCHANGED <<outbox, reports, mishaps>>
  BY DEF SlaveReads
<1>3. s \in {"running", "ended"} \cup Question
  BY <1>2
<1>4. aborting' \subseteq Id
  BY <1>1, <1>2, Pipes
<1>5. inbox' \in [Id -> Seq(Msgs)]
  BY <1>1, <1>2, Pipes, TailAt
<1>6. /\ outbox' \in [Id -> Seq(Msgs)] /\ reports' \in [Id -> 0..MaxReports] /\ Mishaps'
      /\ \A j \in Id : \A l \in DOMAIN outbox'[j] : outbox'[j][l].kind # "quit"
  BY <1>1, <1>2, Pipes DEF Mishaps
<1> HIDE DEF s
<1> QED BY <1>2, <1>3, <1>4, <1>5, <1>6, SlaveKeeps

\* The slave ends, of itself or not.
LEMMA SlaveEndsKeeps ==
  ASSUME Inv, NEW i \in Id, SlaveEnds(i) \/ SlaveDies(i)
  PROVE  Inv'
<1>1. Wire /\ Mishaps
  BY Parts
<1>2. /\ slave[i] \in {"running"} \cup Question /\ SlaveStep
      /\ slave' = [slave EXCEPT ![i] = "ended"] /\ inbox' = [inbox EXCEPT ![i] = <<>>]
      /\ UNCHANGED <<aborting, outbox, reports>> /\ (mishaps' = mishaps \/ Mishap)
  BY DEF SlaveEnds, SlaveDies
<1>3. Mishaps'
  BY <1>1, <1>2, Numbers DEF Mishaps, Mishap
<1>4. inbox' \in [Id -> Seq(Msgs)]
  <2>1. <<>> \in Seq(Msgs)
    OBVIOUS
  <2> QED BY <1>1, <1>2, <2>1, Pipes
<1>5. /\ outbox' \in [Id -> Seq(Msgs)] /\ reports' \in [Id -> 0..MaxReports] /\ aborting' \subseteq Id
      /\ \A j \in Id : \A l \in DOMAIN outbox'[j] : outbox'[j][l].kind # "quit"
  BY <1>1, <1>2, Pipes
<1> QED BY <1>2, <1>3, <1>4, <1>5, SlaveKeeps

-----------------------------------------------------------------------------
(* The theorems.                                                           *)

LEMMA InitInv == Init => Inv
<1> SUFFICES ASSUME Init PROVE Inv
  OBVIOUS
<1> USE DEF Init
<1>0. /\ <<>> \in Seq(Msgs) /\ <<>> \in Seq(Rename) /\ <<>> \in Seq(Id)
      /\ <<>> \in Seq([id : Id, freed : BOOLEAN]) /\ Len(<<>>) = 0 /\ DOMAIN <<>> = {}
  OBVIOUS
<1>1. /\ views = View /\ last = 0 /\ entry = [i \in Id |-> Unused] /\ open = {}
      /\ renames = [v \in View |-> <<>>] /\ renameOf = <<>>
      /\ dialog = [i \in Id |-> "none"] /\ slave = [i \in Id |-> "none"]
      /\ messages = <<>> /\ toDaemon = <<>> /\ toWm = <<>> /\ slaves = <<>>
      /\ inbox = [i \in Id |-> <<>>] /\ outbox = [i \in Id |-> <<>>]
      /\ reports = [i \in Id |-> 0]
  OBVIOUS
<1>2. WmTypes
  <2>1. 0 \in 0..MaxOps
    BY Numbers
  <2>2. undefined = FALSE /\ dismissed = {}
    OBVIOUS
  <2>3. dialog \in [Id -> {"none", "overwrite"} \cup ErrorDialog]
    OBVIOUS
  <2> QED BY <1>1, <2>1, <2>2, <2>3 DEF WmTypes
<1>3. Mishaps
  BY Numbers DEF Mishaps
<1>4. BookTypes
  BY <1>0, UnusedEntry, Numbers DEF BookTypes
<1>5. Counted
  BY <1>0 DEF Counted
<1>6. Dialogs
  BY <1>0 DEF Dialogs
<1>7. Unlisted
  BY DEF Unlisted
<1>8. ConnTypes
  <2>1. connected = FALSE /\ spawning = FALSE /\ req = 0 /\ daemon = "down"
    OBVIOUS
  <2>2. 0 \in Int
    OBVIOUS
  <2> QED BY <1>0, <1>1, <2>1, <2>2 DEF ConnTypes
<1>9. PipeTypes
  BY <1>0, Numbers DEF PipeTypes
<1>10. Fresh
  BY StartsNone DEF Fresh
<1>11. Wire
  BY <1>0, <1>8, <1>9, <1>10 DEF Wire
<1>12. Book
  BY <1>4, <1>5, <1>6, <1>7 DEF Book
<1> QED BY <1>2, <1>3, <1>11, <1>12, Parts

LEMMA StutterKeeps == Inv /\ UNCHANGED vars => Inv'
<1> SUFFICES ASSUME Inv, UNCHANGED vars PROVE Inv'
  OBVIOUS
<1>1. WmTypes /\ Book /\ Wire /\ Mishaps
  BY Parts
<1>2. Handled(entry) /\ Extended(entry)
  BY <1>1, HandledSame DEF Extended, vars, wmVars
<1>3. UNCHANGED <<connVars, daemon, toDaemon, slave, last>>
  BY DEF vars, wmVars, slaveVars
<1>4. Fresh' /\ ConnTypes'
  BY <1>1, <1>3, SendsNothing
<1>5. WmTypes' /\ Mishaps'
  BY <1>1 DEF vars, wmVars, WmTypes, Mishaps
<1>6. NoDialogs /\ UNCHANGED <<slaves, slaveVars, toWm>>
  BY DEF vars, wmVars, NoDialogs
<1> QED BY <1>2, <1>4, <1>5, <1>6, WmKeeps

LEMMA StepInv == Inv /\ [Next]_vars => Inv'
<1> SUFFICES ASSUME Inv, [Next]_vars PROVE Inv'
  OBVIOUS
<1>1. CASE User
  BY <1>1, StartKeeps, CloseViewKeeps, AbortKeeps, AnswerErrorKeeps, AnswerOverwriteKeeps,
     MoveSourceKeeps, AnswerRenameKeeps, DismissKeeps, RenameEndsKeeps DEF User, Answers
<1>2. CASE WmReceives
  BY <1>2, HelloKeeps, OkKeeps, ErrorArrivesKeeps, OverwriteArrivesKeeps, ProgressArrivesKeeps,
     QuitArrivesKeeps, ConnectionEndsKeeps DEF WmReceives
<1>3. CASE Daemon
  BY <1>3, DaemonStartsKeeps, DaemonRunsKeeps, DaemonAnswersKeeps, DaemonRelaysKeeps,
     DaemonSeesEndKeeps DEF Daemon
<1>4. CASE DaemonDies
  <2>1. Mishaps' /\ DaemonEnds /\ HelperStep
    BY <1>4, Parts, Numbers DEF DaemonDies, Mishap, Mishaps
  <2> QED BY <2>1, DaemonEndsKeeps
<1>5. ASSUME NEW i \in Id, Deliver(i)
      PROVE  Inv'
  BY <1>5, DeliverKeeps
<1>6. ASSUME NEW i \in Id, Slave(i)
      PROVE  Inv'
  <2>1. CASE SlaveAsks(i)
    BY <2>1, SlaveWritesKeeps DEF SlaveAsks
  <2>2. CASE SlaveReports(i)
    BY <2>2, SlaveWritesKeeps DEF SlaveReports
  <2>3. CASE SlaveReads(i)
    BY <2>3, SlaveReadsKeeps
  <2>4. CASE SlaveEnds(i)
    BY <2>4, SlaveEndsKeeps
  <2> QED BY <1>6, <2>1, <2>2, <2>3, <2>4 DEF Slave
<1>7. ASSUME NEW i \in Id, SlaveDies(i)
      PROVE  Inv'
  BY <1>7, SlaveEndsKeeps
<1>8. CASE UNCHANGED vars
  BY <1>8, StutterKeeps
<1> QED BY <1>1, <1>2, <1>3, <1>4, <1>5, <1>6, <1>7, <1>8 DEF Next

\* Whatever the user, the daemon and the slaves do, the books and the queues are
\* as the invariant says.
THEOREM Invariance == Spec => []Inv
<1> QED BY InitInv, StepInv, PTL DEF Spec

\* Every variable keeps its type: no number leaves its range, no queue carries
\* what is not a message and every open rename dialog has its operation.
THEOREM RelayTypeCorrect == Spec => []TypeOK
<1>1. Inv => TypeOK
  BY DEF Inv
<1> QED BY <1>1, Invariance, PTL

\* An entry of the registry has exactly the references that its place in the
\* registry, its queued events and its open rename dialogs are worth, and is freed
\* with the last of them (e2_fm_op_registry_entry_ref and _unref), for any number
\* of views, operations and dialogs and although a view drops half of its dialogs.
THEOREM ReferencesCounted == Spec => []RefsCounted
<1>1. Inv => RefsCounted
  BY DEF Inv, Counted, Good, Held, RefsCounted
<1> QED BY <1>1, Invariance, PTL

\* An operation leaves the registry only when its slave has ended: the daemon
\* reports the end once it has seen it, and nothing else removes an entry
\* (e_fm2_client_data, E_FM_OP_QUIT).
THEOREM SlaveEndsFirst == Spec => []EntryOutlivesSlave
<1>1. Inv => EntryOutlivesSlave
  BY DEF Inv, Gone, EntryOutlivesSlave
<1> QED BY <1>1, Invariance, PTL

-----------------------------------------------------------------------------
-----------------------------------------------------------------------------
(* Counting the messages of a queue.                                       *)

Places(s, i, kinds) == {k \in DOMAIN s : s[k].id = i /\ s[k].kind \in kinds}

LEMMA CountPlaces ==
  ASSUME NEW s \in Seq(Msgs), NEW i, NEW kinds
  PROVE  /\ IsFiniteSet(Places(s, i, kinds)) /\ CountOf(s, i, kinds) = Cardinality(Places(s, i, kinds))
         /\ CountOf(s, i, kinds) \in Nat
         /\ CountOf(s, i, kinds) = 0 <=> Places(s, i, kinds) = {}
<1>1. Len(s) \in Nat /\ DOMAIN s = 1..Len(s)
  BY LenProperties
<1>2. IsFiniteSet(1..Len(s)) /\ Places(s, i, kinds) \in SUBSET (1..Len(s))
  BY <1>1, FS_Interval DEF Places
<1>3. IsFiniteSet(Places(s, i, kinds))
  BY <1>2, FS_Subset
<1>4. CountOf(s, i, kinds) = Cardinality(Places(s, i, kinds))
  BY DEF CountOf, Places
<1>5. Cardinality(Places(s, i, kinds)) \in Nat
  BY <1>3, FS_CardinalityType
<1>6. Cardinality(Places(s, i, kinds)) = 0 <=> Places(s, i, kinds) = {}
  BY <1>3, FS_EmptySet
<1> QED BY <1>3, <1>4, <1>5, <1>6

LEMMA CountNone ==
  ASSUME NEW i, NEW kinds
  PROVE  CountOf(<<>>, i, kinds) = 0
<1>1. {k \in DOMAIN <<>> : <<>>[k].id = i /\ <<>>[k].kind \in kinds} = {}
  OBVIOUS
<1> QED BY <1>1, FS_EmptySet DEF CountOf

LEMMA CountOne ==
  ASSUME NEW m, NEW i, NEW kinds
  PROVE  CountOf(<<m>>, i, kinds) = IF m.id = i /\ m.kind \in kinds THEN 1 ELSE 0
<1>1. Places(<<m>>, i, kinds) = IF m.id = i /\ m.kind \in kinds THEN {1} ELSE {}
  BY DEF Places
<1>2. Cardinality({1}) = 1 /\ Cardinality({}) = 0
  BY FS_Singleton, FS_EmptySet
<1>3. CountOf(<<m>>, i, kinds) = Cardinality(Places(<<m>>, i, kinds))
  BY DEF CountOf, Places
<1> QED BY <1>1, <1>2, <1>3

\* The places of the second of two queues move by the length of the first.
LEMMA CountJoined ==
  ASSUME NEW s \in Seq(Msgs), NEW t \in Seq(Msgs), NEW i, NEW kinds
  PROVE  CountOf(s \o t, i, kinds) = CountOf(s, i, kinds) + CountOf(t, i, kinds)
<1> DEFINE c == s \o t
           A == Places(s, i, kinds)
           B == Places(t, i, kinds)
           C == Places(c, i, kinds)
           D == C \ A
           n == Len(s)
<1>1. /\ n \in Nat /\ DOMAIN s = 1..n /\ Len(t) \in Nat /\ DOMAIN t = 1..Len(t)
      /\ c \in Seq(Msgs) /\ DOMAIN c = 1..n + Len(t)
      /\ \A k \in 1..n + Len(t) : c[k] = IF k <= n THEN s[k] ELSE t[k - n]
  <2>1. c \in Seq(Msgs) /\ Len(c) = n + Len(t)
        /\ \A k \in 1..n + Len(t) : c[k] = IF k <= n THEN s[k] ELSE t[k - n]
    BY ConcatProperties
  <2> QED BY <2>1, LenProperties
<1>2. IsFiniteSet(A) /\ IsFiniteSet(B) /\ IsFiniteSet(C)
  BY <1>1, CountPlaces
<1> HIDE DEF c, n
<1>3. A \subseteq C
  BY <1>1 DEF Places
<1>4. D = {k \in DOMAIN c : k > n /\ k - n \in B}
  BY <1>1 DEF Places
<1>a. B \subseteq 1..Len(t)
  BY <1>1 DEF Places
<1> HIDE DEF B, D
<1> DEFINE f == [k \in B |-> k + n]
<1>5. f \in Bijection(B, D)
  <2>1. B \subseteq 1..Len(t)
    BY <1>a
  <2>2. ASSUME NEW k \in B
        PROVE  k + n \in D
    <3>1. k \in 1..Len(t) /\ k + n \in 1..n + Len(t) /\ k + n > n /\ (k + n) - n = k
      BY <1>1, <2>1
    <3> QED BY <1>1, <1>4, <3>1
  <2>3. ASSUME NEW d \in D
        PROVE  \E k \in B : k + n = d
    <3>1. d \in 1..n + Len(t) /\ d - n \in B
      BY <1>1, <1>4
    <3>2. (d - n) + n = d
      BY <1>1, <3>1
    <3> QED BY <3>1, <3>2
  <2>4. \A j, k \in B : j + n = k + n => j = k
    BY <1>1, <2>1
  <2> DEFINE g(k) == k + n
  <2>5. /\ \A k \in B : g(k) \in D
        /\ \A d \in D : \E k \in B : g(k) = d
        /\ \A j, k \in B : g(j) = g(k) => j = k
        /\ f = [k \in B |-> g(k)]
    BY <2>2, <2>3, <2>4
  <2> HIDE DEF f, g, B, D
  <2> QED BY <2>5 DEF Bijection, Injection, Surjection, IsInjective
<1>6. Cardinality(D) = Cardinality(B) /\ IsFiniteSet(D)
  BY <1>2, <1>5, FS_Bijection DEF ExistsBijection
<1>7. C = A \cup D /\ A \cap D = {}
  BY <1>3 DEF D
<1>8. Cardinality(A \cup D) = Cardinality(A) + Cardinality(D) - Cardinality(A \cap D)
  BY <1>2, <1>6, FS_Union
<1>9. Cardinality(C) = Cardinality(A) + Cardinality(B)
  <2>1. Cardinality(A) \in Nat /\ Cardinality(B) \in Nat /\ Cardinality(A \cap D) = 0
    BY <1>2, <1>7, FS_CardinalityType, FS_EmptySet
  <2> QED BY <1>6, <1>7, <1>8, <2>1
<1>10. /\ CountOf(c, i, kinds) = Cardinality(C) /\ CountOf(s, i, kinds) = Cardinality(A)
       /\ CountOf(t, i, kinds) = Cardinality(B)
  BY DEF CountOf, Places, B
<1> QED BY <1>9, <1>10 DEF c

LEMMA CountAppend ==
  ASSUME NEW s \in Seq(Msgs), NEW m \in Msgs, NEW i, NEW kinds
  PROVE  /\ Append(s, m) \in Seq(Msgs)
         /\ CountOf(Append(s, m), i, kinds) =
              CountOf(s, i, kinds) + (IF m.id = i /\ m.kind \in kinds THEN 1 ELSE 0)
<1>1. Append(s, m) = s \o <<m>> /\ <<m>> \in Seq(Msgs) /\ Append(s, m) \in Seq(Msgs)
  BY AppendIsConcat, AppendProperties
<1>2. CountOf(s \o <<m>>, i, kinds) = CountOf(s, i, kinds) + CountOf(<<m>>, i, kinds)
  <2> DEFINE h == <<m>>
  <2>1. h \in Seq(Msgs)
    BY <1>1
  <2> HIDE DEF h
  <2>2. CountOf(s \o h, i, kinds) = CountOf(s, i, kinds) + CountOf(h, i, kinds)
    BY <2>1, CountJoined
  <2> QED BY <2>2 DEF h
<1> QED BY <1>1, <1>2, CountOne

LEMMA CountTail ==
  ASSUME NEW s \in Seq(Msgs), s # <<>>, NEW i, NEW kinds
  PROVE  /\ Tail(s) \in Seq(Msgs) /\ Head(s) \in Msgs
         /\ CountOf(s, i, kinds) =
              CountOf(Tail(s), i, kinds) + (IF Head(s).id = i /\ Head(s).kind \in kinds THEN 1 ELSE 0)
<1>1. Tail(s) \in Seq(Msgs) /\ Head(s) \in Msgs /\ <<Head(s)>> \in Seq(Msgs)
  BY TailFacts
<1>2. s = <<Head(s)>> \o Tail(s)
  <2>1. /\ Len(s) \in Nat \ {0} /\ Len(Tail(s)) = Len(s) - 1
        /\ \A k \in 1..Len(Tail(s)) : Tail(s)[k] = s[k + 1]
        /\ Head(s) = s[1]
    BY HeadTailProperties, EmptySeq, LenProperties
  <2> DEFINE c == <<Head(s)>> \o Tail(s)
  <2>2. /\ c \in Seq(Msgs) /\ Len(c) = 1 + Len(Tail(s))
        /\ \A k \in 1..1 + Len(Tail(s)) : c[k] = IF k <= 1 THEN <<Head(s)>>[k] ELSE Tail(s)[k - 1]
    <3>1. Len(<<Head(s)>>) = 1
      OBVIOUS
    <3> QED BY <1>1, <3>1, ConcatProperties
  <2> HIDE DEF c
  <2>3. \A k \in 1..Len(s) : s[k] = c[k]
    BY <2>1, <2>2
  <2>4. s = c
    BY <2>1, <2>2, <2>3, SeqEqual
  <2> QED BY <2>4 DEF c
<1>3. CountOf(s, i, kinds) = CountOf(<<Head(s)>>, i, kinds) + CountOf(Tail(s), i, kinds)
  <2> DEFINE h == <<Head(s)>>
             t == Tail(s)
  <2>1. h \in Seq(Msgs) /\ t \in Seq(Msgs) /\ s = h \o t
    BY <1>1, <1>2
  <2> HIDE DEF h, t
  <2>2. CountOf(h \o t, i, kinds) = CountOf(h, i, kinds) + CountOf(t, i, kinds)
    BY <2>1, CountJoined
  <2> QED BY <2>1, <2>2 DEF h, t
<1>4. CountOf(Tail(s), i, kinds) \in Nat
  BY <1>1, CountPlaces
<1>5. CountOf(<<Head(s)>>, i, kinds) = IF Head(s).id = i /\ Head(s).kind \in kinds THEN 1 ELSE 0
  BY CountOne
<1> QED BY <1>1, <1>3, <1>4, <1>5

-----------------------------------------------------------------------------
(* The inductive invariant.                                                *)

AnswersTo(q) == IF q = "error" THEN ErrorAnswer ELSE OverwriteAnswer
DialogsOf(q) == IF q = "error" THEN ErrorDialog ELSE {"overwrite"}

\* where a question of slave i, or the answer to it, may be
OutboxHas(i, q) == CountOf(outbox[i], i, {q})
ToWmHas(i, q) == CountOf(toWm, i, {q})
Shown(i, q) == IF dialog[i] \in DialogsOf(q) THEN 1 ELSE 0
MessagesHave(i, q) == CountOf(messages, i, AnswersTo(q))
ToDaemonHas(i, q) == CountOf(toDaemon, i, AnswersTo(q))
InboxHas(i, q) == CountOf(inbox[i], i, AnswersTo(q))

At(i, q) ==
  OutboxHas(i, q) + ToWmHas(i, q) + Shown(i, q)
    + MessagesHave(i, q) + ToDaemonHas(i, q) + InboxHas(i, q)

\* before a slave starts and while it works there is no question and no answer;
\* while it waits there is one of its kind, and none of the other kind
Asking(i) ==
  /\ slave[i] \in {"none", "running"} => i \notin dismissed /\ \A q \in Question : At(i, q) = 0
  /\ \A q \in Question : slave[i] = q =>
       /\ At(i, q) = IF i \in dismissed THEN 0 ELSE 1
       /\ \A r \in Question \ {q} : At(i, r) = 0

\* the pipes of a slave carry its own messages only
Own ==
  \A i \in Id : /\ \A k \in DOMAIN inbox[i] : inbox[i][k].id = i
                /\ \A k \in DOMAIN outbox[i] : outbox[i][k].id = i

\* the daemon knows the slaves that are alive, and there are none without it
Working(i) == slave[i] \in {"running"} \cup Question
Recorded == \A i \in Id : Working(i) => \E k \in DOMAIN slaves : slaves[k].id = i /\ ~slaves[k].freed
Down == daemon # "up" => slaves = <<>>

\* a daemon says hello first, and the end of its connection comes last
Greets == toWm # <<>> /\ Head(toWm).kind = "hello"
Parting == toWm # <<>> /\ toWm[Len(toWm)].kind = "eof"
Alive == IF Parting THEN daemon = "down" ELSE daemon = "up"
Framed ==
  \A k \in DOMAIN toWm :
    (toWm[k].kind = "hello" => k = 1) /\ (toWm[k].kind = "eof" => k = Len(toWm))

\* the connection as the two ends see it
Conn ==
  /\ Framed
  /\ connected => ~spawning /\ ~Greets /\ Alive
  /\ ~connected /\ Greets => spawning /\ Alive
  /\ ~connected /\ ~Greets => ~Parting /\ daemon # "up" /\ (spawning \/ daemon = "down")

QInv == Own /\ Recorded /\ Down /\ Conn /\ (~undefined => \A i \in Id : Asking(i))

-----------------------------------------------------------------------------
(* What a step has to show.                                                *)

LEMMA Kinded ==
  /\ Question = {"error", "overwrite"}
  /\ \A q \in Question : AnswersTo(q) \subseteq Answer /\ AnswersTo(q) \subseteq Kinds \ {"start", "abort"}
  /\ \A q, r \in Question : q # r => AnswersTo(q) \cap AnswersTo(r) = {}
  /\ \A q, r \in Question : q # r => DialogsOf(q) \cap DialogsOf(r) = {}
  /\ \A q \in Question : "none" \notin DialogsOf(q)
  /\ \A a \in Answer : \E q \in Question : a \in AnswersTo(q)
BY DEF Question, AnswersTo, DialogsOf, ErrorAnswer, OverwriteAnswer, Answer, ErrorDialog, Kinds

LEMMA Numbered ==
  ASSUME Wire
  PROVE  \A i \in Id : \A q :
            /\ OutboxHas(i, q) \in Nat /\ ToWmHas(i, q) \in Nat /\ Shown(i, q) \in {0, 1}
            /\ MessagesHave(i, q) \in Nat /\ ToDaemonHas(i, q) \in Nat
            /\ InboxHas(i, q) \in Nat /\ At(i, q) \in Nat
<1> SUFFICES ASSUME NEW i \in Id, NEW q
             PROVE  /\ OutboxHas(i, q) \in Nat /\ ToWmHas(i, q) \in Nat /\ Shown(i, q) \in {0, 1}
                    /\ MessagesHave(i, q) \in Nat /\ ToDaemonHas(i, q) \in Nat
                    /\ InboxHas(i, q) \in Nat /\ At(i, q) \in Nat
  OBVIOUS
<1>1. /\ toDaemon \in Seq(Msgs) /\ messages \in Seq(Msgs) /\ toWm \in Seq(Msgs)
      /\ inbox[i] \in Seq(Msgs) /\ outbox[i] \in Seq(Msgs)
  BY Pipes
<1>2. OutboxHas(i, q) \in Nat /\ ToWmHas(i, q) \in Nat
  BY <1>1, CountPlaces DEF OutboxHas, ToWmHas
<1>3. MessagesHave(i, q) \in Nat /\ ToDaemonHas(i, q) \in Nat /\ InboxHas(i, q) \in Nat
  BY <1>1, CountPlaces DEF MessagesHave, ToDaemonHas, InboxHas
<1>4. Shown(i, q) \in {0, 1}
  BY DEF Shown
<1> QED BY <1>2, <1>3, <1>4 DEF At

LEMMA AskingStays ==
  ASSUME NEW i, Asking(i), slave'[i] = slave[i], i \in dismissed' <=> i \in dismissed,
         \A q \in Question : At(i, q)' = At(i, q)
  PROVE  Asking(i)'
BY DEF Asking

LEMMA AskingOver ==
  ASSUME NEW i, slave'[i] \in {"ended", "dead", "lost"}
  PROVE  Asking(i)'
BY DEF Asking, Question

\* the connection and the pipes are as before
LEMMA SameConn ==
  ASSUME QInv, UNCHANGED <<slaves, slave, inbox, outbox, toWm, daemon, connected, spawning>>
  PROVE  Own' /\ Recorded' /\ Down' /\ Conn'
<1>1. Own' /\ Down'
  BY DEF QInv, Own, Down
<1>2. Recorded'
  BY DEF QInv, Recorded, Working
<1>3. Greets' = Greets /\ Alive' = Alive /\ Parting' = Parting /\ Framed' = Framed
  BY DEF Greets, Alive, Parting, Framed
<1> QED BY <1>1, <1>2, <1>3 DEF QInv, Conn

\* no queue changes, and no dialog
LEMMA QuietAsks ==
  ASSUME QInv, ~undefined, UNCHANGED <<connVars, daemon, toDaemon, toWm, slaves, slaveVars>>,
         undefined' \/ UNCHANGED <<dialog, dismissed>>
  PROVE  QInv'
<1>1. Own' /\ Recorded' /\ Down' /\ Conn'
  BY SameConn DEF connVars, slaveVars
<1>2. ASSUME ~undefined', NEW i \in Id
      PROVE  Asking(i)'
  <2>1. Asking(i) /\ UNCHANGED <<dialog, dismissed, slave>>
    BY <1>2 DEF QInv, slaveVars
  <2>2. ASSUME NEW q \in Question
        PROVE  At(i, q)' = At(i, q)
    BY <2>1 DEF At, OutboxHas, ToWmHas, Shown, MessagesHave, ToDaemonHas, InboxHas, connVars, slaveVars
  <2> QED BY <2>1, <2>2, AskingStays
<1> QED BY <1>1, <1>2 DEF QInv

\* what is sent waits for the daemon, is on its way to it, or is lost with it
LEMMA SentFacts ==
  ASSUME Inv, QInv, NEW ms \in Seq(Msgs), Sends(ms), UNCHANGED <<toWm, slaves, slaveVars>>
  PROVE  /\ Own' /\ Recorded' /\ Down' /\ Conn'
         /\ \A j \in Id, q \in Question :
              MessagesHave(j, q)' + ToDaemonHas(j, q)' =
                MessagesHave(j, q) + ToDaemonHas(j, q)
                  + (IF connected /\ daemon # "up" THEN 0 ELSE CountOf(ms, j, AnswersTo(q)))
<1>1. toDaemon \in Seq(Msgs) /\ messages \in Seq(Msgs) /\ Wire
  BY Parts, Pipes
<1>2. CASE connected
  <2>1. /\ UNCHANGED <<connected, spawning, messages, daemon>>
        /\ toDaemon' = IF daemon = "up" THEN toDaemon \o ms ELSE toDaemon
    BY <1>2 DEF Sends
  <2>2. Own' /\ Recorded' /\ Down' /\ Conn'
    BY <2>1, SameConn DEF slaveVars
  <2>3. ASSUME NEW j \in Id, NEW q \in Question
        PROVE  /\ MessagesHave(j, q)' = MessagesHave(j, q)
               /\ ToDaemonHas(j, q)' = ToDaemonHas(j, q)
                    + (IF connected /\ daemon # "up" THEN 0 ELSE CountOf(ms, j, AnswersTo(q)))
    <3>1. MessagesHave(j, q)' = MessagesHave(j, q)
      BY <2>1 DEF MessagesHave
    <3>2. ToDaemonHas(j, q) \in Nat
      BY <1>1, Numbered
    <3>3. CASE daemon = "up"
      <4>1. CountOf(toDaemon \o ms, j, AnswersTo(q)) =
              CountOf(toDaemon, j, AnswersTo(q)) + CountOf(ms, j, AnswersTo(q))
        BY <1>1, CountJoined
      <4> QED BY <2>1, <3>1, <3>3, <4>1 DEF ToDaemonHas
    <3>4. CASE daemon # "up"
      BY <1>2, <2>1, <3>1, <3>2, <3>4 DEF ToDaemonHas
    <3> QED BY <3>3, <3>4
  <2>4. ASSUME NEW j \in Id, NEW q \in Question
        PROVE  /\ MessagesHave(j, q) \in Nat /\ ToDaemonHas(j, q) \in Nat
               /\ CountOf(ms, j, AnswersTo(q)) \in Nat
    BY <1>1, Numbered, CountPlaces
  <2> QED BY <2>2, <2>3, <2>4
<1>3. CASE ~connected
  <2>1. /\ UNCHANGED <<connected, toDaemon>> /\ messages' = messages \o ms /\ spawning' = TRUE
        /\ daemon' = IF spawning THEN daemon ELSE "starting"
    BY <1>3 DEF Sends
  <2>2. ~spawning => daemon # "up" /\ ~Greets
    BY <1>3 DEF QInv, Conn
  <2>3. Own' /\ Recorded'
    BY DEF QInv, Own, Recorded, Working, slaveVars
  <2>4. Down'
    BY <2>1, <2>2 DEF QInv, Down
  <2>5. Conn'
    <3>1. Framed' /\ Greets' = Greets /\ Parting' = Parting
      BY DEF QInv, Conn, Framed, Greets, Parting
    <3>2. CASE spawning
      BY <1>3, <2>1, <3>1, <3>2 DEF QInv, Conn, Alive
    <3>3. CASE ~spawning
      BY <1>3, <2>1, <2>2, <3>1, <3>3 DEF QInv, Conn, Alive
    <3> QED BY <3>2, <3>3
  <2>6. ASSUME NEW j \in Id, NEW q \in Question
        PROVE  /\ ToDaemonHas(j, q)' = ToDaemonHas(j, q)
               /\ MessagesHave(j, q)' = MessagesHave(j, q) + CountOf(ms, j, AnswersTo(q))
               /\ MessagesHave(j, q) \in Nat /\ ToDaemonHas(j, q) \in Nat
               /\ CountOf(ms, j, AnswersTo(q)) \in Nat
    <3>1. CountOf(messages \o ms, j, AnswersTo(q)) =
            CountOf(messages, j, AnswersTo(q)) + CountOf(ms, j, AnswersTo(q))
      BY <1>1, CountJoined
    <3>2. /\ MessagesHave(j, q) \in Nat /\ ToDaemonHas(j, q) \in Nat
          /\ CountOf(ms, j, AnswersTo(q)) \in Nat
      BY <1>1, Numbered, CountPlaces
    <3> QED BY <2>1, <3>1, <3>2 DEF ToDaemonHas, MessagesHave
  <2> QED BY <1>3, <2>3, <2>4, <2>5, <2>6
<1> QED BY <1>2, <1>3

\* what At is made of, as far as a step of the window manager reaches it
LEMMA SentAt ==
  ASSUME Inv, QInv, NEW ms \in Seq(Msgs), Sends(ms), UNCHANGED <<toWm, slaves, slaveVars>>,
         NEW j \in Id, NEW q \in Question
  PROVE  At(j, q)' = At(j, q) + (Shown(j, q)' - Shown(j, q))
                       + (IF connected /\ daemon # "up" THEN 0 ELSE CountOf(ms, j, AnswersTo(q)))
<1>1. /\ OutboxHas(j, q)' = OutboxHas(j, q) /\ ToWmHas(j, q)' = ToWmHas(j, q)
      /\ InboxHas(j, q)' = InboxHas(j, q)
  BY DEF OutboxHas, ToWmHas, InboxHas, slaveVars
<1>2. MessagesHave(j, q)' + ToDaemonHas(j, q)' =
        MessagesHave(j, q) + ToDaemonHas(j, q)
          + (IF connected /\ daemon # "up" THEN 0 ELSE CountOf(ms, j, AnswersTo(q)))
  BY SentFacts
<1>3. /\ OutboxHas(j, q) \in Nat /\ ToWmHas(j, q) \in Nat /\ Shown(j, q) \in {0, 1}
      /\ MessagesHave(j, q) \in Nat /\ ToDaemonHas(j, q) \in Nat /\ InboxHas(j, q) \in Nat
  BY Parts, Numbered
<1>4. Shown(j, q)' \in {0, 1}
  BY DEF Shown
<1>5. MessagesHave(j, q)' \in Nat /\ ToDaemonHas(j, q)' \in Nat
  <2>1. Wire
    BY Parts
  <2>a. /\ toDaemon \in Seq(Msgs) /\ messages \in Seq(Msgs)
        /\ toDaemon \o ms \in Seq(Msgs) /\ messages \o ms \in Seq(Msgs)
    BY <2>1, Pipes, ConcatProperties
  <2>b. toDaemon' \in {toDaemon, toDaemon \o ms} /\ messages' \in {messages, messages \o ms}
    BY DEF Sends
  <2>2. toDaemon' \in Seq(Msgs) /\ messages' \in Seq(Msgs)
    BY <2>a, <2>b
  <2> QED BY <2>2, CountPlaces DEF MessagesHave, ToDaemonHas
<1>6. CountOf(ms, j, AnswersTo(q)) \in Nat
  BY CountPlaces
<1> DEFINE n == IF connected /\ daemon # "up" THEN 0 ELSE CountOf(ms, j, AnswersTo(q))
<1>7. n \in Nat /\ MessagesHave(j, q)' + ToDaemonHas(j, q)' = MessagesHave(j, q) + ToDaemonHas(j, q) + n
  BY <1>2, <1>6
<1> HIDE DEF n
<1>8. At(j, q)' = OutboxHas(j, q) + ToWmHas(j, q) + Shown(j, q)'
                    + (MessagesHave(j, q) + ToDaemonHas(j, q) + n) + InboxHas(j, q)
  BY <1>1, <1>3, <1>4, <1>5, <1>7 DEF At
<1>a. At(j, q) = OutboxHas(j, q) + ToWmHas(j, q) + Shown(j, q)
                   + MessagesHave(j, q) + ToDaemonHas(j, q) + InboxHas(j, q)
  BY DEF At
<1>b. Shown(j, q) \in Nat /\ Shown(j, q)' \in Nat
  BY <1>3, <1>4
<1>9. At(j, q)' = At(j, q) + (Shown(j, q)' - Shown(j, q)) + n
  <2> DEFINE o == OutboxHas(j, q)
             w == ToWmHas(j, q)
             m == MessagesHave(j, q)
             d == ToDaemonHas(j, q)
             e == InboxHas(j, q)
             s == Shown(j, q)
             z == Shown(j, q)'
  <2>1. /\ o \in Nat /\ w \in Nat /\ m \in Nat /\ d \in Nat /\ e \in Nat /\ s \in Nat /\ z \in Nat
        /\ n \in Nat
    BY <1>3, <1>b, <1>7
  <2>2. At(j, q)' = o + w + z + (m + d + n) + e /\ At(j, q) = o + w + s + m + d + e
    BY <1>8, <1>a
  <2> HIDE DEF o, w, m, d, e, s, z
  <2>3. o + w + z + (m + d + n) + e = (o + w + s + m + d + e) + (z - s) + n
    BY <2>1
  <2>4. At(j, q)' = At(j, q) + (z - s) + n
    BY <2>2, <2>3
  <2> QED BY <2>4 DEF z, s
<1> QED BY <1>9 DEF n

-----------------------------------------------------------------------------
(* The steps of the user.                                                  *)

\* a request that is no answer, and no dialog changes
LEMMA IdleSent ==
  ASSUME Inv, QInv, ~undefined, NEW ms \in Seq(Msgs), Sends(ms),
         UNCHANGED <<toWm, slaves, slaveVars, dialog, dismissed>>,
         \A k \in DOMAIN ms : ms[k].kind \in {"start", "abort"}
  PROVE  QInv'
<1>1. Own' /\ Recorded' /\ Down' /\ Conn'
  BY SentFacts
<1>2. ASSUME NEW i \in Id
      PROVE  Asking(i)'
  <2>1. Asking(i) /\ UNCHANGED slave
    BY DEF QInv, slaveVars
  <2>2. ASSUME NEW q \in Question
        PROVE  At(i, q)' = At(i, q)
    <3>1. Places(ms, i, AnswersTo(q)) = {}
      BY Kinded DEF Places
    <3>2. CountOf(ms, i, AnswersTo(q)) = 0
      BY <3>1, CountPlaces
    <3>3. Shown(i, q)' = Shown(i, q) /\ Shown(i, q) \in Nat
      BY DEF Shown
    <3>4. At(i, q) \in Nat
      BY Parts, Numbered
    <3>5. At(i, q)' = At(i, q) + (Shown(i, q)' - Shown(i, q)) + 0
      BY <3>2, SentAt
    <3> QED BY <3>3, <3>4, <3>5
  <2> QED BY <2>1, <2>2, AskingStays
<1> QED BY <1>1, <1>2 DEF QInv

LEMMA NextStarts ==
  ASSUME Inv, last < MaxOps
  PROVE  /\ last + 1 \in Id /\ Msg("start", last + 1) \in Msgs /\ Msg("start", last + 1).kind = "start"
         /\ <<Msg("start", last + 1)>> \in Seq(Msgs)
         /\ DOMAIN <<Msg("start", last + 1)>> = {1}
         /\ <<Msg("start", last + 1)>>[1].kind = "start"
<1>1. WmTypes
  BY Parts
<1>2. last + 1 \in Id
  BY <1>1, Numbers DEF Id, WmTypes
<1>3. "start" \in Kinds
  BY AnswerKinds
<1> QED BY <1>2, <1>3, OneMsg, MsgType

LEMMA StartAsks ==
  ASSUME Inv, QInv, NEW v \in View, Start(v)
  PROVE  QInv'
<1> USE DEF Start, Quietly, WmStep
<1> QED BY NextStarts, IdleSent

LEMMA AbortAsks ==
  ASSUME Inv, QInv, NEW i \in Id, Abort(i)
  PROVE  QInv'
<1> USE DEF Abort, WmStep
<1>1. "abort" \in Kinds
  BY DEF Kinds
<1>2. /\ <<Msg("abort", i)>> \in Seq(Msgs) /\ DOMAIN <<Msg("abort", i)>> = {1}
      /\ <<Msg("abort", i)>>[1].kind = "abort"
  BY <1>1, OneMsg, MsgType
<1> QED BY <1>2, IdleSent

LEMMA RenameEndsAsks ==
  ASSUME Inv, QInv, NEW d \in Rename, RenameEnds(d)
  PROVE  QInv'
<1> USE DEF RenameEnds, Quietly, WmStep
<1>1. CASE UNCHANGED <<connVars, daemon, toDaemon>>
  <2>1. undefined' \/ UNCHANGED <<dialog, dismissed>>
    OBVIOUS
  <2> QED BY <1>1, <2>1, QuietAsks
<1>2. CASE last < MaxOps /\ Sends(<<Msg("start", last + 1)>>)
  <2> QED BY <1>2, NextStarts, IdleSent
<1> QED BY <1>1, <1>2

LEMMA CloseViewAsks ==
  ASSUME Inv, QInv, NEW v \in View, CloseView(v)
  PROVE  QInv'
BY QuietAsks DEF CloseView, WmStep

LEMMA DeliverAsks ==
  ASSUME Inv, QInv, NEW i \in Id, Deliver(i)
  PROVE  QInv'
BY QuietAsks DEF Deliver, Quietly, WmStep

\* the daemon is there for a slave that is alive
LEMMA WorkingUp ==
  ASSUME QInv, NEW i \in Id, Working(i)
  PROVE  daemon = "up"
<1>1. PICK k \in DOMAIN slaves : slaves[k].id = i
  BY DEF QInv, Recorded
<1>2. slaves # <<>>
  BY <1>1
<1> QED BY <1>2 DEF QInv, Down

\* a button of a question dialog: the answer takes the place of the dialog
LEMMA AnswerSent ==
  ASSUME Inv, QInv, ~undefined, NEW i \in Id, NEW q \in Question, dialog[i] \in DialogsOf(q),
         NEW ms \in Seq(Msgs), Sends(ms),
         \A j \in Id, r \in Question : CountOf(ms, j, AnswersTo(r)) = IF j = i /\ r = q THEN 1 ELSE 0,
         UNCHANGED <<toWm, slaves, slaveVars, dismissed>>, dialog' = [dialog EXCEPT ![i] = "none"]
  PROVE  QInv'
<1>1. Own' /\ Recorded' /\ Down' /\ Conn'
  BY SentFacts
<1>0. WmTypes /\ Wire
  BY Parts
<1>a. \A j \in Id : dialog'[j] = IF j = i THEN "none" ELSE dialog[j]
  BY <1>0 DEF WmTypes
<1>2. ASSUME NEW j \in Id
      PROVE  Asking(j)'
  <2>1. Asking(j) /\ UNCHANGED slave
    BY DEF QInv, slaveVars
  <2>2. ASSUME NEW r \in Question
        PROVE  /\ At(j, r) \in Nat
               /\ ~(j = i /\ r = q) => At(j, r)' = At(j, r)
               /\ j = i /\ r = q => At(j, r) # 0 /\ (Working(j) => At(j, r)' = At(j, r))
    <3>1. At(j, r) \in Nat /\ ToWmHas(j, r) \in Nat /\ OutboxHas(j, r) \in Nat
          /\ MessagesHave(j, r) \in Nat /\ ToDaemonHas(j, r) \in Nat /\ InboxHas(j, r) \in Nat
          /\ Shown(j, r) \in Nat
      BY <1>0, Numbered
    <3>2. At(j, r)' = At(j, r) + (Shown(j, r)' - Shown(j, r))
                      + (IF connected /\ daemon # "up" THEN 0 ELSE CountOf(ms, j, AnswersTo(r)))
      BY SentAt
    <3>3. CASE j = i /\ r = q
      <4>1. Shown(j, r) = 1 /\ Shown(j, r)' = 0
        BY <1>a, <3>3, Kinded DEF Shown
      <4>2. At(j, r) # 0
        BY <3>1, <4>1 DEF At
      <4>3. Working(j) => daemon = "up"
        BY WorkingUp
      <4> QED BY <3>1, <3>2, <3>3, <4>1, <4>2, <4>3
    <3>4. CASE ~(j = i /\ r = q)
      <4>1. CountOf(ms, j, AnswersTo(r)) = 0
        BY <3>4
      <4>2. Shown(j, r)' = Shown(j, r)
        <5>1. CASE j # i
          BY <1>a, <5>1 DEF Shown, DialogsOf
        <5>2. CASE j = i
          BY <1>a, <3>4, <5>2, Kinded DEF Shown
        <5> QED BY <5>1, <5>2
      <4> QED BY <3>1, <3>2, <3>4, <4>1, <4>2
    <3> QED BY <3>3, <3>4
  <2> HIDE DEF Asking
  <2>3. CASE j # i
    BY <2>1, <2>2, <2>3, AskingStays
  <2>4. CASE j = i
    <3>1. CASE Working(j)
      BY <2>1, <2>2, <2>4, <3>1, AskingStays
    <3>2. CASE ~Working(j)
      <4>1. slave[j] # "none"
        BY <2>1, <2>2, <2>4 DEF Asking
      <4> QED BY <2>1, <3>2, <4>1 DEF Asking, Working
    <3> QED BY <3>1, <3>2
  <2> QED BY <2>3, <2>4
<1> QED BY <1>1, <1>2 DEF QInv

\* one answer
LEMMA CountAnswer ==
  ASSUME NEW i \in Id, NEW q \in Question, NEW a \in AnswersTo(q)
  PROVE  /\ a \in Kinds
         /\ \A j \in Id, r \in Question :
              CountOf(<<Msg(a, i)>>, j, AnswersTo(r)) = IF j = i /\ r = q THEN 1 ELSE 0
<1>1. a \in Kinds
  BY Kinded
<1>2. Msg(a, i).id = i /\ Msg(a, i).kind = a
  BY <1>1, MsgType
<1> DEFINE m == Msg(a, i)
<1> HIDE DEF m
<1>3. ASSUME NEW j \in Id, NEW r \in Question
      PROVE  CountOf(<<m>>, j, AnswersTo(r)) = IF j = i /\ r = q THEN 1 ELSE 0
  <2>1. CountOf(<<m>>, j, AnswersTo(r)) = IF m.id = j /\ m.kind \in AnswersTo(r) THEN 1 ELSE 0
    BY CountOne
  <2>2. m.id = i /\ m.kind = a /\ (a \in AnswersTo(r) <=> r = q)
    BY <1>2, Kinded DEF m
  <2> QED BY <2>1, <2>2
<1> QED BY <1>1, <1>3 DEF m

LEMMA AnswerErrorAsks ==
  ASSUME Inv, QInv, NEW i \in Id, AnswerError(i)
  PROVE  QInv'
<1> USE DEF AnswerError, Quietly, WmStep
<1>1. PICK a \in ErrorAnswer : Sends(<<Msg(a, i)>>)
  OBVIOUS
<1> DEFINE q == "error"
<1>2. q \in Question /\ a \in AnswersTo(q) /\ dialog[i] \in DialogsOf(q)
  BY DEF Question, AnswersTo, DialogsOf
<1> HIDE DEF q
<1>3. \A j \in Id, r \in Question :
        CountOf(<<Msg(a, i)>>, j, AnswersTo(r)) = IF j = i /\ r = q THEN 1 ELSE 0
  BY <1>2, CountAnswer
<1>4. <<Msg(a, i)>> \in Seq(Msgs)
  BY <1>2, OneMsg, Kinded
<1> QED BY <1>1, <1>2, <1>3, <1>4, AnswerSent

LEMMA AnswerOverwriteAsks ==
  ASSUME Inv, QInv, NEW i \in Id, AnswerOverwrite(i)
  PROVE  QInv'
<1>0. /\ dialog[i] = "overwrite" /\ dialog' = [dialog EXCEPT ![i] = "none"]
      /\ UNCHANGED <<undefined, dismissed>> /\ ~undefined /\ UNCHANGED <<toWm, slaves, slaveVars>>
  BY DEF AnswerOverwrite, Quietly, WmStep
<1>1. PICK a \in OverwriteAnswer : Sends(<<Msg(a, i)>>)
  BY DEF AnswerOverwrite
<1> DEFINE q == "overwrite"
<1>2. q \in Question /\ a \in AnswersTo(q) /\ dialog[i] \in DialogsOf(q)
  BY <1>0 DEF Question, AnswersTo, DialogsOf
<1> HIDE DEF q
<1>3. \A j \in Id, r \in Question :
        CountOf(<<Msg(a, i)>>, j, AnswersTo(r)) = IF j = i /\ r = q THEN 1 ELSE 0
  BY <1>2, CountAnswer
<1>4. <<Msg(a, i)>> \in Seq(Msgs)
  BY <1>2, OneMsg, Kinded
<1> QED BY <1>0, <1>1, <1>2, <1>3, <1>4, AnswerSent

LEMMA AnswerRenameAsks ==
  ASSUME Inv, QInv, NEW i \in Id, AnswerRename(i)
  PROVE  QInv'
<1> USE DEF AnswerRename, Quietly, WmStep
<1>1. CASE entry[i].view = NoView
  BY <1>1, QuietAsks
<1>2. CASE entry[i].view # NoView
  <2>1. Sends(<<Msg("no", i)>>) /\ dialog' = [dialog EXCEPT ![i] = "none"]
    BY <1>2
  <2> DEFINE q == "overwrite"
             a == "no"
  <2>2. q \in Question /\ a \in AnswersTo(q) /\ dialog[i] \in DialogsOf(q)
    BY DEF Question, AnswersTo, DialogsOf, OverwriteAnswer
  <2>a. Sends(<<Msg(a, i)>>)
    BY <2>1
  <2> HIDE DEF q, a
  <2>3. \A j \in Id, r \in Question :
          CountOf(<<Msg(a, i)>>, j, AnswersTo(r)) = IF j = i /\ r = q THEN 1 ELSE 0
    BY <2>2, CountAnswer
  <2>4. <<Msg(a, i)>> \in Seq(Msgs)
    BY <2>2, OneMsg, Kinded
  <2> QED BY <2>1, <2>2, <2>a, <2>3, <2>4, AnswerSent
<1> QED BY <1>1, <1>2

LEMMA CountTwo ==
  ASSUME NEW x \in Msgs, NEW y \in Msgs, NEW i, NEW kinds, x.kind \notin kinds
  PROVE  CountOf(<<x, y>>, i, kinds) = CountOf(<<y>>, i, kinds)
<1>1. Places(<<x, y>>, i, kinds) = IF y.id = i /\ y.kind \in kinds THEN {2} ELSE {}
  BY DEF Places
<1>2. Cardinality({2}) = 1 /\ Cardinality({}) = 0
  BY FS_Singleton, FS_EmptySet
<1>3. CountOf(<<x, y>>, i, kinds) = Cardinality(Places(<<x, y>>, i, kinds))
  BY DEF CountOf, Places
<1>4. CountOf(<<y>>, i, kinds) = IF y.id = i /\ y.kind \in kinds THEN 1 ELSE 0
  BY CountOne
<1> QED BY <1>1, <1>2, <1>3, <1>4

LEMMA MoveSourceAsks ==
  ASSUME Inv, QInv, NEW i \in Id, MoveSource(i)
  PROVE  QInv'
<1>0. /\ dialog[i] = "device error" /\ UNCHANGED dismissed /\ ~undefined
      /\ UNCHANGED <<toWm, slaves, slaveVars>>
  BY DEF MoveSource, Quietly, WmStep
<1>1. CASE entry[i].life = "freed"
  <2>1. undefined' /\ UNCHANGED <<connVars, daemon, toDaemon>>
    BY <1>1 DEF MoveSource
  <2> QED BY <1>0, <2>1, QuietAsks
<1>2. CASE entry[i].life # "freed"
  <2> DEFINE q == "error"
             a == "give up"
             x == Msg("start", last + 1)
             y == Msg(a, i)
             ms == <<x, y>>
  <2>1. /\ Sends(ms) /\ last < MaxOps
        /\ dialog' = [dialog EXCEPT ![i] = "none"]
    BY <1>2 DEF MoveSource
  <2>2. q \in Question /\ a \in AnswersTo(q) /\ dialog[i] \in DialogsOf(q)
    BY <1>0 DEF Question, AnswersTo, DialogsOf, ErrorAnswer, ErrorDialog
  <2> HIDE DEF q, a
  <2>3. x \in Msgs /\ y \in Msgs /\ x.kind = "start"
    BY <2>1, <2>2, NextStarts, Kinded, MsgType
  <2>a. \A j \in Id, r \in Question : CountOf(<<y>>, j, AnswersTo(r)) = IF j = i /\ r = q THEN 1 ELSE 0
    BY <2>2, CountAnswer
  <2> HIDE DEF x, y
  <2>4. \A r \in Question : x.kind \notin AnswersTo(r)
    BY <2>3, Kinded
  <2>5. ASSUME NEW j \in Id, NEW r \in Question
        PROVE  CountOf(<<x, y>>, j, AnswersTo(r)) = IF j = i /\ r = q THEN 1 ELSE 0
    BY <2>3, <2>4, <2>a, CountTwo
  <2>6. ms \in Seq(Msgs)
    BY <2>3, TwoMsgs
  <2>7. \A j \in Id, r \in Question : CountOf(ms, j, AnswersTo(r)) = IF j = i /\ r = q THEN 1 ELSE 0
    BY <2>5
  <2> HIDE DEF ms
  <2> QED BY <1>0, <2>1, <2>2, <2>6, <2>7, AnswerSent
<1> QED BY <1>1, <1>2

LEMMA DismissAsks ==
  ASSUME Inv, QInv, NEW i \in Id, Dismiss(i)
  PROVE  QInv'
<1> USE DEF Dismiss, WmStep
<1>0. WmTypes /\ Wire
  BY Parts
<1>1. Own' /\ Recorded' /\ Down' /\ Conn'
  BY SameConn DEF connVars, slaveVars
<1>a. \A j \in Id : dialog'[j] = IF j = i THEN "none" ELSE dialog[j]
  BY <1>0 DEF WmTypes
<1>2. PICK q \in Question : dialog[i] \in DialogsOf(q)
  BY <1>0 DEF WmTypes, Question, DialogsOf, ErrorDialog
<1>3. ASSUME NEW j \in Id, NEW r \in Question
      PROVE  /\ At(j, r) \in Nat
             /\ At(j, r)' = IF j = i /\ r = q THEN At(j, r) - 1 ELSE At(j, r)
             /\ j = i /\ r = q => At(j, r) # 0
  <2>1. At(j, r) \in Nat /\ ToWmHas(j, r) \in Nat /\ OutboxHas(j, r) \in Nat
        /\ MessagesHave(j, r) \in Nat /\ ToDaemonHas(j, r) \in Nat /\ InboxHas(j, r) \in Nat
        /\ Shown(j, r) \in Nat
    BY <1>0, Numbered
  <2>2. /\ ToWmHas(j, r)' = ToWmHas(j, r) /\ OutboxHas(j, r)' = OutboxHas(j, r)
        /\ MessagesHave(j, r)' = MessagesHave(j, r) /\ ToDaemonHas(j, r)' = ToDaemonHas(j, r)
        /\ InboxHas(j, r)' = InboxHas(j, r)
    BY DEF ToWmHas, OutboxHas, MessagesHave, ToDaemonHas, InboxHas, connVars, slaveVars
  <2>3. CASE j = i /\ r = q
    <3>1. Shown(j, r) = 1 /\ Shown(j, r)' = 0
      BY <1>2, <1>a, <2>3, Kinded DEF Shown
    <3> QED BY <2>1, <2>2, <2>3, <3>1 DEF At
  <2>4. CASE ~(j = i /\ r = q)
    <3>1. Shown(j, r)' = Shown(j, r)
      <4>1. CASE j # i
        BY <1>a, <4>1 DEF Shown, DialogsOf
      <4>2. CASE j = i
        BY <1>2, <1>a, <2>4, <4>2, Kinded DEF Shown
      <4> QED BY <4>1, <4>2
    <3>2. At(j, r)' = At(j, r)
      BY <2>2, <3>1 DEF At
    <3> QED BY <2>1, <2>4, <3>2
  <2> QED BY <2>3, <2>4
<1>4. ASSUME NEW j \in Id
      PROVE  Asking(j)'
  <2>1. Asking(j) /\ UNCHANGED slave
    BY DEF QInv, slaveVars
  <2>2. CASE j # i
    <3>1. (j \in dismissed' <=> j \in dismissed) /\ \A r \in Question : At(j, r)' = At(j, r)
      BY <1>3, <2>2
    <3> QED BY <2>1, <3>1, AskingStays
  <2>3. CASE j = i
    <3>1. At(j, q) \in Nat \ {0} /\ At(j, q)' = At(j, q) - 1
          /\ \A r \in Question \ {q} : At(j, r)' = At(j, r)
      BY <1>3, <2>3
    <3>2. slave[j] \notin {"none", "running"} /\ (slave[j] \in Question => slave[j] = q)
      BY <2>1, <3>1 DEF Asking
    <3>3. slave[j] = q => At(j, q) = 1 /\ \A r \in Question \ {q} : At(j, r) = 0
      BY <2>1, <3>1 DEF Asking
    <3> QED BY <2>1, <2>3, <3>1, <3>2, <3>3 DEF Asking
  <2> QED BY <2>2, <2>3
<1> QED BY <1>1, <1>4 DEF QInv

-----------------------------------------------------------------------------
(* A message of the daemon is taken.                                       *)

LEMMA TakenFrame ==
  ASSUME Inv, QInv, NEW kinds, Takes(kinds)
  PROVE  /\ Framed' /\ ~Greets'
         /\ Head(toWm).kind # "eof" => Parting' = Parting
         /\ Head(toWm).kind = "eof" => Parting /\ ~Parting'
<1> DEFINE n == Len(toWm)
<1>1. toWm \in Seq(Msgs) /\ toWm # <<>> /\ toWm' = Tail(toWm)
  BY Parts, Pipes DEF Takes
<1>2. /\ n \in Nat \ {0} /\ Len(Tail(toWm)) = n - 1 /\ Head(toWm) = toWm[1]
      /\ \A k \in 1..n - 1 : Tail(toWm)[k] = toWm[k + 1]
      /\ Tail(toWm) \in Seq(Msgs) /\ DOMAIN toWm = 1..n
  BY <1>1, HeadTailProperties, EmptySeq, LenProperties
<1>3. DOMAIN Tail(toWm) = 1..n - 1 /\ (Tail(toWm) = <<>> <=> n = 1)
  BY <1>2, LenProperties, EmptySeq
<1>4. \A k \in 1..n : (toWm[k].kind = "hello" => k = 1) /\ (toWm[k].kind = "eof" => k = n)
  BY <1>2 DEF QInv, Conn, Framed
<1> HIDE DEF n
<1>5. \A k \in 1..n - 1 : Tail(toWm)[k].kind # "hello" /\ (Tail(toWm)[k].kind = "eof" => k = n - 1)
  <2> SUFFICES ASSUME NEW k \in 1..n - 1
               PROVE  Tail(toWm)[k].kind # "hello" /\ (Tail(toWm)[k].kind = "eof" => k = n - 1)
    OBVIOUS
  <2>1. k + 1 \in 1..n /\ k + 1 # 1 /\ (k + 1 = n => k = n - 1)
    BY <1>2
  <2> QED BY <1>2, <1>4, <2>1
<1>6. Framed'
  BY <1>1, <1>2, <1>3, <1>5 DEF Framed, n
<1>7. n # 1 => 1 \in 1..n - 1 /\ n - 1 \in 1..n - 1 /\ (n - 1) + 1 = n
  BY <1>2
<1>8. ~Greets'
  <2>1. Tail(toWm) # <<>> => Head(Tail(toWm)) = Tail(toWm)[1]
    BY <1>2, HeadTailProperties
  <2> QED BY <1>1, <1>3, <1>5, <1>7, <2>1 DEF Greets
<1>9. Parting' <=> n # 1 /\ toWm[n].kind = "eof"
  BY <1>1, <1>2, <1>3, <1>7 DEF Parting
<1>10. Parting <=> toWm[n].kind = "eof"
  BY <1>1 DEF Parting, n
<1>11. Parting' \in BOOLEAN /\ Parting \in BOOLEAN
  BY DEF Parting
<1>12. Head(toWm).kind = "eof" => n = 1 /\ toWm[n].kind = "eof"
  <2>1. 1 \in 1..n /\ Head(toWm) = toWm[1]
    BY <1>2
  <2> QED BY <1>4, <2>1
<1>13. n = 1 => toWm[n] = Head(toWm)
  BY <1>2
<1> QED BY <1>6, <1>8, <1>9, <1>10, <1>11, <1>12, <1>13

LEMMA TakenFacts ==
  ASSUME Inv, QInv, NEW kinds, Takes(kinds)
  PROVE  /\ ~undefined /\ Head(toWm).kind \in kinds /\ Head(toWm) \in Msgs
         /\ UNCHANGED <<slaves, slaveVars, dismissed>>
         /\ Own' /\ Recorded'
         /\ \A j \in Id : \A q :
              /\ OutboxHas(j, q)' = OutboxHas(j, q) /\ InboxHas(j, q)' = InboxHas(j, q)
              /\ ToWmHas(j, q)' \in Nat
              /\ ToWmHas(j, q) = ToWmHas(j, q)'
                                   + (IF Head(toWm).id = j /\ Head(toWm).kind = q THEN 1 ELSE 0)
<1>1. /\ toWm \in Seq(Msgs) /\ toWm # <<>> /\ toWm' = Tail(toWm) /\ ~undefined
      /\ Head(toWm).kind \in kinds /\ UNCHANGED <<slaves, slaveVars, dismissed>>
  BY Parts, Pipes DEF Takes
<1>2. Own' /\ Recorded'
  BY <1>1 DEF QInv, Own, Recorded, Working, slaveVars
<1>3. ASSUME NEW j \in Id, NEW q
      PROVE  /\ OutboxHas(j, q)' = OutboxHas(j, q) /\ InboxHas(j, q)' = InboxHas(j, q)
             /\ ToWmHas(j, q)' \in Nat
             /\ ToWmHas(j, q) = ToWmHas(j, q)'
                                  + (IF Head(toWm).id = j /\ Head(toWm).kind = q THEN 1 ELSE 0)
  <2>1. OutboxHas(j, q)' = OutboxHas(j, q) /\ InboxHas(j, q)' = InboxHas(j, q)
    BY <1>1 DEF OutboxHas, InboxHas, slaveVars
  <2>2. /\ Tail(toWm) \in Seq(Msgs)
        /\ CountOf(toWm, j, {q}) =
             CountOf(Tail(toWm), j, {q})
               + (IF Head(toWm).id = j /\ Head(toWm).kind \in {q} THEN 1 ELSE 0)
    BY <1>1, CountTail
  <2>3. CountOf(Tail(toWm), j, {q}) \in Nat
    BY <2>2, CountPlaces
  <2> QED BY <1>1, <2>1, <2>2, <2>3 DEF ToWmHas
<1>4. Head(toWm) \in Msgs
  BY <1>1, TailFacts
<1> QED BY <1>1, <1>2, <1>3, <1>4

\* not a question: no dialog changes
LEMMA TakenIdle ==
  ASSUME Inv, QInv, NEW kinds, Takes(kinds), kinds \cap Question = {}, NoReply,
         UNCHANGED <<undefined, dialog, messages>>, Conn'
  PROVE  QInv'
<1>1. UNCHANGED <<daemon, toDaemon>>
  BY DEF NoReply
<1>2. /\ ~undefined /\ Head(toWm).kind \in kinds
      /\ UNCHANGED <<slaves, slaveVars, dismissed>> /\ Own' /\ Recorded'
  BY TakenFacts
<1>3. Down'
  BY <1>1, <1>2 DEF QInv, Down
<1>4. ASSUME NEW j \in Id
      PROVE  Asking(j)'
  <2>1. Asking(j) /\ UNCHANGED <<slave, dismissed>>
    BY <1>2 DEF QInv, slaveVars
  <2>2. ASSUME NEW q \in Question
        PROVE  At(j, q)' = At(j, q)
    <3>1. /\ OutboxHas(j, q)' = OutboxHas(j, q) /\ InboxHas(j, q)' = InboxHas(j, q)
          /\ ToWmHas(j, q)' \in Nat
          /\ ToWmHas(j, q) = ToWmHas(j, q)'
                               + (IF Head(toWm).id = j /\ Head(toWm).kind = q THEN 1 ELSE 0)
      BY TakenFacts
    <3>2. Head(toWm).kind # q
      BY <1>2
    <3>3. ToWmHas(j, q)' = ToWmHas(j, q)
      BY <3>1, <3>2
    <3>4. /\ MessagesHave(j, q)' = MessagesHave(j, q) /\ ToDaemonHas(j, q)' = ToDaemonHas(j, q)
          /\ Shown(j, q)' = Shown(j, q)
      BY <1>1 DEF MessagesHave, ToDaemonHas, Shown
    <3> QED BY <3>1, <3>3, <3>4 DEF At
  <2> QED BY <2>1, <2>2, AskingStays
<1> QED BY <1>2, <1>3, <1>4 DEF QInv

\* neither the first nor the last message of a daemon
LEMMA TakenConn ==
  ASSUME Inv, QInv, NEW kinds, Takes(kinds), kinds \cap {"hello", "eof"} = {}, NoReply,
         UNCHANGED <<connected, spawning>>
  PROVE  Conn'
<1>1. Framed' /\ ~Greets' /\ Parting' = Parting
  BY TakenFrame DEF Takes
<1>2. ~Greets
  BY DEF Greets, Takes
<1>3. UNCHANGED daemon
  BY DEF NoReply
<1> QED BY <1>1, <1>2, <1>3 DEF QInv, Conn, Alive

LEMMA ReportAsks ==
  ASSUME Inv, QInv, Ok \/ ProgressArrives \/ QuitArrives
  PROVE  QInv'
<1>1. CASE Ok
  <2>1. Conn'
    BY <1>1, TakenConn DEF Ok
  <2>2. {"ok"} \cap Question = {}
    BY DEF Question
  <2> QED BY <1>1, <2>1, <2>2, TakenIdle DEF Ok
<1>2. CASE ProgressArrives
  <2>1. Conn'
    BY <1>2, TakenConn DEF ProgressArrives, connVars
  <2>2. {"progress", "complete"} \cap Question = {}
    BY DEF Question
  <2> QED BY <1>2, <2>1, <2>2, TakenIdle DEF ProgressArrives, connVars
<1>3. CASE QuitArrives
  <2>1. Conn'
    BY <1>3, TakenConn DEF QuitArrives, connVars
  <2>2. {"quit"} \cap Question = {}
    BY DEF Question
  <2> QED BY <1>3, <2>1, <2>2, TakenIdle DEF QuitArrives, connVars
<1> QED BY <1>1, <1>2, <1>3

LEMMA ConnectionEndsAsks ==
  ASSUME Inv, QInv, ConnectionEnds
  PROVE  QInv'
<1>1. /\ Takes({"eof"}) /\ NoReply /\ UNCHANGED <<undefined, dialog, messages, spawning>>
      /\ connected' = FALSE /\ Head(toWm).kind = "eof"
  BY DEF ConnectionEnds, Takes
<1>2. Framed' /\ ~Greets' /\ Parting /\ ~Parting' /\ ~Greets
  BY <1>1, TakenFrame DEF Greets
<1>3. UNCHANGED daemon
  BY <1>1 DEF NoReply
<1>4. connected /\ daemon = "down"
  BY <1>2 DEF QInv, Conn, Alive
<1>5. Conn'
  BY <1>1, <1>2, <1>3, <1>4 DEF Conn
<1>6. {"eof"} \cap Question = {}
  BY DEF Question
<1> QED BY <1>1, <1>5, <1>6, TakenIdle

LEMMA HelloAsks ==
  ASSUME Inv, QInv, Hello
  PROVE  QInv'
<1>1. /\ Takes({"hello"}) /\ connected' = TRUE /\ spawning' = FALSE
      /\ toDaemon' = (IF daemon = "up" THEN toDaemon \o messages ELSE toDaemon)
      /\ messages' = <<>> /\ UNCHANGED <<undefined, dialog, daemon>>
      /\ Head(toWm).kind = "hello"
  BY DEF Hello, Takes
<1>2. Framed' /\ ~Greets' /\ Parting' = Parting /\ Greets
  BY <1>1, TakenFrame DEF Greets, Takes
<1>3. ~connected /\ spawning /\ Alive
  BY <1>2 DEF QInv, Conn
<1>4. Conn'
  BY <1>1, <1>2, <1>3 DEF Conn, Alive
<1>5. /\ ~undefined /\ UNCHANGED <<slaves, slaveVars, dismissed>> /\ Own' /\ Recorded'
  BY <1>1, TakenFacts
<1>6. Down'
  BY <1>1, <1>5 DEF QInv, Down
<1>7. Wire /\ toDaemon \in Seq(Msgs) /\ messages \in Seq(Msgs)
  BY Parts, Pipes
<1>8. ASSUME NEW j \in Id, NEW q \in Question
      PROVE  /\ At(j, q) \in Nat
             /\ daemon = "up" => At(j, q)' = At(j, q)
             /\ At(j, q) = 0 => At(j, q)' = 0
  <2>1. /\ OutboxHas(j, q)' = OutboxHas(j, q) /\ InboxHas(j, q)' = InboxHas(j, q)
        /\ ToWmHas(j, q)' \in Nat
        /\ ToWmHas(j, q) = ToWmHas(j, q)'
                             + (IF Head(toWm).id = j /\ Head(toWm).kind = q THEN 1 ELSE 0)
    BY <1>1, TakenFacts
  <2>2. Head(toWm).kind # q
    BY <1>1 DEF Question
  <2>3. ToWmHas(j, q)' = ToWmHas(j, q)
    BY <2>1, <2>2
  <2>4. MessagesHave(j, q)' = 0
    BY <1>1, CountNone DEF MessagesHave
  <2>5. Shown(j, q)' = Shown(j, q)
    BY <1>1 DEF Shown
  <2>6. /\ OutboxHas(j, q) \in Nat /\ InboxHas(j, q) \in Nat /\ ToWmHas(j, q) \in Nat
        /\ MessagesHave(j, q) \in Nat /\ ToDaemonHas(j, q) \in Nat /\ Shown(j, q) \in Nat
        /\ At(j, q) \in Nat
    BY <1>7, Numbered
  <2>7. CASE daemon = "up"
    <3>1. CountOf(toDaemon \o messages, j, AnswersTo(q)) =
            CountOf(toDaemon, j, AnswersTo(q)) + CountOf(messages, j, AnswersTo(q))
      BY <1>7, CountJoined
    <3>2. ToDaemonHas(j, q)' = ToDaemonHas(j, q) + MessagesHave(j, q)
      BY <1>1, <2>7, <3>1 DEF ToDaemonHas, MessagesHave
    <3> QED BY <2>1, <2>3, <2>4, <2>5, <2>6, <2>7, <3>2 DEF At
  <2>8. CASE daemon # "up"
    <3>1. ToDaemonHas(j, q)' = ToDaemonHas(j, q)
      BY <1>1, <2>8 DEF ToDaemonHas
    <3> QED BY <2>1, <2>3, <2>4, <2>5, <2>6, <2>8, <3>1 DEF At
  <2> QED BY <2>7, <2>8
<1>9. ASSUME NEW j \in Id
      PROVE  Asking(j)'
  <2>1. Asking(j) /\ UNCHANGED <<slave, dismissed>>
    BY <1>5 DEF QInv, slaveVars
  <2>2. CASE daemon = "up"
    BY <1>8, <2>1, <2>2, AskingStays
  <2>3. CASE daemon # "up"
    <3>1. ~Working(j)
      BY <2>3, WorkingUp
    <3>2. slave[j] = "none" => j \notin dismissed /\ \A q \in Question : At(j, q)' = 0
      BY <1>8, <2>1 DEF Asking
    <3> QED BY <2>1, <3>1, <3>2 DEF Asking, Working, Question
  <2> QED BY <2>2, <2>3
<1> QED BY <1>4, <1>5, <1>6, <1>9 DEF QInv

LEMMA OneOfSix ==
  \A a, b, c, d, e, f, x \in Nat : b = x + 1 /\ a + b + c + d + e + f = 1 => c = 0 /\ x = 0 /\ b = 1
OBVIOUS

\* a question becomes a dialog
LEMMA QuestionArrives ==
  ASSUME Inv, QInv, NEW q \in Question, Takes({q}), NoReply, UNCHANGED <<connVars, undefined>>,
         \A j \in Id : j # Head(toWm).id => dialog'[j] = dialog[j],
         Working(Head(toWm).id) => dialog'[Head(toWm).id] \in DialogsOf(q)
  PROVE  QInv'
<1> DEFINE i == Head(toWm).id
<1>0. Head(toWm).kind = q /\ q \in Kinds \ {"start"} /\ {q} \cap {"hello", "eof"} = {}
  BY AnswerKinds DEF Takes, Question
<1>1. i \in Id /\ Wire
  <2>1. Wire /\ {q} \in SUBSET (Kinds \ {"start"})
    BY <1>0, Parts
  <2> QED BY <2>1, TakenId
<1>2. /\ ~undefined /\ UNCHANGED <<slaves, slaveVars, dismissed>> /\ Own' /\ Recorded'
      /\ UNCHANGED <<daemon, toDaemon, messages>>
  BY TakenFacts DEF NoReply, connVars
<1>3. Conn'
  BY <1>0, TakenConn DEF connVars
<1>4. Down'
  BY <1>2 DEF QInv, Down
<1> HIDE DEF i
<1>5. ASSUME NEW j \in Id, NEW r \in Question
      PROVE  /\ OutboxHas(j, r)' = OutboxHas(j, r) /\ InboxHas(j, r)' = InboxHas(j, r)
             /\ MessagesHave(j, r)' = MessagesHave(j, r) /\ ToDaemonHas(j, r)' = ToDaemonHas(j, r)
             /\ ToWmHas(j, r)' \in Nat
             /\ ToWmHas(j, r) = ToWmHas(j, r)' + (IF j = i /\ r = q THEN 1 ELSE 0)
  <2>1. /\ OutboxHas(j, r)' = OutboxHas(j, r) /\ InboxHas(j, r)' = InboxHas(j, r)
        /\ ToWmHas(j, r)' \in Nat
        /\ ToWmHas(j, r) = ToWmHas(j, r)'
                             + (IF Head(toWm).id = j /\ Head(toWm).kind = r THEN 1 ELSE 0)
    BY TakenFacts
  <2>2. MessagesHave(j, r)' = MessagesHave(j, r) /\ ToDaemonHas(j, r)' = ToDaemonHas(j, r)
    BY <1>2 DEF MessagesHave, ToDaemonHas
  <2>3. Head(toWm).id = j /\ Head(toWm).kind = r <=> j = i /\ r = q
    BY <1>0 DEF i
  <2> QED BY <2>1, <2>2, <2>3
<1>6. ASSUME NEW j \in Id
      PROVE  Asking(j)'
  <2>1. Asking(j) /\ UNCHANGED <<slave, dismissed>>
    BY <1>2 DEF QInv, slaveVars
  <2>2. \A r \in Question :
          /\ OutboxHas(j, r) \in Nat /\ InboxHas(j, r) \in Nat /\ ToWmHas(j, r) \in Nat
          /\ MessagesHave(j, r) \in Nat /\ ToDaemonHas(j, r) \in Nat /\ Shown(j, r) \in Nat
          /\ At(j, r) \in Nat
    BY <1>1, Numbered
  <2>3. CASE j # i
    <3>1. ASSUME NEW r \in Question
          PROVE  At(j, r)' = At(j, r)
      <4>1. ToWmHas(j, r)' = ToWmHas(j, r)
        BY <1>5, <2>3
      <4>2. Shown(j, r)' = Shown(j, r)
        BY <2>3 DEF Shown, i
      <4> QED BY <1>5, <4>1, <4>2 DEF At
    <3> QED BY <2>1, <3>1, AskingStays
  <2>4. CASE j = i
    <3>1. ToWmHas(j, q) = ToWmHas(j, q)' + 1 /\ ToWmHas(j, q)' \in Nat
      BY <1>5, <2>4
    <3>2. At(j, q) # 0
      BY <2>2, <3>1 DEF At
    <3>3. slave[j] \notin {"none", "running"} /\ (slave[j] \in Question => slave[j] = q)
      BY <2>1, <3>2 DEF Asking
    <3>4. CASE slave[j] = q
      <4>1. At(j, q) = 1 /\ j \notin dismissed /\ \A r \in Question \ {q} : At(j, r) = 0
        BY <2>1, <3>2, <3>4 DEF Asking
      <4>a. At(j, q) = OutboxHas(j, q) + ToWmHas(j, q) + Shown(j, q)
                         + MessagesHave(j, q) + ToDaemonHas(j, q) + InboxHas(j, q)
        BY DEF At
      <4>b. /\ OutboxHas(j, q) \in Nat /\ InboxHas(j, q) \in Nat /\ ToWmHas(j, q) \in Nat
            /\ MessagesHave(j, q) \in Nat /\ ToDaemonHas(j, q) \in Nat /\ Shown(j, q) \in Nat
        BY <2>2
      <4>2. Shown(j, q) = 0 /\ ToWmHas(j, q)' = 0 /\ ToWmHas(j, q) = 1
        <5>1. At(j, q) = 1
          BY <4>1
        <5>2. OutboxHas(j, q) + ToWmHas(j, q) + Shown(j, q)
                + MessagesHave(j, q) + ToDaemonHas(j, q) + InboxHas(j, q) = 1
          BY <4>a, <5>1
        <5>3. Shown(j, q) = 0
          BY <3>1, <4>b, <5>2, OneOfSix
        <5>4. ToWmHas(j, q)' = 0
          BY <3>1, <4>b, <5>2, OneOfSix
        <5>5. ToWmHas(j, q) = 1
          BY <3>1, <5>4
        <5> QED BY <5>3, <5>4, <5>5
      <4>3. dialog'[j] \in DialogsOf(q)
        BY <2>4, <3>4 DEF Working, i
      <4>4. Shown(j, q)' = 1
        BY <4>3 DEF Shown, DialogsOf
      <4>5. At(j, q)' = 1
        BY <1>5, <2>2, <4>1, <4>2, <4>4 DEF At
      <4>6. ASSUME NEW r \in Question \ {q}
            PROVE  At(j, r)' = 0
        <5>1. At(j, r) = 0 /\ Shown(j, r)' = 0
          BY <4>1, <4>3, Kinded DEF Shown
        <5>a. At(j, r) = OutboxHas(j, r) + ToWmHas(j, r) + Shown(j, r)
                           + MessagesHave(j, r) + ToDaemonHas(j, r) + InboxHas(j, r)
          BY DEF At
        <5>b. /\ OutboxHas(j, r) \in Nat /\ InboxHas(j, r) \in Nat /\ ToWmHas(j, r) \in Nat
              /\ MessagesHave(j, r) \in Nat /\ ToDaemonHas(j, r) \in Nat /\ Shown(j, r) \in Nat
          BY <2>2
        <5>2. Shown(j, r) = 0
          BY <5>1, <5>a, <5>b
        <5>3. ToWmHas(j, r)' = ToWmHas(j, r)
          BY <1>5, <2>2
        <5> QED BY <1>5, <5>1, <5>2, <5>3 DEF At
      <4> QED BY <2>1, <3>3, <3>4, <4>1, <4>5, <4>6 DEF Asking
    <3>5. CASE slave[j] # q
      BY <2>1, <3>3, <3>5 DEF Asking
    <3> QED BY <3>4, <3>5
  <2> QED BY <2>3, <2>4
<1> QED BY <1>2, <1>3, <1>4, <1>6 DEF QInv

LEMMA ErrorArrivesAsks ==
  ASSUME Inv, QInv, ErrorArrives
  PROVE  QInv'
<1> DEFINE i == Head(toWm).id
           q == "error"
<1>1. Takes({q}) /\ UNCHANGED connVars /\ NoReply /\ ~undefined
  BY DEF ErrorArrives, Takes
<1>2. i \in Id /\ WmTypes /\ Book /\ Wire
  <2>1. {q} \in SUBSET (Kinds \ {"start"})
    BY DEF Kinds, Question
  <2> QED BY <1>1, <2>1, Parts, TakenId
<1>3. CASE entry[i].listed /\ entry[i].view = NoView
  <2>1. undefined' = TRUE
    BY <1>3 DEF ErrorArrives
  <2>2. Conn'
    BY <1>1, TakenConn DEF connVars
  <2>3. Own' /\ Recorded' /\ UNCHANGED slaves
    BY <1>1, TakenFacts
  <2>4. Down'
    BY <1>1, <2>3 DEF QInv, Down, NoReply
  <2> QED BY <2>1, <2>2, <2>3, <2>4 DEF QInv
<1>4. CASE ~(entry[i].listed /\ entry[i].view = NoView)
  <2>1. PICK k \in ErrorDialog :
          dialog' = [dialog EXCEPT ![i] = IF entry[i].listed THEN k ELSE @]
    BY <1>4 DEF ErrorArrives
  <2>2. UNCHANGED undefined
    BY <1>4 DEF ErrorArrives
  <2>3. \A j \in Id : j # i => dialog'[j] = dialog[j]
    BY <1>2, <2>1 DEF WmTypes
  <2>4. Working(i) => entry[i].listed
    <3>1. i > last => slave[i] = "none"
      BY <1>2, Pipes
    <3>2. i \in 1..last /\ ~entry[i].listed => slave[i] = "dead"
      BY DEF Inv, Gone
    <3>3. i > last \/ i \in 1..last
      BY <1>2, LastType DEF Id
    <3> QED BY <3>1, <3>2, <3>3 DEF Working, Question
  <2>5. Working(i) => dialog'[i] \in DialogsOf(q)
    BY <1>2, <2>1, <2>4 DEF WmTypes, DialogsOf
  <2>6. q \in Question
    BY DEF Question
  <2> HIDE DEF q
  <2> QED BY <1>1, <2>2, <2>3, <2>5, <2>6, QuestionArrives
<1> QED BY <1>3, <1>4

LEMMA OverwriteArrivesAsks ==
  ASSUME Inv, QInv, OverwriteArrives
  PROVE  QInv'
<1> DEFINE i == Head(toWm).id
           q == "overwrite"
<1>1. /\ Takes({q}) /\ UNCHANGED <<connVars, undefined>> /\ NoReply
      /\ dialog' = [dialog EXCEPT ![i] = "overwrite"]
  BY DEF OverwriteArrives
<1>2. i \in Id /\ WmTypes
  <2>1. {q} \in SUBSET (Kinds \ {"start"})
    BY DEF Kinds, Question
  <2> QED BY <1>1, <2>1, Parts, TakenId
<1>3. \A j \in Id : j # i => dialog'[j] = dialog[j]
  BY <1>1, <1>2 DEF WmTypes
<1>4. dialog'[i] \in DialogsOf(q) /\ q \in Question
  BY <1>1, <1>2 DEF WmTypes, DialogsOf, Question
<1> HIDE DEF q
<1> QED BY <1>1, <1>3, <1>4, QuestionArrives

-----------------------------------------------------------------------------
(* The daemon.                                                             *)

\* what it appends is neither its first nor its last message
LEMMA SaidConn ==
  ASSUME Inv, QInv, daemon = "up", UNCHANGED <<daemon, connected, spawning>>,
         NEW m \in Msgs, m.kind \notin {"hello", "eof"}, toWm' = Append(toWm, m)
  PROVE  Conn'
<1> DEFINE n == Len(toWm)
<1>1. toWm \in Seq(Msgs)
  BY Parts, Pipes
<1>2. /\ n \in Nat /\ Len(Append(toWm, m)) = n + 1 /\ DOMAIN Append(toWm, m) = 1..n + 1
      /\ \A k \in 1..n : Append(toWm, m)[k] = toWm[k]
      /\ Append(toWm, m)[n + 1] = m /\ Append(toWm, m) # <<>> /\ DOMAIN toWm = 1..n
      /\ Append(toWm, m) \in Seq(Msgs)
  BY <1>1, AppendProperties, LenProperties
<1>3. ~Parting /\ (connected <=> ~Greets) /\ (Greets => spawning) /\ (connected => ~spawning)
  BY DEF QInv, Conn, Alive
<1>4. toWm # <<>> => n # 0 /\ toWm[n].kind # "eof"
  BY <1>1, <1>3, EmptySeq DEF Parting
<1>5. \A k \in 1..n : (toWm[k].kind = "hello" => k = 1) /\ toWm[k].kind # "eof"
  <2>1. \A k \in 1..n : (toWm[k].kind = "hello" => k = 1) /\ (toWm[k].kind = "eof" => k = n)
    BY <1>2 DEF QInv, Conn, Framed
  <2>2. 1..n # {} => toWm # <<>>
    BY <1>1, EmptySeq
  <2> QED BY <1>4, <2>1, <2>2
<1>6. Framed'
  <2>1. \A k \in 1..n + 1 : k \in 1..n \/ k = n + 1
    BY <1>2
  <2> QED BY <1>2, <1>5, <2>1 DEF Framed
<1>7. ~Parting'
  BY <1>2 DEF Parting
<1>8. Greets' <=> Greets
  <2>1. Head(toWm') = toWm'[1]
    BY <1>2, HeadTailProperties
  <2>2. toWm # <<>> => Head(toWm) = toWm[1] /\ 1 \in 1..n
    BY <1>1, <1>2, HeadTailProperties, EmptySeq
  <2>3. toWm = <<>> => n + 1 = 1
    BY <1>1, EmptySeq
  <2> QED BY <1>2, <2>1, <2>2, <2>3 DEF Greets
<1> QED BY <1>3, <1>6, <1>7, <1>8 DEF Conn, Alive

\* a slave that waits for the daemon to start it, or to be told, waits on
LEMMA FewerAsks ==
  ASSUME NEW i, Asking(i), ~Working(i), slave'[i] = slave[i], i \in dismissed' <=> i \in dismissed,
         \A q \in Question : At(i, q) = 0 => At(i, q)' = 0
  PROVE  Asking(i)'
BY DEF Asking, Working, Question

LEMMA DaemonStartsAsks ==
  ASSUME Inv, QInv, DaemonStarts
  PROVE  QInv'
<1>1. /\ daemon = "starting" /\ daemon' = "up" /\ toWm' = <<Msg("hello", 0)>>
      /\ HelperStep /\ UNCHANGED <<toDaemon, slaves, slaveVars, mishaps>>
  BY DEF DaemonStarts
<1>2. Wire /\ Msg("hello", 0) \in Msgs /\ Msg("hello", 0).kind = "hello"
  BY Parts, HelperMsgs
<1>3. Own' /\ Recorded' /\ Down'
  BY <1>1 DEF QInv, Own, Recorded, Working, Down, slaveVars
<1>4. ~connected /\ ~Greets /\ spawning /\ UNCHANGED <<connected, spawning>>
  BY <1>1 DEF QInv, Conn, Alive, HelperStep, connVars
<1> DEFINE m == Msg("hello", 0)
<1>a. m.kind = "hello" /\ toWm' = <<m>>
  BY <1>1, <1>2
<1> HIDE DEF m
<1>5. Framed' /\ Greets' /\ ~Parting'
  <2>1. /\ Len(<<m>>) = 1 /\ Head(<<m>>) = m /\ <<m>>[1] = m /\ DOMAIN <<m>> = {1} /\ <<m>> # <<>>
    OBVIOUS
  <2> QED BY <1>a, <2>1 DEF Framed, Greets, Parting
<1>6. Conn'
  BY <1>1, <1>4, <1>5 DEF Conn, Alive
<1>7. ASSUME ~undefined', NEW j \in Id
      PROVE  Asking(j)'
  <2>1. Asking(j) /\ UNCHANGED <<slave, dismissed>>
    BY <1>1, <1>7 DEF QInv, HelperStep, wmVars, slaveVars
  <2>2. ~Working(j)
    BY <1>1, WorkingUp
  <2>3. ASSUME NEW q \in Question, At(j, q) = 0
        PROVE  At(j, q)' = 0
    <3>1. CountOf(<<m>>, j, {q}) = IF m.id = j /\ m.kind \in {q} THEN 1 ELSE 0
      BY CountOne
    <3>2. ToWmHas(j, q)' = 0
      BY <1>a, <3>1 DEF ToWmHas, Question
    <3>3. /\ OutboxHas(j, q)' = OutboxHas(j, q) /\ InboxHas(j, q)' = InboxHas(j, q)
          /\ Shown(j, q)' = Shown(j, q)
          /\ MessagesHave(j, q)' = MessagesHave(j, q) /\ ToDaemonHas(j, q)' = ToDaemonHas(j, q)
      BY <1>1 DEF OutboxHas, InboxHas, Shown, MessagesHave, ToDaemonHas, HelperStep, wmVars,
         connVars, slaveVars
    <3>4. /\ OutboxHas(j, q) \in Nat /\ InboxHas(j, q) \in Nat /\ ToWmHas(j, q) \in Nat
          /\ MessagesHave(j, q) \in Nat /\ ToDaemonHas(j, q) \in Nat /\ Shown(j, q) \in Nat
      BY <1>2, Numbered
    <3> QED BY <2>3, <3>2, <3>3, <3>4 DEF At
  <2> QED BY <2>1, <2>2, <2>3, FewerAsks
<1> QED BY <1>3, <1>6, <1>7 DEF QInv

\* the daemon goes: its slaves are lost and its connection ends
LEMMA DaemonEndsAsks ==
  ASSUME Inv, QInv, HelperStep, DaemonEnds, daemon # "down"
  PROVE  QInv'
<1>1. /\ daemon' = "down" /\ toDaemon' = <<>> /\ slaves' = <<>>
      /\ toWm' = (IF daemon = "up" THEN Append(toWm, Msg("eof", 0)) ELSE toWm)
      /\ slave' = [i \in Id |-> IF slave[i] \in {"none", "dead"} THEN slave[i] ELSE "lost"]
      /\ inbox' = [i \in Id |-> <<>>] /\ outbox' = [i \in Id |-> <<>>]
      /\ UNCHANGED <<undefined, dialog, dismissed, connected, spawning, messages>>
  BY DEF DaemonEnds, HelperStep, wmVars, connVars
<1>2. Wire /\ toWm \in Seq(Msgs) /\ Msg("eof", 0) \in Msgs /\ Msg("eof", 0).kind = "eof"
  BY Parts, Pipes, HelperMsgs
<1> DEFINE m == Msg("eof", 0)
           n == Len(toWm)
<1>a. m \in Msgs /\ m.kind = "eof" /\ toWm' = (IF daemon = "up" THEN Append(toWm, m) ELSE toWm)
  BY <1>1, <1>2
<1> HIDE DEF m
<1>3. Own' /\ Recorded' /\ Down'
  BY <1>1 DEF Own, Recorded, Working, Down, Question
<1>4. Conn'
  <2>1. CASE daemon # "up"
    <3>1. Framed' /\ Greets' = Greets /\ Parting' = Parting
      BY <1>1, <2>1 DEF QInv, Conn, Framed, Greets, Parting
    <3> QED BY <1>1, <2>1, <3>1 DEF QInv, Conn, Alive
  <2>2. CASE daemon = "up"
    <3>1. /\ n \in Nat /\ Len(Append(toWm, m)) = n + 1 /\ DOMAIN Append(toWm, m) = 1..n + 1
          /\ \A k \in 1..n : Append(toWm, m)[k] = toWm[k]
          /\ Append(toWm, m)[n + 1] = m /\ Append(toWm, m) # <<>> /\ DOMAIN toWm = 1..n
          /\ Append(toWm, m) \in Seq(Msgs)
      BY <1>2, <1>a, AppendProperties, LenProperties
    <3>2. ~Parting /\ (connected <=> ~Greets) /\ (Greets => spawning) /\ (connected => ~spawning)
      BY <2>2 DEF QInv, Conn, Alive
    <3>3. toWm # <<>> => n # 0 /\ toWm[n].kind # "eof"
      BY <1>2, <3>2, EmptySeq DEF Parting
    <3>4. \A k \in 1..n : (toWm[k].kind = "hello" => k = 1) /\ toWm[k].kind # "eof"
      <4>1. \A k \in 1..n : (toWm[k].kind = "hello" => k = 1) /\ (toWm[k].kind = "eof" => k = n)
        BY <3>1 DEF QInv, Conn, Framed
      <4>2. 1..n # {} => toWm # <<>>
        BY <1>2, EmptySeq
      <4> QED BY <3>3, <4>1, <4>2
    <3>5. Framed'
      <4>1. \A k \in 1..n + 1 : k \in 1..n \/ k = n + 1
        BY <3>1
      <4> QED BY <1>a, <2>2, <3>1, <3>4, <4>1 DEF Framed
    <3>6. Parting'
      BY <1>a, <2>2, <3>1 DEF Parting
    <3>7. Greets' <=> Greets
      <4>1. Head(Append(toWm, m)) = Append(toWm, m)[1]
        BY <3>1, HeadTailProperties
      <4>2. toWm # <<>> => Head(toWm) = toWm[1] /\ 1 \in 1..n
        BY <1>2, <3>1, HeadTailProperties, EmptySeq
      <4>3. toWm = <<>> => n + 1 = 1
        BY <1>2, EmptySeq
      <4> QED BY <1>a, <2>2, <3>1, <4>1, <4>2, <4>3 DEF Greets
    <3> QED BY <1>1, <3>2, <3>5, <3>6, <3>7 DEF Conn, Alive
  <2> QED BY <2>1, <2>2
<1>5. ASSUME ~undefined', NEW j \in Id
      PROVE  Asking(j)'
  <2>1. Asking(j)
    BY <1>1, <1>5 DEF QInv
  <2>2. CASE slave[j] = "none"
    <3>1. slave'[j] = slave[j] /\ ~Working(j)
      BY <1>1, <2>2 DEF Working, Question
    <3>2. ASSUME NEW q \in Question, At(j, q) = 0
          PROVE  At(j, q)' = 0
      <4>1. OutboxHas(j, q)' = 0 /\ InboxHas(j, q)' = 0 /\ ToDaemonHas(j, q)' = 0
        BY <1>1, CountNone DEF OutboxHas, InboxHas, ToDaemonHas
      <4>2. Shown(j, q)' = Shown(j, q) /\ MessagesHave(j, q)' = MessagesHave(j, q)
        BY <1>1 DEF Shown, MessagesHave
      <4>3. /\ OutboxHas(j, q) \in Nat /\ InboxHas(j, q) \in Nat /\ ToWmHas(j, q) \in Nat
            /\ MessagesHave(j, q) \in Nat /\ ToDaemonHas(j, q) \in Nat /\ Shown(j, q) \in Nat
        BY <1>2, Numbered
      <4>4. ToWmHas(j, q)' = ToWmHas(j, q)
        <5>1. CASE daemon # "up"
          BY <1>a, <5>1 DEF ToWmHas
        <5>2. CASE daemon = "up"
          <6>1. CountOf(Append(toWm, m), j, {q}) =
                  CountOf(toWm, j, {q}) + (IF m.id = j /\ m.kind \in {q} THEN 1 ELSE 0)
            BY <1>2, <1>a, CountAppend
          <6>2. m.kind \notin {q}
            BY <1>a DEF Question
          <6> QED BY <1>a, <4>3, <5>2, <6>1, <6>2 DEF ToWmHas
        <5> QED BY <5>1, <5>2
      <4> QED BY <3>2, <4>1, <4>2, <4>3, <4>4 DEF At
    <3> QED BY <1>1, <2>1, <3>1, <3>2, FewerAsks
  <2>3. CASE slave[j] # "none"
    <3>1. slave'[j] \in {"ended", "dead", "lost"}
      BY <1>1, <2>3
    <3> QED BY <3>1, AskingOver
  <2> QED BY <2>2, <2>3
<1> QED BY <1>3, <1>4, <1>5 DEF QInv

\* a request is taken, and confirmed
LEMMA GoneOnFacts ==
  ASSUME Inv, QInv, NEW kinds \in SUBSET Kinds, DaemonTakes(kinds), kinds \cap Told = {}, DaemonGoesOn
  PROVE  /\ Conn' /\ Down'
         /\ \A j \in Id, q \in Question :
              /\ OutboxHas(j, q)' = OutboxHas(j, q) /\ ToWmHas(j, q)' = ToWmHas(j, q)
              /\ Shown(j, q)' = Shown(j, q) /\ MessagesHave(j, q)' = MessagesHave(j, q)
              /\ ToDaemonHas(j, q)' \in Nat
              /\ ToDaemonHas(j, q) = ToDaemonHas(j, q)'
                   + (IF Head(toDaemon).id = j /\ Head(toDaemon).kind \in AnswersTo(q) THEN 1 ELSE 0)
<1> DEFINE m == Msg("ok", 0)
<1>1. /\ toDaemon \in Seq(Msgs) /\ toDaemon # <<>> /\ HelperStep /\ daemon = "up"
  BY TakenRequest
<1>2. /\ toDaemon' = Tail(toDaemon) /\ toWm' = Append(toWm, m)
      /\ UNCHANGED <<daemon, aborting, outbox, reports>>
  BY DEF DaemonGoesOn
<1>3. Wire /\ m \in Msgs /\ m.kind = "ok" /\ toWm \in Seq(Msgs)
  BY Parts, Pipes, HelperMsgs
<1>4. UNCHANGED <<dialog, messages, connected, spawning>>
  BY <1>1 DEF HelperStep, wmVars, connVars
<1> HIDE DEF m
<1>5. Conn'
  BY <1>1, <1>2, <1>3, <1>4, SaidConn
<1>6. Down'
  BY <1>1, <1>2 DEF Down
<1>7. ASSUME NEW j \in Id, NEW q \in Question
      PROVE  /\ OutboxHas(j, q)' = OutboxHas(j, q) /\ ToWmHas(j, q)' = ToWmHas(j, q)
             /\ Shown(j, q)' = Shown(j, q) /\ MessagesHave(j, q)' = MessagesHave(j, q)
             /\ ToDaemonHas(j, q)' \in Nat
             /\ ToDaemonHas(j, q) = ToDaemonHas(j, q)'
                  + (IF Head(toDaemon).id = j /\ Head(toDaemon).kind \in AnswersTo(q) THEN 1 ELSE 0)
  <2>1. /\ OutboxHas(j, q)' = OutboxHas(j, q) /\ Shown(j, q)' = Shown(j, q)
        /\ MessagesHave(j, q)' = MessagesHave(j, q)
    BY <1>2, <1>4 DEF OutboxHas, Shown, MessagesHave
  <2>2. ToWmHas(j, q)' = ToWmHas(j, q)
    <3>1. CountOf(Append(toWm, m), j, {q}) =
            CountOf(toWm, j, {q}) + (IF m.id = j /\ m.kind \in {q} THEN 1 ELSE 0)
      BY <1>3, CountAppend
    <3>2. m.kind \notin {q} /\ ToWmHas(j, q) \in Nat
      BY <1>3, Numbered DEF Question
    <3> QED BY <1>2, <3>1, <3>2 DEF ToWmHas
  <2>3. /\ Tail(toDaemon) \in Seq(Msgs)
        /\ CountOf(toDaemon, j, AnswersTo(q)) =
             CountOf(Tail(toDaemon), j, AnswersTo(q))
               + (IF Head(toDaemon).id = j /\ Head(toDaemon).kind \in AnswersTo(q) THEN 1 ELSE 0)
    BY <1>1, CountTail
  <2>4. CountOf(Tail(toDaemon), j, AnswersTo(q)) \in Nat
    BY <2>3, CountPlaces
  <2>5. ToDaemonHas(j, q)' = CountOf(Tail(toDaemon), j, AnswersTo(q))
        /\ ToDaemonHas(j, q) = CountOf(toDaemon, j, AnswersTo(q))
    BY <1>2 DEF ToDaemonHas
  <2> QED BY <2>1, <2>2, <2>3, <2>4, <2>5
<1> QED BY <1>5, <1>6, <1>7

LEMMA DaemonRunsAsks ==
  ASSUME Inv, QInv, DaemonRuns
  PROVE  QInv'
<1> DEFINE i == Head(toDaemon).id
           r == [id |-> i, freed |-> FALSE]
<1>0. {"start"} \in SUBSET Kinds /\ {"start"} \cap Told = {}
  BY AnswerKinds, NotTold
<1>1. /\ DaemonTakes({"start"}) /\ DaemonGoesOn /\ slaves' = Append(slaves, r)
      /\ slave' = [slave EXCEPT ![i] = "running"] /\ UNCHANGED inbox
  BY DEF DaemonRuns
<1>2. /\ i \in Id /\ Head(toDaemon).kind = "start" /\ 1 \in DOMAIN toDaemon
      /\ Head(toDaemon) = toDaemon[1] /\ HelperStep
  BY <1>0, <1>1, TakenRequest
<1>3. slave[i] = "none" /\ Wire
  <2>1. Starts(toDaemon, last, slave) /\ Wire
    BY Parts DEF Inv, Fresh
  <2> QED BY <1>2, <2>1 DEF Starts
<1>4. slave \in [Id -> {"none", "running", "ended", "dead", "lost"} \cup Question]
      /\ slaves \in Seq([id : Id, freed : BOOLEAN])
  BY <1>3, Pipes
<1>a. UNCHANGED <<outbox, undefined, dialog, dismissed>>
  BY <1>1, <1>2 DEF DaemonGoesOn, HelperStep, wmVars
<1>5. Conn' /\ Down'
  BY <1>0, <1>1, GoneOnFacts
<1>6. Own'
  BY <1>1, <1>a DEF QInv, Own
<1>b. r \in [id : Id, freed : BOOLEAN] /\ r.id = i /\ ~r.freed
  BY <1>2
<1> HIDE DEF i, r
<1>7. Recorded'
  <2>1. /\ DOMAIN slaves = 1..Len(slaves) /\ Len(slaves) \in Nat
        /\ DOMAIN Append(slaves, r) = 1..Len(slaves) + 1
        /\ \A k \in 1..Len(slaves) : Append(slaves, r)[k] = slaves[k]
        /\ Append(slaves, r)[Len(slaves) + 1] = r
    <3>1. Append(slaves, r) \in Seq([id : Id, freed : BOOLEAN])
          /\ Len(Append(slaves, r)) = Len(slaves) + 1
          /\ \A k \in 1..Len(slaves) : Append(slaves, r)[k] = slaves[k]
          /\ Append(slaves, r)[Len(slaves) + 1] = r
      BY <1>4, <1>b, AppendProperties
    <3> QED BY <1>4, <3>1, LenProperties
  <2>2. ASSUME NEW j \in Id, Working(j)'
        PROVE  \E k \in DOMAIN slaves' : slaves'[k].id = j /\ ~slaves'[k].freed
    <3>1. CASE j = i
      <4>1. Len(slaves) + 1 \in DOMAIN slaves' /\ slaves'[Len(slaves) + 1] = r
        BY <1>1, <2>1
      <4> QED BY <1>b, <3>1, <4>1
    <3>2. CASE j # i
      <4>1. Working(j)
        BY <1>1, <1>2, <1>4, <2>2, <3>2 DEF Working
      <4>2. PICK k \in DOMAIN slaves : slaves[k].id = j /\ ~slaves[k].freed
        BY <4>1 DEF QInv, Recorded
      <4>3. k \in DOMAIN slaves' /\ slaves'[k] = slaves[k]
        BY <1>1, <2>1
      <4> QED BY <4>2, <4>3
    <3> QED BY <3>1, <3>2
  <2> QED BY <2>2 DEF Recorded
<1>8. ASSUME ~undefined', NEW j \in Id
      PROVE  Asking(j)'
  <2>1. Asking(j) /\ UNCHANGED dismissed
    BY <1>a, <1>8 DEF QInv
  <2>2. ASSUME NEW q \in Question
        PROVE  At(j, q)' = At(j, q)
    <3>1. /\ OutboxHas(j, q)' = OutboxHas(j, q) /\ ToWmHas(j, q)' = ToWmHas(j, q)
          /\ Shown(j, q)' = Shown(j, q) /\ MessagesHave(j, q)' = MessagesHave(j, q)
          /\ ToDaemonHas(j, q)' \in Nat
          /\ ToDaemonHas(j, q) = ToDaemonHas(j, q)'
               + (IF Head(toDaemon).id = j /\ Head(toDaemon).kind \in AnswersTo(q) THEN 1 ELSE 0)
      BY <1>0, <1>1, GoneOnFacts
    <3>2. Head(toDaemon).kind \notin AnswersTo(q)
      BY <1>2, Kinded
    <3>3. ToDaemonHas(j, q)' = ToDaemonHas(j, q)
      BY <3>1, <3>2
    <3>4. InboxHas(j, q)' = InboxHas(j, q)
      BY <1>1 DEF InboxHas
    <3> QED BY <3>1, <3>3, <3>4 DEF At
  <2>3. CASE j = i
    <3>1. slave'[j] = "running" /\ slave[j] = "none"
      BY <1>1, <1>2, <1>3, <1>4, <2>3 DEF i
    <3>2. j \notin dismissed' /\ \A q \in Question : At(j, q)' = 0
      BY <2>1, <2>2, <3>1 DEF Asking
    <3> QED BY <3>1, <3>2 DEF Asking, Question
  <2>4. CASE j # i
    <3>1. slave'[j] = slave[j]
      BY <1>1, <1>4, <2>4
    <3> QED BY <2>1, <2>2, <3>1, AskingStays
  <2> QED BY <2>3, <2>4
<1> QED BY <1>5, <1>6, <1>7, <1>8 DEF QInv

\* the request goes to the slave it is for
LEMMA DaemonSendsAsks ==
  ASSUME Inv, QInv, NEW kinds \in SUBSET Kinds, DaemonTakes(kinds), kinds \cap Told = {},
         DaemonSends(Head(toDaemon).id)
  PROVE  QInv'
<1> DEFINE m == Head(toDaemon)
           i == m.id
<1>1. /\ DaemonGoesOn /\ UNCHANGED <<slaves, slave>>
      /\ inbox' = [inbox EXCEPT ![i] = Append(@, m)]
  BY DEF DaemonSends
<1>2. m \in Msgs /\ i \in Id /\ HelperStep
  BY TakenRequest
<1>3. Wire
  BY Parts
<1>4. inbox \in [Id -> Seq(Msgs)]
  BY <1>3, Pipes
<1>a. UNCHANGED <<outbox, undefined, dialog, dismissed>>
  BY <1>1, <1>2 DEF DaemonGoesOn, HelperStep, wmVars
<1>5. Conn' /\ Down'
  BY <1>1, GoneOnFacts
<1>6. \A j \in Id : inbox'[j] = IF j = i THEN Append(inbox[j], m) ELSE inbox[j]
  BY <1>1, <1>2, <1>4
<1>7. Own'
  <2>1. ASSUME NEW j \in Id, NEW k \in DOMAIN inbox'[j]
        PROVE  inbox'[j][k].id = j
    <3>1. \A l \in DOMAIN inbox[j] : inbox[j][l].id = j
      BY DEF QInv, Own
    <3>2. CASE j = i
      <4>1. \/ k \in DOMAIN inbox[j] /\ Append(inbox[j], m)[k] = inbox[j][k]
            \/ Append(inbox[j], m)[k] = m
        <5>1. inbox[j] \in Seq(Msgs) /\ k \in DOMAIN Append(inbox[j], m)
          BY <1>4, <1>6, <2>1, <3>2
        <5> QED BY <1>2, <5>1, AppendFacts
      <4> QED BY <1>6, <3>1, <3>2, <4>1
    <3>3. CASE j # i
      BY <1>6, <2>1, <3>1, <3>3
    <3> QED BY <3>2, <3>3
  <2> QED BY <1>a, <2>1 DEF QInv, Own
<1>8. Recorded'
  BY <1>1 DEF QInv, Recorded, Working
<1>9. ASSUME ~undefined', NEW j \in Id
      PROVE  Asking(j)'
  <2>1. Asking(j) /\ UNCHANGED <<slave, dismissed>>
    BY <1>1, <1>a, <1>9 DEF QInv
  <2>2. ASSUME NEW q \in Question
        PROVE  At(j, q)' = At(j, q)
    <3> DEFINE n == IF m.id = j /\ m.kind \in AnswersTo(q) THEN 1 ELSE 0
    <3>1. /\ OutboxHas(j, q)' = OutboxHas(j, q) /\ ToWmHas(j, q)' = ToWmHas(j, q)
          /\ Shown(j, q)' = Shown(j, q) /\ MessagesHave(j, q)' = MessagesHave(j, q)
          /\ ToDaemonHas(j, q)' \in Nat /\ ToDaemonHas(j, q) = ToDaemonHas(j, q)' + n
      BY <1>1, GoneOnFacts
    <3>2. InboxHas(j, q)' = InboxHas(j, q) + n
      <4>1. CASE j = i
        <5>1. inbox[j] \in Seq(Msgs)
          BY <1>4
        <5> HIDE DEF m
        <5>2. CountOf(Append(inbox[j], m), j, AnswersTo(q)) = CountOf(inbox[j], j, AnswersTo(q)) + n
          BY <1>2, <5>1, CountAppend
        <5> HIDE DEF n
        <5> QED BY <1>6, <4>1, <5>2 DEF InboxHas
      <4>2. CASE j # i
        <5>1. n = 0 /\ InboxHas(j, q) \in Nat
          BY <1>3, <4>2, Numbered
        <5> HIDE DEF n
        <5> QED BY <1>6, <4>2, <5>1 DEF InboxHas
      <4> QED BY <4>1, <4>2
    <3>3. n \in Nat
      OBVIOUS
    <3>4. /\ OutboxHas(j, q) \in Nat /\ InboxHas(j, q) \in Nat /\ ToWmHas(j, q) \in Nat
          /\ MessagesHave(j, q) \in Nat /\ ToDaemonHas(j, q) \in Nat /\ Shown(j, q) \in Nat
      BY <1>3, Numbered
    <3> HIDE DEF n
    <3> QED BY <3>1, <3>2, <3>3, <3>4 DEF At
  <2> QED BY <2>1, <2>2, AskingStays
<1> QED BY <1>5, <1>7, <1>8, <1>9 DEF QInv

\* the request is dropped: nobody waits for it
LEMMA DaemonIgnoresAsks ==
  ASSUME Inv, QInv, NEW kinds \in SUBSET Kinds, DaemonTakes(kinds), kinds \cap Told = {},
         DaemonIgnores, ~Working(Head(toDaemon).id)
  PROVE  QInv'
<1> DEFINE m == Head(toDaemon)
           i == m.id
<1>1. DaemonGoesOn /\ UNCHANGED <<inbox, slaves, slave>>
  BY DEF DaemonIgnores
<1>2. m \in Msgs /\ i \in Id /\ HelperStep
  BY TakenRequest
<1>a. UNCHANGED <<outbox, undefined, dialog, dismissed>>
  BY <1>1, <1>2 DEF DaemonGoesOn, HelperStep, wmVars
<1>5. Conn' /\ Down'
  BY <1>1, GoneOnFacts
<1>6. Own' /\ Recorded'
  BY <1>1, <1>a DEF QInv, Own, Recorded, Working
<1>7. ASSUME ~undefined', NEW j \in Id
      PROVE  Asking(j)'
  <2>1. Asking(j) /\ UNCHANGED <<slave, dismissed>>
    BY <1>1, <1>a, <1>7 DEF QInv
  <2>2. ASSUME NEW q \in Question
        PROVE  (j # i => At(j, q)' = At(j, q)) /\ (At(j, q) = 0 => At(j, q)' = 0)
    <3> DEFINE n == IF m.id = j /\ m.kind \in AnswersTo(q) THEN 1 ELSE 0
    <3>1. /\ OutboxHas(j, q)' = OutboxHas(j, q) /\ ToWmHas(j, q)' = ToWmHas(j, q)
          /\ Shown(j, q)' = Shown(j, q) /\ MessagesHave(j, q)' = MessagesHave(j, q)
          /\ ToDaemonHas(j, q)' \in Nat /\ ToDaemonHas(j, q) = ToDaemonHas(j, q)' + n
      BY <1>1, GoneOnFacts
    <3>2. InboxHas(j, q)' = InboxHas(j, q)
      BY <1>1 DEF InboxHas
    <3>3. n \in Nat /\ (j # i => n = 0)
      OBVIOUS
    <3>4. /\ OutboxHas(j, q) \in Nat /\ InboxHas(j, q) \in Nat /\ ToWmHas(j, q) \in Nat
          /\ MessagesHave(j, q) \in Nat /\ ToDaemonHas(j, q) \in Nat /\ Shown(j, q) \in Nat
      BY Parts, Numbered
    <3> HIDE DEF n, i
    <3> QED BY <3>1, <3>2, <3>3, <3>4 DEF At
  <2>3. CASE j = i
    BY <2>1, <2>2, <2>3, FewerAsks
  <2>4. CASE j # i
    BY <2>1, <2>2, <2>4, AskingStays
  <2> QED BY <2>3, <2>4
<1> QED BY <1>5, <1>6, <1>7 DEF QInv

LEMMA DaemonAnswersAsks ==
  ASSUME Inv, QInv, DaemonAnswers
  PROVE  QInv'
<1> DEFINE kinds == {"abort"} \cup Answer
           i == Head(toDaemon).id
<1>1. kinds \in SUBSET Kinds /\ kinds \cap Told = {}
  BY DEF Kinds, Told, Answer, ErrorAnswer, OverwriteAnswer
<1>2. DaemonTakes(kinds)
  BY DEF DaemonAnswers
<1> HIDE DEF kinds
<1>3. i \in Id /\ HelperStep /\ daemon = "up"
  BY <1>1, <1>2, TakenRequest
<1>4. PICK g \in Gets(i) :
        \/ g = "slave" /\ DaemonSends(i)
        \/ g \in {"null", "freed"} /\ DaemonIgnores
        \/ DaemonEnds
  BY DEF DaemonAnswers
<1>5. CASE DaemonSends(i)
  BY <1>1, <1>2, <1>5, DaemonSendsAsks
<1>6. CASE DaemonEnds
  BY <1>3, <1>6, DaemonEndsAsks
<1>7. CASE g \in {"null", "freed"} /\ DaemonIgnores
  <2>1. ~Working(i)
    <3>1. SUFFICES ASSUME Working(i) PROVE FALSE
      OBVIOUS
    <3>2. PICK k \in DOMAIN slaves : slaves[k].id = i /\ ~slaves[k].freed
      BY <1>3, <3>1 DEF QInv, Recorded
    <3>3. slaves[k] \in {r \in ToSet(slaves) : r.id = i}
      BY <3>2 DEF ToSet
    <3>4. Gets(i) = {"slave"}
      BY <3>2, <3>3 DEF Gets
    <3> QED BY <1>7, <3>4
  <2> QED BY <1>1, <1>2, <1>7, <2>1, DaemonIgnoresAsks
<1> QED BY <1>4, <1>5, <1>6, <1>7

LEMMA DaemonDiesAsks ==
  ASSUME Inv, QInv, DaemonDies
  PROVE  QInv'
BY DaemonEndsAsks DEF DaemonDies

\* what a slave wrote goes on to the window manager
LEMMA DaemonRelaysAsks ==
  ASSUME Inv, QInv, NEW i \in Id, DaemonRelays(i)
  PROVE  QInv'
<1> DEFINE m == Head(outbox[i])
<1>1. /\ daemon = "up" /\ outbox[i] # <<>> /\ outbox' = [outbox EXCEPT ![i] = Tail(@)]
      /\ toWm' = Append(toWm, m) /\ HelperStep
      /\ UNCHANGED <<daemon, toDaemon, slaves, slave, inbox>>
  BY DEF DaemonRelays
<1>2. Wire /\ outbox \in [Id -> Seq(Msgs)] /\ toWm \in Seq(Msgs)
  BY Parts, Pipes
<1>3. outbox[i] \in Seq(Msgs) /\ Tail(outbox[i]) \in Seq(Msgs) /\ m \in Msgs
      /\ 1 \in DOMAIN outbox[i] /\ m = outbox[i][1]
  <2>1. outbox[i] \in Seq(Msgs)
    BY <1>2
  <2> QED BY <1>1, <2>1, TailFacts
<1>a. UNCHANGED <<undefined, dialog, dismissed, messages, connected, spawning>>
  BY <1>1 DEF HelperStep, wmVars, connVars
<1>4. m.id = i
  BY <1>3 DEF QInv, Own
<1>5. m.kind \notin {"hello", "eof"}
  <2>1. m.kind \in Kinds
    BY <1>3, <1>4, Numbers DEF Msgs, Id
  <2> QED BY <2>1 DEF Kinds, Answer, ErrorAnswer, OverwriteAnswer, Question
<1>6. \A j \in Id : outbox'[j] = IF j = i THEN Tail(outbox[j]) ELSE outbox[j]
  BY <1>1, <1>2
<1> HIDE DEF m
<1>7. Conn'
  BY <1>1, <1>3, <1>5, <1>a, SaidConn
<1>8. Recorded' /\ Down'
  BY <1>1 DEF QInv, Recorded, Working, Down
<1>9. Own'
  <2>1. ASSUME NEW j \in Id, NEW k \in DOMAIN outbox'[j]
        PROVE  outbox'[j][k].id = j
    <3>1. \A l \in DOMAIN outbox[j] : outbox[j][l].id = j
      BY DEF QInv, Own
    <3>2. CASE j = i
      <4>1. \A l \in DOMAIN Tail(outbox[i]) : l + 1 \in DOMAIN outbox[i] /\ Tail(outbox[i])[l] = outbox[i][l + 1]
        BY <1>1, <1>3, TailFacts
      <4>2. k \in DOMAIN Tail(outbox[i]) /\ outbox'[j][k] = Tail(outbox[i])[k]
        BY <1>6, <2>1, <3>2
      <4>3. k + 1 \in DOMAIN outbox[j] /\ outbox'[j][k] = outbox[j][k + 1]
        BY <3>2, <4>1, <4>2
      <4> QED BY <3>1, <4>3
    <3>3. CASE j # i
      BY <1>6, <2>1, <3>1, <3>3
    <3> QED BY <3>2, <3>3
  <2> QED BY <1>1, <2>1 DEF QInv, Own
<1>10. ASSUME ~undefined', NEW j \in Id
       PROVE  Asking(j)'
  <2>1. Asking(j) /\ UNCHANGED <<slave, dismissed>>
    BY <1>1, <1>a, <1>10 DEF QInv
  <2>2. ASSUME NEW q \in Question
        PROVE  At(j, q)' = At(j, q)
    <3> DEFINE n == IF m.id = j /\ m.kind \in {q} THEN 1 ELSE 0
    <3>1. /\ InboxHas(j, q)' = InboxHas(j, q) /\ ToDaemonHas(j, q)' = ToDaemonHas(j, q)
          /\ Shown(j, q)' = Shown(j, q) /\ MessagesHave(j, q)' = MessagesHave(j, q)
      BY <1>1, <1>a DEF InboxHas, ToDaemonHas, Shown, MessagesHave
    <3>2. CountOf(Append(toWm, m), j, {q}) = CountOf(toWm, j, {q}) + n
      BY <1>2, <1>3, CountAppend
    <3>3. n \in Nat
      OBVIOUS
    <3>4. OutboxHas(j, q)' \in Nat /\ OutboxHas(j, q) = OutboxHas(j, q)' + n
      <4>1. CASE j = i
        <5>1. /\ Tail(outbox[i]) \in Seq(Msgs)
              /\ CountOf(outbox[i], j, {q}) = CountOf(Tail(outbox[i]), j, {q}) + n
          BY <1>1, <1>3, CountTail DEF m
        <5>2. CountOf(Tail(outbox[i]), j, {q}) \in Nat
          BY <5>1, CountPlaces
        <5> HIDE DEF n
        <5> QED BY <1>6, <4>1, <5>1, <5>2 DEF OutboxHas
      <4>2. CASE j # i
        <5>1. n = 0 /\ OutboxHas(j, q) \in Nat
          BY <1>2, <1>4, <4>2, Numbered
        <5> HIDE DEF n
        <5> QED BY <1>6, <4>2, <5>1 DEF OutboxHas
      <4> QED BY <4>1, <4>2
    <3> HIDE DEF n
    <3>5. ToWmHas(j, q)' = ToWmHas(j, q) + n
      BY <1>1, <3>2 DEF ToWmHas
    <3>6. /\ OutboxHas(j, q) \in Nat /\ InboxHas(j, q) \in Nat /\ ToWmHas(j, q) \in Nat
          /\ MessagesHave(j, q) \in Nat /\ ToDaemonHas(j, q) \in Nat /\ Shown(j, q) \in Nat
      BY <1>2, Numbered
    <3> QED BY <3>1, <3>3, <3>4, <3>5, <3>6 DEF At
  <2> QED BY <2>1, <2>2, AskingStays
<1> QED BY <1>7, <1>8, <1>9, <1>10 DEF QInv

LEMMA DaemonSeesEndAsks ==
  ASSUME Inv, QInv, NEW i \in Id, DaemonSeesEnd(i)
  PROVE  QInv'
<1> DEFINE m == Msg("quit", i)
<1>1. /\ daemon = "up" /\ slave[i] = "ended" /\ toWm' = Append(toWm, m)
      /\ slaves' = [k \in DOMAIN slaves |->
                      IF slaves[k].id = i THEN [slaves[k] EXCEPT !.freed = TRUE] ELSE slaves[k]]
      /\ slave' = [slave EXCEPT ![i] = "dead"] /\ HelperStep
      /\ UNCHANGED <<daemon, toDaemon, inbox, outbox>>
  BY DEF DaemonSeesEnd
<1>2. Wire /\ toWm \in Seq(Msgs)
      /\ slave \in [Id -> {"none", "running", "ended", "dead", "lost"} \cup Question]
  BY Parts, Pipes
<1>3. m \in Msgs /\ m.kind = "quit"
  <2>1. "quit" \in Kinds
    BY DEF Kinds
  <2> QED BY <2>1, MsgType
<1>a. UNCHANGED <<undefined, dialog, dismissed, messages, connected, spawning>>
  BY <1>1 DEF HelperStep, wmVars, connVars
<1> HIDE DEF m
<1>4. Conn'
  BY <1>1, <1>3, <1>a, SaidConn
<1>5. Own' /\ Down'
  BY <1>1 DEF QInv, Own, Down
<1>6. \A j \in Id : slave'[j] = IF j = i THEN "dead" ELSE slave[j]
  BY <1>1, <1>2
<1>7. Recorded'
  <2>1. ASSUME NEW j \in Id, Working(j)'
        PROVE  \E k \in DOMAIN slaves' : slaves'[k].id = j /\ ~slaves'[k].freed
    <3>1. j # i /\ Working(j)
      BY <1>6, <2>1 DEF Working, Question
    <3>2. PICK k \in DOMAIN slaves : slaves[k].id = j /\ ~slaves[k].freed
      BY <3>1 DEF QInv, Recorded
    <3>3. k \in DOMAIN slaves' /\ slaves'[k] = slaves[k]
      BY <1>1, <3>1, <3>2
    <3> QED BY <3>2, <3>3
  <2> QED BY <2>1 DEF Recorded
<1>8. ASSUME ~undefined', NEW j \in Id
      PROVE  Asking(j)'
  <2>1. Asking(j) /\ UNCHANGED dismissed
    BY <1>a, <1>8 DEF QInv
  <2>2. CASE j = i
    <3>1. slave'[j] \in {"ended", "dead", "lost"}
      BY <1>6, <2>2
    <3> QED BY <3>1, AskingOver
  <2>3. CASE j # i
    <3>1. ASSUME NEW q \in Question
          PROVE  At(j, q)' = At(j, q)
      <4>1. /\ InboxHas(j, q)' = InboxHas(j, q) /\ ToDaemonHas(j, q)' = ToDaemonHas(j, q)
            /\ Shown(j, q)' = Shown(j, q) /\ MessagesHave(j, q)' = MessagesHave(j, q)
            /\ OutboxHas(j, q)' = OutboxHas(j, q)
        BY <1>1, <1>a DEF InboxHas, ToDaemonHas, Shown, MessagesHave, OutboxHas
      <4>2. CountOf(Append(toWm, m), j, {q}) =
              CountOf(toWm, j, {q}) + (IF m.id = j /\ m.kind \in {q} THEN 1 ELSE 0)
        BY <1>2, <1>3, CountAppend
      <4>3. m.kind \notin {q} /\ ToWmHas(j, q) \in Nat
        BY <1>2, <1>3, Numbered DEF Question
      <4>4. ToWmHas(j, q)' = ToWmHas(j, q)
        BY <1>1, <4>2, <4>3 DEF ToWmHas
      <4> QED BY <4>1, <4>4 DEF At
    <3>2. slave'[j] = slave[j]
      BY <1>6, <2>3
    <3> QED BY <2>1, <3>1, <3>2, AskingStays
  <2> QED BY <2>2, <2>3
<1> QED BY <1>4, <1>5, <1>7, <1>8 DEF QInv

-----------------------------------------------------------------------------
(* A slave.                                                                *)

\* a slave writes to its pipe or reads from it
LEMMA SlaveStepFacts ==
  ASSUME Inv, QInv, SlaveStep, NEW i \in Id, NEW s, slave' = [slave EXCEPT ![i] = s], Working(i),
         \A j \in Id : j # i => inbox'[j] = inbox[j] /\ outbox'[j] = outbox[j],
         \A k \in DOMAIN inbox'[i] : inbox'[i][k].id = i,
         \A k \in DOMAIN outbox'[i] : outbox'[i][k].id = i,
         ~undefined => Asking(i)'
  PROVE  QInv'
<1>1. /\ UNCHANGED <<undefined, dialog, dismissed, messages, connected, spawning>>
      /\ UNCHANGED <<daemon, toDaemon, toWm, slaves>> /\ ~undefined
  BY DEF SlaveStep, HelperStep, wmVars, connVars
<1>2. slave \in [Id -> {"none", "running", "ended", "dead", "lost"} \cup Question]
  BY Parts, Pipes
<1>3. Down'
  BY <1>1 DEF QInv, Down
<1>4. Conn'
  <2>1. Greets' = Greets /\ Alive' = Alive /\ Parting' = Parting /\ Framed' = Framed
    BY <1>1 DEF Greets, Alive, Parting, Framed
  <2> QED BY <1>1, <2>1 DEF QInv, Conn
<1>5. Own'
  BY DEF QInv, Own
<1>6. Recorded'
  BY <1>1, <1>2 DEF QInv, Recorded, Working
<1>7. ASSUME NEW j \in Id
      PROVE  Asking(j)'
  <2>1. CASE j = i
    BY <1>1, <2>1
  <2>2. CASE j # i
    <3>1. Asking(j) /\ slave'[j] = slave[j]
      BY <1>1, <1>2, <2>2 DEF QInv
    <3>2. ASSUME NEW q \in Question
          PROVE  At(j, q)' = At(j, q)
      BY <1>1, <2>2 DEF At, OutboxHas, ToWmHas, Shown, MessagesHave, ToDaemonHas, InboxHas
    <3> QED BY <1>1, <3>1, <3>2, AskingStays
  <2> QED BY <2>1, <2>2
<1> QED BY <1>3, <1>4, <1>5, <1>6, <1>7 DEF QInv

LEMMA SlaveWritesAsks ==
  ASSUME Inv, QInv, NEW i \in Id, NEW kinds \in SUBSET (Question \cup {"progress", "complete"}),
         SlaveWrites(i, kinds)
  PROVE  QInv'
<1>1. PICK k \in kinds :
        /\ outbox' = [outbox EXCEPT ![i] = Append(@, Msg(k, i))]
        /\ slave' = [slave EXCEPT ![i] = IF k \in Question THEN k ELSE @]
  BY DEF SlaveWrites
<1>2. slave[i] = "running" /\ SlaveStep /\ UNCHANGED inbox
  BY DEF SlaveWrites
<1>3. /\ UNCHANGED <<undefined, dialog, dismissed, messages>>
      /\ UNCHANGED <<daemon, toDaemon, toWm, slaves>> /\ ~undefined
  BY <1>2 DEF SlaveStep, HelperStep, wmVars, connVars
<1>4. /\ Wire /\ slave \in [Id -> {"none", "running", "ended", "dead", "lost"} \cup Question]
      /\ outbox \in [Id -> Seq(Msgs)] /\ outbox[i] \in Seq(Msgs)
  BY Parts, Pipes
<1> DEFINE m == Msg(k, i)
<1>5. m \in Msgs /\ m.id = i /\ m.kind = k
  <2>1. k \in Kinds
    BY DEF Kinds
  <2> QED BY <2>1, MsgType
<1>a. outbox' = [outbox EXCEPT ![i] = Append(@, m)]
  BY <1>1
<1> HIDE DEF m
<1>6. \A j \in Id : outbox'[j] = IF j = i THEN Append(outbox[i], m) ELSE outbox[j]
  BY <1>a, <1>4
<1>7. \A l \in DOMAIN outbox'[i] : outbox'[i][l].id = i
  <2>1. \A l \in DOMAIN Append(outbox[i], m) :
          (l \in DOMAIN outbox[i] /\ Append(outbox[i], m)[l] = outbox[i][l]) \/ Append(outbox[i], m)[l] = m
    BY <1>4, <1>5, AppendFacts
  <2>2. \A l \in DOMAIN outbox[i] : outbox[i][l].id = i
    BY DEF QInv, Own
  <2> QED BY <1>5, <1>6, <2>1, <2>2
<1>8. Asking(i)
  BY <1>3 DEF QInv
<1>9. ASSUME NEW q \in Question
      PROVE  At(i, q)' = IF q = k THEN 1 ELSE 0
  <2>1. At(i, q) = 0
    BY <1>2, <1>8 DEF Asking
  <2>2. /\ InboxHas(i, q)' = InboxHas(i, q) /\ ToDaemonHas(i, q)' = ToDaemonHas(i, q)
        /\ Shown(i, q)' = Shown(i, q) /\ MessagesHave(i, q)' = MessagesHave(i, q)
        /\ ToWmHas(i, q)' = ToWmHas(i, q)
    BY <1>2, <1>3 DEF InboxHas, ToDaemonHas, Shown, MessagesHave, ToWmHas
  <2>3. CountOf(Append(outbox[i], m), i, {q}) =
          CountOf(outbox[i], i, {q}) + (IF m.id = i /\ m.kind \in {q} THEN 1 ELSE 0)
    BY <1>4, <1>5, CountAppend
  <2>4. OutboxHas(i, q)' = OutboxHas(i, q) + (IF q = k THEN 1 ELSE 0)
    BY <1>5, <1>6, <2>3 DEF OutboxHas
  <2>5. /\ OutboxHas(i, q) \in Nat /\ InboxHas(i, q) \in Nat /\ ToWmHas(i, q) \in Nat
        /\ MessagesHave(i, q) \in Nat /\ ToDaemonHas(i, q) \in Nat /\ Shown(i, q) \in Nat
    BY <1>4, Numbered
  <2> QED BY <2>1, <2>2, <2>4, <2>5 DEF At
<1>10. Asking(i)'
  <2>1. slave'[i] = IF k \in Question THEN k ELSE "running"
    BY <1>1, <1>2, <1>4
  <2>2. i \notin dismissed'
    BY <1>2, <1>3, <1>8 DEF Asking
  <2> QED BY <1>9, <2>1, <2>2 DEF Asking, Question
<1>11. Working(i) /\ \A j \in Id : j # i => inbox'[j] = inbox[j] /\ outbox'[j] = outbox[j]
  BY <1>2, <1>6 DEF Working
<1>12. \A l \in DOMAIN inbox'[i] : inbox'[i][l].id = i
  BY <1>2 DEF QInv, Own
<1> DEFINE sl == IF k \in Question THEN k ELSE slave[i]
<1>13. slave' = [slave EXCEPT ![i] = sl]
  BY <1>1
<1> HIDE DEF sl
<1> QED BY <1>2, <1>7, <1>10, <1>11, <1>12, <1>13, SlaveStepFacts

LEMMA SlaveReadsAsks ==
  ASSUME Inv, QInv, NEW i \in Id, SlaveReads(i)
  PROVE  QInv'
<1> DEFINE m == Head(inbox[i])
           sl == IF m.kind \in Answer THEN "running" ELSE slave[i]
<1>1. /\ Working(i) /\ inbox[i] # <<>> /\ slave' = [slave EXCEPT ![i] = sl]
      /\ inbox' = [inbox EXCEPT ![i] = Tail(@)] /\ SlaveStep /\ UNCHANGED outbox
  BY DEF SlaveReads, Working
<1>3. /\ UNCHANGED <<undefined, dialog, dismissed, messages>>
      /\ UNCHANGED <<daemon, toDaemon, toWm, slaves>> /\ ~undefined
  BY <1>1 DEF SlaveStep, HelperStep, wmVars, connVars
<1>4. /\ Wire /\ slave \in [Id -> {"none", "running", "ended", "dead", "lost"} \cup Question]
      /\ inbox \in [Id -> Seq(Msgs)] /\ inbox[i] \in Seq(Msgs)
  BY Parts, Pipes
<1>5. /\ m \in Msgs /\ m = inbox[i][1] /\ 1 \in DOMAIN inbox[i]
      /\ \A k \in DOMAIN Tail(inbox[i]) : k + 1 \in DOMAIN inbox[i] /\ Tail(inbox[i])[k] = inbox[i][k + 1]
  BY <1>1, <1>4, TailFacts
<1>6. \A j \in Id : inbox'[j] = IF j = i THEN Tail(inbox[i]) ELSE inbox[j]
  BY <1>1, <1>4
<1>b. \A k \in DOMAIN inbox[i] : inbox[i][k].id = i
  BY DEF QInv, Own
<1>7. \A k \in DOMAIN inbox'[i] : inbox'[i][k].id = i
  <2>1. \A k \in DOMAIN Tail(inbox[i]) : Tail(inbox[i])[k].id = i
    BY <1>5, <1>b
  <2> QED BY <1>6, <2>1
<1>8. Asking(i) /\ m.id = i
  BY <1>3, <1>5, <1>b DEF QInv
<1>9. ASSUME NEW q \in Question
      PROVE  /\ At(i, q) \in Nat /\ At(i, q)' \in Nat
             /\ At(i, q) = At(i, q)' + (IF m.kind \in AnswersTo(q) THEN 1 ELSE 0)
  <2>1. /\ OutboxHas(i, q)' = OutboxHas(i, q) /\ ToDaemonHas(i, q)' = ToDaemonHas(i, q)
        /\ Shown(i, q)' = Shown(i, q) /\ MessagesHave(i, q)' = MessagesHave(i, q)
        /\ ToWmHas(i, q)' = ToWmHas(i, q)
    BY <1>1, <1>3 DEF OutboxHas, ToDaemonHas, Shown, MessagesHave, ToWmHas
  <2>2. /\ Tail(inbox[i]) \in Seq(Msgs)
        /\ CountOf(inbox[i], i, AnswersTo(q)) =
             CountOf(Tail(inbox[i]), i, AnswersTo(q))
               + (IF m.id = i /\ m.kind \in AnswersTo(q) THEN 1 ELSE 0)
    BY <1>1, <1>4, CountTail
  <2>3. CountOf(Tail(inbox[i]), i, AnswersTo(q)) \in Nat
    BY <2>2, CountPlaces
  <2>4. InboxHas(i, q)' \in Nat
        /\ InboxHas(i, q) = InboxHas(i, q)' + (IF m.kind \in AnswersTo(q) THEN 1 ELSE 0)
    <3>1. InboxHas(i, q)' = CountOf(Tail(inbox[i]), i, AnswersTo(q))
      BY <1>6 DEF InboxHas
    <3> QED BY <1>8, <2>2, <2>3, <3>1 DEF InboxHas
  <2>5. /\ OutboxHas(i, q) \in Nat /\ InboxHas(i, q) \in Nat /\ ToWmHas(i, q) \in Nat
        /\ MessagesHave(i, q) \in Nat /\ ToDaemonHas(i, q) \in Nat /\ Shown(i, q) \in Nat
    BY <1>4, Numbered
  <2> QED BY <2>1, <2>4, <2>5 DEF At
<1> HIDE DEF m
<1>10. Asking(i)'
  <2>1. CASE m.kind \notin Answer
    <3>1. slave'[i] = slave[i]
      BY <1>1, <1>4, <2>1
    <3>2. ASSUME NEW q \in Question
          PROVE  At(i, q)' = At(i, q)
      BY <1>9, <2>1, Kinded
    <3> QED BY <1>3, <1>8, <3>1, <3>2, AskingStays
  <2>2. CASE m.kind \in Answer
    <3>1. PICK q \in Question : m.kind \in AnswersTo(q)
      BY <2>2, Kinded
    <3>2. At(i, q) # 0 /\ At(i, q) = At(i, q)' + 1 /\ At(i, q)' \in Nat
      BY <1>9, <3>1
    <3>3. slave[i] = q
      BY <1>1, <1>8, <3>2 DEF Asking, Working, Question
    <3>4. At(i, q)' = 0 /\ i \notin dismissed
      BY <1>8, <3>2, <3>3 DEF Asking
    <3>5. ASSUME NEW r \in Question \ {q}
          PROVE  At(i, r)' = 0
      <4>1. At(i, r) = 0
        BY <1>8, <3>3 DEF Asking
      <4> QED BY <1>9, <4>1
    <3>6. slave'[i] = "running"
      BY <1>1, <1>4, <2>2
    <3> QED BY <1>3, <3>4, <3>5, <3>6 DEF Asking, Question
  <2> QED BY <2>1, <2>2
<1>11. \A j \in Id : j # i => inbox'[j] = inbox[j] /\ outbox'[j] = outbox[j]
  BY <1>1, <1>6
<1>12. \A l \in DOMAIN outbox'[i] : outbox'[i][l].id = i
  BY <1>1 DEF QInv, Own
<1> HIDE DEF sl
<1> QED BY <1>1, <1>7, <1>10, <1>11, <1>12, SlaveStepFacts

LEMMA SlaveEndsAsks ==
  ASSUME Inv, QInv, NEW i \in Id, SlaveEnds(i) \/ SlaveDies(i)
  PROVE  QInv'
<1>1. /\ Working(i) /\ slave' = [slave EXCEPT ![i] = "ended"] /\ inbox' = [inbox EXCEPT ![i] = <<>>]
      /\ SlaveStep /\ UNCHANGED outbox
  BY DEF SlaveEnds, SlaveDies, Working
<1>2. /\ slave \in [Id -> {"none", "running", "ended", "dead", "lost"} \cup Question]
      /\ inbox \in [Id -> Seq(Msgs)]
  BY Parts, Pipes
<1>3. \A j \in Id : inbox'[j] = IF j = i THEN <<>> ELSE inbox[j]
  BY <1>1, <1>2
<1>4. slave'[i] = "ended"
  BY <1>1, <1>2
<1>5. Asking(i)'
  BY <1>4, AskingOver
<1>6. \A k \in DOMAIN inbox'[i] : inbox'[i][k].id = i
  BY <1>3
<1>7. \A k \in DOMAIN outbox'[i] : outbox'[i][k].id = i
  BY <1>1 DEF QInv, Own
<1>8. \A j \in Id : j # i => inbox'[j] = inbox[j] /\ outbox'[j] = outbox[j]
  BY <1>1, <1>3
<1> QED BY <1>1, <1>5, <1>6, <1>7, <1>8, SlaveStepFacts

-----------------------------------------------------------------------------
LEMMA InitAsks == Init => QInv
<1> SUFFICES ASSUME Init PROVE QInv
  OBVIOUS
<1>1. /\ messages = <<>> /\ toDaemon = <<>> /\ toWm = <<>> /\ slaves = <<>> /\ dismissed = {}
      /\ daemon = "down" /\ connected = FALSE /\ spawning = FALSE
      /\ \A i \in Id : /\ inbox[i] = <<>> /\ outbox[i] = <<>> /\ slave[i] = "none"
                       /\ dialog[i] = "none"
  BY DEF Init
<1>2. Own /\ Recorded /\ Down
  BY <1>1 DEF Own, Recorded, Working, Down, Question
<1>3. Conn
  BY <1>1 DEF Conn, Framed, Greets, Parting
<1>4. ASSUME NEW i \in Id
      PROVE  Asking(i)
  <2>1. ASSUME NEW q \in Question
        PROVE  At(i, q) = 0
    <3>1. /\ OutboxHas(i, q) = 0 /\ InboxHas(i, q) = 0 /\ ToWmHas(i, q) = 0
          /\ MessagesHave(i, q) = 0 /\ ToDaemonHas(i, q) = 0
      BY <1>1, CountNone DEF OutboxHas, InboxHas, ToWmHas, MessagesHave, ToDaemonHas
    <3>2. Shown(i, q) = 0
      BY <1>1, Kinded DEF Shown
    <3> QED BY <3>1, <3>2 DEF At
  <2> QED BY <1>1, <2>1 DEF Asking, Question
<1> QED BY <1>2, <1>3, <1>4 DEF QInv

LEMMA StutterAsks == QInv /\ UNCHANGED vars => QInv'
<1> SUFFICES ASSUME QInv, UNCHANGED vars PROVE QInv'
  OBVIOUS
<1>1. UNCHANGED <<connVars, daemon, toDaemon, toWm, slaves, slaveVars, undefined, dialog, dismissed>>
  BY DEF vars, wmVars
<1>2. CASE ~undefined
  BY <1>1, <1>2, QuietAsks
<1>3. CASE undefined
  <2>1. Own' /\ Recorded' /\ Down' /\ Conn'
    BY <1>1, SameConn DEF connVars, slaveVars
  <2> QED BY <1>1, <1>3, <2>1 DEF QInv
<1> QED BY <1>2, <1>3

LEMMA StepAsks == Inv /\ QInv /\ [Next]_vars => QInv'
<1> SUFFICES ASSUME Inv, QInv, [Next]_vars PROVE QInv'
  OBVIOUS
<1>1. CASE User
  BY <1>1, StartAsks, CloseViewAsks, AbortAsks, AnswerErrorAsks, AnswerOverwriteAsks,
     MoveSourceAsks, AnswerRenameAsks, DismissAsks, RenameEndsAsks DEF User, Answers
<1>2. CASE WmReceives
  BY <1>2, HelloAsks, ReportAsks, ErrorArrivesAsks, OverwriteArrivesAsks, ConnectionEndsAsks
     DEF WmReceives
<1>3. CASE Daemon
  BY <1>3, DaemonStartsAsks, DaemonRunsAsks, DaemonAnswersAsks, DaemonRelaysAsks,
     DaemonSeesEndAsks DEF Daemon
<1>4. CASE DaemonDies
  BY <1>4, DaemonDiesAsks
<1>5. ASSUME NEW i \in Id, Deliver(i)
      PROVE  QInv'
  BY <1>5, DeliverAsks
<1>6. ASSUME NEW i \in Id, Slave(i)
      PROVE  QInv'
  <2>1. CASE SlaveAsks(i)
    BY <2>1, SlaveWritesAsks DEF SlaveAsks
  <2>2. CASE SlaveReports(i)
    BY <2>2, SlaveWritesAsks DEF SlaveReports
  <2>3. CASE SlaveReads(i)
    BY <2>3, SlaveReadsAsks
  <2>4. CASE SlaveEnds(i)
    BY <2>4, SlaveEndsAsks
  <2> QED BY <1>6, <2>1, <2>2, <2>3, <2>4 DEF Slave
<1>7. ASSUME NEW i \in Id, SlaveDies(i)
      PROVE  QInv'
  BY <1>7, SlaveEndsAsks
<1>8. CASE UNCHANGED vars
  BY <1>8, StutterAsks
<1> QED BY <1>1, <1>2, <1>3, <1>4, <1>5, <1>6, <1>7, <1>8 DEF Next

\* The counts of one kind of message of a slave add up to those of all kinds.
LEMMA CountNoneOf ==
  ASSUME NEW s \in Seq(Msgs), NEW i, NEW kinds, \A q \in Question : CountOf(s, i, AnswersTo(q)) = 0,
         kinds \subseteq Answer
  PROVE  CountOf(s, i, kinds) = 0
<1>1. \A q \in Question : Places(s, i, AnswersTo(q)) = {}
  BY CountPlaces
<1>2. Places(s, i, kinds) = {}
  BY <1>1, Kinded DEF Places
<1> QED BY <1>2, CountPlaces

LEMMA CountNoQuestion ==
  ASSUME NEW s \in Seq(Msgs), NEW i, \A q \in Question : CountOf(s, i, {q}) = 0
  PROVE  CountOf(s, i, Question) = 0
<1>1. \A q \in Question : Places(s, i, {q}) = {}
  BY CountPlaces
<1>2. Places(s, i, Question) = {}
  BY <1>1 DEF Places
<1> QED BY <1>2, CountPlaces

LEMMA AskingPlaces ==
  ASSUME Inv, QInv
  PROVE  QuestionHasOnePlace
<1> SUFFICES ASSUME ~undefined, NEW i \in Id
             PROVE  /\ slave[i] \in Question => Traces(i) = IF i \in dismissed THEN 0 ELSE 1
                    /\ slave[i] = "running" =>
                         /\ dialog[i] = "none"
                         /\ CountOf(outbox[i] \o toWm, i, Question) = 0
                         /\ CountOf(messages \o toDaemon \o inbox[i], i, Answer) = 0
  BY DEF QuestionHasOnePlace
<1>1. Asking(i) /\ Wire /\ WmTypes
  BY Parts DEF QInv
<1>2. /\ toDaemon \in Seq(Msgs) /\ messages \in Seq(Msgs) /\ toWm \in Seq(Msgs)
      /\ inbox[i] \in Seq(Msgs) /\ outbox[i] \in Seq(Msgs)
  BY <1>1, Pipes
<1>3. ASSUME slave[i] \in Question
      PROVE  Traces(i) = IF i \in dismissed THEN 0 ELSE 1
  <2> DEFINE q == slave[i]
  <2>1. At(i, q) = IF i \in dismissed THEN 0 ELSE 1
    BY <1>1, <1>3 DEF Asking
  <2>2. Traces(i) = OutboxHas(i, q) + ToWmHas(i, q) + Shown(i, q)
                      + MessagesHave(i, q) + ToDaemonHas(i, q) + InboxHas(i, q)
    BY DEF Traces, OutboxHas, ToWmHas, Shown, MessagesHave, ToDaemonHas, InboxHas, AnswersTo, DialogsOf
  <2> QED BY <2>1, <2>2 DEF At
<1>4. ASSUME slave[i] = "running"
      PROVE  /\ dialog[i] = "none"
             /\ CountOf(outbox[i] \o toWm, i, Question) = 0
             /\ CountOf(messages \o toDaemon \o inbox[i], i, Answer) = 0
  <2>1. ASSUME NEW q \in Question
        PROVE  /\ OutboxHas(i, q) = 0 /\ InboxHas(i, q) = 0 /\ ToWmHas(i, q) = 0
               /\ MessagesHave(i, q) = 0 /\ ToDaemonHas(i, q) = 0 /\ Shown(i, q) = 0
    <3>1. At(i, q) = 0
      BY <1>1, <1>4 DEF Asking
    <3>2. /\ OutboxHas(i, q) \in Nat /\ InboxHas(i, q) \in Nat /\ ToWmHas(i, q) \in Nat
          /\ MessagesHave(i, q) \in Nat /\ ToDaemonHas(i, q) \in Nat /\ Shown(i, q) \in Nat
      BY <1>1, Numbered
    <3>3. OutboxHas(i, q) + ToWmHas(i, q) + Shown(i, q)
            + MessagesHave(i, q) + ToDaemonHas(i, q) + InboxHas(i, q) = 0
      BY <3>1 DEF At
    <3> QED BY <3>2, <3>3
  <2>2. dialog[i] = "none"
    <3>1. \A q \in Question : dialog[i] \notin DialogsOf(q)
      BY <2>1 DEF Shown
    <3> QED BY <1>1, <3>1 DEF WmTypes, Question, DialogsOf
  <2>3. CountOf(outbox[i] \o toWm, i, Question) = 0
    <3>1. CountOf(outbox[i], i, Question) = 0
      BY <1>2, <2>1, CountNoQuestion DEF OutboxHas
    <3>2. CountOf(toWm, i, Question) = 0
      BY <1>2, <2>1, CountNoQuestion DEF ToWmHas
    <3> QED BY <1>2, <3>1, <3>2, CountJoined
  <2>4. CountOf(messages \o toDaemon \o inbox[i], i, Answer) = 0
    <3>1. CountOf(messages, i, Answer) = 0
      BY <1>2, <2>1, CountNoneOf DEF MessagesHave
    <3>2. CountOf(toDaemon, i, Answer) = 0
      BY <1>2, <2>1, CountNoneOf DEF ToDaemonHas
    <3>3. CountOf(inbox[i], i, Answer) = 0
      BY <1>2, <2>1, CountNoneOf DEF InboxHas
    <3> DEFINE c == messages \o toDaemon
    <3>4. c \in Seq(Msgs) /\ CountOf(c, i, Answer) = 0
      BY <1>2, <3>1, <3>2, CountJoined, CatFacts
    <3> HIDE DEF c
    <3>5. CountOf(c \o inbox[i], i, Answer) = 0
      BY <1>2, <3>3, <3>4, CountJoined
    <3> QED BY <3>5 DEF c
  <2> QED BY <2>2, <2>3, <2>4
<1> QED BY <1>3, <1>4

\* A slave that waits for the user has exactly one question under way, shown or
\* answered in any of six queues of three processes, unless the user closed the
\* dialog without an answer, and a slave that works has none: no answer is lost or
\* doubled between e_fm_ipc.c and e_fm.c, and none is taken for the answer to a
\* later question, for any number of operations, questions, views and mishaps.
THEOREM QuestionsHaveOnePlace == Spec => []QuestionHasOnePlace
<1>1. Spec => []QInv
  <2>1. Inv /\ QInv /\ [Next]_vars => QInv'
    BY StepAsks
  <2> QED BY <2>1, InitAsks, Invariance, PTL DEF Spec
<1> QED BY <1>1, AskingPlaces, Invariance, PTL
=============================================================================
