---------------------------- MODULE FmViewProofs ----------------------------
(***************************************************************************)
(* The daemon lists and watches a directory for each open view and for     *)
(* nothing else: MonitorsMatchViews (FmView) for any number of views,      *)
(* directories and files, and however moves and refreshes cross the        *)
(* answers.                                                                *)
(*                                                                         *)
(* What the parts of the invariant say of the requests under way, of the   *)
(* directories the daemon has and of the views is stated with the five     *)
(* variables as parameters: a view that moves first gives up its old       *)
(* directory and then asks for the new one, and both halves of that step   *)
(* are steps of their own below.                                           *)
(***************************************************************************)
EXTENDS FmView, FiniteSetTheorems, SequenceTheorems, TLAPS

IsSeq(s) == s \in Seq({s[k] : k \in DOMAIN s})

On(es, i)   == i \in DOMAIN es /\ es[i].listed
Root(es, r) == r \in DOMAIN es /\ es[r].real = 0
Users(es, r) == {i \in DOMAIN es : es[i].listed /\ es[i].real = r}

\* The identifiers the daemon has not yet heard of.
Coming(n, es, la) == n \in Nat /\ Len(es) < n /\ n <= la

-----------------------------------------------------------------------------
\* A directory is watched by a monitor of its own or by that of an earlier
\* one, which is counted by those that are on the list and use it; it is freed
\* with the last of them.
Monitor(es, wd, i) ==
  /\ {"dir", "real", "refs", "listed", "freed"} \subseteq DOMAIN es[i]
  /\ es[i].listed \in BOOLEAN /\ es[i].freed \in BOOLEAN
  /\ es[i].dir \in wd
  /\ es[i].real = 0 \/ (Root(es, es[i].real) /\ es[es[i].real].dir = es[i].dir)
  /\ es[i].real = 0 => /\ es[i].refs = Cardinality(Users(es, i)) + (IF es[i].listed THEN 1 ELSE 0)
                       /\ es[i].freed <=> es[i].refs = 0
  /\ es[i].real # 0 => ~(es[i].listed /\ es[i].freed)

\* Of the directories on the list only one has the monitor.
Monitors(es, wd) ==
  /\ IsSeq(es)
  /\ \A i \in DOMAIN es : Monitor(es, wd, i)
  /\ \A i, j \in DOMAIN es :
       es[i].listed /\ es[j].listed /\ es[i].real = 0 /\ es[j].real = 0 /\ es[i].dir = es[j].dir => i = j

\* The requests for a directory come in the order of their identifiers and
\* without a gap; each is given up once at most, and after it was asked for.
InOrder(td, es, la) ==
  /\ IsSeq(td)
  /\ la \in Nat /\ Len(es) <= la
  /\ \A j \in DOMAIN td : td[j].op = "start" => Coming(td[j].id, es, la)
  /\ \A j, k \in DOMAIN td : j < k /\ td[j].op = "start" /\ td[k].op = "start" => td[j].id < td[k].id
  /\ \A n \in Nat : Coming(n, es, la) => \E k \in DOMAIN td : td[k].op = "start" /\ td[k].id = n

GivenUp(td, es) ==
  /\ \A k \in DOMAIN td : td[k].op = "end" =>
       On(es, td[k].id) \/ \E j \in DOMAIN td : j < k /\ td[j].op = "start" /\ td[j].id = td[k].id
  /\ \A j, k \in DOMAIN td : td[j].op = "end" /\ td[k].op = "end" /\ td[j].id = td[k].id => j = k

\* An open view has a directory that is on the list, or asked for, and not
\* given up; no two have the same one.
Views(vw, td, es) ==
  /\ vw = [v \in View |-> vw[v]]
  /\ \A v \in View : vw[v].path = NoDir => vw[v] = Closed
  /\ \A v \in View : {"path", "id"} \subseteq DOMAIN vw[v]
  /\ \A v \in View : vw[v].path # NoDir =>
       /\ \/ On(es, vw[v].id) /\ es[vw[v].id].dir = vw[v].path
          \/ \E k \in DOMAIN td : td[k].op = "start" /\ td[k].id = vw[v].id /\ td[k].dir = vw[v].path
       /\ \A k \in DOMAIN td : td[k].op = "end" => td[k].id # vw[v].id
  /\ \A v, u \in View : vw[v].path # NoDir /\ vw[u].path # NoDir /\ vw[v].id = vw[u].id => v = u

\* What is on the list or asked for belongs to a view or is given up.
Owns(vw, td, i) ==
  \/ \E v \in View : vw[v].path # NoDir /\ vw[v].id = i
  \/ \E k \in DOMAIN td : td[k].op = "end" /\ td[k].id = i
Owners(vw, td, es, la) == \A i \in Nat : On(es, i) \/ Coming(i, es, la) => Owns(vw, td, i)

Matched(vw, td, es, la, wd) ==
  /\ Monitors(es, wd)
  /\ InOrder(td, es, la)
  /\ GivenUp(td, es)
  /\ Views(vw, td, es)
  /\ Owners(vw, td, es, la)

VInv == Matched(view, toDaemon, eds, last, watched)

-----------------------------------------------------------------------------
(* Sequences of anything.                                                  *)

LEMMA SeqFacts ==
  ASSUME NEW s, IsSeq(s)
  PROVE  Len(s) \in Nat /\ DOMAIN s = 1..Len(s) /\ s = [k \in 1..Len(s) |-> s[k]]
BY DEF IsSeq

LEMMA SeqMade ==
  ASSUME NEW s, NEW n \in Nat, DOMAIN s = 1..n, s = [k \in 1..n |-> s[k]]
  PROVE  IsSeq(s) /\ Len(s) = n
<1> DEFINE S == {s[k] : k \in DOMAIN s}
<1>1. s \in [1..n -> S]
  OBVIOUS
<1>2. s \in Seq(S)
  <2> HIDE DEF S
  <2> QED BY <1>1
<1>3. Len(s) = n
  <2> HIDE DEF S
  <2> QED BY <1>1, <1>2
<1> QED BY <1>2, <1>3 DEF IsSeq

LEMMA AppendFacts ==
  ASSUME NEW s, IsSeq(s), NEW m
  PROVE  /\ IsSeq(Append(s, m))
         /\ Len(Append(s, m)) = Len(s) + 1 /\ DOMAIN Append(s, m) = 1..Len(s) + 1
         /\ \A k \in DOMAIN s : Append(s, m)[k] = s[k]
         /\ Append(s, m)[Len(s) + 1] = m
<1> DEFINE S == {s[k] : k \in DOMAIN s} \cup {m}
           t == Append(s, m)
<1>1. s \in Seq(S) /\ m \in S
  <2>1. s \in [1..Len(s) -> S] /\ Len(s) \in Nat
    BY SeqFacts
  <2> HIDE DEF S
  <2>2. s \in Seq(S)
    BY <2>1
  <2> QED BY <2>2 DEF S
<1>2. /\ t \in Seq(S) /\ Len(t) = Len(s) + 1 /\ DOMAIN t = 1..Len(s) + 1
      /\ \A k \in DOMAIN s : t[k] = s[k]
      /\ t[Len(s) + 1] = m
  <2> HIDE DEF S
  <2> QED BY <1>1
<1>3. IsSeq(t)
  <2>1. t \in Seq(S)
    BY <1>2
  <2>2. Len(t) \in Nat /\ DOMAIN t = 1..Len(t) /\ t = [k \in 1..Len(t) |-> t[k]]
    <3> HIDE DEF S, t
    <3> QED BY <2>1
  <2> HIDE DEF t
  <2> QED BY <2>2, SeqMade
<1> QED BY <1>2, <1>3

LEMMA TailFacts ==
  ASSUME NEW s, IsSeq(s), s # <<>>
  PROVE  /\ IsSeq(Tail(s)) /\ Len(s) \in Nat /\ Len(s) > 0 /\ 1 \in DOMAIN s /\ Head(s) = s[1]
         /\ Len(Tail(s)) = Len(s) - 1 /\ DOMAIN s = 1..Len(s) /\ DOMAIN Tail(s) = 1..Len(s) - 1
         /\ \A k \in DOMAIN Tail(s) : Tail(s)[k] = s[k + 1]
<1> DEFINE S == {s[k] : k \in DOMAIN s}
           t == Tail(s)
<1>1. s \in Seq(S)
  BY DEF IsSeq
<1>2. /\ t \in Seq(S) /\ Len(s) \in Nat /\ Len(s) > 0 /\ 1 \in DOMAIN s /\ Head(s) = s[1]
      /\ Len(t) = Len(s) - 1 /\ DOMAIN s = 1..Len(s) /\ DOMAIN t = 1..Len(s) - 1
      /\ \A k \in DOMAIN t : t[k] = s[k + 1]
  <2> HIDE DEF S
  <2> QED BY <1>1
<1>3. IsSeq(t)
  <2>1. Len(t) \in Nat /\ DOMAIN t = 1..Len(t) /\ t = [k \in 1..Len(t) |-> t[k]]
    <3> HIDE DEF S, t
    <3> QED BY <1>2
  <2> HIDE DEF t
  <2> QED BY <2>1, SeqMade
<1> QED BY <1>2, <1>3

-----------------------------------------------------------------------------
(* Steps that leave alone what the invariant is about.                     *)

LikeEds(es, fs) ==
  /\ IsSeq(fs) /\ Len(fs) = Len(es) /\ DOMAIN fs = DOMAIN es
  /\ \A i \in DOMAIN es :
       /\ {"dir", "real", "refs", "listed", "freed"} \subseteq DOMAIN fs[i]
       /\ fs[i].dir = es[i].dir /\ fs[i].real = es[i].real /\ fs[i].refs = es[i].refs
       /\ fs[i].listed = es[i].listed /\ fs[i].freed = es[i].freed

LEMMA EdsAlike ==
  ASSUME NEW vw, NEW td, NEW es, NEW fs, NEW la, NEW wd, Matched(vw, td, es, la, wd), LikeEds(es, fs)
  PROVE  Matched(vw, td, fs, la, wd)
<1>1. \A i \in DOMAIN es : fs[i].real = es[i].real /\ fs[i].listed = es[i].listed
  BY DEF LikeEds
<1>2. \A i : On(fs, i) <=> On(es, i)
  BY <1>1 DEF LikeEds, On
<1>3. \A i : Root(fs, i) <=> Root(es, i)
  BY <1>1 DEF LikeEds, Root
<1>4. \A r : Users(fs, r) = Users(es, r)
  BY <1>1 DEF LikeEds, Users
<1>5. \A n : Coming(n, fs, la) <=> Coming(n, es, la)
  BY DEF LikeEds, Coming
<1>6. Monitors(fs, wd)
  <2>1. ASSUME NEW i \in DOMAIN fs
        PROVE  Monitor(fs, wd, i)
    <3>1. i \in DOMAIN es /\ Monitor(es, wd, i)
      BY DEF LikeEds, Matched, Monitors
    <3>2. /\ {"dir", "real", "refs", "listed", "freed"} \subseteq DOMAIN fs[i]
          /\ fs[i].dir = es[i].dir /\ fs[i].real = es[i].real /\ fs[i].refs = es[i].refs
          /\ fs[i].listed = es[i].listed /\ fs[i].freed = es[i].freed
      BY <3>1 DEF LikeEds
    <3>3. Root(es, es[i].real) => fs[es[i].real].dir = es[es[i].real].dir
      BY DEF LikeEds, Root
    <3> QED BY <3>1, <3>2, <3>3, <1>3, <1>4 DEF Monitor
  <2>2. \A i, j \in DOMAIN fs :
          fs[i].listed /\ fs[j].listed /\ fs[i].real = 0 /\ fs[j].real = 0 /\ fs[i].dir = fs[j].dir => i = j
    BY DEF LikeEds, Matched, Monitors
  <2> QED BY <2>1, <2>2 DEF Monitors, LikeEds
<1>7. InOrder(td, fs, la)
  BY <1>5 DEF InOrder, Matched, LikeEds
<1>8. GivenUp(td, fs)
  BY <1>2 DEF GivenUp, Matched
<1>9. Views(vw, td, fs)
  <2>1. \A i : On(es, i) => fs[i].dir = es[i].dir
    BY DEF On, LikeEds
  <2> QED BY <1>2, <2>1 DEF Views, Matched
<1>10. Owners(vw, td, fs, la)
  BY <1>2, <1>5 DEF Owners, Matched
<1> QED BY <1>6, <1>7, <1>8, <1>9, <1>10 DEF Matched

LikeViews(vw, uw) ==
  /\ uw = [v \in View |-> uw[v]]
  /\ \A v \in View : /\ {"path", "id"} \subseteq DOMAIN uw[v]
                     /\ uw[v].path = vw[v].path /\ uw[v].id = vw[v].id
                     /\ vw[v].path = NoDir => uw[v] = vw[v]

LEMMA ViewsAlike ==
  ASSUME NEW vw, NEW uw, NEW td, NEW es, NEW la, NEW wd, Matched(vw, td, es, la, wd), LikeViews(vw, uw)
  PROVE  Matched(uw, td, es, la, wd)
<1>1. \A v \in View : uw[v].path = vw[v].path /\ uw[v].id = vw[v].id
  BY DEF LikeViews
<1>2. \A i : Owns(vw, td, i) <=> Owns(uw, td, i)
  BY <1>1 DEF Owns
<1>3. Owners(uw, td, es, la)
  BY <1>2 DEF Owners, Matched
<1>4. Views(vw, td, es)
  BY DEF Matched
<1>5. \A v \in View : uw[v].path = NoDir => uw[v] = Closed
  BY <1>4 DEF Views, LikeViews
<1>6. Views(uw, td, es)
  BY <1>1, <1>4, <1>5 DEF Views, LikeViews
<1> QED BY <1>3, <1>6 DEF Matched

-----------------------------------------------------------------------------
(* The queue of requests.                                                  *)

\* A sync is none of the requests that the invariant is about.
LEMMA SyncAppended ==
  ASSUME NEW vw, NEW td, NEW es, NEW la, NEW wd, Matched(vw, td, es, la, wd),
         NEW m, m.op \notin {"start", "end"}
  PROVE  Matched(vw, Append(td, m), es, la, wd)
<1> DEFINE t == Append(td, m)
<1>1. IsSeq(td) /\ Len(td) \in Nat /\ DOMAIN td = 1..Len(td)
  BY SeqFacts DEF Matched, InOrder
<1>2. /\ IsSeq(t) /\ DOMAIN t = 1..Len(td) + 1
      /\ \A k \in DOMAIN td : t[k] = td[k]
      /\ t[Len(td) + 1] = m
  BY <1>1, AppendFacts
<1>3. \A k \in DOMAIN td : k \in DOMAIN t
  BY <1>1, <1>2
<1>4. \A k \in DOMAIN t : t[k].op \in {"start", "end"} => k \in DOMAIN td /\ t[k] = td[k]
  <2> HIDE DEF t
  <2> QED BY <1>1, <1>2
<1> HIDE DEF t
<1>5. InOrder(t, es, la)
  BY <1>2, <1>3, <1>4 DEF InOrder, Matched
<1>6. GivenUp(t, es)
  BY <1>2, <1>3, <1>4 DEF GivenUp, Matched
<1>7. Views(vw, t, es)
  BY <1>2, <1>3, <1>4 DEF Views, Matched
<1>8. Owners(vw, t, es, la)
  BY <1>2, <1>3, <1>4 DEF Owners, Owns, Matched
<1> QED BY <1>5, <1>6, <1>7, <1>8 DEF Matched, t

LEMMA SyncTaken ==
  ASSUME NEW vw, NEW td, NEW es, NEW la, NEW wd, Matched(vw, td, es, la, wd),
         td # <<>>, Head(td).op \notin {"start", "end"}
  PROVE  Matched(vw, Tail(td), es, la, wd)
<1> DEFINE t == Tail(td)
<1>1. IsSeq(td)
  BY DEF Matched, InOrder
<1>2. /\ IsSeq(t) /\ Len(td) \in Nat /\ 1 \in DOMAIN td /\ Head(td) = td[1]
      /\ DOMAIN td = 1..Len(td) /\ DOMAIN t = 1..Len(td) - 1
      /\ \A k \in DOMAIN t : t[k] = td[k + 1]
  BY <1>1, TailFacts
<1>3. \A k \in DOMAIN td : td[k].op \in {"start", "end"} =>
        k - 1 \in DOMAIN t /\ t[k - 1] = td[k]
  <2> HIDE DEF t
  <2>1. \A k \in DOMAIN td : td[k].op \in {"start", "end"} => k # 1
    BY <1>2
  <2>2. \A k \in DOMAIN td : k # 1 => k - 1 \in DOMAIN t /\ k - 1 + 1 = k
    BY <1>2
  <2> QED BY <1>2, <2>1, <2>2
<1>4. \A k \in DOMAIN t : k + 1 \in DOMAIN td /\ t[k] = td[k + 1] /\ k \in Int
  <2> HIDE DEF t
  <2> QED BY <1>2
<1>5. \A k \in DOMAIN td : k \in Int
  BY <1>2
<1> HIDE DEF t
<1>6. InOrder(t, es, la)
  BY <1>2, <1>3, <1>4, <1>5 DEF InOrder, Matched
<1>7. GivenUp(t, es)
  <2>1. ASSUME NEW k \in DOMAIN t, t[k].op = "end"
        PROVE  On(es, t[k].id) \/ \E j \in DOMAIN t : j < k /\ t[j].op = "start" /\ t[j].id = t[k].id
    <3>1. CASE On(es, td[k + 1].id)
      BY <3>1, <1>4
    <3>2. CASE \E j \in DOMAIN td : j < k + 1 /\ td[j].op = "start" /\ td[j].id = td[k + 1].id
      <4>1. PICK j \in DOMAIN td : j < k + 1 /\ td[j].op = "start" /\ td[j].id = td[k + 1].id
        BY <3>2
      <4> QED BY <4>1, <1>3, <1>4, <1>5
    <3> QED BY <2>1, <3>1, <3>2, <1>4 DEF GivenUp, Matched
  <2>2. ASSUME NEW j \in DOMAIN t, NEW k \in DOMAIN t, t[j].op = "end", t[k].op = "end", t[j].id = t[k].id
        PROVE  j = k
    <3>1. j + 1 = k + 1
      BY <2>2, <1>4 DEF GivenUp, Matched
    <3> QED BY <3>1, <1>4
  <2> QED BY <2>1, <2>2 DEF GivenUp
<1>8. Views(vw, t, es)
  BY <1>3, <1>4 DEF Views, Matched
<1>9. Owners(vw, t, es, la)
  BY <1>3, <1>4 DEF Owners, Owns, Matched
<1> QED BY <1>6, <1>7, <1>8, <1>9 DEF Matched, t

\* The identifiers in use are those that were given out.
LEMMA IdsGivenOut ==
  ASSUME NEW vw, NEW td, NEW es, NEW la, NEW wd, Matched(vw, td, es, la, wd)
  PROVE  /\ la \in Nat /\ Len(es) \in Nat /\ Len(es) <= la
         /\ \A i : On(es, i) => i \in Nat /\ i >= 1 /\ i <= la
         /\ \A k \in DOMAIN td : td[k].op \in {"start", "end"} => td[k].id \in Nat /\ td[k].id <= la
         /\ \A v \in View : vw[v].path # NoDir => vw[v].id \in Nat /\ vw[v].id <= la
<1>1. la \in Nat /\ Len(es) \in Nat /\ Len(es) <= la /\ DOMAIN es = 1..Len(es)
  BY SeqFacts DEF Matched, InOrder, Monitors
<1>2. \A i : On(es, i) => i \in Nat /\ i >= 1 /\ i <= la
  BY <1>1 DEF On
<1>3. \A k \in DOMAIN td : td[k].op = "start" => td[k].id \in Nat /\ td[k].id <= la
  BY DEF Matched, InOrder, Coming
<1>4. \A k \in DOMAIN td : td[k].op = "end" => td[k].id \in Nat /\ td[k].id <= la
  BY <1>2, <1>3 DEF Matched, GivenUp
<1>5. \A v \in View : vw[v].path # NoDir => vw[v].id \in Nat /\ vw[v].id <= la
  BY <1>2, <1>3 DEF Matched, Views
<1> QED BY <1>1, <1>2, <1>3, <1>4, <1>5

\* A view closes: it gives up its directory.
LEMMA EndPut ==
  ASSUME NEW vw, NEW td, NEW es, NEW la, NEW wd, Matched(vw, td, es, la, wd),
         NEW v \in View, vw[v].path # NoDir, NEW p
  PROVE  Matched([vw EXCEPT ![v] = Closed], Append(td, Req("end", vw[v].id, p)), es, la, wd)
<1> DEFINE t == Append(td, Req("end", vw[v].id, p))
           uw == [vw EXCEPT ![v] = Closed]
           n == Len(td) + 1
<1>1. IsSeq(td) /\ Len(td) \in Nat /\ DOMAIN td = 1..Len(td)
  BY SeqFacts DEF Matched, InOrder
<1>2. /\ IsSeq(t) /\ DOMAIN t = 1..n
      /\ \A k \in DOMAIN td : t[k] = td[k]
      /\ t[n].op = "end" /\ t[n].id = vw[v].id
  BY <1>1, AppendFacts DEF Req
<1>3. /\ n \in DOMAIN t /\ n \in Int
      /\ \A k \in DOMAIN td : k \in DOMAIN t /\ k < n /\ k \in Int
      /\ \A k \in DOMAIN t : k \in DOMAIN td \/ k = n
  <2> HIDE DEF t
  <2> QED BY <1>1, <1>2
<1>4. /\ uw = [x \in View |-> uw[x]]
      /\ uw[v] = Closed
      /\ \A x \in View : x # v => uw[x] = vw[x]
      /\ Closed.path = NoDir /\ {"path", "id"} \subseteq DOMAIN Closed
  BY DEF Matched, Views, Closed
<1> HIDE DEF t, uw, n
<1>5. \A k \in DOMAIN td : td[k].op = "end" => td[k].id # vw[v].id
  BY DEF Matched, Views
<1>6. InOrder(t, es, la)
  BY <1>2, <1>3 DEF InOrder, Matched
<1>7. GivenUp(t, es)
  <2>1. On(es, vw[v].id) \/ \E j \in DOMAIN td : td[j].op = "start" /\ td[j].id = vw[v].id
    BY DEF Matched, Views
  <2>2. ASSUME NEW k \in DOMAIN t, t[k].op = "end"
        PROVE  On(es, t[k].id) \/ \E j \in DOMAIN t : j < k /\ t[j].op = "start" /\ t[j].id = t[k].id
    <3>1. CASE k = n
      BY <3>1, <2>1, <1>2, <1>3
    <3>2. CASE k \in DOMAIN td
      BY <3>2, <2>2, <1>2, <1>3 DEF Matched, GivenUp
    <3> QED BY <3>1, <3>2, <1>3
  <2>3. \A j, k \in DOMAIN t : t[j].op = "end" /\ t[k].op = "end" /\ t[j].id = t[k].id => j = k
    BY <1>2, <1>3, <1>5 DEF Matched, GivenUp
  <2> QED BY <2>2, <2>3 DEF GivenUp
<1>8. Views(uw, t, es)
  <2>1. \A x \in View : uw[x].path = NoDir => uw[x] = Closed
    BY <1>4 DEF Matched, Views
  <2>2. \A x \in View : {"path", "id"} \subseteq DOMAIN uw[x]
    BY <1>4 DEF Matched, Views
  <2>3. ASSUME NEW x \in View, uw[x].path # NoDir
        PROVE  /\ \/ On(es, uw[x].id) /\ es[uw[x].id].dir = uw[x].path
                  \/ \E k \in DOMAIN t : t[k].op = "start" /\ t[k].id = uw[x].id /\ t[k].dir = uw[x].path
               /\ \A k \in DOMAIN t : t[k].op = "end" => t[k].id # uw[x].id
    <3>1. x # v /\ uw[x] = vw[x]
      BY <2>3, <1>4
    <3>2. vw[x].id # vw[v].id
      BY <2>3, <3>1 DEF Matched, Views
    <3>3. \/ On(es, vw[x].id) /\ es[vw[x].id].dir = vw[x].path
          \/ \E k \in DOMAIN td : td[k].op = "start" /\ td[k].id = vw[x].id /\ td[k].dir = vw[x].path
      BY <2>3, <3>1 DEF Matched, Views
    <3>4. \A k \in DOMAIN td : td[k].op = "end" => td[k].id # vw[x].id
      BY <2>3, <3>1 DEF Matched, Views
    <3> QED BY <3>1, <3>2, <3>3, <3>4, <1>2, <1>3
  <2>4. \A x, u \in View : uw[x].path # NoDir /\ uw[u].path # NoDir /\ uw[x].id = uw[u].id => x = u
    BY <1>4 DEF Matched, Views
  <2> QED BY <1>4, <2>1, <2>2, <2>3, <2>4 DEF Views
<1>9. Owners(uw, t, es, la)
  <2>1. ASSUME NEW i, Owns(vw, td, i)
        PROVE  Owns(uw, t, i)
    <3>1. CASE i = vw[v].id
      BY <3>1, <1>2, <1>3 DEF Owns
    <3>2. CASE i # vw[v].id
      BY <3>2, <2>1, <1>2, <1>3, <1>4 DEF Owns
    <3> QED BY <3>1, <3>2
  <2> QED BY <2>1 DEF Owners, Matched
<1> QED BY <1>6, <1>7, <1>8, <1>9 DEF Matched, t, uw

\* A view that is closed opens: it asks for a directory under a new identifier.
LEMMA StartPut ==
  ASSUME NEW vw, NEW td, NEW es, NEW la, NEW wd, Matched(vw, td, es, la, wd),
         NEW v \in View, vw[v].path = NoDir,
         NEW w, {"path", "id"} \subseteq DOMAIN w, w.path # NoDir, w.id = la + 1
  PROVE  Matched([vw EXCEPT ![v] = w], Append(td, Req("start", la + 1, w.path)), es, la + 1, wd)
<1> DEFINE t == Append(td, Req("start", la + 1, w.path))
           uw == [vw EXCEPT ![v] = w]
           n == Len(td) + 1
<1>1. IsSeq(td) /\ Len(td) \in Nat /\ DOMAIN td = 1..Len(td)
  BY SeqFacts DEF Matched, InOrder
<1>2. /\ IsSeq(t) /\ DOMAIN t = 1..n
      /\ \A k \in DOMAIN td : t[k] = td[k]
      /\ t[n].op = "start" /\ t[n].id = la + 1 /\ t[n].dir = w.path
  BY <1>1, AppendFacts DEF Req
<1>3. /\ n \in DOMAIN t /\ n \in Int
      /\ \A k \in DOMAIN td : k \in DOMAIN t /\ k < n /\ k \in Int
      /\ \A k \in DOMAIN t : k \in DOMAIN td \/ k = n
  <2> HIDE DEF t
  <2> QED BY <1>1, <1>2
<1>4. /\ uw = [x \in View |-> uw[x]]
      /\ uw[v] = w
      /\ \A x \in View : x # v => uw[x] = vw[x]
  BY DEF Matched, Views
<1> HIDE DEF t, uw, n
<1>5. /\ la \in Nat /\ Len(es) \in Nat /\ Len(es) <= la
      /\ \A k \in DOMAIN td : td[k].op \in {"start", "end"} => td[k].id \in Nat /\ td[k].id <= la
      /\ \A x \in View : vw[x].path # NoDir => vw[x].id \in Nat /\ vw[x].id <= la
      /\ \A i : On(es, i) => i \in Nat /\ i >= 1 /\ i <= la
  BY IdsGivenOut
<1>6. InOrder(t, es, la + 1)
  <2>1. \A j \in DOMAIN t : t[j].op = "start" => Coming(t[j].id, es, la + 1)
    <3>1. \A j \in DOMAIN td : td[j].op = "start" => Coming(td[j].id, es, la + 1)
      BY <1>5 DEF InOrder, Matched, Coming
    <3>2. Coming(la + 1, es, la + 1)
      BY <1>5 DEF Coming
    <3> QED BY <3>1, <3>2, <1>2, <1>3
  <2>2. ASSUME NEW j \in DOMAIN t, NEW k \in DOMAIN t, j < k, t[j].op = "start", t[k].op = "start"
        PROVE  t[j].id < t[k].id
    <3>1. j \in DOMAIN td
      BY <2>2, <1>3
    <3>2. CASE k = n
      BY <2>2, <3>1, <3>2, <1>2, <1>5
    <3>3. CASE k \in DOMAIN td
      BY <2>2, <3>1, <3>3, <1>2 DEF Matched, InOrder
    <3> QED BY <3>2, <3>3, <1>3
  <2>3. ASSUME NEW i \in Nat, Coming(i, es, la + 1)
        PROVE  \E k \in DOMAIN t : t[k].op = "start" /\ t[k].id = i
    <3>1. CASE i = la + 1
      BY <3>1, <1>2, <1>3
    <3>2. CASE i # la + 1
      <4>1. Coming(i, es, la)
        BY <2>3, <3>2, <1>5 DEF Coming
      <4> QED BY <4>1, <1>2, <1>3 DEF Matched, InOrder
    <3> QED BY <3>1, <3>2
  <2>4. la + 1 \in Nat /\ Len(es) <= la + 1
    BY <1>5
  <2> QED BY <1>2, <2>1, <2>2, <2>3, <2>4 DEF InOrder
<1>7. GivenUp(t, es)
  BY <1>2, <1>3 DEF Matched, GivenUp
<1>8. Views(uw, t, es)
  <2>1. \A x \in View : uw[x].path = NoDir => uw[x] = Closed
    BY <1>4 DEF Matched, Views
  <2>2. \A x \in View : {"path", "id"} \subseteq DOMAIN uw[x]
    BY <1>4 DEF Matched, Views
  <2>3. ASSUME NEW x \in View, uw[x].path # NoDir
        PROVE  /\ \/ On(es, uw[x].id) /\ es[uw[x].id].dir = uw[x].path
                  \/ \E k \in DOMAIN t : t[k].op = "start" /\ t[k].id = uw[x].id /\ t[k].dir = uw[x].path
               /\ \A k \in DOMAIN t : t[k].op = "end" => t[k].id # uw[x].id
    <3>1. CASE x = v
      <4>1. \A k \in DOMAIN td : td[k].op = "end" => td[k].id # la + 1
        BY <1>5
      <4> QED BY <4>1, <3>1, <1>2, <1>3, <1>4
    <3>2. CASE x # v
      <4>1. uw[x] = vw[x]
        BY <3>2, <1>4
      <4>2. \/ On(es, vw[x].id) /\ es[vw[x].id].dir = vw[x].path
            \/ \E k \in DOMAIN td : td[k].op = "start" /\ td[k].id = vw[x].id /\ td[k].dir = vw[x].path
        BY <2>3, <4>1 DEF Matched, Views
      <4>3. \A k \in DOMAIN td : td[k].op = "end" => td[k].id # vw[x].id
        BY <2>3, <4>1 DEF Matched, Views
      <4> QED BY <4>1, <4>2, <4>3, <1>2, <1>3
    <3> QED BY <3>1, <3>2
  <2>4. ASSUME NEW x \in View, NEW u \in View, uw[x].path # NoDir, uw[u].path # NoDir, uw[x].id = uw[u].id
        PROVE  x = u
    <3>1. \A y \in View : y # v /\ uw[y].path # NoDir => uw[y].id \in Nat /\ uw[y].id <= la
      BY <1>4, <1>5
    <3>2. CASE x # v /\ u # v
      BY <2>4, <3>2, <1>4 DEF Matched, Views
    <3>3. uw[v].id = la + 1
      BY <1>4
    <3> QED BY <2>4, <3>1, <3>2, <3>3, <1>5
  <2> QED BY <1>4, <2>1, <2>2, <2>3, <2>4 DEF Views
<1>9. Owners(uw, t, es, la + 1)
  <2>1. ASSUME NEW i, Owns(vw, td, i)
        PROVE  Owns(uw, t, i)
    BY <2>1, <1>2, <1>3, <1>4 DEF Owns
  <2>2. Owns(uw, t, la + 1)
    BY <1>4 DEF Owns
  <2>3. \A i \in Nat : Coming(i, es, la + 1) => i = la + 1 \/ Coming(i, es, la)
    BY <1>5 DEF Coming
  <2> QED BY <2>1, <2>2, <2>3 DEF Owners, Matched
<1> QED BY <1>6, <1>7, <1>8, <1>9 DEF Matched, Monitors, t, uw

-----------------------------------------------------------------------------
(* The daemon takes a request for a directory.                             *)

\* It is the next one: identifiers are places in the list of all directories.
LEMMA StartIsNext ==
  ASSUME NEW td, NEW es, NEW la, IsSeq(es), InOrder(td, es, la), td # <<>>, Head(td).op = "start"
  PROVE  Head(td).id = Len(es) + 1
<1>1. /\ 1 \in DOMAIN td /\ Head(td) = td[1] /\ DOMAIN td = 1..Len(td) /\ Len(td) \in Nat
  BY TailFacts DEF InOrder
<1>2. Len(es) \in Nat /\ la \in Nat
  BY SeqFacts DEF InOrder
<1>3. Coming(td[1].id, es, la)
  BY <1>1 DEF InOrder
<1>4. Coming(Len(es) + 1, es, la)
  BY <1>2, <1>3 DEF Coming
<1>5. PICK k \in DOMAIN td : td[k].op = "start" /\ td[k].id = Len(es) + 1
  BY <1>4, <1>2 DEF InOrder
<1>6. k = 1 \/ 1 < k
  BY <1>1
<1>7. CASE 1 < k
  <2>1. td[1].id < td[k].id
    BY <1>1, <1>5, <1>7 DEF InOrder
  <2> QED BY <2>1, <1>2, <1>3, <1>5 DEF Coming
<1> QED BY <1>1, <1>5, <1>6, <1>7

\* The queue, the views and what they own, when it has been added to the list.
LEMMA StartTaken ==
  ASSUME NEW vw, NEW td, NEW es, NEW la, NEW wd, Matched(vw, td, es, la, wd),
         td # <<>>, Head(td).op = "start",
         NEW fs, NEW wx, Monitors(fs, wx), Len(fs) = Len(es) + 1,
         \A i \in DOMAIN es : fs[i].listed = es[i].listed /\ fs[i].dir = es[i].dir,
         fs[Len(es) + 1].listed, fs[Len(es) + 1].dir = Head(td).dir
  PROVE  Matched(vw, Tail(td), fs, la, wx)
<1> DEFINE t == Tail(td)
           n == Len(es) + 1
<1>1. IsSeq(td) /\ IsSeq(es) /\ InOrder(td, es, la)
  BY DEF Matched, InOrder, Monitors
<1>2. /\ IsSeq(t) /\ Len(td) \in Nat /\ 1 \in DOMAIN td /\ Head(td) = td[1]
      /\ DOMAIN td = 1..Len(td) /\ DOMAIN t = 1..Len(td) - 1
      /\ \A k \in DOMAIN t : t[k] = td[k + 1]
  BY <1>1, TailFacts
<1>3. \A k \in DOMAIN t : k + 1 \in DOMAIN td /\ t[k] = td[k + 1] /\ k \in Int /\ k >= 1
  <2> HIDE DEF t
  <2> QED BY <1>2
<1>4. \A k \in DOMAIN td : k = 1 \/ (k - 1 \in DOMAIN t /\ t[k - 1] = td[k] /\ k \in Int)
  <2> HIDE DEF t
  <2>1. \A k \in DOMAIN td : k # 1 => k - 1 \in DOMAIN t /\ k - 1 + 1 = k /\ k \in Int
    BY <1>2
  <2> QED BY <1>2, <2>1
<1>5. td[1].op = "start" /\ td[1].id = n
  BY <1>1, <1>2, StartIsNext
<1>6. Len(es) \in Nat /\ la \in Nat /\ DOMAIN es = 1..Len(es) /\ DOMAIN fs = 1..n /\ n \in DOMAIN fs
  BY <1>1, SeqFacts DEF InOrder, Monitors
<1>7. Coming(n, es, la)
  BY <1>1, <1>2, <1>5 DEF InOrder
<1> HIDE DEF t, n
<1>8. \A i : On(es, i) => On(fs, i) /\ fs[i].dir = es[i].dir
  BY <1>6 DEF On, n
<1>9. On(fs, n) /\ fs[n].dir = td[1].dir
  BY <1>2, <1>6 DEF On, n
<1>10. \A i : On(fs, i) => On(es, i) \/ i = n
  BY <1>6 DEF On, n
<1>11. \A k \in DOMAIN td : td[k].op = "start" /\ k # 1 => td[k].id > n
  <2>1. \A k \in DOMAIN td : k # 1 => 1 < k
    BY <1>2
  <2>2. \A k \in DOMAIN td : td[k].op = "start" /\ k # 1 => td[1].id < td[k].id
    BY <2>1, <1>1, <1>2, <1>5 DEF InOrder
  <2>3. \A k \in DOMAIN td : td[k].op = "start" => td[k].id \in Nat
    BY <1>1 DEF InOrder, Coming
  <2>4. n \in Int
    BY <1>6 DEF n
  <2> QED BY <2>2, <2>3, <2>4, <1>5
<1>12. Len(fs) = n /\ n \in Int /\ n = Len(es) + 1
  BY <1>6 DEF n
<1>13. InOrder(t, fs, la)
  <2>1. \A j \in DOMAIN t : t[j].op = "start" => Coming(t[j].id, fs, la)
    <3>1. \A k \in DOMAIN td : td[k].op = "start" /\ k # 1 => Coming(td[k].id, fs, la)
      BY <1>11, <1>12, <1>1 DEF InOrder, Coming
    <3>2. \A j \in DOMAIN t : j + 1 # 1
      BY <1>3
    <3> QED BY <3>1, <3>2, <1>3
  <2>2. \A j, k \in DOMAIN t : j < k /\ t[j].op = "start" /\ t[k].op = "start" => t[j].id < t[k].id
    BY <1>1, <1>3 DEF InOrder
  <2>3. ASSUME NEW i \in Nat, Coming(i, fs, la)
        PROVE  \E k \in DOMAIN t : t[k].op = "start" /\ t[k].id = i
    <3>1. Coming(i, es, la) /\ i # n
      BY <2>3, <1>6, <1>12 DEF Coming
    <3>2. PICK k \in DOMAIN td : td[k].op = "start" /\ td[k].id = i
      BY <3>1, <1>1 DEF InOrder
    <3> QED BY <3>1, <3>2, <1>4, <1>5
  <2>4. Len(fs) <= la
    BY <1>7, <1>12 DEF Coming
  <2> QED BY <2>1, <2>2, <2>3, <2>4, <1>2, <1>6 DEF InOrder
<1>14. GivenUp(t, fs)
  <2>1. ASSUME NEW k \in DOMAIN t, t[k].op = "end"
        PROVE  On(fs, t[k].id) \/ \E j \in DOMAIN t : j < k /\ t[j].op = "start" /\ t[j].id = t[k].id
    <3>1. CASE On(es, td[k + 1].id)
      BY <3>1, <1>3, <1>8
    <3>2. CASE \E j \in DOMAIN td : j < k + 1 /\ td[j].op = "start" /\ td[j].id = td[k + 1].id
      <4>1. PICK j \in DOMAIN td : j < k + 1 /\ td[j].op = "start" /\ td[j].id = td[k + 1].id
        BY <3>2
      <4>2. CASE j = 1
        BY <4>1, <4>2, <1>3, <1>5, <1>9
      <4>3. CASE j # 1
        BY <4>1, <4>3, <1>3, <1>4
      <4> QED BY <4>2, <4>3
    <3> QED BY <2>1, <3>1, <3>2, <1>3 DEF GivenUp, Matched
  <2>2. ASSUME NEW j \in DOMAIN t, NEW k \in DOMAIN t, t[j].op = "end", t[k].op = "end", t[j].id = t[k].id
        PROVE  j = k
    <3>1. j + 1 = k + 1
      BY <2>2, <1>3 DEF GivenUp, Matched
    <3> QED BY <3>1, <1>3
  <2> QED BY <2>1, <2>2 DEF GivenUp
<1>15. Views(vw, t, fs)
  <2>1. ASSUME NEW v \in View, vw[v].path # NoDir
        PROVE  /\ \/ On(fs, vw[v].id) /\ fs[vw[v].id].dir = vw[v].path
                  \/ \E k \in DOMAIN t : t[k].op = "start" /\ t[k].id = vw[v].id /\ t[k].dir = vw[v].path
               /\ \A k \in DOMAIN t : t[k].op = "end" => t[k].id # vw[v].id
    <3>1. \A k \in DOMAIN t : t[k].op = "end" => t[k].id # vw[v].id
      BY <2>1, <1>3 DEF Views, Matched
    <3>2. CASE On(es, vw[v].id) /\ es[vw[v].id].dir = vw[v].path
      BY <3>1, <3>2, <1>8
    <3>3. CASE \E k \in DOMAIN td : td[k].op = "start" /\ td[k].id = vw[v].id /\ td[k].dir = vw[v].path
      BY <3>1, <3>3, <1>4, <1>5, <1>9
    <3> QED BY <2>1, <3>2, <3>3 DEF Views, Matched
  <2> QED BY <2>1 DEF Views, Matched
<1>16. Owners(vw, t, fs, la)
  <2>1. \A i : Owns(vw, td, i) => Owns(vw, t, i)
    BY <1>3, <1>4, <1>5 DEF Owns
  <2>2. \A i \in Nat : On(fs, i) \/ Coming(i, fs, la) => On(es, i) \/ Coming(i, es, la)
    BY <1>6, <1>7, <1>10, <1>12 DEF Coming
  <2> QED BY <2>1, <2>2 DEF Owners, Matched
<1> QED BY <1>13, <1>14, <1>15, <1>16 DEF Matched, t

LEMMA UsersFinite ==
  ASSUME NEW es, IsSeq(es), NEW r
  PROVE  IsFiniteSet(Users(es, r)) /\ Cardinality(Users(es, r)) \in Nat
<1>1. Users(es, r) \subseteq 1..Len(es) /\ Len(es) \in Nat
  BY SeqFacts DEF Users
<1>2. IsFiniteSet(1..Len(es))
  BY <1>1, FS_Interval
<1>3. IsFiniteSet(Users(es, r))
  BY <1>1, <1>2, FS_Subset
<1> QED BY <1>3, FS_CardinalityType

\* A directory that no listed one watches gets a monitor.
LEMMA MonitorOwn ==
  ASSUME NEW es, NEW wd, Monitors(es, wd),
         NEW ed, {"dir", "real", "refs", "listed", "freed"} \subseteq DOMAIN ed,
         ed.real = 0, ed.refs = 1, ed.listed = TRUE, ed.freed = FALSE,
         \A i \in DOMAIN es : ~(es[i].listed /\ es[i].dir = ed.dir /\ es[i].real = 0)
  PROVE  Monitors(Append(es, ed), wd \cup {ed.dir})
<1> DEFINE fs == Append(es, ed)
           n == Len(es) + 1
           wx == wd \cup {ed.dir}
<1>1. IsSeq(es) /\ Len(es) \in Nat /\ DOMAIN es = 1..Len(es)
  BY SeqFacts DEF Monitors
<1>2. /\ IsSeq(fs) /\ DOMAIN fs = 1..n
      /\ \A i \in DOMAIN es : fs[i] = es[i]
      /\ fs[n] = ed
  BY <1>1, AppendFacts
<1>3. /\ n \in DOMAIN fs /\ n \notin DOMAIN es
      /\ \A i \in DOMAIN es : i \in DOMAIN fs /\ i # 0
      /\ \A i \in DOMAIN fs : i \in DOMAIN es \/ i = n
  <2> HIDE DEF fs
  <2> QED BY <1>1, <1>2
<1> HIDE DEF fs, n
<1>4. \A i \in DOMAIN es : Monitor(es, wd, i)
  BY DEF Monitors
<1>5. \A r \in DOMAIN es : Users(fs, r) = Users(es, r)
  BY <1>2, <1>3 DEF Users
<1>6. Users(fs, n) = {}
  <2>1. \A i \in DOMAIN es : es[i].real # n
    BY <1>3, <1>4 DEF Monitor, Root, n
  <2>2. n # 0
    BY <1>1 DEF n
  <2> QED BY <2>1, <2>2, <1>2, <1>3 DEF Users
<1>7. ASSUME NEW i \in DOMAIN fs
      PROVE  Monitor(fs, wx, i)
  <2>1. CASE i = n
    <3>1. Cardinality(Users(fs, n)) = 0
      BY <1>6, FS_EmptySet
    <3>2. /\ {"dir", "real", "refs", "listed", "freed"} \subseteq DOMAIN fs[n]
          /\ fs[n].listed = TRUE /\ fs[n].freed = FALSE /\ fs[n].dir \in wx /\ fs[n].real = 0 /\ fs[n].refs = 1
      BY <1>2
    <3>3. Monitor(fs, wx, n)
      <4> HIDE DEF wx
      <4>1. fs[n].listed \in BOOLEAN /\ fs[n].freed \in BOOLEAN /\ ~fs[n].freed
        BY <3>2
      <4>2. fs[n].refs = Cardinality(Users(fs, n)) + (IF fs[n].listed THEN 1 ELSE 0)
        BY <3>1, <3>2
      <4>3. fs[n].refs # 0
        BY <3>2
      <4> QED BY <3>2, <4>1, <4>2, <4>3 DEF Monitor
    <3> QED BY <2>1, <3>3
  <2>2. CASE i \in DOMAIN es
    <3>1. Monitor(es, wd, i) /\ fs[i] = es[i] /\ Users(fs, i) = Users(es, i)
      BY <2>2, <1>2, <1>4, <1>5
    <3>2. \A r : Root(es, r) => Root(fs, r) /\ fs[r] = es[r]
      BY <1>2, <1>3 DEF Root
    <3> QED BY <3>1, <3>2 DEF Monitor
  <2> QED BY <2>1, <2>2, <1>3
<1>8. \A i, j \in DOMAIN fs :
        fs[i].listed /\ fs[j].listed /\ fs[i].real = 0 /\ fs[j].real = 0 /\ fs[i].dir = fs[j].dir => i = j
  BY <1>2, <1>3 DEF Monitors
<1> QED BY <1>2, <1>7, <1>8 DEF Monitors, fs

\* A directory that a listed one watches uses its monitor.
LEMMA MonitorShared ==
  ASSUME NEW es, NEW wd, Monitors(es, wd),
         NEW p \in DOMAIN es, es[p].listed, es[p].real = 0,
         NEW ed, {"dir", "real", "refs", "listed", "freed"} \subseteq DOMAIN ed,
         ed.dir = es[p].dir, ed.real = p, ed.listed = TRUE, ed.freed = FALSE
  PROVE  Monitors(Append([es EXCEPT ![p].refs = @ + 1], ed), wd)
<1> DEFINE gs == [es EXCEPT ![p].refs = @ + 1]
           fs == Append(gs, ed)
           n == Len(es) + 1
<1>1. IsSeq(es) /\ Len(es) \in Nat /\ DOMAIN es = 1..Len(es) /\ es = [i \in DOMAIN es |-> es[i]]
  BY SeqFacts DEF Monitors
<1>2. Monitor(es, wd, p)
  BY DEF Monitors
<1>3. /\ DOMAIN gs = 1..Len(es) /\ gs = [i \in 1..Len(es) |-> gs[i]]
      /\ \A i \in DOMAIN es : i # p => gs[i] = es[i]
      /\ DOMAIN gs[p] = DOMAIN es[p]
      /\ gs[p].dir = es[p].dir /\ gs[p].real = 0 /\ gs[p].listed = es[p].listed /\ gs[p].freed = es[p].freed
      /\ gs[p].refs = es[p].refs + 1
  BY <1>1, <1>2 DEF Monitor
<1> HIDE DEF gs
<1>4. IsSeq(gs) /\ Len(gs) = Len(es)
  BY <1>1, <1>3, SeqMade
<1>5. /\ IsSeq(fs) /\ DOMAIN fs = 1..n
      /\ \A i \in DOMAIN gs : fs[i] = gs[i]
      /\ fs[n] = ed
  BY <1>4, AppendFacts
<1>6. /\ n \in DOMAIN fs /\ n \notin DOMAIN es /\ n \in Nat
      /\ \A i \in DOMAIN es : i \in DOMAIN fs /\ i # 0 /\ i \in DOMAIN gs
      /\ \A i \in DOMAIN fs : i \in DOMAIN es \/ i = n
  <2> HIDE DEF fs
  <2> QED BY <1>1, <1>3, <1>5
<1> HIDE DEF fs, n
<1>7. /\ \A i \in DOMAIN es : fs[i].dir = es[i].dir /\ fs[i].real = es[i].real
                              /\ fs[i].listed = es[i].listed /\ fs[i].freed = es[i].freed
      /\ \A i \in DOMAIN es : DOMAIN fs[i] = DOMAIN es[i]
      /\ \A i \in DOMAIN es : i # p => fs[i].refs = es[i].refs
      /\ fs[p].refs = es[p].refs + 1
  <2>1. \A i \in DOMAIN es : fs[i] = gs[i]
    BY <1>5, <1>6
  <2>2. \A i \in DOMAIN es : i # p => fs[i] = es[i]
    BY <2>1, <1>3
  <2>3. fs[p] = gs[p]
    BY <2>1
  <2> QED BY <2>2, <2>3, <1>3
<1>8. \A i \in DOMAIN es : Monitor(es, wd, i)
  BY DEF Monitors
<1>9. \A r : r # p => Users(fs, r) = Users(es, r)
  BY <1>5, <1>6, <1>7 DEF Users
<1>10. Users(fs, p) = Users(es, p) \cup {n} /\ n \notin Users(es, p)
  BY <1>5, <1>6, <1>7 DEF Users
<1>11. Cardinality(Users(fs, p)) = Cardinality(Users(es, p)) + 1 /\ Cardinality(Users(es, p)) \in Nat
  <2>1. IsFiniteSet(Users(es, p)) /\ Cardinality(Users(es, p)) \in Nat
    BY <1>1, UsersFinite
  <2>2. \A S : IsFiniteSet(S) /\ n \notin S => Cardinality(S \cup {n}) = Cardinality(S) + 1
    BY FS_AddElement
  <2>3. Cardinality(Users(es, p) \cup {n}) = Cardinality(Users(es, p)) + 1
    BY <2>1, <2>2, <1>10
  <2> QED BY <2>1, <2>3, <1>10
<1>12. ASSUME NEW i \in DOMAIN fs
       PROVE  Monitor(fs, wd, i)
  <2>1. \A r : Root(es, r) => Root(fs, r) /\ fs[r].dir = es[r].dir
    BY <1>6, <1>7 DEF Root
  <2>2. CASE i = n
    <3>1. Root(es, p)
      BY DEF Root
    <3>2. es[p].dir \in wd
      BY <1>2 DEF Monitor
    <3>3. p # 0
      BY <1>6
    <3> QED BY <2>1, <2>2, <3>1, <3>2, <3>3, <1>5 DEF Monitor
  <2>3. CASE i = p
    <3>1. es[p].refs = Cardinality(Users(es, p)) + 1 /\ ~es[p].freed
      BY <1>2, <1>11 DEF Monitor
    <3>2. fs[p].refs = Cardinality(Users(fs, p)) + 1 /\ fs[p].refs # 0
      BY <3>1, <1>7, <1>11
    <3> QED BY <2>3, <3>1, <3>2, <1>2, <1>7 DEF Monitor
  <2>4. CASE i \in DOMAIN es /\ i # p
    <3>1. Monitor(es, wd, i) /\ Users(fs, i) = Users(es, i)
      BY <2>4, <1>8, <1>9
    <3> QED BY <2>1, <2>4, <3>1, <1>7 DEF Monitor
  <2> QED BY <2>2, <2>3, <2>4, <1>6
<1>13. \A i, j \in DOMAIN fs :
         fs[i].listed /\ fs[j].listed /\ fs[i].real = 0 /\ fs[j].real = 0 /\ fs[i].dir = fs[j].dir => i = j
  <2>1. fs[n].real # 0
    BY <1>5, <1>6
  <2> QED BY <2>1, <1>6, <1>7 DEF Monitors
<1> QED BY <1>5, <1>12, <1>13 DEF Monitors, fs, gs

-----------------------------------------------------------------------------
(* The daemon takes the end of a request.                                  *)

LEMMA UnrefFacts ==
  ASSUME NEW ed, {"dir", "real", "refs", "listed", "freed"} \subseteq DOMAIN ed,
         ed.refs \in Nat, ed.refs >= 1, ed.freed \in BOOLEAN, ~ed.freed
  PROVE  /\ {"dir", "real", "refs", "listed", "freed"} \subseteq DOMAIN Unref(ed)
         /\ Unref(ed).dir = ed.dir /\ Unref(ed).real = ed.real /\ Unref(ed).listed = ed.listed
         /\ Unref(ed).refs = ed.refs - 1
         /\ Unref(ed).freed \in BOOLEAN /\ (Unref(ed).freed <=> ed.refs = 1)
<1>1. CASE ed.refs = 1
  <2> DEFINE a == [ed EXCEPT !.refs = 0]
  <2>1. /\ DOMAIN a = DOMAIN ed /\ a.refs = 0 /\ a.dir = ed.dir /\ a.real = ed.real /\ a.listed = ed.listed
    OBVIOUS
  <2>2. Unref(ed) = DirDel(a)
    BY <1>1 DEF Unref
  <2> HIDE DEF a
  <2>3. /\ DOMAIN DirDel(a) = DOMAIN a /\ DirDel(a).refs = a.refs /\ DirDel(a).dir = a.dir
        /\ DirDel(a).real = a.real /\ DirDel(a).listed = a.listed /\ DirDel(a).freed = TRUE
    BY <2>1 DEF DirDel
  <2>4. Unref(ed).freed \in BOOLEAN /\ (Unref(ed).freed <=> ed.refs = 1)
    <3>1. Unref(ed).freed = TRUE
      BY <2>2, <2>3
    <3> QED BY <1>1, <3>1
  <2>5. Unref(ed).refs = ed.refs - 1
    BY <1>1, <2>1, <2>2, <2>3
  <2>6. /\ DOMAIN Unref(ed) = DOMAIN ed /\ Unref(ed).dir = ed.dir
        /\ Unref(ed).real = ed.real /\ Unref(ed).listed = ed.listed
    BY <2>1, <2>2, <2>3
  <2> QED BY <2>4, <2>5, <2>6
<1>2. CASE ed.refs # 1
  <2>1. Unref(ed) = [ed EXCEPT !.refs = @ - 1]
    BY <1>2 DEF Unref
  <2> QED BY <1>2, <2>1
<1> QED BY <1>1, <1>2

\* The directory with the monitor leaves the list.
LEMMA RootLeaves ==
  ASSUME NEW es, NEW wd, Monitors(es, wd), NEW r \in DOMAIN es, es[r].listed, es[r].real = 0
  PROVE  Monitors([es EXCEPT ![r] = [Unref(@) EXCEPT !.listed = FALSE]], wd)
<1> DEFINE e == [Unref(es[r]) EXCEPT !.listed = FALSE]
           fs == [es EXCEPT ![r] = e]
<1>1. IsSeq(es) /\ Len(es) \in Nat /\ DOMAIN es = 1..Len(es) /\ es = [i \in DOMAIN es |-> es[i]]
  BY SeqFacts DEF Monitors
<1>2. Monitor(es, wd, r) /\ Cardinality(Users(es, r)) \in Nat
  BY <1>1, UsersFinite DEF Monitors
<1>3. es[r].refs = Cardinality(Users(es, r)) + 1 /\ es[r].refs \in Nat /\ es[r].refs >= 1 /\ ~es[r].freed
  BY <1>2 DEF Monitor
<1>4. /\ {"dir", "real", "refs", "listed", "freed"} \subseteq DOMAIN e
      /\ e.dir = es[r].dir /\ e.real = 0 /\ e.listed = FALSE
      /\ e.refs = es[r].refs - 1
      /\ e.freed \in BOOLEAN /\ (e.freed <=> es[r].refs = 1)
  <2> DEFINE a == Unref(es[r])
  <2>1. /\ {"dir", "real", "refs", "listed", "freed"} \subseteq DOMAIN a
        /\ a.dir = es[r].dir /\ a.real = es[r].real /\ a.refs = es[r].refs - 1
        /\ a.freed \in BOOLEAN /\ (a.freed <=> es[r].refs = 1)
    BY <1>2, <1>3, UnrefFacts DEF Monitor
  <2> HIDE DEF a
  <2>2. LET b == [a EXCEPT !.listed = FALSE] IN
          /\ DOMAIN b = DOMAIN a /\ b.dir = a.dir /\ b.real = a.real /\ b.refs = a.refs
          /\ b.freed = a.freed /\ b.listed = FALSE
    BY <2>1
  <2> QED BY <2>1, <2>2 DEF a
<1> HIDE DEF e
<1>5. /\ DOMAIN fs = 1..Len(es) /\ fs = [i \in 1..Len(es) |-> fs[i]]
      /\ fs[r] = e
      /\ \A i \in DOMAIN es : i # r => fs[i] = es[i]
  BY <1>1
<1> HIDE DEF fs
<1>6. IsSeq(fs)
  BY <1>1, <1>5, SeqMade
<1>7. \A i \in DOMAIN es : fs[i].dir = es[i].dir /\ fs[i].real = es[i].real
  BY <1>4, <1>5
<1>8. r # 0
  BY <1>1
<1>9. \A q \in DOMAIN es : Users(fs, q) = Users(es, q)
  <2>1. \A q \in DOMAIN es : r \notin Users(es, q) /\ r \notin Users(fs, q)
    BY <1>1, <1>4, <1>5, <1>8 DEF Users
  <2> QED BY <2>1, <1>1, <1>5 DEF Users
<1>10. ASSUME NEW i \in DOMAIN fs
       PROVE  Monitor(fs, wd, i)
  <2>1. \A q : Root(es, q) => Root(fs, q) /\ fs[q].dir = es[q].dir
    BY <1>1, <1>5, <1>7 DEF Root
  <2>2. i \in DOMAIN es
    BY <1>1, <1>5
  <2>3. CASE i = r
    <3>1. fs[r].refs = Cardinality(Users(fs, r)) + 0 /\ (fs[r].freed <=> fs[r].refs = 0)
      BY <1>2, <1>3, <1>4, <1>5, <1>9
    <3>2. es[r].dir \in wd
      BY <1>2 DEF Monitor
    <3>3. Monitor(fs, wd, r)
      BY <3>1, <3>2, <1>4, <1>5 DEF Monitor
    <3> QED BY <2>3, <3>3
  <2>4. CASE i # r
    <3>1. Monitor(es, wd, i) /\ Users(fs, i) = Users(es, i) /\ fs[i] = es[i]
      BY <2>2, <2>4, <1>5, <1>9 DEF Monitors
    <3> QED BY <2>1, <3>1 DEF Monitor
  <2> QED BY <2>3, <2>4
<1>11. \A i, j \in DOMAIN fs :
         fs[i].listed /\ fs[j].listed /\ fs[i].real = 0 /\ fs[j].real = 0 /\ fs[i].dir = fs[j].dir => i = j
  <2>1. \A i \in DOMAIN fs : fs[i].listed => i \in DOMAIN es /\ fs[i] = es[i]
    BY <1>1, <1>4, <1>5
  <2> QED BY <2>1 DEF Monitors
<1> QED BY <1>6, <1>10, <1>11 DEF Monitors, fs, e

\* A directory that uses the monitor of another one leaves the list.
LEMMA UserLeaves ==
  ASSUME NEW es, NEW wd, Monitors(es, wd), NEW d \in DOMAIN es, es[d].listed, es[d].real # 0
  PROVE  Monitors([es EXCEPT ![es[d].real] = Unref(@), ![d] = [DirDel(@) EXCEPT !.listed = FALSE]], wd)
<1> DEFINE r == es[d].real
           f == Unref(es[r])
           e == [DirDel(es[d]) EXCEPT !.listed = FALSE]
           fs == [es EXCEPT ![r] = Unref(@), ![d] = [DirDel(@) EXCEPT !.listed = FALSE]]
<1>1. IsSeq(es) /\ Len(es) \in Nat /\ DOMAIN es = 1..Len(es) /\ es = [i \in DOMAIN es |-> es[i]]
  BY SeqFacts DEF Monitors
<1>2. Monitor(es, wd, d)
  BY DEF Monitors
<1>3. r \in DOMAIN es /\ es[r].real = 0 /\ r # d /\ es[r].dir = es[d].dir
  BY <1>2 DEF Monitor, Root
<1>4. Monitor(es, wd, r)
  BY <1>3 DEF Monitors
<1>5. d \in Users(es, r) /\ IsFiniteSet(Users(es, r)) /\ Cardinality(Users(es, r)) \in Nat
  <2>1. d \in Users(es, r)
    BY DEF Users
  <2>2. IsFiniteSet(Users(es, r)) /\ Cardinality(Users(es, r)) \in Nat
    <3> HIDE DEF r
    <3> QED BY <1>1, UsersFinite
  <2> QED BY <2>1, <2>2
<1>6. Cardinality(Users(es, r) \ {d}) = Cardinality(Users(es, r)) - 1
      /\ Cardinality(Users(es, r) \ {d}) \in Nat
  <2>1. Cardinality(Users(es, r) \ {d}) = Cardinality(Users(es, r)) - 1 /\ IsFiniteSet(Users(es, r) \ {d})
    BY <1>5, FS_RemoveElement
  <2> QED BY <2>1, FS_CardinalityType
<1>7. /\ es[r].refs = Cardinality(Users(es, r)) + (IF es[r].listed THEN 1 ELSE 0)
      /\ es[r].refs \in Nat /\ es[r].refs >= 1 /\ ~es[r].freed
  <2>1. es[r].refs = Cardinality(Users(es, r)) + (IF es[r].listed THEN 1 ELSE 0)
        /\ (es[r].freed <=> es[r].refs = 0)
    BY <1>3, <1>4 DEF Monitor
  <2> QED BY <2>1, <1>5, <1>6
<1>8. /\ {"dir", "real", "refs", "listed", "freed"} \subseteq DOMAIN f
      /\ f.dir = es[r].dir /\ f.real = 0 /\ f.listed = es[r].listed
      /\ f.refs = es[r].refs - 1
      /\ f.freed \in BOOLEAN /\ (f.freed <=> es[r].refs = 1)
  BY <1>3, <1>4, <1>7, UnrefFacts DEF Monitor
<1>9. /\ {"dir", "real", "refs", "listed", "freed"} \subseteq DOMAIN e
      /\ e.dir = es[d].dir /\ e.real = es[d].real /\ e.listed = FALSE /\ e.freed = TRUE
  <2> DEFINE a == DirDel(es[d])
  <2>1. /\ {"dir", "real", "refs", "listed", "freed"} \subseteq DOMAIN a
        /\ a.dir = es[d].dir /\ a.real = es[d].real /\ a.freed = TRUE
    BY <1>2 DEF Monitor, DirDel
  <2> HIDE DEF a
  <2>2. LET b == [a EXCEPT !.listed = FALSE] IN
          /\ DOMAIN b = DOMAIN a /\ b.dir = a.dir /\ b.real = a.real /\ b.freed = a.freed /\ b.listed = FALSE
    BY <2>1
  <2> QED BY <2>1, <2>2 DEF a
<1>10. fs = [es EXCEPT ![r] = f, ![d] = e]
  <2>1. [es EXCEPT ![r] = f][d] = es[d]
    BY <1>1, <1>3
  <2> QED BY <2>1
<1> HIDE DEF f, e, fs, r
<1>11. /\ DOMAIN fs = 1..Len(es) /\ fs = [i \in 1..Len(es) |-> fs[i]]
       /\ fs[r] = f /\ fs[d] = e
       /\ \A i \in DOMAIN es : i # r /\ i # d => fs[i] = es[i]
  BY <1>1, <1>3, <1>10
<1>12. IsSeq(fs)
  BY <1>1, <1>11, SeqMade
<1>13. \A i \in DOMAIN es : /\ fs[i].dir = es[i].dir /\ fs[i].real = es[i].real
                            /\ i # d => fs[i].listed = es[i].listed
  BY <1>3, <1>8, <1>9, <1>11
<1>14. Users(fs, r) = Users(es, r) \ {d} /\ \A q : q # r => Users(fs, q) = Users(es, q)
  <2>1. \A q : q # r => d \notin Users(es, q) /\ d \notin Users(fs, q)
    BY <1>13 DEF Users, r
  <2>2. d \notin Users(fs, r)
    BY <1>9, <1>11 DEF Users
  <2>3. DOMAIN fs = DOMAIN es
    BY <1>1, <1>11
  <2> QED BY <2>1, <2>2, <2>3, <1>13 DEF Users
<1>15. ASSUME NEW i \in DOMAIN fs
       PROVE  Monitor(fs, wd, i)
  <2>1. \A q : Root(es, q) => Root(fs, q) /\ fs[q].dir = es[q].dir
    BY <1>1, <1>11, <1>13 DEF Root
  <2>2. i \in DOMAIN es /\ Monitor(es, wd, i)
    BY <1>1, <1>11 DEF Monitors
  <2>3. CASE i = r
    <3>1. fs[r].refs = Cardinality(Users(fs, r)) + (IF fs[r].listed THEN 1 ELSE 0)
          /\ (fs[r].freed <=> fs[r].refs = 0)
      <4> DEFINE n == Cardinality(Users(es, r))
      <4>1. n \in Nat /\ Cardinality(Users(fs, r)) = n - 1
        BY <1>5, <1>6, <1>14
      <4>2. /\ es[r].refs = n + (IF es[r].listed THEN 1 ELSE 0)
            /\ fs[r].refs = es[r].refs - 1 /\ fs[r].listed = es[r].listed
            /\ (fs[r].freed <=> es[r].refs = 1)
        BY <1>7, <1>8, <1>11
      <4> HIDE DEF n
      <4>3. CASE es[r].listed
        BY <4>1, <4>2, <4>3
      <4>4. CASE ~es[r].listed
        BY <4>1, <4>2, <4>4
      <4> QED BY <4>3, <4>4
    <3>2. Monitor(fs, wd, r)
      BY <3>1, <1>3, <1>4, <1>8, <1>11 DEF Monitor
    <3> QED BY <2>3, <3>2
  <2>4. CASE i = d
    <3>1. fs[d].real # 0 /\ ~fs[d].listed /\ fs[d].listed \in BOOLEAN /\ fs[d].freed \in BOOLEAN
      BY <1>9, <1>11
    <3>2. /\ {"dir", "real", "refs", "listed", "freed"} \subseteq DOMAIN fs[d]
          /\ fs[d].dir = es[d].dir /\ fs[d].real = es[d].real
      BY <1>9, <1>11
    <3>3. Monitor(fs, wd, d)
      BY <2>1, <3>1, <3>2, <1>2 DEF Monitor
    <3> QED BY <2>4, <3>3
  <2>5. CASE i # r /\ i # d
    <3>1. Users(fs, i) = Users(es, i) /\ fs[i] = es[i]
      BY <2>2, <2>5, <1>11, <1>14
    <3> QED BY <2>1, <2>2, <3>1 DEF Monitor
  <2> QED BY <2>3, <2>4, <2>5
<1>16. \A i, j \in DOMAIN fs :
         fs[i].listed /\ fs[j].listed /\ fs[i].real = 0 /\ fs[j].real = 0 /\ fs[i].dir = fs[j].dir => i = j
  <2>1. \A i \in DOMAIN fs : fs[i].listed => i \in DOMAIN es /\ i # d /\ fs[i].listed = es[i].listed
    BY <1>1, <1>9, <1>11, <1>13
  <2> QED BY <2>1, <1>13 DEF Monitors
<1> QED BY <1>12, <1>15, <1>16 DEF Monitors, fs, r

\* The queue, the views and what they own, when it has left the list.
LEMMA EndTaken ==
  ASSUME NEW vw, NEW td, NEW es, NEW la, NEW wd, Matched(vw, td, es, la, wd),
         td # <<>>, Head(td).op = "end",
         NEW fs, Monitors(fs, wd), Len(fs) = Len(es),
         \A i \in DOMAIN es : fs[i].dir = es[i].dir /\ (fs[i].listed <=> es[i].listed /\ i # Head(td).id)
  PROVE  Matched(vw, Tail(td), fs, la, wd)
<1> DEFINE t == Tail(td)
           n == Head(td).id
<1>1. IsSeq(td) /\ IsSeq(es) /\ InOrder(td, es, la) /\ IsSeq(fs)
  BY DEF Matched, InOrder, Monitors
<1>2. /\ IsSeq(t) /\ Len(td) \in Nat /\ 1 \in DOMAIN td /\ Head(td) = td[1]
      /\ DOMAIN td = 1..Len(td) /\ DOMAIN t = 1..Len(td) - 1
      /\ \A k \in DOMAIN t : t[k] = td[k + 1]
  BY <1>1, TailFacts
<1>3. \A k \in DOMAIN t : k + 1 \in DOMAIN td /\ t[k] = td[k + 1] /\ k \in Int /\ k + 1 # 1
  <2> HIDE DEF t
  <2> QED BY <1>2
<1>4. \A k \in DOMAIN td : k = 1 \/ (k - 1 \in DOMAIN t /\ t[k - 1] = td[k] /\ k \in Int)
  <2> HIDE DEF t
  <2>1. \A k \in DOMAIN td : k # 1 => k - 1 \in DOMAIN t /\ k - 1 + 1 = k /\ k \in Int
    BY <1>2
  <2> QED BY <1>2, <2>1
<1>5. td[1].op = "end" /\ td[1].id = n
  BY <1>2
<1>6. Len(es) \in Nat /\ DOMAIN es = 1..Len(es) /\ DOMAIN fs = DOMAIN es
  BY <1>1, SeqFacts
<1> HIDE DEF t, n
<1>7. \A i : On(fs, i) <=> On(es, i) /\ i # n
  BY <1>6 DEF On, n
<1>8. \A i \in DOMAIN es : fs[i].dir = es[i].dir
  OBVIOUS
<1>9. \A i : Coming(i, fs, la) <=> Coming(i, es, la)
  BY DEF Coming
<1>10. \A k \in DOMAIN t : t[k].op = "end" => t[k].id # n
  BY <1>2, <1>3, <1>5 DEF Matched, GivenUp
<1>11. InOrder(t, fs, la)
  <2>1. \A j, k \in DOMAIN t : j < k /\ t[j].op = "start" /\ t[k].op = "start" => t[j].id < t[k].id
    BY <1>1, <1>3 DEF InOrder
  <2>2. \A i \in Nat : Coming(i, fs, la) => \E k \in DOMAIN t : t[k].op = "start" /\ t[k].id = i
    BY <1>1, <1>4, <1>5, <1>9 DEF InOrder
  <2>3. \A j \in DOMAIN t : t[j].op = "start" => Coming(t[j].id, fs, la)
    BY <1>1, <1>3, <1>9 DEF InOrder
  <2> QED BY <1>1, <1>2, <2>1, <2>2, <2>3 DEF InOrder
<1>12. GivenUp(t, fs)
  <2>1. ASSUME NEW k \in DOMAIN t, t[k].op = "end"
        PROVE  On(fs, t[k].id) \/ \E j \in DOMAIN t : j < k /\ t[j].op = "start" /\ t[j].id = t[k].id
    <3>1. CASE On(es, td[k + 1].id)
      BY <2>1, <3>1, <1>3, <1>7, <1>10
    <3>2. CASE \E j \in DOMAIN td : j < k + 1 /\ td[j].op = "start" /\ td[j].id = td[k + 1].id
      <4>1. PICK j \in DOMAIN td : j < k + 1 /\ td[j].op = "start" /\ td[j].id = td[k + 1].id
        BY <3>2
      <4>2. j # 1 /\ j \in Int /\ j - 1 \in DOMAIN t /\ t[j - 1] = td[j]
        BY <4>1, <1>4, <1>5
      <4>3. j - 1 < k
        BY <4>1, <4>2, <1>3
      <4> QED BY <4>1, <4>2, <4>3, <1>3
    <3> QED BY <2>1, <3>1, <3>2, <1>3 DEF GivenUp, Matched
  <2>2. ASSUME NEW j \in DOMAIN t, NEW k \in DOMAIN t, t[j].op = "end", t[k].op = "end", t[j].id = t[k].id
        PROVE  j = k
    <3>1. j + 1 = k + 1
      BY <2>2, <1>3 DEF GivenUp, Matched
    <3> QED BY <3>1, <1>3
  <2> QED BY <2>1, <2>2 DEF GivenUp
<1>13. Views(vw, t, fs)
  <2>1. ASSUME NEW v \in View, vw[v].path # NoDir
        PROVE  /\ \/ On(fs, vw[v].id) /\ fs[vw[v].id].dir = vw[v].path
                  \/ \E k \in DOMAIN t : t[k].op = "start" /\ t[k].id = vw[v].id /\ t[k].dir = vw[v].path
               /\ \A k \in DOMAIN t : t[k].op = "end" => t[k].id # vw[v].id
    <3>1. /\ vw[v].id # n
          /\ \A k \in DOMAIN t : t[k].op = "end" => t[k].id # vw[v].id
      BY <2>1, <1>2, <1>3, <1>5 DEF Views, Matched
    <3>2. CASE On(es, vw[v].id) /\ es[vw[v].id].dir = vw[v].path
      BY <3>1, <3>2, <1>7, <1>8 DEF On
    <3>3. CASE \E k \in DOMAIN td : td[k].op = "start" /\ td[k].id = vw[v].id /\ td[k].dir = vw[v].path
      BY <3>1, <3>3, <1>4, <1>5
    <3> QED BY <2>1, <3>2, <3>3 DEF Views, Matched
  <2> QED BY <2>1 DEF Views, Matched
<1>14. Owners(vw, t, fs, la)
  <2>1. \A i : i # n /\ Owns(vw, td, i) => Owns(vw, t, i)
    BY <1>3, <1>4, <1>5 DEF Owns
  <2>2. On(es, n)
    <3>1. \A j \in DOMAIN td : ~(j < 1)
      BY <1>2
    <3> QED BY <3>1, <1>2, <1>5 DEF Matched, GivenUp
  <2>3. ~Coming(n, es, la)
    BY <2>2, <1>6 DEF On, Coming
  <2> QED BY <2>1, <2>3, <1>7, <1>9 DEF Owners, Matched
<1> QED BY <1>11, <1>12, <1>13, <1>14 DEF Matched, t

-----------------------------------------------------------------------------
(* The view: what it takes from its queue and its list changes neither its *)
(* directory nor its identifier.                                           *)

Kept(w, u) == {"path", "id"} \subseteq DOMAIN u /\ u.path = w.path /\ u.id = w.id

LEMMA ProcessedKeeps ==
  ASSUME NEW w, NEW u, Kept(w, u), NEW batch
  PROVE  Kept(w, Processed(u, batch))
BY DEF Kept, Processed

LEMMA LiveBeginKeeps ==
  ASSUME NEW w, NEW u, Kept(w, u)
  PROVE  Kept(w, LiveBegin(u))
BY DEF Kept, LiveBegin

LEMMA ListEndKeeps ==
  ASSUME NEW w, NEW u, Kept(w, u)
  PROVE  Kept(w, ListEnd(u))
<1> DEFINE e == [u EXCEPT !.busy = @ - 1, !.scan = FALSE, !.sort = FALSE, !.queue = Nothing,
                          !.mishaps = IF Queued(u) = {} THEN @ ELSE @ \cup {"cut"}]
<1>1. Kept(w, e)
  BY DEF Kept
<1> HIDE DEF e
<1>2. Kept(w, LiveBegin(e))
  BY <1>1, LiveBeginKeeps
<1> QED BY <1>2 DEF ListEnd, e

LEMMA FileAddKeeps ==
  ASSUME NEW w, NEW u, Kept(w, u), NEW f, NEW ver, NEW unique
  PROVE  Kept(w, FileAdd(u, f, ver, unique))
BY DEF Kept, FileAdd

LEMMA MissedKeeps ==
  ASSUME NEW w, NEW u, Kept(w, u), NEW f
  PROVE  Kept(w, Missed(u, f))
BY DEF Kept, Missed

LEMMA FileDelKeeps ==
  ASSUME NEW w, NEW u, Kept(w, u), NEW f
  PROVE  Kept(w, FileDel(u, f))
<1> DEFINE m == Missed(u, f)
<1>1. Kept(w, m)
  BY MissedKeeps
<1> HIDE DEF m
<1>2. Kept(w, [m EXCEPT !.icons[f] = IF @ = <<>> THEN @ ELSE Tail(@)])
  BY <1>1 DEF Kept
<1> QED BY <1>2 DEF FileDel, m

LEMMA FileChangeKeeps ==
  ASSUME NEW w, NEW u, Kept(w, u), NEW f, NEW ver
  PROVE  Kept(w, FileChange(u, f, ver))
<1> DEFINE m == Missed(u, f)
<1>1. Kept(w, m)
  BY MissedKeeps
<1> HIDE DEF m
<1>2. Kept(w, [m EXCEPT !.icons[f] = IF @ = <<>> THEN @ ELSE <<ver>> \o Tail(@)])
  BY <1>1 DEF Kept
<1> QED BY <1>2 DEF FileChange, m

LEMMA LivedKeeps ==
  ASSUME NEW w, NEW u, Kept(w, u), NEW a
  PROVE  Kept(w, Lived(u, a))
<1> DEFINE l == [u EXCEPT !.live = Tail(@), !.mishaps = IF a.id = u.id THEN @ ELSE @ \cup {"mixed"}]
<1>1. Kept(w, l)
  BY DEF Kept
<1>2. Lived(u, a) = (CASE a.op = "add"    -> IF a.file = Order THEN [l EXCEPT !.order = TRUE]
                                            ELSE FileAdd(l, a.file, a.ver, TRUE)
                       [] a.op = "del"    -> IF a.file = Order THEN [l EXCEPT !.order = FALSE]
                                            ELSE FileDel(l, a.file)
                       [] a.op = "change" -> IF a.file = Order THEN l ELSE FileChange(l, a.file, a.ver)
                       [] OTHER           -> l)
  BY DEF Lived
<1> HIDE DEF l
<1>3. Kept(w, [l EXCEPT !.order = TRUE]) /\ Kept(w, [l EXCEPT !.order = FALSE])
  BY <1>1 DEF Kept
<1>4. Kept(w, FileAdd(l, a.file, a.ver, TRUE))
  BY <1>1, FileAddKeeps
<1>5. Kept(w, FileDel(l, a.file))
  BY <1>1, FileDelKeeps
<1>6. Kept(w, FileChange(l, a.file, a.ver))
  BY <1>1, FileChangeKeeps
<1> QED BY <1>1, <1>2, <1>3, <1>4, <1>5, <1>6

LEMMA ListingAddKeeps ==
  ASSUME NEW w, Kept(w, w), NEW m
  PROVE  Kept(w, ListingAdd(w, m))
<1> DEFINE known == IF w.listing THEN w ELSE [w EXCEPT !.mishaps = @ \cup {"late"}]
           scanned == IF w.scan THEN known ELSE [known EXCEPT !.scan = TRUE, !.busy = @ + 1]
           added == IF m.file = Order THEN [scanned EXCEPT !.order = TRUE]
                    ELSE FileAdd(scanned, m.file, m.ver, scanned.order)
<1>1. Kept(w, known)
  BY DEF Kept
<1>2. Kept(w, scanned)
  <2> HIDE DEF known
  <2> QED BY <1>1 DEF Kept
<1>3. Kept(w, added)
  <2> HIDE DEF scanned
  <2>1. Kept(w, [scanned EXCEPT !.order = TRUE])
    BY <1>2 DEF Kept
  <2>2. Kept(w, FileAdd(scanned, m.file, m.ver, scanned.order))
    BY <1>2, FileAddKeeps
  <2> QED BY <2>1, <2>2
<1>4. ListingAdd(w, m) = (IF m.response = 2 THEN [added EXCEPT !.listing = FALSE] ELSE added)
  BY DEF ListingAdd
<1> HIDE DEF added
<1> QED BY <1>3, <1>4 DEF Kept

LEMMA ListingEndKeeps ==
  ASSUME NEW w, Kept(w, w), NEW m
  PROVE  Kept(w, ListingEnd(w, m))
<1> DEFINE e == [w EXCEPT !.listing = FALSE]
<1>1. Kept(w, e)
  BY DEF Kept
<1>2. ListingEnd(w, m) = (IF w.scan THEN e ELSE ListEnd(e))
  BY DEF ListingEnd
<1> HIDE DEF e
<1> QED BY <1>1, <1>2, ListEndKeeps

LEMMA LiveAddKeeps ==
  ASSUME NEW w, Kept(w, w), NEW m
  PROVE  Kept(w, LiveAdd(w, m))
<1> DEFINE e == [w EXCEPT !.live = Append(@, m)]
<1>1. Kept(w, e)
  BY DEF Kept
<1> HIDE DEF e
<1>2. Kept(w, LiveBegin(e))
  BY <1>1, LiveBeginKeeps
<1> QED BY <1>2 DEF LiveAdd, e


-----------------------------------------------------------------------------
(* The steps of the program.                                               *)

LEMMA KeepingViews ==
  ASSUME VInv, NEW becomes,
         view' = [v \in View |-> becomes[v]],
         \A v \in View : becomes[v] = view[v] \/ (view[v].path # NoDir /\ Kept(view[v], becomes[v])),
         UNCHANGED <<toDaemon, eds, last, watched>>
  PROVE  VInv'
<1>1. \A v \in View : view'[v] = becomes[v]
  OBVIOUS
<1>2. Views(view, toDaemon, eds)
  BY DEF VInv, Matched
<1>3. LikeViews(view, view')
  <2>1. view' = [v \in View |-> view'[v]]
    OBVIOUS
  <2>2. \A v \in View : {"path", "id"} \subseteq DOMAIN view[v]
    BY <1>2 DEF Views
  <2> QED BY <1>1, <2>1, <2>2 DEF LikeViews, Kept
<1> QED BY <1>3, ViewsAlike DEF VInv

LEMMA TakenKeeps ==
  ASSUME VInv, NEW becomes, TakenBy(becomes), UNCHANGED toDaemon,
         \A v \in View : view[v].path # NoDir => Kept(view[v], becomes[v])
  PROVE  VInv'
<1> DEFINE b == [v \in View |-> IF view[v].path # NoDir /\ view[v].id = Head(toWm).id
                                THEN becomes[v] ELSE view[v]]
<1>1. view' = b /\ UNCHANGED <<eds, last, watched>>
  BY DEF TakenBy, daemonVars
<1>2. b = [v \in View |-> b[v]]
  OBVIOUS
<1>3. \A v \in View : b[v] = view[v] \/ (view[v].path # NoDir /\ Kept(view[v], b[v]))
  OBVIOUS
<1> HIDE DEF b
<1> QED BY <1>1, <1>2, <1>3, KeepingViews

LEMMA ViewStepKeeps ==
  ASSUME VInv, NEW v \in View, NEW w, ViewStep(v, w), NoRequest, view[v].path # NoDir, Kept(view[v], w)
  PROVE  VInv'
<1> DEFINE b == [view EXCEPT ![v] = w]
<1>1. view' = b /\ UNCHANGED <<toDaemon, eds, last, watched>>
  BY DEF ViewStep, NoRequest, daemonVars
<1>2. view = [x \in View |-> view[x]]
  BY DEF VInv, Matched, Views
<1>3. b = [x \in View |-> b[x]]
  BY <1>2
<1>4. \A x \in View : b[x] = view[x] \/ (view[x].path # NoDir /\ Kept(view[x], b[x]))
  BY <1>2
<1> HIDE DEF b
<1> QED BY <1>1, <1>3, <1>4, KeepingViews

\* A view asks for a directory, and gives up the one it had.
LEMMA RequestsMatched ==
  ASSUME VInv, NEW v \in View, NEW w, NEW d, NEW old, old.path = view[v].path, old.id = view[v].id,
         Requests(old, d), view' = [view EXCEPT ![v] = w], UNCHANGED <<eds, watched>>,
         {"path", "id"} \subseteq DOMAIN w, w.path = d, d # NoDir, w.id = last + 1
  PROVE  VInv'
<1> DEFINE start == Req("start", last + 1, d)
           end == Req("end", old.id, old.path)
<1>1. Matched(view, toDaemon, eds, last, watched)
  BY DEF VInv
<1>2. view = [x \in View |-> view[x]] /\ IsSeq(toDaemon)
  BY <1>1 DEF Matched, Views, InOrder
<1>3. last' = last + 1
  BY DEF Requests
<1>4. CASE view[v].path = NoDir
  <2>1. toDaemon' = Append(toDaemon, start)
    <3>1. toDaemon' = toDaemon \o <<>> \o <<start>>
      BY <1>4 DEF Requests
    <3> DEFINE S == {toDaemon[k] : k \in DOMAIN toDaemon} \cup {start}
    <3>2. toDaemon \in Seq(S) /\ start \in S
      <4>1. toDaemon \in [1..Len(toDaemon) -> S] /\ Len(toDaemon) \in Nat
        BY <1>2, SeqFacts
      <4> HIDE DEF S
      <4>2. toDaemon \in Seq(S)
        BY <4>1
      <4> QED BY <4>2 DEF S
    <3> HIDE DEF S, start
    <3> QED BY <3>1, <3>2
  <2> QED BY <1>1, <1>3, <1>4, <2>1, StartPut DEF VInv
<1>5. CASE view[v].path # NoDir
  <2> DEFINE t == Append(toDaemon, end)
             uw == [view EXCEPT ![v] = Closed]
  <2>1. Matched(uw, t, eds, last, watched)
    BY <1>1, <1>5, EndPut
  <2>2. uw[v].path = NoDir /\ [uw EXCEPT ![v] = w] = view'
    BY <1>2 DEF Closed
  <2>3. toDaemon' = Append(t, start)
    <3>1. toDaemon' = toDaemon \o <<end>> \o <<start>>
      BY <1>5 DEF Requests
    <3> DEFINE S == {toDaemon[k] : k \in DOMAIN toDaemon} \cup {start, end}
    <3>2. toDaemon \in Seq(S) /\ start \in S /\ end \in S
      <4>1. toDaemon \in [1..Len(toDaemon) -> S] /\ Len(toDaemon) \in Nat
        BY <1>2, SeqFacts
      <4> HIDE DEF S
      <4>2. toDaemon \in Seq(S)
        BY <4>1
      <4> QED BY <4>2 DEF S
    <3> HIDE DEF S, start, end
    <3>3. t = toDaemon \o <<end>> /\ t \in Seq(S)
      BY <3>2
    <3> HIDE DEF t
    <3>4. Append(t, start) = t \o <<start>>
      BY <3>2, <3>3, AppendIsConcat
    <3> QED BY <3>1, <3>3, <3>4
  <2> HIDE DEF t, uw
  <2> QED BY <1>3, <2>1, <2>2, <2>3, StartPut DEF VInv
<1> QED BY <1>4, <1>5

LEMMA AsksFacts ==
  ASSUME NEW w, {"path", "id"} \subseteq DOMAIN w, NEW d
  PROVE  /\ {"path", "id"} \subseteq DOMAIN Asks(w, d) /\ Asks(w, d).path = d /\ Asks(w, d).id = last + 1
BY DEF Asks

LEMMA RefreshedFacts ==
  ASSUME NEW w, {"path", "id"} \subseteq DOMAIN w
  PROVE  /\ {"path", "id"} \subseteq DOMAIN Refreshed(w)
         /\ Refreshed(w).path = w.path /\ Refreshed(w).id = last + 1
<1> DEFINE o == [w EXCEPT !.order = FALSE]
<1>1. {"path", "id"} \subseteq DOMAIN o /\ o.path = w.path
  OBVIOUS
<1>2. Refreshed(w) = Asks(o, w.path)
  BY DEF Refreshed
<1> HIDE DEF o
<1> QED BY <1>1, <1>2, AsksFacts


-----------------------------------------------------------------------------
LEMMA InitMatched ==
  Init => VInv
<1> SUFFICES ASSUME Init PROVE VInv
  OBVIOUS
<1>1. /\ toDaemon = <<>> /\ eds = <<>> /\ watched = {} /\ last = 0
      /\ view = [v \in View |-> Closed]
  BY DEF Init
<1>2. IsSeq(<<>>) /\ Len(<<>>) = 0 /\ DOMAIN <<>> = {}
  BY DEF IsSeq
<1>3. {"path", "id"} \subseteq DOMAIN Closed /\ Closed.path = NoDir
  BY DEF Closed
<1>4. Monitors(eds, watched)
  BY <1>1, <1>2 DEF Monitors
<1>5. InOrder(toDaemon, eds, last)
  BY <1>1, <1>2 DEF InOrder, Coming
<1>6. GivenUp(toDaemon, eds)
  BY <1>1, <1>2 DEF GivenUp
<1>7. Views(view, toDaemon, eds)
  BY <1>1, <1>2, <1>3 DEF Views
<1>8. Owners(view, toDaemon, eds, last)
  BY <1>1, <1>2 DEF Owners, On, Coming
<1> QED BY <1>4, <1>5, <1>6, <1>7, <1>8 DEF VInv, Matched

LEMMA MonitorStartMatched ==
  ASSUME VInv, MonitorStart
  PROVE  VInv'
<1> DEFINE d == Head(toDaemon).dir
           ped == IF Previous(d) = {} THEN 0
                  ELSE CHOOSE p \in Previous(d) : \A q \in Previous(d) : p <= q
           ed == [dir |-> d, fq |-> {f \in File : files[d][f] # 0}, idler |-> TRUE, waits |-> FALSE,
                  listed |-> TRUE, freed |-> FALSE,
                  real |-> ped, refs |-> IF ped = 0 THEN 1 ELSE 0, recent |-> <<>>]
<1>1. /\ toDaemon # <<>> /\ Head(toDaemon).op = "start" /\ toDaemon' = Tail(toDaemon)
      /\ eds' = Append(IF ped = 0 THEN eds ELSE [eds EXCEPT ![ped].refs = @ + 1], ed)
      /\ watched' = IF ped = 0 THEN watched \cup {d} ELSE watched
      /\ UNCHANGED <<view, last>>
  BY DEF MonitorStart, DaemonStep
<1>2. Matched(view, toDaemon, eds, last, watched) /\ Monitors(eds, watched) /\ IsSeq(eds)
  BY DEF VInv, Matched, Monitors
<1>3. Len(eds) \in Nat /\ DOMAIN eds = 1..Len(eds)
  BY <1>2, SeqFacts
<1>4. /\ {"dir", "real", "refs", "listed", "freed"} \subseteq DOMAIN ed
      /\ ed.dir = d /\ ed.real = ped /\ ed.refs = (IF ped = 0 THEN 1 ELSE 0)
      /\ ed.listed = TRUE /\ ed.freed = FALSE
  OBVIOUS
<1>5. CASE Previous(d) = {}
  <2>1. ped = 0
    BY <1>5
  <2>2. \A i \in DOMAIN eds : ~(eds[i].listed /\ eds[i].dir = d /\ eds[i].real = 0)
    BY <1>5 DEF Previous, Listed
  <2> HIDE DEF ed, ped, d
  <2>3. Monitors(Append(eds, ed), watched \cup {d})
    BY <1>2, <1>4, <2>1, <2>2, MonitorOwn
  <2>4. /\ Len(Append(eds, ed)) = Len(eds) + 1
        /\ \A i \in DOMAIN eds : Append(eds, ed)[i] = eds[i]
        /\ Append(eds, ed)[Len(eds) + 1] = ed
    BY <1>2, AppendFacts
  <2>5. Matched(view, Tail(toDaemon), Append(eds, ed), last, watched \cup {d})
    <3> DEFINE fs == Append(eds, ed)
               wx == watched \cup {d}
    <3>1. /\ Monitors(fs, wx) /\ Len(fs) = Len(eds) + 1
          /\ \A i \in DOMAIN eds : fs[i].listed = eds[i].listed /\ fs[i].dir = eds[i].dir
          /\ fs[Len(eds) + 1].listed /\ fs[Len(eds) + 1].dir = Head(toDaemon).dir
      BY <1>4, <2>3, <2>4 DEF d
    <3> HIDE DEF fs, wx
    <3>2. Matched(view, Tail(toDaemon), fs, last, wx)
      BY <1>1, <1>2, <3>1, StartTaken
    <3> QED BY <3>2 DEF fs, wx
  <2> QED BY <1>1, <2>1, <2>5 DEF VInv
<1>6. CASE Previous(d) # {}
  <2>1. \A p, q \in Previous(d) : p = q /\ p \in Nat
    BY <1>2, <1>3 DEF Previous, Listed, Monitors
  <2>2. ped \in Previous(d)
    <3>1. PICK p \in Previous(d) : TRUE
      BY <1>6
    <3>2. \A q \in Previous(d) : p <= q
      BY <2>1
    <3> QED BY <1>6, <3>1, <3>2
  <2>3. ped \in DOMAIN eds /\ eds[ped].listed /\ eds[ped].dir = d /\ eds[ped].real = 0 /\ ped # 0
    <3> HIDE DEF ped
    <3>1. ped \in DOMAIN eds /\ eds[ped].listed /\ eds[ped].dir = d /\ eds[ped].real = 0
      BY <2>2 DEF Previous, Listed
    <3> QED BY <3>1, <1>3
  <2> HIDE DEF ed, ped, d
  <2> DEFINE gs == [eds EXCEPT ![ped].refs = @ + 1]
             fs == Append(gs, ed)
  <2>4. Monitors(fs, watched)
    BY <1>2, <1>4, <2>3, MonitorShared
  <2>5. /\ DOMAIN gs = 1..Len(eds) /\ gs = [i \in 1..Len(eds) |-> gs[i]]
        /\ \A i \in DOMAIN eds : gs[i].listed = eds[i].listed /\ gs[i].dir = eds[i].dir
    <3>1. eds = [i \in 1..Len(eds) |-> eds[i]]
      BY <1>2, SeqFacts
    <3>2. /\ DOMAIN gs = 1..Len(eds) /\ gs = [i \in 1..Len(eds) |-> gs[i]]
          /\ \A i \in DOMAIN eds : i # ped => gs[i] = eds[i]
      BY <1>3, <3>1
    <3>3. gs[ped] = [eds[ped] EXCEPT !.refs = @ + 1]
      BY <1>3, <2>3, <3>1
    <3>4. gs[ped].listed = eds[ped].listed /\ gs[ped].dir = eds[ped].dir
      BY <3>3
    <3> HIDE DEF gs
    <3> QED BY <3>2, <3>4
  <2>6. IsSeq(gs) /\ Len(gs) = Len(eds)
    <3> HIDE DEF gs
    <3> QED BY <1>3, <2>5, SeqMade
  <2>7. /\ Len(fs) = Len(eds) + 1
        /\ \A i \in DOMAIN eds : fs[i] = gs[i]
        /\ fs[Len(eds) + 1] = ed
    <3> HIDE DEF gs
    <3> QED BY <1>3, <2>5, <2>6, AppendFacts
  <2>8. Matched(view, Tail(toDaemon), fs, last, watched)
    <3> HIDE DEF gs
    <3>1. /\ Monitors(fs, watched) /\ Len(fs) = Len(eds) + 1
          /\ \A i \in DOMAIN eds : fs[i].listed = eds[i].listed /\ fs[i].dir = eds[i].dir
          /\ fs[Len(eds) + 1].listed /\ fs[Len(eds) + 1].dir = Head(toDaemon).dir
      <4> HIDE DEF fs
      <4> QED BY <1>4, <2>4, <2>5, <2>7 DEF d
    <3> HIDE DEF fs
    <3> QED BY <1>1, <1>2, <3>1, StartTaken
  <2>9. eds' = fs /\ watched' = watched
    BY <1>1, <2>3
  <2> HIDE DEF gs, fs
  <2> QED BY <1>1, <2>8, <2>9 DEF VInv
<1> QED BY <1>5, <1>6

LEMMA MonitorEndMatched ==
  ASSUME VInv, MonitorEnd
  PROVE  VInv'
<1> DEFINE id == Head(toDaemon).id
<1>1. /\ toDaemon # <<>> /\ Head(toDaemon).op = "end" /\ toDaemon' = Tail(toDaemon)
      /\ eds' = IF eds[id].real = 0
                THEN [eds EXCEPT ![id] = [Unref(@) EXCEPT !.listed = FALSE]]
                ELSE [eds EXCEPT ![eds[id].real] = Unref(@), ![id] = [DirDel(@) EXCEPT !.listed = FALSE]]
      /\ UNCHANGED <<view, last, watched>>
  BY DEF MonitorEnd, DaemonStep
<1>2. Matched(view, toDaemon, eds, last, watched) /\ Monitors(eds, watched) /\ IsSeq(eds) /\ IsSeq(toDaemon)
  BY DEF VInv, Matched, Monitors, InOrder
<1>3. id \in DOMAIN eds /\ eds[id].listed
  <2>1. 1 \in DOMAIN toDaemon /\ Head(toDaemon) = toDaemon[1] /\ DOMAIN toDaemon = 1..Len(toDaemon)
    BY <1>1, <1>2, TailFacts
  <2>2. \A j \in DOMAIN toDaemon : ~(j < 1)
    BY <2>1
  <2>3. On(eds, id)
    BY <1>1, <1>2, <2>1, <2>2 DEF Matched, GivenUp
  <2> QED BY <2>3 DEF On
<1>4. DOMAIN eds = 1..Len(eds) /\ eds = [i \in 1..Len(eds) |-> eds[i]] /\ Len(eds) \in Nat
  BY <1>2, SeqFacts
<1> HIDE DEF id
<1>5. Monitors(eds', watched)
  <2>1. CASE eds[id].real = 0
    BY <1>1, <1>2, <1>3, <2>1, RootLeaves
  <2>2. CASE eds[id].real # 0
    BY <1>1, <1>2, <1>3, <2>2, UserLeaves
  <2> QED BY <2>1, <2>2
<1>6. Len(eds') = Len(eds)
  <2>1. DOMAIN eds' = 1..Len(eds)
    BY <1>1, <1>4
  <2>2. DOMAIN eds' = 1..Len(eds') /\ Len(eds') \in Nat
    BY <1>5, SeqFacts DEF Monitors
  <2> QED BY <2>1, <2>2, <1>4
<1>7. \A i \in DOMAIN eds : eds'[i].dir = eds[i].dir /\ (eds'[i].listed <=> eds[i].listed /\ i # id)
  <2>0. Monitor(eds, watched, id)
    BY <1>2, <1>3 DEF Monitors
  <2>1. CASE eds[id].real = 0
    <3> DEFINE u == Unref(eds[id])
    <3>1. eds' = [eds EXCEPT ![id] = [u EXCEPT !.listed = FALSE]]
      BY <1>1, <2>1
    <3>2. u.dir = eds[id].dir /\ {"dir", "listed"} \subseteq DOMAIN u
      BY <2>0 DEF Unref, DirDel, Monitor
    <3> HIDE DEF u
    <3>3. eds'[id] = [u EXCEPT !.listed = FALSE]
      BY <1>3, <1>4, <3>1
    <3>4. eds'[id].dir = eds[id].dir /\ ~eds'[id].listed
      BY <3>2, <3>3
    <3>5. \A i \in DOMAIN eds : i # id => eds'[i] = eds[i]
      BY <1>4, <3>1
    <3> QED BY <3>4, <3>5
  <2>2. CASE eds[id].real # 0
    <3> DEFINE r == eds[id].real
               u == Unref(eds[r])
               a == DirDel(eds[id])
    <3>1. r \in DOMAIN eds /\ r # id /\ Monitor(eds, watched, r)
      BY <2>0, <2>2, <1>2 DEF Monitor, Root, Monitors
    <3>2. u.dir = eds[r].dir /\ u.listed = eds[r].listed
      BY <3>1 DEF Unref, DirDel, Monitor
    <3>3. a.dir = eds[id].dir /\ {"dir", "listed"} \subseteq DOMAIN a
      BY <2>0 DEF DirDel, Monitor
    <3>4. eds' = [eds EXCEPT ![r] = Unref(@), ![id] = [DirDel(@) EXCEPT !.listed = FALSE]]
      BY <1>1, <2>2
    <3>5. eds' = [eds EXCEPT ![r] = u, ![id] = [a EXCEPT !.listed = FALSE]]
      <4>1. [eds EXCEPT ![r] = u][id] = eds[id]
        BY <1>3, <1>4, <3>1
      <4> QED BY <3>4, <4>1
    <3> HIDE DEF u, a, r
    <3>6. /\ eds'[id] = [a EXCEPT !.listed = FALSE]
          /\ eds'[r] = u
          /\ \A i \in DOMAIN eds : i # id /\ i # r => eds'[i] = eds[i]
      BY <1>3, <1>4, <3>1, <3>5
    <3>7. eds'[id].dir = eds[id].dir /\ ~eds'[id].listed
      BY <3>3, <3>6
    <3> QED BY <3>1, <3>2, <3>6, <3>7
  <2> QED BY <2>1, <2>2
<1>8. Matched(view, Tail(toDaemon), eds', last, watched)
  <2> DEFINE fs == eds'
  <2>1. /\ Monitors(fs, watched) /\ Len(fs) = Len(eds)
        /\ \A i \in DOMAIN eds : fs[i].dir = eds[i].dir
                                 /\ (fs[i].listed <=> eds[i].listed /\ i # Head(toDaemon).id)
    BY <1>5, <1>6, <1>7 DEF id
  <2> HIDE DEF fs
  <2>2. Matched(view, Tail(toDaemon), fs, last, watched)
    BY <1>1, <1>2, <2>1, EndTaken
  <2> QED BY <2>2 DEF fs
<1> QED BY <1>1, <1>8 DEF VInv


\* What else the daemon does changes nothing of a directory that the invariant
\* is about.
LEMMA EdsChange ==
  ASSUME VInv, LikeEds(eds, eds'), UNCHANGED <<view, toDaemon, last, watched>>
  PROVE  VInv'
<1> DEFINE fs == eds'
<1>1. LikeEds(eds, fs)
  OBVIOUS
<1> HIDE DEF fs
<1>2. Matched(view, toDaemon, fs, last, watched)
  BY <1>1, EdsAlike DEF VInv
<1> QED BY <1>2 DEF VInv, fs

LEMMA SyncMatched ==
  ASSUME VInv, MonitorSync
  PROVE  VInv'
<1> DEFINE id == Head(toDaemon).id
           fs == [eds EXCEPT ![id].idler = TRUE]
<1>1. /\ toDaemon # <<>> /\ Head(toDaemon).op = "sync" /\ toDaemon' = Tail(toDaemon)
      /\ eds' = fs \/ eds' = eds
      /\ UNCHANGED <<view, last, watched>>
  BY DEF MonitorSync, DaemonStep
<1>2. Matched(view, toDaemon', eds, last, watched)
  BY <1>1, SyncTaken DEF VInv
<1>3. LikeEds(eds, fs)
  <2>1. IsSeq(eds) /\ \A i \in DOMAIN eds : {"dir", "real", "refs", "listed", "freed"} \subseteq DOMAIN eds[i]
    BY DEF VInv, Matched, Monitors, Monitor
  <2>2. Len(eds) \in Nat /\ DOMAIN eds = 1..Len(eds) /\ eds = [i \in 1..Len(eds) |-> eds[i]]
    BY <2>1, SeqFacts
  <2>3. /\ DOMAIN fs = 1..Len(eds) /\ fs = [i \in 1..Len(eds) |-> fs[i]]
        /\ \A i \in DOMAIN eds : i # id => fs[i] = eds[i]
        /\ id \in DOMAIN eds => fs[id] = [eds[id] EXCEPT !.idler = TRUE]
    BY <2>2
  <2> HIDE DEF fs
  <2>4. IsSeq(fs) /\ Len(fs) = Len(eds)
    BY <2>2, <2>3, SeqMade
  <2> QED BY <2>1, <2>2, <2>3, <2>4 DEF LikeEds
<1> HIDE DEF fs
<1>4. Matched(view, toDaemon', fs, last, watched)
  <2> DEFINE t == toDaemon'
  <2>1. Matched(view, t, eds, last, watched)
    BY <1>2
  <2> HIDE DEF t
  <2>2. Matched(view, t, fs, last, watched)
    BY <2>1, <1>3, EdsAlike
  <2> QED BY <2>2 DEF t
<1> QED BY <1>1, <1>2, <1>4 DEF VInv

LEMMA DaemonMatched ==
  ASSUME VInv, Daemon
  PROVE  VInv'
<1>1. IsSeq(eds) /\ \A i \in DOMAIN eds : {"dir", "real", "refs", "listed", "freed"} \subseteq DOMAIN eds[i]
  BY DEF VInv, Matched, Monitors, Monitor
<1>2. Len(eds) \in Nat /\ DOMAIN eds = 1..Len(eds) /\ eds = [i \in 1..Len(eds) |-> eds[i]]
  BY <1>1, SeqFacts
<1>3. ASSUME DOMAIN eds' = DOMAIN eds, eds' = [i \in DOMAIN eds |-> eds'[i]],
             \A i \in DOMAIN eds : /\ DOMAIN eds'[i] = DOMAIN eds[i]
                                   /\ eds'[i].dir = eds[i].dir /\ eds'[i].real = eds[i].real
                                   /\ eds'[i].refs = eds[i].refs
                                   /\ eds'[i].listed = eds[i].listed /\ eds'[i].freed = eds[i].freed,
             UNCHANGED <<view, toDaemon, last, watched>>
      PROVE  VInv'
  <2> DEFINE fs == eds'
  <2>1. /\ DOMAIN fs = 1..Len(eds) /\ fs = [i \in 1..Len(eds) |-> fs[i]]
        /\ \A i \in DOMAIN eds : /\ DOMAIN fs[i] = DOMAIN eds[i]
                                 /\ fs[i].dir = eds[i].dir /\ fs[i].real = eds[i].real
                                 /\ fs[i].refs = eds[i].refs
                                 /\ fs[i].listed = eds[i].listed /\ fs[i].freed = eds[i].freed
    BY <1>2, <1>3
  <2> HIDE DEF fs
  <2>2. IsSeq(fs) /\ Len(fs) = Len(eds)
    BY <1>2, <2>1, SeqMade
  <2>3. LikeEds(eds, fs)
    BY <1>1, <1>2, <2>1, <2>2 DEF LikeEds
  <2> QED BY <1>3, <2>3, EdsChange DEF fs
<1>4. CASE Requested
  BY <1>4, MonitorStartMatched, MonitorEndMatched, SyncMatched DEF Requested
<1>5. CASE FileMonitor
  BY <1>5 DEF FileMonitor, DaemonStep, VInv
<1>6. CASE FileModified
  <2> DEFINE f == Head(events).file
             ids == {id \in Listed : eds[id].dir = Head(events).dir}
             Young(k, id, i) == i >= k[id] /\ eds[id].recent[i].file = f
             Skip(k) == {id \in ids : \E i \in DOMAIN eds[id].recent : Young(k, id, i)}
             PutOff(k, id) == [i \in DOMAIN eds[id].recent |->
                                 [eds[id].recent[i] EXCEPT !.done = @ /\ ~Young(k, id, i)]]
  <2>1. /\ \E k : eds' = [id \in DOMAIN eds |->
                            IF id \notin ids THEN eds[id]
                            ELSE [eds[id] EXCEPT !.recent =
                                    IF id \in Skip(k) THEN PutOff(k, id)
                                    ELSE Append(@, [file |-> f, done |-> TRUE])]]
        /\ UNCHANGED <<view, toDaemon, last, watched>>
    BY <1>6 DEF FileModified, DaemonStep
  <2>2. PICK k : eds' = [id \in DOMAIN eds |->
                           IF id \notin ids THEN eds[id]
                           ELSE [eds[id] EXCEPT !.recent =
                                   IF id \in Skip(k) THEN PutOff(k, id)
                                   ELSE Append(@, [file |-> f, done |-> TRUE])]]
    BY <2>1
  <2> HIDE DEF ids, Skip, PutOff, f
  <2>3. DOMAIN eds' = DOMAIN eds /\ eds' = [i \in DOMAIN eds |-> eds'[i]]
    BY <2>2
  <2>4. ASSUME NEW i \in DOMAIN eds
        PROVE  /\ DOMAIN eds'[i] = DOMAIN eds[i]
               /\ eds'[i].dir = eds[i].dir /\ eds'[i].real = eds[i].real /\ eds'[i].refs = eds[i].refs
               /\ eds'[i].listed = eds[i].listed /\ eds'[i].freed = eds[i].freed
    <3>1. \/ eds'[i] = eds[i]
          \/ \E r : eds'[i] = [eds[i] EXCEPT !.recent = r]
      BY <2>2
    <3> QED BY <3>1, <1>1
  <2> QED BY <2>1, <2>3, <2>4, <1>3
<1>7. ASSUME NEW id \in DOMAIN eds, ListIdler(id)
      PROVE  VInv'
  <2>0. UNCHANGED <<view, toDaemon, last, watched>>
    BY <1>7 DEF ListIdler, DaemonStep
  <2>1. PICK burst \in SUBSET eds[id].fq, cut \in BOOLEAN :
          eds' = [eds EXCEPT ![id].idler = FALSE, ![id].fq = @ \ burst, ![id].waits = cut]
    BY <1>7, Zenon DEF ListIdler
  <2>2. DOMAIN eds' = DOMAIN eds /\ eds' = [i \in DOMAIN eds |-> eds'[i]]
    BY <1>2, <2>1
  <2>3. \A i \in DOMAIN eds : i # id => eds'[i] = eds[i]
    BY <1>2, <2>1
  <2>4. eds'[id] = [eds[id] EXCEPT !.idler = FALSE, !.fq = @ \ burst, !.waits = cut]
    BY <1>2, <2>1
  <2>5. /\ DOMAIN eds'[id] = DOMAIN eds[id]
        /\ eds'[id].dir = eds[id].dir /\ eds'[id].real = eds[id].real /\ eds'[id].refs = eds[id].refs
        /\ eds'[id].listed = eds[id].listed /\ eds'[id].freed = eds[id].freed
    BY <2>4, <1>1
  <2> QED BY <1>3, <2>0, <2>2, <2>3, <2>5
<1>8. ASSUME NEW id \in DOMAIN eds, RecentClean(id)
      PROVE  VInv'
  <2>1. /\ eds' = [eds EXCEPT ![id].recent = Tail(@)]
        /\ UNCHANGED <<view, toDaemon, last, watched>>
    BY <1>8 DEF RecentClean, DaemonStep
  <2>2. DOMAIN eds' = DOMAIN eds /\ eds' = [i \in DOMAIN eds |-> eds'[i]]
    BY <1>2, <2>1
  <2>3. \A i \in DOMAIN eds : i # id => eds'[i] = eds[i]
    BY <1>2, <2>1
  <2>4. eds'[id] = [eds[id] EXCEPT !.recent = Tail(@)]
    BY <1>2, <2>1
  <2>5. /\ DOMAIN eds'[id] = DOMAIN eds[id]
        /\ eds'[id].dir = eds[id].dir /\ eds'[id].real = eds[id].real /\ eds'[id].refs = eds[id].refs
        /\ eds'[id].listed = eds[id].listed /\ eds'[id].freed = eds[id].freed
    BY <2>4, <1>1
  <2> QED BY <1>3, <2>1, <2>2, <2>3, <2>5
<1> QED BY <1>4, <1>5, <1>6, <1>7, <1>8 DEF Daemon, Told


LEMMA OpenFacts ==
  ASSUME VInv, NEW v \in View
  PROVE  /\ Kept(view[v], view[v]) /\ view = [x \in View |-> view[x]]
         /\ view[v].scan \/ view[v].sort \/ view[v].idler \/ view[v].timer => view[v].path # NoDir
<1>1. /\ {"path", "id"} \subseteq DOMAIN view[v] /\ view = [x \in View |-> view[x]]
      /\ view[v].path = NoDir => view[v] = Closed
  BY DEF VInv, Matched, Views
<1>2. ~Closed.scan /\ ~Closed.sort /\ ~Closed.idler /\ ~Closed.timer
  BY DEF Closed
<1> QED BY <1>1, <1>2 DEF Kept

LEMMA ReceivedMatched ==
  ASSUME VInv, Received
  PROVE  VInv'
<1>1. CASE FileListed
  <2> DEFINE b == [v \in View |-> ListingAdd(view[v], Head(toWm))]
  <2>1. TakenBy(b) /\ UNCHANGED toDaemon
    BY <1>1 DEF FileListed
  <2>2. \A v \in View : Kept(view[v], b[v])
    BY OpenFacts, ListingAddKeeps
  <2> HIDE DEF b
  <2> QED BY <2>1, <2>2, TakenKeeps
<1>2. CASE ListEnds
  <2> DEFINE b == [v \in View |-> ListingEnd(view[v], Head(toWm))]
  <2>1. TakenBy(b) /\ UNCHANGED toDaemon
    BY <1>2 DEF ListEnds
  <2>2. \A v \in View : Kept(view[v], b[v])
    BY OpenFacts, ListingEndKeeps
  <2> HIDE DEF b
  <2> QED BY <2>1, <2>2, TakenKeeps
<1>3. CASE FileChanged
  <2> DEFINE b == [v \in View |-> LiveAdd(view[v], Head(toWm))]
  <2>1. TakenBy(b) /\ UNCHANGED toDaemon
    BY <1>3 DEF FileChanged
  <2>2. \A v \in View : Kept(view[v], b[v])
    BY OpenFacts, LiveAddKeeps
  <2> HIDE DEF b
  <2> QED BY <2>1, <2>2, TakenKeeps
<1>4. CASE Syncs
  <2> DEFINE m == Req("sync", Head(toWm).id, NoDir)
  <2>1. /\ toDaemon' = Append(toDaemon, m)
        /\ UNCHANGED <<view, eds, last, watched>>
    BY <1>4 DEF Syncs, daemonVars
  <2>2. m.op \notin {"start", "end"}
    BY DEF Req
  <2> HIDE DEF m
  <2>3. Matched(view, Append(toDaemon, m), eds, last, watched)
    BY <2>2, SyncAppended DEF VInv
  <2> QED BY <2>1, <2>3 DEF VInv
<1> QED BY <1>1, <1>2, <1>3, <1>4 DEF Received

LEMMA ScanTimerMatched ==
  ASSUME VInv, NEW v \in View, ScanTimer(v)
  PROVE  VInv'
<1>1. PICK batch : LET w == [Processed(view[v], batch) EXCEPT !.scan = FALSE]
                   IN ViewStep(v, IF ~w.listing THEN ListEnd(w)
                                  ELSE IF w.busy > 0 THEN [w EXCEPT !.scan = TRUE]
                                  ELSE [w EXCEPT !.sort = TRUE])
  BY DEF ScanTimer
<1> DEFINE p == Processed(view[v], batch)
           w == [p EXCEPT !.scan = FALSE]
           u == IF ~w.listing THEN ListEnd(w)
                ELSE IF w.busy > 0 THEN [w EXCEPT !.scan = TRUE] ELSE [w EXCEPT !.sort = TRUE]
<1>2. ViewStep(v, u) /\ NoRequest /\ view[v].path # NoDir
  BY <1>1, OpenFacts DEF ScanTimer
<1>3. Kept(view[v], p)
  BY OpenFacts, ProcessedKeeps
<1> HIDE DEF p
<1>4. Kept(view[v], w)
  BY <1>3 DEF Kept
<1> HIDE DEF w
<1>5. Kept(view[v], ListEnd(w))
  BY <1>4, ListEndKeeps
<1>6. Kept(view[v], u)
  BY <1>4, <1>5 DEF Kept
<1> HIDE DEF u
<1> QED BY <1>2, <1>6, ViewStepKeeps

LEMMA SortIdlerMatched ==
  ASSUME VInv, NEW v \in View, SortIdler(v)
  PROVE  VInv'
<1>1. PICK batch : LET w == Processed(view[v], batch)
                   IN ViewStep(v, IF w.listing THEN w ELSE ListEnd([w EXCEPT !.sort = FALSE]))
  BY DEF SortIdler
<1> DEFINE w == Processed(view[v], batch)
           s == [w EXCEPT !.sort = FALSE]
           u == IF w.listing THEN w ELSE ListEnd(s)
<1>2. ViewStep(v, u) /\ NoRequest /\ view[v].path # NoDir
  BY <1>1, OpenFacts DEF SortIdler
<1>3. Kept(view[v], w)
  BY OpenFacts, ProcessedKeeps
<1> HIDE DEF w
<1>4. Kept(view[v], s)
  BY <1>3 DEF Kept
<1> HIDE DEF s
<1>5. Kept(view[v], u)
  BY <1>3, <1>4, ListEndKeeps
<1> HIDE DEF u
<1> QED BY <1>2, <1>5, ViewStepKeeps

LEMMA LiveTimerMatched ==
  ASSUME VInv, NEW v \in View, LiveTimer(v)
  PROVE  VInv'
<1>1. PICK batch : LET w == Processed(view[v], batch)
                   IN ViewStep(v, [w EXCEPT !.timer = w.idler \/ Queued(w) # {}])
  BY DEF LiveTimer
<1> DEFINE w == Processed(view[v], batch)
           u == [w EXCEPT !.timer = w.idler \/ Queued(w) # {}]
<1>2. ViewStep(v, u) /\ NoRequest /\ view[v].path # NoDir
  BY <1>1, OpenFacts DEF LiveTimer
<1>3. Kept(view[v], w)
  BY OpenFacts, ProcessedKeeps
<1> HIDE DEF w
<1>4. Kept(view[v], u)
  BY <1>3 DEF Kept
<1> HIDE DEF u
<1> QED BY <1>2, <1>4, ViewStepKeeps

LEMMA LiveIdlerMatched ==
  ASSUME VInv, NEW v \in View, LiveIdler(v)
  PROVE  VInv'
<1> DEFINE u == Lived(view[v], Head(view[v].live))
           w(batch) == [Processed(u, batch) EXCEPT !.idler = FALSE]
           timed(batch) == [w(batch) EXCEPT !.timer = Queued(w(batch)) # {}]
<1>1. view[v].path # NoDir /\ Kept(view[v], view[v])
  BY OpenFacts DEF LiveIdler
<1>2. Kept(view[v], u)
  BY <1>1, LivedKeeps
<1>3. \A batch : Kept(view[v], w(batch)) /\ Kept(view[v], timed(batch))
  <2> TAKE batch
  <2> HIDE DEF u
  <2> DEFINE p == Processed(u, batch)
  <2>1. Kept(view[v], p)
    BY <1>2, ProcessedKeeps
  <2> HIDE DEF p
  <2> DEFINE x == [p EXCEPT !.idler = FALSE]
  <2>2. Kept(view[v], x)
    BY <2>1 DEF Kept
  <2> HIDE DEF x
  <2>3. Kept(view[v], [x EXCEPT !.timer = Queued(x) # {}])
    BY <2>2 DEF Kept
  <2>4. w(batch) = x
    BY DEF x, p
  <2> QED BY <2>2, <2>3, <2>4
<1>4. \/ ViewStep(v, u) /\ NoRequest
      \/ \E batch : \/ ViewStep(v, Refreshed(timed(batch))) /\ Requests(w(batch), w(batch).path)
                    \/ ViewStep(v, timed(batch)) /\ NoRequest
  BY DEF LiveIdler
<1> HIDE DEF u, w, timed
<1>5. CASE ViewStep(v, u) /\ NoRequest
  BY <1>1, <1>2, <1>5, ViewStepKeeps
<1>6. ASSUME NEW batch, ViewStep(v, timed(batch)), NoRequest
      PROVE  VInv'
  <2>1. Kept(view[v], timed(batch))
    BY <1>3
  <2> QED BY <1>1, <1>6, <2>1, ViewStepKeeps
<1>7. ASSUME NEW batch, ViewStep(v, Refreshed(timed(batch))), Requests(w(batch), w(batch).path)
      PROVE  VInv'
  <2> DEFINE t == timed(batch)
             old == w(batch)
             r == Refreshed(t)
  <2>1. /\ {"path", "id"} \subseteq DOMAIN t /\ t.path = view[v].path
        /\ old.path = view[v].path /\ old.id = view[v].id
    BY <1>3 DEF Kept
  <2>2. /\ view' = [view EXCEPT ![v] = r] /\ UNCHANGED <<eds, watched>>
        /\ Requests(old, view[v].path)
    BY <1>7, <2>1 DEF ViewStep, daemonVars
  <2> HIDE DEF t, old
  <2>3. {"path", "id"} \subseteq DOMAIN r /\ r.path = view[v].path /\ r.id = last + 1
    BY <2>1, RefreshedFacts
  <2> HIDE DEF r
  <2> QED BY <1>1, <2>1, <2>2, <2>3, RequestsMatched
<1> QED BY <1>4, <1>5, <1>6, <1>7

LEMMA UserMatched ==
  ASSUME VInv, User
  PROVE  VInv'
<1>1. ASSUME NEW v \in View, Refresh(v)
      PROVE  VInv'
  <2> DEFINE r == Refreshed(view[v])
  <2>1. /\ view' = [view EXCEPT ![v] = r] /\ UNCHANGED <<eds, watched>>
        /\ Requests(view[v], view[v].path) /\ view[v].path # NoDir
    BY <1>1 DEF Refresh, Moves, daemonVars
  <2>2. {"path", "id"} \subseteq DOMAIN r /\ r.path = view[v].path /\ r.id = last + 1
    BY OpenFacts, RefreshedFacts DEF Kept
  <2> HIDE DEF r
  <2> QED BY <2>1, <2>2, RequestsMatched
<1>2. ASSUME NEW v \in View, NEW d \in Dir, PathSet(v, d)
      PROVE  VInv'
  <2> DEFINE r == Asks(view[v], d)
  <2>1. /\ view' = [view EXCEPT ![v] = r] /\ UNCHANGED <<eds, watched>>
        /\ Requests(view[v], d)
    BY <1>2 DEF PathSet, Moves, daemonVars
  <2>2. {"path", "id"} \subseteq DOMAIN r /\ r.path = d /\ r.id = last + 1
    BY OpenFacts, AsksFacts DEF Kept
  <2>3. d # NoDir
    BY ViewAssumption
  <2> HIDE DEF r
  <2> QED BY <2>1, <2>2, <2>3, RequestsMatched
<1>3. ASSUME NEW v \in View, Close(v)
      PROVE  VInv'
  <2> DEFINE m == Req("end", view[v].id, view[v].path)
  <2>1. /\ view' = [view EXCEPT ![v] = Closed] /\ toDaemon' = Append(toDaemon, m)
        /\ UNCHANGED <<eds, watched, last>> /\ view[v].path # NoDir
    BY <1>3 DEF Close, Moves, daemonVars
  <2>2. Matched([view EXCEPT ![v] = Closed], Append(toDaemon, m), eds, last, watched)
    BY <2>1, EndPut DEF VInv
  <2> HIDE DEF m
  <2> QED BY <2>1, <2>2 DEF VInv
<1> QED BY <1>1, <1>2, <1>3 DEF User

LEMMA StepMatched ==
  VInv /\ [Next]_vars => VInv'
<1> SUFFICES ASSUME VInv, [Next]_vars PROVE VInv'
  OBVIOUS
<1>1. CASE Outside
  <2>1. UNCHANGED <<view, toDaemon, eds, last, watched>>
    BY <1>1 DEF Outside, Create, Write, Delete, Change
  <2> QED BY <2>1 DEF VInv
<1>2. CASE WindowManager
  BY <1>2, ReceivedMatched, ScanTimerMatched, SortIdlerMatched, LiveTimerMatched, LiveIdlerMatched
     DEF WindowManager
<1>3. CASE UNCHANGED vars
  BY <1>3 DEF vars, daemonVars, VInv
<1> QED BY <1>1, <1>2, <1>3, UserMatched, DaemonMatched DEF Next

LEMMA MatchedAsStated ==
  VInv => MonitorsMatchViews
<1> SUFFICES ASSUME VInv PROVE MonitorsMatchViews
  OBVIOUS
<1>1. /\ Monitors(eds, watched) /\ GivenUp(toDaemon, eds)
      /\ Views(view, toDaemon, eds) /\ Owners(view, toDaemon, eds, last)
  BY DEF VInv, Matched
<1>2. \A i \in DOMAIN eds : Monitor(eds, watched, i) /\ i \in Nat /\ i # 0
  BY <1>1, SeqFacts DEF Monitors
<1>3. ASSUME NEW v \in View, view[v].path # NoDir
      PROVE  Asked(v) \/ (view[v].id \in Listed /\ eds[view[v].id].dir = view[v].path /\ view[v].path \in watched)
  <2>1. CASE On(eds, view[v].id) /\ eds[view[v].id].dir = view[v].path
    BY <1>2, <2>1 DEF On, Listed, Monitor
  <2>2. CASE \E k \in DOMAIN toDaemon : /\ toDaemon[k].op = "start"
                                        /\ toDaemon[k].id = view[v].id /\ toDaemon[k].dir = view[v].path
    BY <2>2 DEF Asked
  <2> QED BY <1>1, <1>3, <2>1, <2>2 DEF Views
<1>4. ASSUME NEW i \in Listed
      PROVE  ~eds[i].freed /\ Owned(i)
  <2>1. i \in DOMAIN eds /\ eds[i].listed /\ Monitor(eds, watched, i) /\ i \in Nat
    BY <1>2 DEF Listed
  <2>2. Owned(i)
    BY <1>1, <2>1 DEF Owners, Owns, Owned, On
  <2>3. CASE eds[i].real = 0
    <3>1. Cardinality(Users(eds, i)) \in Nat
      BY <1>1, UsersFinite DEF Monitors
    <3>2. eds[i].refs = Cardinality(Users(eds, i)) + 1
      BY <2>1, <2>3 DEF Monitor
    <3>3. eds[i].refs # 0
      BY <3>1, <3>2
    <3> QED BY <2>1, <2>2, <2>3, <3>3 DEF Monitor
  <2>4. CASE eds[i].real # 0
    BY <2>1, <2>2, <2>4 DEF Monitor
  <2> QED BY <2>3, <2>4
<1>5. ASSUME NEW i \in DOMAIN eds, eds[i].real = 0
      PROVE  eds[i].refs = Cardinality({j \in Listed : eds[j].real = i}) + (IF i \in Listed THEN 1 ELSE 0)
  <2>1. {j \in Listed : eds[j].real = i} = Users(eds, i)
    BY DEF Listed, Users
  <2>2. i \in Listed <=> eds[i].listed
    BY DEF Listed
  <2>3. Monitor(eds, watched, i)
    BY <1>2
  <2> QED BY <1>5, <2>1, <2>2, <2>3 DEF Monitor
<1> QED BY <1>3, <1>4, <1>5 DEF MonitorsMatchViews

\* The daemon lists and watches a directory for each open view and for nothing
\* else, whatever moves, refreshes and closings overtake its answers, and a
\* directory whose monitor others use is freed with the last of them
\* (_e_fm_ipc_monitor_start_try, _e_fm_ipc_monitor_end, e_fm2_path_set).
THEOREM MonitorsAlwaysMatch == Spec => []MonitorsMatchViews
<1>1. Spec => []VInv
  BY InitMatched, StepMatched, PTL DEF Spec
<1> QED BY <1>1, MatchedAsStated, PTL
=============================================================================
